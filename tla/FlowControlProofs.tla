-------------------------- MODULE FlowControlProofs --------------------------
(***************************************************************************)
(* The interpreter's parallel stacks are balanced, whatever the program:   *)
(* TypeOK and Balanced of FlowControl, for every value of its constants.   *)
(*                                                                         *)
(* TypeOK alone is not inductive: a sub returns by callDepth - 1, which is *)
(* a natural number only because the frame being left pushed one.  Nor is  *)
(* Balanced: an expression that ends its block ("tail") may move its parent *)
(* to the closing phase only because that parent is a call or a do block.  *)
(* IInv conjoins both with the link between each frame and the next.       *)
(***************************************************************************)
EXTENDS FlowControl, SequenceTheorems, TLAPS

\* Which construct, in which phase, evaluates an expression at which site.
SiteOK(f, site) ==
    CASE site = "cond" -> f.kind \in {"if", "while", "until", "for"} /\ f.phase = "cond"
      [] site = "init" -> f.kind = "for" /\ f.phase = "init"
      [] site = "step" -> f.kind = "for" /\ f.phase = "step"
      [] site = "list" -> f.kind = "foreach" /\ f.phase = "init"
      [] site = "tail" -> \/ f.kind \in {"subL", "do"} /\ f.phase = "body"
                          \/ f.kind \in {"doL", "map"} /\ f.phase = "last"
      [] OTHER -> f.phase \in ListPhases

\* Frame g was opened inside frame f.
Linked(f, g) == /\ g.at = Pushed(f)
                /\ g.kind # "file"
                /\ g.kind = "expr" => SiteOK(f, g.phase)

\* The stack s is well linked, and d is what its innermost frame has pushed.
WellFormed(s, d) ==
    IF s = <<>> THEN d = NoDepth
    ELSE /\ s[1].at = NoDepth /\ s[1].kind = "file"
         /\ \A i \in 1..(Len(s) - 1) : Linked(s[i], s[i + 1])
         /\ d = Pushed(s[Len(s)])

IInv == TypeOK /\ WellFormed(stack, Live)

-----------------------------------------------------------------------------
\* The three ways a step changes the stack preserve WellFormed: pushing a frame
\* that starts from what is pushed now,
LEMMA PushFrame ==
    ASSUME NEW s \in Seq(Frames), NEW d, NEW f \in Frames,
           s # <<>>, WellFormed(s, d), Linked(s[Len(s)], f)
    PROVE  /\ Append(s, f) \in Seq(Frames)
           /\ Append(s, f) # <<>>
           /\ WellFormed(Append(s, f), Pushed(f))
<1> DEFINE t == Append(s, f)
<1>1. /\ t \in Seq(Frames) /\ Len(t) = Len(s) + 1 /\ t # <<>>
      /\ \A i \in 1..Len(s) : t[i] = s[i]
      /\ t[Len(s) + 1] = f
      /\ Len(s) \in Nat /\ Len(s) > 0
  OBVIOUS
<1>2. /\ s[1].at = NoDepth /\ s[1].kind = "file"
      /\ \A i \in 1..(Len(s) - 1) : Linked(s[i], s[i + 1])
  BY DEF WellFormed
<1> HIDE DEF t
<1>3. t[1].at = NoDepth /\ t[1].kind = "file"
  BY <1>1, <1>2
<1>4. ASSUME NEW i \in 1..(Len(t) - 1) PROVE Linked(t[i], t[i + 1])
  <2>1. CASE i = Len(s)
    BY <1>1, <2>1
  <2>2. CASE i # Len(s)
    <3>1. i \in 1..(Len(s) - 1) /\ i \in 1..Len(s) /\ i + 1 \in 1..Len(s)
      BY <1>1, <2>2
    <3>2. t[i] = s[i] /\ t[i + 1] = s[i + 1]
      BY <1>1, <3>1
    <3> QED BY <1>2, <3>1, <3>2
  <2> QED BY <2>1, <2>2
<1>5. WellFormed(t, Pushed(f))
  BY <1>1, <1>3, <1>4, SMTT(30) DEF WellFormed
<1> QED BY <1>1, <1>5 DEF t

\* changing the phase or the held Flow of the innermost frame,
LEMMA ChangeTop ==
    ASSUME NEW s \in Seq(Frames), NEW d, NEW f \in Frames,
           s # <<>>, WellFormed(s, d),
           f.kind = s[Len(s)].kind, f.at = s[Len(s)].at,
           f.kind = "expr" => /\ s[Len(s)].phase = "die"
                              /\ f.phase = "handler"
    PROVE  /\ [s EXCEPT ![Len(s)] = f] \in Seq(Frames)
           /\ [s EXCEPT ![Len(s)] = f] # <<>>
           /\ Len([s EXCEPT ![Len(s)] = f]) = Len(s)
           /\ [s EXCEPT ![Len(s)] = f][Len(s)] = f
           /\ WellFormed([s EXCEPT ![Len(s)] = f], Pushed(f))
<1> DEFINE t == [s EXCEPT ![Len(s)] = f]
<1>1. /\ t \in Seq(Frames) /\ Len(t) = Len(s) /\ t # <<>>
      /\ \A i \in 1..(Len(s) - 1) : t[i] = s[i]
      /\ t[Len(s)] = f
      /\ Len(s) \in Nat /\ Len(s) > 0
  OBVIOUS
<1>2. /\ s[1].at = NoDepth /\ s[1].kind = "file"
      /\ \A i \in 1..(Len(s) - 1) : Linked(s[i], s[i + 1])
  BY DEF WellFormed
<1> HIDE DEF t
<1>3. t[1].at = NoDepth /\ t[1].kind = "file"
  <2>1. CASE Len(s) = 1
    BY <1>1, <1>2, <2>1
  <2>2. CASE Len(s) # 1
    <3>1. 1 \in 1..(Len(s) - 1)
      BY <1>1, <2>2
    <3> QED BY <1>1, <1>2, <3>1
  <2> QED BY <2>1, <2>2
<1>4. ASSUME NEW i \in 1..(Len(s) - 1) PROVE Linked(t[i], t[i + 1])
  <2>0. Linked(s[i], s[i + 1]) /\ t[i] = s[i]
    BY <1>1, <1>2
  <2>1. CASE i + 1 = Len(s)
    <3>1. t[i + 1] = f /\ Linked(s[i], s[Len(s)])
      BY <1>1, <2>0, <2>1
    <3>2. f.at = Pushed(s[i]) /\ f.kind # "file"
      BY <3>1 DEF Linked
    <3>3. f.kind = "expr" => SiteOK(s[i], f.phase)
      BY <3>1 DEF Linked, SiteOK
    <3> QED BY <2>0, <3>1, <3>2, <3>3 DEF Linked
  <2>2. CASE i + 1 # Len(s)
    <3>1. i + 1 \in 1..(Len(s) - 1)
      BY <1>1, <2>2
    <3> QED BY <1>1, <2>0, <3>1
  <2> QED BY <2>1, <2>2
<1>5. WellFormed(t, Pushed(f))
  BY <1>1, <1>3, <1>4 DEF WellFormed
<1> QED BY <1>1, <1>5 DEF t

\* A prefix of a sequence, for popping;
LEMMA Prefix ==
    ASSUME NEW S, NEW s, NEW n \in Nat, \A i \in 1..n : s[i] \in S
    PROVE  /\ SubSeq(s, 1, n) \in Seq(S)
           /\ Len(SubSeq(s, 1, n)) = n
           /\ \A i \in 1..n : SubSeq(s, 1, n)[i] = s[i]
<1>1. SubSeq(s, 1, n) \in Seq(S)
  OBVIOUS
<1>2. Len(SubSeq(s, 1, n)) = n
  OBVIOUS
<1>3. \A i \in 1..n : SubSeq(s, 1, n)[i] = s[i]
  OBVIOUS
<1> QED BY <1>1, <1>2, <1>3

\* and popping it.
LEMMA PopFrame ==
    ASSUME NEW s \in Seq(Frames), NEW d, s # <<>>, WellFormed(s, d)
    PROVE  /\ SubSeq(s, 1, Len(s) - 1) \in Seq(Frames)
           /\ Len(SubSeq(s, 1, Len(s) - 1)) = Len(s) - 1
           /\ WellFormed(SubSeq(s, 1, Len(s) - 1), s[Len(s)].at)
           /\ s[Len(s)].kind # "file" =>
                /\ SubSeq(s, 1, Len(s) - 1) # <<>>
                /\ SubSeq(s, 1, Len(s) - 1)[Len(s) - 1] = s[Len(s) - 1]
                /\ s[Len(s) - 1] \in Frames
                /\ Linked(s[Len(s) - 1], s[Len(s)])
<1> DEFINE t == SubSeq(s, 1, Len(s) - 1)
<1>1. /\ t \in Seq(Frames) /\ Len(t) = Len(s) - 1
      /\ \A i \in 1..(Len(s) - 1) : t[i] = s[i]
      /\ Len(s) \in Nat /\ Len(s) > 0
      /\ \A i \in 1..Len(s) : s[i] \in Frames
  <2>1. Len(s) \in Nat /\ Len(s) > 0 /\ \A i \in 1..Len(s) : s[i] \in Frames
    OBVIOUS
  <2>2. \A i \in 1..(Len(s) - 1) : s[i] \in Frames
    BY <2>1
  <2>3. Len(s) - 1 \in Nat
    BY <2>1
  <2>4. t \in Seq(Frames)
    BY <2>2, <2>3, Prefix
  <2>5. Len(t) = Len(s) - 1
    BY <2>2, <2>3, Prefix
  <2>6. \A i \in 1..(Len(s) - 1) : t[i] = s[i]
    BY <2>2, <2>3, Prefix
  <2> QED BY <2>1, <2>4, <2>5, <2>6
<1>2. /\ s[1].at = NoDepth /\ s[1].kind = "file"
      /\ \A i \in 1..(Len(s) - 1) : Linked(s[i], s[i + 1])
  BY DEF WellFormed
<1>3. CASE Len(s) = 1
  <2>1. t = <<>>
    BY <1>1, <1>3
  <2> HIDE DEF t
  <2>2. WellFormed(t, s[Len(s)].at)
    BY <1>2, <1>3, <2>1 DEF WellFormed
  <2> QED BY <1>1, <1>2, <1>3, <2>2 DEF t
<1>4. CASE Len(s) # 1
  <2>1. t # <<>>
    <3>1. Len(t) # 0
      BY <1>1, <1>4
    <3> HIDE DEF t
    <3> QED BY <3>1, <1>1
  <2> HIDE DEF t
  <2>2. 1 \in 1..(Len(s) - 1) /\ Len(s) - 1 \in 1..(Len(s) - 1) /\ Len(s) - 1 \in 1..Len(s)
    BY <1>1, <1>4
  <2>3. t[1] = s[1] /\ t[Len(t)] = s[Len(s) - 1] /\ s[Len(s) - 1] \in Frames
    BY <1>1, <2>2
  <2>4. Linked(s[Len(s) - 1], s[Len(s)])
    <3>1. Linked(s[Len(s) - 1], s[(Len(s) - 1) + 1])
      BY <1>2, <2>2
    <3>2. (Len(s) - 1) + 1 = Len(s)
      BY <1>1
    <3> QED BY <3>1, <3>2
  <2>5. ASSUME NEW i \in 1..(Len(t) - 1) PROVE Linked(t[i], t[i + 1])
    <3>1. i \in 1..(Len(s) - 1) /\ i + 1 \in 1..(Len(s) - 1)
      BY <1>1
    <3> QED BY <1>1, <1>2, <3>1
  <2>6. s[Len(s)].at = Pushed(t[Len(t)])
    BY <2>3, <2>4 DEF Linked
  <2>7. WellFormed(t, s[Len(s)].at)
    BY <1>2, <2>1, <2>3, <2>5, <2>6 DEF WellFormed
  <2> QED BY <1>1, <2>1, <2>3, <2>4, <2>7 DEF t
<1> QED BY <1>3, <1>4

-----------------------------------------------------------------------------
\* What IInv says of the innermost frame and of the lengths of the stacks.
LEMMA TopFacts ==
    ASSUME IInv, stack # <<>>
    PROVE  /\ stack \in Seq(Frames)
           /\ Len(stack) \in Nat /\ Len(stack) > 0
           /\ Top \in Frames
           /\ Live = Pushed(Top)
           /\ Len(scopes) = Top.at.sc + Scopes(Top.kind, Top.phase)
           /\ evalDepth = Top.at.ev + (IF Top.kind \in {"evalS", "evalE"} /\ Top.phase # "close"
                                       THEN 1 ELSE 0)
           /\ ctxDepth = Top.at.cx + (IF Top.kind \in {"subS", "subL", "map"} THEN 1 ELSE 0)
           /\ callDepth = Top.at.cs + (IF Top.kind \in {"subS", "subL"} /\ Top.phase # "tailed"
                                       THEN 1 ELSE 0)
           /\ dieDepth = Top.at.dh + (IF Top.kind = "expr" /\ Top.phase = "handler"
                                      THEN 1 ELSE 0)
           /\ Top.at \in Depths
<1>1. stack \in Seq(Frames) /\ Len(stack) \in Nat /\ Len(stack) > 0 /\ Top \in Frames
  BY DEF IInv, TypeOK, Top
<1>2. Live = Pushed(Top)
  BY DEF IInv, WellFormed, Top
<1>3. /\ Live.sc = Pushed(Top).sc /\ Live.ev = Pushed(Top).ev /\ Live.cx = Pushed(Top).cx
      /\ Live.cs = Pushed(Top).cs /\ Live.dh = Pushed(Top).dh
  BY <1>2
<1>4. Top.at \in Depths
  BY <1>1 DEF Frames
<1> QED BY <1>1, <1>2, <1>3, <1>4 DEF Live, Pushed

\* An action that pushes f on what is pushed keeps the stack well formed,
LEMMA Pushing ==
    ASSUME IInv, stack # <<>>, NEW f \in Frames, Linked(Top, f),
           stack' = Append(stack, f), Live' = Pushed(f)
    PROVE  stack' \in Seq(Frames) /\ WellFormed(stack', Live')
BY PushFrame DEF IInv, TypeOK, Top

\* so does one that changes the innermost frame to f,
LEMMA Replacing ==
    ASSUME IInv, stack # <<>>, NEW f \in Frames, f.kind = Top.kind, f.at = Top.at,
           f.kind # "expr", stack' = ReplaceTop(f), Live' = Pushed(f)
    PROVE  stack' \in Seq(Frames) /\ WellFormed(stack', Live')
BY ChangeTop DEF IInv, TypeOK, Top, ReplaceTop

\* one that pops the innermost frame and all it had pushed,
LEMMA Departing ==
    ASSUME IInv, stack # <<>>, stack' = Pop, Live' = Top.at
    PROVE  stack' \in Seq(Frames) /\ WellFormed(stack', Live')
BY PopFrame DEF IInv, TypeOK, Top, Pop

\* and one that pops it and changes the frame around it to f.
LEMMA Returning ==
    ASSUME IInv, stack # <<>>, Top.kind # "file", NEW f \in Frames,
           f.kind = Parent.kind, f.at = Parent.at, f.kind # "expr",
           stack' = PopTo(f), Live' = Pushed(f)
    PROVE  stack' \in Seq(Frames) /\ WellFormed(stack', Live')
<1> DEFINE t == SubSeq(stack, 1, Len(stack) - 1)
<1>1. /\ t \in Seq(Frames) /\ Len(t) = Len(stack) - 1 /\ t # <<>>
      /\ WellFormed(t, Top.at) /\ t[Len(t)] = Parent
  BY PopFrame DEF IInv, TypeOK, Top, Parent
<1>2. stack' = [t EXCEPT ![Len(t)] = f]
  BY <1>1 DEF PopTo, Pop
<1> HIDE DEF t
<1>3. f.kind = t[Len(t)].kind /\ f.at = t[Len(t)].at
  BY <1>1
<1>4. /\ [t EXCEPT ![Len(t)] = f] \in Seq(Frames)
      /\ WellFormed([t EXCEPT ![Len(t)] = f], Pushed(f))
  BY <1>1, <1>3, ChangeTop
<1> QED BY <1>2, <1>4

\* The values the actions build have the types of the variables they go to.
LEMMA FlowTypes ==
    /\ None \in Flows
    /\ \A t \in FlowTags : Flow(t) \in Flows
    /\ JumpFlows \subseteq Flows
BY DEF None, Flow, Flows, FlowTags, LabelsN, JumpFlows, Jump

\* A statement list goes on, or ends with a Flow.
LEMMA AfterStmtType ==
    ASSUME NEW f, NEW fl \in Flows, NEW rp, NEW x \in AfterStmt(f, fl, rp)
    PROVE  x \in Flows \cup {Running}
BY DEF AfterStmt

\* The lengths of the parallel stacks are natural numbers.
LEMMA LiveType == ASSUME TypeOK PROVE Live \in Depths
BY DEF TypeOK, Live, Depths

\* Frame builds a frame of the kind, phase and depths it is given.
LEMMA FrameType ==
    ASSUME TypeOK, NEW k \in Kinds, NEW l \in LabelsN, NEW p \in Phases, NEW d \in Depths
    PROVE  /\ Frame(k, l, p, d) \in Frames
           /\ Frame(k, l, p, d).kind = k
           /\ Frame(k, l, p, d).phase = p
           /\ Frame(k, l, p, d).at = d
BY FlowTypes DEF Frame, Frames

\* Pushing a scope adds one, popping removes one.
LEMMA ScopeTypes ==
    ASSUME scopes \in Seq(Nat)
    PROVE  /\ PushScope \in Seq(Nat) /\ Len(PushScope) = Len(scopes) + 1
           /\ scopes # <<>> =>
                /\ PopScope \in Seq(Nat) /\ Len(PopScope) = Len(scopes) - 1
           /\ Len(scopes) > 0 => scopes # <<>>
           /\ Len(scopes) \in Nat
           /\ TopScope > 0 /\ scopes # <<>> => TopScope - 1 \in Nat
           /\ scopes # <<>> => TopScope + 1 \in Nat
<1>1. Len(scopes) \in Nat /\ (Len(scopes) > 0 => scopes # <<>>)
  OBVIOUS
<1>2. PushScope \in Seq(Nat) /\ Len(PushScope) = Len(scopes) + 1
  BY DEF PushScope
<1>3. ASSUME scopes # <<>>
      PROVE  /\ TopScope \in Nat
             /\ PopScope \in Seq(Nat) /\ Len(PopScope) = Len(scopes) - 1
  <2>1. Len(scopes) - 1 \in Nat /\ \A i \in 1..(Len(scopes) - 1) : scopes[i] \in Nat
    BY <1>3
  <2>2. PopScope \in Seq(Nat)
    BY <2>1, Prefix DEF PopScope
  <2>3. Len(PopScope) = Len(scopes) - 1
    BY <2>1, Prefix, ZenonT(60) DEF PopScope
  <2>4. TopScope \in Nat
    BY <1>3 DEF TopScope
  <2> QED BY <2>2, <2>3, <2>4
<1> QED BY <1>1, <1>2, <1>3, SMTT(30)

\* Changing the count of the innermost scope leaves the scopes as many.
LEMMA CountType ==
    ASSUME scopes \in Seq(Nat), NEW v, scopes # <<>> => v \in Nat
    PROVE  /\ [scopes EXCEPT ![Len(scopes)] = v] \in Seq(Nat)
           /\ Len([scopes EXCEPT ![Len(scopes)] = v]) = Len(scopes)
<1>1. CASE scopes = <<>>
  <2>1. [scopes EXCEPT ![Len(scopes)] = v] = scopes
    BY <1>1
  <2> QED BY <2>1
<1>2. CASE scopes # <<>>
  BY <1>2
<1> QED BY <1>1, <1>2

\* A new expression frame starts from what is pushed and pushes nothing.
LEMMA ExprFrame ==
    ASSUME IInv, stack # <<>>, NEW site \in ExprPhases, site # "handler", SiteOK(Top, site),
           stack' = Append(stack, Frame("expr", NoLabel, site, Live)), Live' = Live
    PROVE  stack' \in Seq(Frames) /\ WellFormed(stack', Live')
<1> DEFINE f == Frame("expr", NoLabel, site, Live)
<1>1. /\ f \in Frames /\ f.kind = "expr" /\ f.phase = site /\ f.at = Live
  <2>1. "expr" \in Kinds /\ NoLabel \in LabelsN /\ site \in Phases
    BY DEF Kinds, LabelsN, Phases
  <2>2. TypeOK /\ Live \in Depths
    BY LiveType DEF IInv
  <2> QED BY <2>1, <2>2, FrameType
<1>2. Linked(Top, f)
  BY <1>1, TopFacts DEF Linked
<1>3. Pushed(f) = Live
  <2>1. /\ Len(scopes) \in Nat /\ evalDepth \in Nat /\ ctxDepth \in Nat
        /\ callDepth \in Nat /\ dieDepth \in Nat
    BY DEF IInv, TypeOK
  <2>2. Scopes(f.kind, f.phase) = 0
    BY <1>1 DEF Scopes
  <2> HIDE DEF f
  <2> QED BY <1>1, <2>1, <2>2 DEF Pushed, Live
<1> HIDE DEF f
<1> QED BY <1>1, <1>2, <1>3, Pushing DEF f

-----------------------------------------------------------------------------
\* The innermost frame completes and its statement returns fl.
LEMMA Completing ==
    ASSUME IInv, stack # <<>>, NEW fl \in Flows, Complete(fl), Live' = Top.at
    PROVE  /\ stack' \in Seq(Frames) /\ WellFormed(stack', Live')
           /\ flow' \in Flows \cup {Running}
<1>1. stack' \in Seq(Frames) /\ WellFormed(stack', Live')
  BY Departing DEF Complete
<1>2. flow' \in Flows \cup {Running}
  BY AfterStmtType DEF Complete
<1> QED BY <1>1, <1>2

\* The innermost frame moves on to phase p, pushing or popping its scopes.
LEMMA Moving ==
    ASSUME IInv, stack # <<>>, NEW p \in Phases, NEW h \in Flows,
           stack' = SetPhase(p) \/ stack' = SetHeld(p, h),
           UNCHANGED depths,
           Len(scopes') = Top.at.sc + Scopes(Top.kind, p),
           Top.kind # "expr",
           Top.kind \in {"evalS", "evalE"} => (p = "close" <=> Top.phase = "close"),
           Top.kind \in {"subS", "subL"} => (p # "tailed" /\ Top.phase # "tailed")
    PROVE  stack' \in Seq(Frames) /\ WellFormed(stack', Live')
<1>1. PICK f \in Frames : /\ stack' = ReplaceTop(f) /\ f.kind = Top.kind
                          /\ f.at = Top.at /\ f.phase = p
  <2> DEFINE a == [Top EXCEPT !.phase = p]
             b == [Top EXCEPT !.phase = p, !.held = h]
  <2>1. Top \in Frames
    BY TopFacts
  <2>2. /\ a \in Frames /\ a.kind = Top.kind /\ a.at = Top.at /\ a.phase = p
        /\ b \in Frames /\ b.kind = Top.kind /\ b.at = Top.at /\ b.phase = p
    BY <2>1 DEF Frames
  <2>3. stack' = ReplaceTop(a) \/ stack' = ReplaceTop(b)
    BY DEF SetPhase, SetHeld
  <2> HIDE DEF a, b
  <2> QED BY <2>2, <2>3
<1>2. Live' = Pushed(f)
  BY <1>1, TopFacts DEF depths, Live, Pushed
<1> QED BY <1>1, <1>2, Replacing

\* An expression lies in the frame that evaluates it, and pushes nothing.
LEMMA ExprTop ==
    ASSUME IInv, InExpr
    PROVE  /\ stack # <<>> /\ Parent \in Frames
           /\ Parent.phase \in ListPhases \/ Parent.kind # "expr"
           /\ Linked(Parent, Top) /\ SiteOK(Parent, Top.phase)
           /\ Top.phase # "handler" => Live = Top.at
           /\ Top.phase # "handler" => Len(scopes) = Parent.at.sc + Scopes(Parent.kind, Parent.phase)
<1>1. stack # <<>> /\ Top.kind = "expr"
  BY DEF InExpr
<1>2. Parent \in Frames /\ Linked(Parent, Top)
  BY <1>1, PopFrame DEF IInv, TypeOK, Top, Parent
<1>3. SiteOK(Parent, Top.phase) /\ Top.at = Pushed(Parent)
  BY <1>1, <1>2 DEF Linked
<1>4. ASSUME Top.phase # "handler" PROVE Live = Top.at
  <2>1. /\ Len(scopes) = Top.at.sc /\ evalDepth = Top.at.ev /\ ctxDepth = Top.at.cx
        /\ callDepth = Top.at.cs /\ dieDepth = Top.at.dh
    BY <1>1, <1>4, TopFacts DEF Scopes, Depths
  <2>2. Top.at = [sc |-> Top.at.sc, ev |-> Top.at.ev, cx |-> Top.at.cx,
                  cs |-> Top.at.cs, dh |-> Top.at.dh]
    BY <1>1, TopFacts DEF Depths
  <2> QED BY <2>1, <2>2 DEF Live
<1>5. ASSUME Top.phase # "handler"
      PROVE  Len(scopes) = Parent.at.sc + Scopes(Parent.kind, Parent.phase)
  BY <1>3, <1>4, <1>5 DEF Live, Pushed
<1>6. Parent.phase \in ListPhases \/ Parent.kind # "expr"
  BY <1>3 DEF SiteOK
<1> QED BY <1>1, <1>2, <1>3, <1>4, <1>5, <1>6

\* An expression is done and the frame around it moves on to phase p.
LEMMA Resuming ==
    ASSUME IInv, InExpr, Top.phase # "handler", NEW p \in Phases, NEW h \in Flows,
           \/ stack' = PopTo([Parent EXCEPT !.phase = p])
           \/ stack' = PopTo([Parent EXCEPT !.phase = p, !.held = h]),
           UNCHANGED depths,
           Len(scopes') = Parent.at.sc + Scopes(Parent.kind, p),
           Parent.kind \notin {"expr", "evalS", "evalE"},
           p # "tailed", Parent.phase # "tailed"
    PROVE  stack' \in Seq(Frames) /\ WellFormed(stack', Live')
<1>1. PICK f \in Frames : /\ stack' = PopTo(f) /\ f.kind = Parent.kind
                          /\ f.at = Parent.at /\ f.phase = p
  <2> DEFINE a == [Parent EXCEPT !.phase = p]
             b == [Parent EXCEPT !.phase = p, !.held = h]
  <2>1. Parent \in Frames
    BY ExprTop
  <2>2. /\ a \in Frames /\ a.kind = Parent.kind /\ a.at = Parent.at /\ a.phase = p
        /\ b \in Frames /\ b.kind = Parent.kind /\ b.at = Parent.at /\ b.phase = p
    BY <2>1 DEF Frames
  <2>3. stack' = PopTo(a) \/ stack' = PopTo(b)
    OBVIOUS
  <2> HIDE DEF a, b
  <2> QED BY <2>2, <2>3
<1>2. Live = Pushed(Parent)
  BY ExprTop DEF Linked
<1>3. /\ evalDepth = Pushed(Parent).ev /\ ctxDepth = Pushed(Parent).cx
      /\ callDepth = Pushed(Parent).cs /\ dieDepth = Pushed(Parent).dh
  BY <1>2 DEF Live
<1>4. Live' = Pushed(f)
  BY <1>1, <1>3 DEF depths, Live, Pushed
<1> QED BY <1>1, <1>4, ExprTop, Returning DEF InExpr

\* The innermost frame moves on to f and calls a sub, frame g.
LEMMA Stacking ==
    ASSUME IInv, stack # <<>>, NEW f \in Frames, NEW g \in Frames,
           f.kind = Top.kind, f.at = Top.at,
           f.kind = "expr" => Top.phase = "die" /\ f.phase = "handler",
           Linked(f, g), stack' = Append(ReplaceTop(f), g), Live' = Pushed(g)
    PROVE  stack' \in Seq(Frames) /\ WellFormed(stack', Live')
<1> DEFINE t == ReplaceTop(f)
<1>1. /\ t \in Seq(Frames) /\ t # <<>> /\ Len(t) = Len(stack)
      /\ t[Len(stack)] = f /\ WellFormed(t, Pushed(f))
  BY ChangeTop DEF IInv, TypeOK, Top, ReplaceTop
<1> HIDE DEF t
<1>2. Linked(t[Len(t)], g)
  BY <1>1
<1>3. Append(t, g) \in Seq(Frames) /\ WellFormed(Append(t, g), Pushed(g))
  BY <1>1, <1>2, PushFrame
<1> QED BY <1>3 DEF t

-----------------------------------------------------------------------------
\* The invariant is preserved: statements and the entry into constructs.
LEMMA StatementStep == ASSUME IInv, Statement PROVE IInv'
<1> USE DEF AtStmt, registers, depths
<1>1. CASE JumpStmt
  <2>1. stack' = stack /\ Live' = Live
    BY <1>1 DEF JumpStmt, Live
  <2>2. flow' \in Flows \cup {Running}
    BY <1>1, FlowTypes, AfterStmtType DEF JumpStmt
  <2> QED BY <1>1, <2>1, <2>2 DEF JumpStmt, IInv, TypeOK
<1>2. CASE DeferStmt
  <2>1. scopes' \in Seq(Nat) /\ Len(scopes') = Len(scopes)
    BY <1>2, ScopeTypes, CountType DEF DeferStmt, IInv, TypeOK, TopScope
  <2>2. stack' = stack /\ Live' = Live
    BY <1>2, <2>1 DEF DeferStmt, Live
  <2>3. flow' \in Flows \cup {Running}
    BY <1>2, FlowTypes, AfterStmtType DEF DeferStmt
  <2> QED BY <1>2, <2>1, <2>2, <2>3 DEF DeferStmt, IInv, TypeOK
<1>3. ASSUME NEW site \in {"stmt", "my", "return", "print", "die", "tail"}, ExprStmt(site),
             SiteOK(Top, site)
      PROVE IInv'
  <2>1. site \in ExprPhases /\ site # "handler"
    BY DEF ExprPhases, AllSites
  <2>2. stack # <<>> /\ Live' = Live
    BY <1>3 DEF ExprStmt, Live
  <2>3. stack' \in Seq(Frames) /\ WellFormed(stack', Live')
    BY <1>3, <2>1, <2>2, ExprFrame DEF ExprStmt
  <2> QED BY <1>3, <2>3 DEF ExprStmt, IInv, TypeOK
<1>4. CASE TailExpr
  <2>1. SiteOK(Top, "tail")
    BY <1>4 DEF TailExpr, SiteOK
  <2> QED BY <1>3, <1>4, <2>1 DEF TailExpr
<1>5. ASSUME NEW site \in {"stmt", "my", "return", "print", "die"}, ExprStmt(site)
      PROVE IInv'
  <2>1. SiteOK(Top, site)
    BY <1>5 DEF ExprStmt, SiteOK
  <2> QED BY <1>3, <1>5, <2>1
<1>6. CASE EndOfList
  <2>1. stack' = stack /\ Live' = Live /\ flow' \in Flows
    BY <1>6, FlowTypes DEF EndOfList, Live
  <2> QED BY <1>6, <2>1 DEF EndOfList, IInv, TypeOK
<1>7. ASSUME NEW k \in BlockKinds, EnterBlock(k) PROVE IInv'
  <2>1. PICK l \in LabelsOf(k) : stack' = Append(stack, Frame(k, l, EntryPhase(k), Live))
    BY <1>7 DEF EnterBlock
  <2> DEFINE f == Frame(k, l, EntryPhase(k), Live)
  <2>2. /\ k \in Kinds /\ l \in LabelsN /\ EntryPhase(k) \in Phases
        /\ k # "expr" /\ k # "file"
    BY DEF Kinds, BlockKinds, LabelsOf, LabelsN, EntryPhase, Phases, ExprPhases,
           AllSites, ListPhases
  <2>3. /\ f \in Frames /\ f.kind = k /\ f.at = Live /\ f.phase = EntryPhase(k)
    BY <2>2, FrameType, LiveType DEF IInv
  <2>4. Linked(Top, f)
    BY <1>7, <2>2, <2>3, TopFacts DEF Linked, EnterBlock
  <2> HIDE DEF f
  <2>5. Live' = Pushed(f)
    <3>1. /\ scopes \in Seq(Nat) /\ Len(scopes) \in Nat /\ evalDepth \in Nat
          /\ ctxDepth \in Nat /\ callDepth \in Nat /\ dieDepth \in Nat
      BY DEF IInv, TypeOK
    <3>2. Len(scopes') = Len(scopes) + Scopes(k, EntryPhase(k))
      BY <1>7, <3>1, ScopeTypes DEF EnterBlock, Scopes, EntryPhase, BlockKinds
    <3>3. evalDepth' = evalDepth + (IF k \in {"evalS", "evalE"} /\ EntryPhase(k) # "close"
                                    THEN 1 ELSE 0)
      BY <1>7, <3>1 DEF EnterBlock, EntryPhase, BlockKinds
    <3>4. /\ k \notin {"subS", "subL", "map"}
          /\ ctxDepth' = ctxDepth /\ callDepth' = callDepth /\ dieDepth' = dieDepth
      BY <1>7 DEF EnterBlock, BlockKinds
    <3> QED BY <2>2, <2>3, <3>1, <3>2, <3>3, <3>4 DEF Pushed, Live
  <2>6. stack' \in Seq(Frames) /\ WellFormed(stack', Live')
    BY <1>7, <2>1, <2>3, <2>4, <2>5, Pushing DEF f, EnterBlock
  <2>7. scopes' \in Seq(Nat)
    BY <1>7, ScopeTypes DEF EnterBlock, IInv, TypeOK
  <2>8. errsv' \in BOOLEAN
    <3>1. errsv' = FALSE \/ errsv' = errsv
      BY <1>7, Zenon DEF EnterBlock
    <3> QED BY <3>1 DEF IInv, TypeOK
  <2>10. evalDepth' \in Nat
    BY <1>7 DEF EnterBlock, IInv, TypeOK
  <2>9. fuel' \in Nat
    BY <1>7 DEF EnterBlock, IInv, TypeOK
  <2> QED BY <1>7, <2>6, <2>7, <2>8, <2>10, <2>9 DEF EnterBlock, IInv, TypeOK
<1> QED BY <1>1, <1>2, <1>4, <1>5, <1>6, <1>7 DEF Statement

\* The invariant is preserved: expressions.
LEMMA ExpressionStep == ASSUME IInv, Expression PROVE IInv'
<1> USE DEF registers, depths
<1>1. CASE RaiseDie
  <2>1. stack' = stack /\ Live' = Live
    BY <1>1 DEF RaiseDie, Operand, Live
  <2>2. pending' \in Flows /\ fuel' \in Nat
    BY <1>1, FlowTypes DEF RaiseDie, Operand, FlowTags, IInv, TypeOK
  <2>3. errsv' \in BOOLEAN
    BY <1>1 DEF RaiseDie, IInv, TypeOK
  <2> QED BY <1>1, <2>1, <2>2, <2>3 DEF RaiseDie, IInv, TypeOK
<1>2. CASE CallExit
  <2>1. stack' = stack /\ Live' = Live
    BY <1>2 DEF CallExit, Operand, Live
  <2>2. pending' \in Flows /\ fuel' \in Nat
    BY <1>2, FlowTypes DEF CallExit, Operand, FlowTags, IInv, TypeOK
  <2> QED BY <1>2, <2>1, <2>2 DEF CallExit, IInv, TypeOK
<1>3. ASSUME NEW k \in CallKinds, EnterCall(k) PROVE IInv'
  <2> DEFINE f == Frame(k, NoLabel, "body", Live)
  <2>1. k \in Kinds /\ NoLabel \in LabelsN /\ "body" \in Phases /\ k # "expr" /\ k # "file"
    BY DEF Kinds, CallKinds, LabelsN, Phases, ListPhases
  <2>2. f \in Frames /\ f.kind = k /\ f.at = Live /\ f.phase = "body"
    BY <2>1, FrameType, LiveType DEF IInv
  <2>3. stack # <<>>
    BY <1>3 DEF EnterCall, Operand, InExpr
  <2>4. Linked(Top, f)
    BY <2>1, <2>2, <2>3, TopFacts DEF Linked
  <2> HIDE DEF f
  <2>5. Live' = Pushed(f)
    <3>1. /\ scopes \in Seq(Nat) /\ Len(scopes) \in Nat /\ evalDepth \in Nat
          /\ ctxDepth \in Nat /\ callDepth \in Nat /\ dieDepth \in Nat
      BY DEF IInv, TypeOK
    <3>2. Len(scopes') = Len(scopes) + Scopes(k, "body")
      BY <1>3, <3>1, ScopeTypes DEF EnterCall, Scopes, CallKinds
    <3>3. evalDepth' = evalDepth + (IF k \in {"evalS", "evalE"} THEN 1 ELSE 0)
      BY <1>3, <3>1 DEF EnterCall, CallKinds
    <3>4. ctxDepth' = ctxDepth + (IF k \in {"subS", "subL", "map"} THEN 1 ELSE 0)
      BY <1>3, <3>1 DEF EnterCall, CallKinds
    <3>5. callDepth' = callDepth + (IF k \in {"subS", "subL"} THEN 1 ELSE 0)
      BY <1>3, <3>1 DEF EnterCall, CallKinds
    <3>6. dieDepth' = dieDepth
      BY <1>3 DEF EnterCall
    <3> QED BY <2>1, <2>2, <3>1, <3>2, <3>3, <3>4, <3>5, <3>6 DEF Pushed, Live
  <2>6. stack' \in Seq(Frames) /\ WellFormed(stack', Live')
    BY <1>3, <2>2, <2>3, <2>4, <2>5, Pushing DEF f, EnterCall
  <2>7. scopes' \in Seq(Nat)
    BY <1>3, ScopeTypes DEF EnterCall, IInv, TypeOK
  <2>8. errsv' \in BOOLEAN
    <3>1. errsv' = FALSE \/ errsv' = errsv
      BY <1>3, Zenon DEF EnterCall
    <3> QED BY <3>1 DEF IInv, TypeOK
  <2>9. evalDepth' \in Nat /\ ctxDepth' \in Nat /\ callDepth' \in Nat /\ fuel' \in Nat
    BY <1>3 DEF EnterCall, Operand, IInv, TypeOK
  <2> QED BY <1>3, <2>6, <2>7, <2>8, <2>9 DEF EnterCall, IInv, TypeOK
<1>4. ASSUME NEW fl \in Flows, InExpr, Top.phase # "handler", Complete(fl),
             UNCHANGED <<scopes, depths>>
      PROVE  /\ stack' \in Seq(Frames) /\ WellFormed(stack', Live')
             /\ flow' \in Flows \cup {Running}
  <2>1. Live' = Live
    BY <1>4 DEF Live
  <2> QED BY <1>4, <2>1, ExprTop, Completing
<1>5. CASE FinishStmt
  <2>1. pending \in Flows /\ Flow("Return") \in Flows /\ None \in Flows
    BY FlowTypes DEF FlowTags, IInv, TypeOK
  <2>2. PICK fl \in Flows : Complete(fl)
    BY <1>5, <2>1 DEF FinishStmt
  <2>3. retPending' \in BOOLEAN
    BY <1>5 DEF FinishStmt, IInv, TypeOK
  <2>4. pending' \in Flows
    BY <1>5, <2>1 DEF FinishStmt
  <2> QED BY <1>4, <1>5, <2>2, <2>3, <2>4 DEF FinishStmt, IInv, TypeOK
<1>6. CASE FinishMyOrReturn
  <2>1. pending \in Flows /\ Flow("Return") \in Flows /\ None \in Flows
    BY FlowTypes DEF FlowTags, IInv, TypeOK
  <2>2. PICK fl \in Flows : Complete(fl)
    BY <1>6, <2>1 DEF FinishMyOrReturn
  <2>3. Top.phase # "handler"
    BY <1>6 DEF FinishMyOrReturn
  <2> QED BY <1>4, <1>6, <2>1, <2>2, <2>3 DEF FinishMyOrReturn, IInv, TypeOK
<1>7. CASE FinishPrint
  BY <1>4, <1>7, FlowTypes DEF FinishPrint, IInv, TypeOK
<1>8. CASE FinishDie
  <2>1. Flow("Die") \in Flows
    BY FlowTypes DEF FlowTags
  <2> QED BY <1>4, <1>8, <2>1 DEF FinishDie, IInv, TypeOK
<1>9. CASE CallHandler
  <2> DEFINE f == [Top EXCEPT !.phase = "handler"]
             g == Frame("subS", NoLabel, "body", [Live EXCEPT !.dh = dieDepth + 1])
  <2>1. /\ stack # <<>> /\ Top \in Frames /\ Top.kind = "expr" /\ Top.phase = "die"
        /\ Live \in Depths /\ Top.at \in Depths
    BY <1>9, TopFacts, LiveType DEF CallHandler, InExpr, IInv
  <2>2. f \in Frames /\ f.kind = "expr" /\ f.at = Top.at /\ f.phase = "handler"
    BY <2>1 DEF Frames, Phases, ExprPhases, AllSites
  <2>3. [Live EXCEPT !.dh = dieDepth + 1] \in Depths
    <3>1. [Live EXCEPT !.dh = dieDepth + 1] =
            [sc |-> Len(scopes), ev |-> evalDepth, cx |-> ctxDepth, cs |-> callDepth,
             dh |-> dieDepth + 1]
      BY DEF Live
    <3> QED BY <3>1 DEF Depths, IInv, TypeOK
  <2>4. "subS" \in Kinds /\ NoLabel \in LabelsN /\ "body" \in Phases
    BY DEF Kinds, CallKinds, LabelsN, Phases, ListPhases
  <2>5. /\ g \in Frames /\ g.kind = "subS" /\ g.phase = "body"
        /\ g.at = [Live EXCEPT !.dh = dieDepth + 1]
    BY <2>3, <2>4, FrameType DEF IInv
  <2>6. stack' = Append(ReplaceTop(f), g)
    BY <1>9 DEF CallHandler, SetPhase
  <2> HIDE DEF f, g
  <2>7. Linked(f, g)
    <3>1. Pushed(f) = [sc |-> Len(scopes), ev |-> evalDepth, cx |-> ctxDepth,
                       cs |-> callDepth, dh |-> dieDepth + 1]
      <4>1. /\ f.at.sc = Len(scopes) /\ f.at.ev = evalDepth /\ f.at.cx = ctxDepth
            /\ f.at.cs = callDepth /\ f.at.dh = dieDepth
        BY <2>1, <2>2, TopFacts DEF Scopes, Depths
      <4>2. Pushed(f) = [sc |-> f.at.sc + 0, ev |-> f.at.ev + 0, cx |-> f.at.cx + 0,
                         cs |-> f.at.cs + 0, dh |-> f.at.dh + 1]
        BY <2>2 DEF Pushed, Scopes
      <4> QED BY <4>1, <4>2 DEF IInv, TypeOK
    <3> QED BY <2>5, <3>1 DEF Linked, Live
  <2>8. Live' = Pushed(g)
    <3>1. Len(scopes') = Len(scopes) + 1
      BY <1>9, ScopeTypes DEF CallHandler, IInv, TypeOK
    <3>2. /\ g.at.sc = Len(scopes) /\ g.at.ev = evalDepth /\ g.at.cx = ctxDepth
          /\ g.at.cs = callDepth /\ g.at.dh = dieDepth + 1
      BY <2>5 DEF Live
    <3>3. Pushed(g) = [sc |-> g.at.sc + 1, ev |-> g.at.ev + 0, cx |-> g.at.cx + 1,
                       cs |-> g.at.cs + 1, dh |-> g.at.dh + 0]
      BY <2>5 DEF Pushed, Scopes
    <3>4. /\ evalDepth' = evalDepth /\ ctxDepth' = ctxDepth + 1
          /\ callDepth' = callDepth + 1 /\ dieDepth' = dieDepth + 1
      BY <1>9 DEF CallHandler
    <3> QED BY <3>1, <3>2, <3>3, <3>4 DEF Live, IInv, TypeOK
  <2>9. stack' \in Seq(Frames) /\ WellFormed(stack', Live')
    BY <2>1, <2>2, <2>5, <2>6, <2>7, <2>8, Stacking
  <2>10. scopes' \in Seq(Nat)
    BY <1>9, ScopeTypes DEF CallHandler, IInv, TypeOK
  <2>11. ctxDepth' \in Nat /\ callDepth' \in Nat /\ dieDepth' \in Nat /\ fuel' \in Nat
    BY <1>9 DEF CallHandler, IInv, TypeOK
  <2> QED BY <1>9, <2>9, <2>10, <2>11 DEF CallHandler, IInv, TypeOK
<1>10. CASE FinishHandler
  <2>1. stack # <<>> /\ Top.kind = "expr" /\ Top.phase = "handler"
    BY <1>10 DEF FinishHandler, InExpr
  <2>2. dieDepth' = Top.at.dh /\ Top.at.dh \in Nat
    BY <1>10, <2>1, TopFacts DEF FinishHandler, Depths
  <2>3. Live' = Top.at
    <3>1. /\ Len(scopes') = Top.at.sc /\ evalDepth' = Top.at.ev /\ ctxDepth' = Top.at.cx
          /\ callDepth' = Top.at.cs
      BY <1>10, <2>1, TopFacts DEF FinishHandler, Scopes, Depths
    <3>2. Top.at = [sc |-> Top.at.sc, ev |-> Top.at.ev, cx |-> Top.at.cx,
                    cs |-> Top.at.cs, dh |-> Top.at.dh]
      BY <2>1, TopFacts DEF Depths
    <3> QED BY <2>2, <3>1, <3>2 DEF Live
  <2>4. Flow("Die") \in Flows /\ None \in Flows /\ Complete(Flow("Die"))
    BY <1>10, FlowTypes DEF FlowTags, FinishHandler
  <2>5. /\ stack' \in Seq(Frames) /\ WellFormed(stack', Live')
        /\ flow' \in Flows \cup {Running}
    BY <2>1, <2>3, <2>4, Completing
  <2> QED BY <1>10, <2>2, <2>4, <2>5 DEF FinishHandler, IInv, TypeOK
<1>11. ASSUME NEW p \in {"close", "test", "cond"}, InExpr,
              Top.phase \in {"tail", "cond", "list", "init"},
              \/ stack' = PopTo([Parent EXCEPT !.phase = p])
              \/ stack' = PopTo([Parent EXCEPT !.phase = p, !.held = None]),
              UNCHANGED depths,
              Len(scopes') = Parent.at.sc + Scopes(Parent.kind, p)
       PROVE  stack' \in Seq(Frames) /\ WellFormed(stack', Live')
  <2>1. p \in Phases /\ None \in Flows
    BY FlowTypes DEF Phases, ListPhases, ExprPhases, AllSites
  <2>2. Parent.kind \notin {"expr", "evalS", "evalE"} /\ Parent.phase # "tailed"
    BY <1>11, ExprTop DEF SiteOK
  <2> QED BY <1>11, <2>1, <2>2, Resuming
<1>12. CASE FinishTail
  <2>1. Len(scopes') = Parent.at.sc + Scopes(Parent.kind, "close")
    <3>1. SiteOK(Parent, "tail") /\ Len(scopes) = Parent.at.sc + Scopes(Parent.kind, Parent.phase)
      BY <1>12, ExprTop DEF FinishTail
    <3>2. Scopes(Parent.kind, "close") = Scopes(Parent.kind, Parent.phase)
      BY <3>1 DEF SiteOK, Scopes
    <3> QED BY <1>12, <3>1, <3>2 DEF FinishTail
  <2>2. stack' \in Seq(Frames) /\ WellFormed(stack', Live')
    BY <1>11, <1>12, <2>1 DEF FinishTail
  <2> QED BY <1>12, <2>2 DEF FinishTail, IInv, TypeOK
<1>13. CASE FinishCond
  <2>1. Len(scopes') = Parent.at.sc + Scopes(Parent.kind, "test")
    <3>1. SiteOK(Parent, "cond") /\ Len(scopes) = Parent.at.sc + Scopes(Parent.kind, Parent.phase)
      BY <1>13, ExprTop DEF FinishCond
    <3>2. Scopes(Parent.kind, "test") = Scopes(Parent.kind, Parent.phase)
      BY <3>1 DEF SiteOK, Scopes
    <3> QED BY <1>13, <3>1, <3>2 DEF FinishCond
  <2>2. stack' \in Seq(Frames) /\ WellFormed(stack', Live')
    BY <1>11, <1>13, <2>1 DEF FinishCond
  <2> QED BY <1>13, <2>2 DEF FinishCond, IInv, TypeOK
<1>14. CASE FinishList
  <2>1. scopes' \in Seq(Nat) /\ Len(scopes') = Len(scopes) + 1
    BY <1>14, ScopeTypes DEF FinishList, IInv, TypeOK
  <2>2. Len(scopes') = Parent.at.sc + Scopes(Parent.kind, "cond")
    <3>1. SiteOK(Parent, "list") /\ Len(scopes) = Parent.at.sc + Scopes(Parent.kind, Parent.phase)
          /\ Parent.at \in Depths
      BY <1>14, ExprTop DEF FinishList, Frames
    <3>2. Scopes(Parent.kind, Parent.phase) = 0 /\ Scopes(Parent.kind, "cond") = 1
      BY <3>1 DEF SiteOK, Scopes
    <3> QED BY <2>1, <3>1, <3>2 DEF Depths
  <2>3. stack' \in Seq(Frames) /\ WellFormed(stack', Live')
    BY <1>11, <1>14, <2>2 DEF FinishList
  <2> QED BY <1>14, <2>1, <2>3 DEF FinishList, IInv, TypeOK
<1>15. CASE FinishInit
  <2>1. Len(scopes') = Parent.at.sc + Scopes(Parent.kind, "cond")
    <3>1. SiteOK(Parent, "init") /\ Len(scopes) = Parent.at.sc + Scopes(Parent.kind, Parent.phase)
      BY <1>15, ExprTop DEF FinishInit
    <3>2. Scopes(Parent.kind, "cond") = Scopes(Parent.kind, Parent.phase)
      BY <3>1 DEF SiteOK, Scopes
    <3> QED BY <1>15, <3>1, <3>2 DEF FinishInit
  <2>2. stack' \in Seq(Frames) /\ WellFormed(stack', Live')
    BY <1>11, <1>15, <2>1 DEF FinishInit
  <2>3. retPending' \in BOOLEAN /\ pending' \in Flows
    BY <1>15, FlowTypes DEF FinishInit, IInv, TypeOK
  <2> QED BY <1>15, <2>2, <2>3 DEF FinishInit, IInv, TypeOK
<1> QED BY <1>1, <1>2, <1>3, <1>5, <1>6, <1>7, <1>8, <1>9, <1>10, <1>12, <1>13, <1>14, <1>15
       DEF Expression

\* The invariant is preserved: conditions and loops.
LEMMA ConditionsStep == ASSUME IInv, Conditions PROVE IInv'
<1> USE DEF registers, depths
<1>1. ASSUME NEW site \in {"cond", "init", "step", "list"}, stack # <<>>, SiteOK(Top, site),
             OwnExpr(site)
      PROVE  IInv'
  <2>1. site \in ExprPhases /\ site # "handler"
    BY DEF ExprPhases, AllSites
  <2>2. Live' = Live
    BY <1>1 DEF OwnExpr, Live
  <2>3. stack' \in Seq(Frames) /\ WellFormed(stack', Live')
    BY <1>1, <2>1, <2>2, ExprFrame DEF OwnExpr
  <2> QED BY <1>1, <2>3 DEF OwnExpr, IInv, TypeOK
<1>2. CASE EvalOwnExpr
  <2>1. PICK site \in {"cond", "init", "step", "list"} :
          stack # <<>> /\ SiteOK(Top, site) /\ OwnExpr(site)
    BY <1>2 DEF EvalOwnExpr, In, SiteOK
  <2> QED BY <1>1, <2>1
<1>3. ASSUME NEW p \in {"cond", "body", "close"}, NEW h \in Flows, stack # <<>>,
             Top.kind \in {"if", "while", "until", "for", "foreach"},
             stack' = SetPhase(p) \/ stack' = SetHeld(p, h),
             UNCHANGED depths,
             Len(scopes') - Len(scopes) = Scopes(Top.kind, p) - Scopes(Top.kind, Top.phase)
      PROVE  stack' \in Seq(Frames) /\ WellFormed(stack', Live')
  <2>1. p \in Phases
    BY DEF Phases, ListPhases, ExprPhases, AllSites
  <2>2. Len(scopes') = Top.at.sc + Scopes(Top.kind, p)
    <3>1. Len(scopes) = Top.at.sc + Scopes(Top.kind, Top.phase) /\ Top.at.sc \in Nat
      BY <1>3, TopFacts DEF Depths
    <3>2. /\ Scopes(Top.kind, p) \in Nat /\ Scopes(Top.kind, Top.phase) \in Nat
          /\ Len(scopes') \in Int
      BY <1>3 DEF Scopes
    <3> QED BY <1>3, <3>1, <3>2, SMTT(30)
  <2> QED BY <1>3, <2>1, <2>2, Moving
<1>4. CASE SkipOwnExpr
  <2>1. scopes' \in Seq(Nat) /\ Len(scopes') \in Nat /\ Len(scopes) \in Nat
    BY <1>4, ScopeTypes DEF SkipOwnExpr, IInv, TypeOK
  <2>2. Len(scopes') - Len(scopes) = Scopes(Top.kind, "cond") - Scopes(Top.kind, Top.phase)
    <3>1. CASE In({"for"}, {"init", "step"}) /\ UNCHANGED scopes
      BY <2>1, <3>1 DEF In, Scopes
    <3>2. CASE In({"foreach"}, {"init"}) /\ scopes' = PushScope
      <4>1. Scopes(Top.kind, "cond") = 1 /\ Scopes(Top.kind, Top.phase) = 0
        BY <3>2 DEF In, Scopes
      <4>2. Len(scopes') = Len(scopes) + 1
        BY <3>2, ScopeTypes DEF IInv, TypeOK
      <4> QED BY <2>1, <4>1, <4>2
    <3> QED BY <1>4, <3>1, <3>2 DEF SkipOwnExpr
  <2>3. stack' \in Seq(Frames) /\ WellFormed(stack', Live')
    BY <1>3, <1>4, <2>2, FlowTypes DEF SkipOwnExpr, In
  <2> QED BY <1>4, <2>1, <2>3 DEF SkipOwnExpr, IInv, TypeOK
<1>5. CASE EnterBody
  <2>1. scopes' \in Seq(Nat) /\ Len(scopes') \in Nat /\ Len(scopes) \in Nat
    BY <1>5, ScopeTypes DEF EnterBody, IInv, TypeOK
  <2>2. Len(scopes') = IF Top.kind \in ScopedBody THEN Len(scopes) + 1 ELSE Len(scopes)
    BY <1>5, ScopeTypes DEF EnterBody, IInv, TypeOK
  <2>3. Len(scopes') - Len(scopes) = Scopes(Top.kind, "body") - Scopes(Top.kind, Top.phase)
    <3>1. CASE Top.kind \in ScopedBody
      <4>1. Scopes(Top.kind, "body") = Scopes(Top.kind, Top.phase) + 1
        BY <1>5, <3>1 DEF EnterBody, In, Scopes, ScopedBody
      <4>2. Scopes(Top.kind, Top.phase) \in Nat
        BY DEF Scopes
      <4> QED BY <2>1, <2>2, <3>1, <4>1, <4>2
    <3>2. CASE Top.kind \notin ScopedBody
      <4>1. Scopes(Top.kind, "body") = 1 /\ Scopes(Top.kind, Top.phase) = 1
        BY <1>5, <3>2 DEF EnterBody, In, Scopes, ScopedBody
      <4> QED BY <2>1, <2>2, <3>2, <4>1
    <3> QED BY <3>1, <3>2
  <2>4. stack' \in Seq(Frames) /\ WellFormed(stack', Live')
    BY <1>3, <1>5, <2>3, FlowTypes DEF EnterBody, In
  <2> QED BY <1>5, <2>1, <2>4 DEF EnterBody, IInv, TypeOK
<1>6. ASSUME NEW p \in {"cond", "close"}, NEW h \in Flows, stack # <<>>,
             Top.kind \in {"if", "while", "for", "foreach"},
             Top.phase \in {"cond", "test"},
             stack' = SetPhase(p) \/ stack' = SetHeld(p, h),
             UNCHANGED <<depths, scopes>>
      PROVE  stack' \in Seq(Frames) /\ WellFormed(stack', Live')
  <2>1. Scopes(Top.kind, p) = 1 /\ Scopes(Top.kind, Top.phase) = 1
    BY <1>6 DEF Scopes
  <2>2. Len(scopes') - Len(scopes) = Scopes(Top.kind, p) - Scopes(Top.kind, Top.phase)
    BY <1>6, <2>1 DEF IInv, TypeOK
  <2> QED BY <1>3, <1>6, <2>2
<1>7. CASE ElsIf
  <2>1. stack' \in Seq(Frames) /\ WellFormed(stack', Live')
    BY <1>6, <1>7, FlowTypes DEF ElsIf, In
  <2> QED BY <1>7, <2>1 DEF ElsIf, IInv, TypeOK
<1>8. CASE CondFails
  <2>1. stack' \in Seq(Frames) /\ WellFormed(stack', Live')
    BY <1>6, <1>8, FlowTypes DEF CondFails, In
  <2> QED BY <1>8, <2>1 DEF CondFails, IInv, TypeOK
<1>9. CASE UntilEnds
  <2>1. stack # <<>> /\ Top.kind = "until" /\ Top.phase \in {"cond", "test"}
    BY <1>9 DEF UntilEnds, In
  <2>2. Live' = Top.at
    <3>1. /\ Len(scopes) = Top.at.sc /\ evalDepth = Top.at.ev /\ ctxDepth = Top.at.cx
          /\ callDepth = Top.at.cs /\ dieDepth = Top.at.dh
      <4>1. Len(scopes) = Top.at.sc
        BY <2>1, TopFacts DEF Scopes, Depths
      <4> QED BY <2>1, <4>1, TopFacts DEF Depths
    <3>2. Top.at = [sc |-> Top.at.sc, ev |-> Top.at.ev, cx |-> Top.at.cx,
                    cs |-> Top.at.cs, dh |-> Top.at.dh]
      BY <2>1, TopFacts DEF Depths
    <3> QED BY <1>9, <3>1, <3>2 DEF UntilEnds, Live
  <2>3. /\ stack' \in Seq(Frames) /\ WellFormed(stack', Live')
        /\ flow' \in Flows \cup {Running}
    BY <1>9, <2>1, <2>2, FlowTypes, Completing DEF UntilEnds
  <2> QED BY <1>9, <2>3 DEF UntilEnds, IInv, TypeOK
<1>10. CASE FreedValue
  <2>1. Flow("Die") \in Flows
    BY FlowTypes DEF FlowTags
  <2>2. stack' \in Seq(Frames) /\ WellFormed(stack', Live')
    BY <1>6, <1>10, <2>1 DEF FreedValue, In
  <2> QED BY <1>10, <2>2 DEF FreedValue, IInv, TypeOK
<1>11. CASE FinishStep
  <2>1. InExpr /\ Top.phase = "step" /\ scopes' = scopes /\ None \in Flows /\ pending \in Flows
    BY <1>11, FlowTypes DEF FinishStep, IInv, TypeOK
  <2>2. SiteOK(Parent, "step") /\ Len(scopes) = Parent.at.sc + Scopes(Parent.kind, Parent.phase)
    BY <2>1, ExprTop
  <2>3. Parent.kind = "for" /\ Parent.phase = "step"
    BY <2>2 DEF SiteOK
  <2>4. PICK p \in {"cond", "close"}, h \in Flows :
           \/ stack' = PopTo([Parent EXCEPT !.phase = p])
           \/ stack' = PopTo([Parent EXCEPT !.phase = p, !.held = h])
    BY <1>11, <2>1 DEF FinishStep
  <2>5. p \in Phases
    BY DEF Phases, ListPhases, ExprPhases, AllSites
  <2>6. Len(scopes') = Parent.at.sc + Scopes(Parent.kind, p)
    BY <2>1, <2>2, <2>3 DEF Scopes
  <2>7. UNCHANGED depths
    BY <1>11 DEF FinishStep
  <2>8. stack' \in Seq(Frames) /\ WellFormed(stack', Live')
    BY <2>1, <2>3, <2>4, <2>5, <2>6, <2>7, Resuming
  <2> QED BY <1>11, <2>1, <2>8 DEF FinishStep, IInv, TypeOK
<1> QED BY <1>2, <1>4, <1>5, <1>7, <1>8, <1>9, <1>10, <1>11 DEF Conditions

\* A frame that keeps its scopes moves on to phase p.
LEMMA Keeping ==
    ASSUME IInv, stack # <<>>, NEW p \in Phases, NEW h \in Flows,
           stack' = SetPhase(p) \/ stack' = SetHeld(p, h),
           UNCHANGED <<scopes, depths>>,
           Top.kind \notin {"expr", "evalS", "evalE"}, p # "tailed", Top.phase # "tailed",
           Scopes(Top.kind, p) = Scopes(Top.kind, Top.phase)
    PROVE  stack' \in Seq(Frames) /\ WellFormed(stack', Live')
<1>1. Len(scopes') = Top.at.sc + Scopes(Top.kind, p)
  BY TopFacts
<1> QED BY <1>1, Moving

\* A frame that pushes nothing but scopes, and none now, has popped them all.
LEMMA NothingPushed ==
    ASSUME IInv, stack # <<>>, Len(scopes') = Top.at.sc, UNCHANGED depths,
           Top.kind \in {"evalS", "evalE"} => Top.phase = "close",
           Top.kind \notin {"subS", "subL", "map"},
           Top.kind = "expr" => Top.phase # "handler"
    PROVE  Live' = Top.at
<1>1. /\ evalDepth = Top.at.ev /\ ctxDepth = Top.at.cx
      /\ callDepth = Top.at.cs /\ dieDepth = Top.at.dh
  BY TopFacts DEF Depths
<1>2. Top.at = [sc |-> Top.at.sc, ev |-> Top.at.ev, cx |-> Top.at.cx,
                cs |-> Top.at.cs, dh |-> Top.at.dh]
  BY TopFacts DEF Depths
<1> QED BY <1>1, <1>2 DEF Live, depths

\* The phases the actions move to are phases.
LEMMA PhaseTypes ==
    {"body", "unwind", "close", "continue", "last", "branch", "tailcall", "tailed",
     "test", "cond", "step", "init"} \subseteq Phases
BY DEF Phases, ListPhases, ExprPhases, AllSites

\* The invariant is preserved: the ends of statement lists.
LEMMA ListEndsStep == ASSUME IInv, ListEnds PROVE IInv'
<1> USE DEF registers
<1>0. ASSUME NEW kinds, NEW phases, Ended(kinds, phases)
      PROVE  /\ stack # <<>> /\ Top.kind \in kinds /\ Top.phase \in phases
             /\ flow \in Flows
  BY <1>0 DEF Ended, IInv, TypeOK
<1>1. CASE BodyEnds
  <2>1. CASE Ended({"if", "bare", "named", "file"}, {"body"}) /\ Hold("close", flow)
    <3>1. Scopes(Top.kind, "close") = Scopes(Top.kind, Top.phase)
      BY <2>1, <1>0 DEF Scopes
    <3>2. stack' \in Seq(Frames) /\ WellFormed(stack', Live')
      BY <1>0, <1>1, <2>1, <3>1, Keeping, PhaseTypes DEF BodyEnds, Hold
    <3> QED BY <1>1, <2>1, <3>2 DEF BodyEnds, Hold, depths, IInv, TypeOK
  <2>2. CASE Ended({"while", "until", "foreach", "cont"}, {"body"}) /\ Hold("unwind", flow)
    <3>1. Scopes(Top.kind, "unwind") = Scopes(Top.kind, Top.phase)
      BY <2>2, <1>0 DEF Scopes
    <3>2. stack' \in Seq(Frames) /\ WellFormed(stack', Live')
      BY <1>0, <1>1, <2>2, <3>1, Keeping, PhaseTypes DEF BodyEnds, Hold
    <3> QED BY <1>1, <2>2, <3>2 DEF BodyEnds, Hold, depths, IInv, TypeOK
  <2>3. CASE Ended({"cont"}, {"continue"}) /\ Hold("close", flow)
    <3>1. Scopes(Top.kind, "close") = Scopes(Top.kind, Top.phase)
      BY <2>3, <1>0 DEF Scopes
    <3>2. stack' \in Seq(Frames) /\ WellFormed(stack', Live')
      BY <1>0, <1>1, <2>3, <3>1, Keeping, PhaseTypes DEF BodyEnds, Hold
    <3> QED BY <1>1, <2>3, <3>2 DEF BodyEnds, Hold, depths, IInv, TypeOK
  <2> QED BY <1>1, <2>1, <2>2, <2>3 DEF BodyEnds
<1>2. CASE EvalBodyEnds
  <2>1. /\ stack # <<>> /\ Top.kind \in {"evalS", "evalE"} /\ Top.phase = "body"
        /\ flow \in Flows
    BY <1>0, <1>2 DEF EvalBodyEnds
  <2> DEFINE f == [Top EXCEPT !.phase = "close", !.held = flow]
  <2>2. /\ f \in Frames /\ f.kind = Top.kind /\ f.at = Top.at /\ f.phase = "close"
    BY <2>1, TopFacts, PhaseTypes DEF Frames
  <2>3. stack' = ReplaceTop(f)
    BY <1>2 DEF EvalBodyEnds, Hold, SetHeld
  <2> HIDE DEF f
  <2>4. evalDepth' = Top.at.ev /\ Top.at.ev \in Nat
    BY <1>2, <2>1, TopFacts DEF EvalBodyEnds, Depths
  <2>5. Live' = Pushed(f)
    <3>1. /\ Len(scopes') = Top.at.sc + 1 /\ ctxDepth' = Top.at.cx
          /\ callDepth' = Top.at.cs /\ dieDepth' = Top.at.dh
      <4>1. Len(scopes) = Top.at.sc + 1
        BY <2>1, TopFacts DEF Scopes
      <4>2. ctxDepth = Top.at.cx /\ callDepth = Top.at.cs /\ dieDepth = Top.at.dh
        BY <2>1, TopFacts, SMTT(30) DEF Depths
      <4> QED BY <1>2, <4>1, <4>2 DEF EvalBodyEnds
    <3>2. Pushed(f) = [sc |-> Top.at.sc + 1, ev |-> Top.at.ev + 0, cx |-> Top.at.cx + 0,
                       cs |-> Top.at.cs + 0, dh |-> Top.at.dh + 0]
      BY <2>1, <2>2 DEF Pushed, Scopes
    <3>3. Top.at \in Depths
      BY <2>1, TopFacts
    <3> QED BY <2>4, <3>1, <3>2, <3>3 DEF Live, Depths
  <2>6. stack' \in Seq(Frames) /\ WellFormed(stack', Live')
    BY <2>1, <2>2, <2>3, <2>5, Replacing
  <2> QED BY <1>2, <2>4, <2>6 DEF EvalBodyEnds, Hold, IInv, TypeOK
<1>3. CASE ForBodyEnds
  <2>1. stack # <<>> /\ Top.kind = "for" /\ Top.phase = "body" /\ flow \in Flows
    BY <1>0, <1>3 DEF ForBodyEnds
  <2>2. PICK p \in {"step", "body", "close"}, h \in Flows : Hold(p, h)
    BY <1>3, <2>1, FlowTypes DEF ForBodyEnds
  <2>3. p \in Phases /\ Scopes(Top.kind, p) = Scopes(Top.kind, Top.phase)
    BY <2>1, PhaseTypes DEF Scopes
  <2>4. stack' \in Seq(Frames) /\ WellFormed(stack', Live')
    BY <1>3, <2>1, <2>2, <2>3, Keeping DEF ForBodyEnds, Hold
  <2> QED BY <1>3, <2>2, <2>4 DEF ForBodyEnds, Hold, depths, IInv, TypeOK
<1>4. CASE ContinueEnds
  <2>1. stack # <<>> /\ Top.kind \in ScopedBody /\ Top.phase = "continue" /\ flow \in Flows
    BY <1>0, <1>4 DEF ContinueEnds
  <2>2. PICK h \in Flows : Leave(h) \/ Hold("cond", h)
    BY <1>4, <2>1, FlowTypes DEF ContinueEnds
  <2>3. CASE Top.kind = "until" /\ Complete(h)
    <3>1. Len(scopes') = Top.at.sc
      BY <1>4, <2>1, <2>3, TopFacts DEF ContinueEnds, Scopes, Depths
    <3>2. Live' = Top.at
      BY <1>4, <2>1, <2>3, <3>1, NothingPushed DEF ContinueEnds
    <3>3. /\ stack' \in Seq(Frames) /\ WellFormed(stack', Live')
          /\ flow' \in Flows \cup {Running}
      BY <2>1, <2>3, <3>2, Completing
    <3> QED BY <1>4, <3>3 DEF ContinueEnds, depths, IInv, TypeOK
  <2>4. CASE \E p \in {"close", "cond"} : Hold(p, h) /\ (p = "close" => Top.kind # "until")
    <3>1. PICK p \in {"close", "cond"} : Hold(p, h)
      BY <2>4
    <3>2. p \in Phases /\ Scopes(Top.kind, p) = Scopes(Top.kind, Top.phase)
      BY <2>1, PhaseTypes DEF Scopes, ScopedBody
    <3>3. stack' \in Seq(Frames) /\ WellFormed(stack', Live')
      BY <1>4, <2>1, <3>1, <3>2, Keeping DEF ContinueEnds, Hold, ScopedBody
    <3> QED BY <1>4, <3>1, <3>3 DEF ContinueEnds, Hold, depths, IInv, TypeOK
  <2> QED BY <2>2, <2>3, <2>4 DEF Leave, Hold
<1>5. ASSUME stack' = stack, UNCHANGED <<scopes, depths>>
      PROVE  stack' \in Seq(Frames) /\ WellFormed(stack', Live')
  <2>1. Live' = Live
    BY <1>5 DEF Live, depths
  <2> QED BY <1>5, <2>1 DEF IInv, TypeOK
<1>6. CASE SubBodyEnds
  <2>1. stack # <<>> /\ Top.kind = "subS" /\ Top.phase = "body" /\ flow \in Flows
    BY <1>0, <1>6 DEF SubBodyEnds
  <2>2. \/ stack' = stack /\ flow' = Running
        \/ Hold("tailcall", None) \/ Hold("close", flow)
    BY <1>6 DEF SubBodyEnds
  <2>3. /\ Scopes(Top.kind, "tailcall") = Scopes(Top.kind, Top.phase)
        /\ Scopes(Top.kind, "close") = Scopes(Top.kind, Top.phase)
    BY <2>1 DEF Scopes
  <2>4. stack' \in Seq(Frames) /\ WellFormed(stack', Live')
    <3>1. CASE stack' = stack
      BY <1>5, <1>6, <3>1 DEF SubBodyEnds
    <3>2. CASE \E p \in {"tailcall", "close"}, h \in Flows : stack' = SetHeld(p, h)
      BY <1>6, <2>1, <2>3, <3>2, Keeping, PhaseTypes DEF SubBodyEnds
    <3> QED BY <2>1, <2>2, <3>1, <3>2, FlowTypes DEF Hold
  <2> QED BY <1>6, <2>2, <2>4 DEF SubBodyEnds, Hold, depths, IInv, TypeOK
<1>7. CASE ListSubBodyEnds
  <2>1. stack # <<>> /\ Top.kind = "subL" /\ Top.phase = "body" /\ flow \in Flows
    BY <1>0, <1>7 DEF ListSubBodyEnds
  <2>2. \/ stack' = stack /\ flow' = Running
        \/ Hold("close", flow)
    BY <1>7 DEF ListSubBodyEnds
  <2>3. Scopes(Top.kind, "close") = Scopes(Top.kind, Top.phase)
    BY <2>1 DEF Scopes
  <2>4. stack' \in Seq(Frames) /\ WellFormed(stack', Live')
    <3>1. CASE stack' = stack
      BY <1>5, <1>7, <3>1 DEF ListSubBodyEnds
    <3>2. CASE Hold("close", flow)
      BY <1>7, <2>1, <2>3, <3>2, Keeping, PhaseTypes DEF ListSubBodyEnds, Hold
    <3> QED BY <2>2, <3>1, <3>2
  <2> QED BY <1>7, <2>2, <2>4 DEF ListSubBodyEnds, Hold, depths, IInv, TypeOK
<1>8. CASE DoBodyEnds
  <2>1. stack # <<>> /\ Top.kind = "do" /\ Top.phase = "body" /\ flow \in Flows
    BY <1>0, <1>8 DEF DoBodyEnds
  <2>2. \/ stack' = stack /\ flow' = Running
        \/ \E h \in Flows : Hold("close", h)
    BY <1>8, <2>1, FlowTypes DEF DoBodyEnds
  <2>3. Scopes(Top.kind, "close") = Scopes(Top.kind, Top.phase)
    BY <2>1 DEF Scopes
  <2>4. stack' \in Seq(Frames) /\ WellFormed(stack', Live')
    <3>1. CASE stack' = stack
      BY <1>5, <1>8, <3>1 DEF DoBodyEnds
    <3>2. ASSUME NEW h \in Flows, Hold("close", h)
          PROVE  stack' \in Seq(Frames) /\ WellFormed(stack', Live')
      BY <1>8, <2>1, <2>3, <3>2, Keeping, PhaseTypes DEF DoBodyEnds, Hold
    <3> QED BY <2>2, <3>1, <3>2
  <2> QED BY <1>8, <2>2, <2>4 DEF DoBodyEnds, Hold, depths, IInv, TypeOK
<1>9. ASSUME NEW p \in {"last", "close"}, NEW h \in Flows, stack # <<>>,
             Top.kind \in {"doL", "map"}, Top.phase \in ListPhases, Hold(p, h),
             UNCHANGED <<scopes, depths>>
      PROVE  stack' \in Seq(Frames) /\ WellFormed(stack', Live')
  <2>1. Scopes(Top.kind, p) = Scopes(Top.kind, Top.phase) /\ Top.phase # "tailed"
    BY <1>9 DEF Scopes, ListPhases
  <2> QED BY <1>9, <2>1, Keeping, PhaseTypes DEF Hold
<1>10. CASE ListBlockEnds
  <2>1. /\ stack # <<>> /\ Top.kind \in {"doL", "map"} /\ Top.phase \in ListPhases
        /\ flow \in Flows
    BY <1>0, <1>10 DEF ListBlockEnds, ListPhases
  <2>2. \E p \in {"last", "close"}, h \in Flows : Hold(p, h)
    BY <1>10, <2>1, FlowTypes DEF ListBlockEnds
  <2>3. stack' \in Seq(Frames) /\ WellFormed(stack', Live')
    BY <1>9, <1>10, <2>1, <2>2 DEF ListBlockEnds
  <2> QED BY <1>10, <2>2, <2>3 DEF ListBlockEnds, Hold, depths, IInv, TypeOK
<1>11. CASE LastStmtEnds
  <2>1. /\ stack # <<>> /\ Top.kind \in {"doL", "map"} /\ Top.phase \in ListPhases
        /\ flow \in Flows /\ Hold("close", None) /\ pending' \in Flows
    BY <1>0, <1>11 DEF LastStmtEnds, ListPhases, IInv, TypeOK
  <2>2. stack' \in Seq(Frames) /\ WellFormed(stack', Live')
    BY <1>9, <1>11, <2>1, FlowTypes DEF LastStmtEnds
  <2> QED BY <1>11, <2>1, <2>2 DEF LastStmtEnds, Hold, depths, IInv, TypeOK
<1>12. CASE BranchEnds
  <2>1. /\ stack # <<>> /\ Top.kind \in {"doL", "map"} /\ Top.phase \in ListPhases
        /\ Hold("last", None) \/ Hold("close", None)
    BY <1>0, <1>12 DEF BranchEnds, ListPhases
  <2>2. stack' \in Seq(Frames) /\ WellFormed(stack', Live')
    BY <1>9, <1>12, <2>1, FlowTypes DEF BranchEnds
  <2> QED BY <1>12, <2>1, <2>2 DEF BranchEnds, Hold, depths, IInv, TypeOK
<1>13. CASE DeferEnds
  <2>1. stack # <<>> /\ Top.kind = "defer" /\ flow \in Flows
    BY <1>0, <1>13 DEF DeferEnds
  <2>2. Len(scopes') = Top.at.sc
    BY <1>13, <2>1, TopFacts DEF DeferEnds, Scopes, Depths
  <2>3. Live' = Top.at
    BY <1>13, <2>1, <2>2, NothingPushed DEF DeferEnds
  <2>4. stack' \in Seq(Frames) /\ WellFormed(stack', Live')
    BY <1>13, <2>1, <2>3, Departing DEF DeferEnds
  <2>5. pending' \in Flows
    BY <1>13, <2>1 DEF DeferEnds, IInv, TypeOK
  <2> QED BY <1>13, <2>4, <2>5 DEF DeferEnds, depths, IInv, TypeOK
<1>14. CASE EnterBranch
  <2>1. /\ stack # <<>> /\ Top.kind \in {"doL", "map"} /\ Top.phase = "last"
        /\ stack' = SetPhase("branch") /\ fuel' \in Nat
    BY <1>14 DEF EnterBranch, In, IInv, TypeOK
  <2>2. Scopes(Top.kind, "branch") = Scopes(Top.kind, Top.phase)
    BY <2>1 DEF Scopes
  <2>3. stack' \in Seq(Frames) /\ WellFormed(stack', Live')
    BY <1>14, <2>1, <2>2, Keeping, PhaseTypes, FlowTypes DEF EnterBranch
  <2> QED BY <1>14, <2>1, <2>3 DEF EnterBranch, depths, IInv, TypeOK
<1> QED BY <1>1, <1>2, <1>3, <1>4, <1>6, <1>7, <1>8, <1>10, <1>11, <1>12, <1>13, <1>14
       DEF ListEnds

\* The invariant is preserved: leaving scopes and constructs.
LEMMA UnwindingStep == ASSUME IInv, Unwinding PROVE IInv'
<1> USE DEF registers
<1>0. ASSUME Popping PROVE stack # <<>> /\ Top.held \in Flows /\ Top \in Frames
  BY <1>0, TopFacts DEF Popping, Frames
<1>1. CASE RunDefer
  <2> DEFINE f == Frame("defer", NoLabel, "body", Live)
  <2>1. stack # <<>> /\ TopScope > 0 /\ stack' = Append(stack, f)
    BY <1>1 DEF RunDefer, Popping
  <2>2. /\ f \in Frames /\ f.kind = "defer" /\ f.at = Live /\ f.phase = "body"
    <3>1. "defer" \in Kinds /\ NoLabel \in LabelsN /\ "body" \in Phases
      BY DEF Kinds, LabelsN, Phases, ListPhases
    <3> QED BY <3>1, FrameType, LiveType DEF IInv
  <2> HIDE DEF f
  <2>3. scopes' \in Seq(Nat) /\ Len(scopes') = Len(scopes)
    <3>1. scopes # <<>> => TopScope - 1 \in Nat
      BY <2>1, ScopeTypes DEF IInv, TypeOK
    <3>2. scopes' = [scopes EXCEPT ![Len(scopes)] = TopScope - 1]
      BY <1>1 DEF RunDefer, TopScope
    <3> QED BY <3>1, <3>2, CountType DEF IInv, TypeOK
  <2>4. Linked(Top, f)
    BY <2>1, <2>2, TopFacts DEF Linked
  <2>5. Live' = Pushed(f)
    <3>1. Pushed(f) = [sc |-> f.at.sc + 0, ev |-> f.at.ev + 0, cx |-> f.at.cx + 0,
                       cs |-> f.at.cs + 0, dh |-> f.at.dh + 0]
      BY <2>2 DEF Pushed, Scopes
    <3> QED BY <1>1, <2>2, <2>3, <3>1 DEF RunDefer, depths, Live, IInv, TypeOK
  <2>6. stack' \in Seq(Frames) /\ WellFormed(stack', Live')
    BY <2>1, <2>2, <2>4, <2>5, Pushing
  <2> QED BY <1>1, <2>3, <2>6 DEF RunDefer, depths, IInv, TypeOK
<1>2. CASE Destroy
  <2> DEFINE f == Frame("subS", NoLabel, "body", Live)
  <2>1. stack # <<>> /\ stack' = Append(stack, f)
    BY <1>2 DEF Destroy, Popping
  <2>2. /\ f \in Frames /\ f.kind = "subS" /\ f.at = Live /\ f.phase = "body"
    <3>1. "subS" \in Kinds /\ NoLabel \in LabelsN /\ "body" \in Phases
      BY DEF Kinds, CallKinds, LabelsN, Phases, ListPhases
    <3> QED BY <3>1, FrameType, LiveType DEF IInv
  <2> HIDE DEF f
  <2>3. scopes' \in Seq(Nat) /\ Len(scopes') = Len(scopes) + 1
    BY <1>2, ScopeTypes DEF Destroy, IInv, TypeOK
  <2>4. Linked(Top, f)
    BY <2>1, <2>2, TopFacts DEF Linked
  <2>5. Live' = Pushed(f)
    <3>1. Pushed(f) = [sc |-> f.at.sc + 1, ev |-> f.at.ev + 0, cx |-> f.at.cx + 1,
                       cs |-> f.at.cs + 1, dh |-> f.at.dh + 0]
      BY <2>2 DEF Pushed, Scopes
    <3> QED BY <1>2, <2>2, <2>3, <3>1 DEF Destroy, Live, IInv, TypeOK
  <2>6. stack' \in Seq(Frames) /\ WellFormed(stack', Live')
    BY <2>1, <2>2, <2>4, <2>5, Pushing
  <2>7. ctxDepth' \in Nat /\ callDepth' \in Nat /\ fuel' \in Nat
    BY <1>2 DEF Destroy, IInv, TypeOK
  <2> QED BY <1>2, <2>3, <2>6, <2>7 DEF Destroy, IInv, TypeOK
<1>3. CASE TailCall
  <2> DEFINE f == [Top EXCEPT !.phase = "tailed"]
             d == [Live EXCEPT !.cs = callDepth - 1]
             g == Frame("subS", NoLabel, "body", d)
  <2>1. /\ stack # <<>> /\ Top \in Frames /\ Top.kind = "subS" /\ Top.phase = "tailcall"
        /\ Top.at \in Depths
        /\ Len(scopes) = Top.at.sc + 1 /\ evalDepth = Top.at.ev
        /\ ctxDepth = Top.at.cx + 1 /\ callDepth = Top.at.cs + 1 /\ dieDepth = Top.at.dh
    <3>1. stack # <<>> /\ Top.kind = "subS" /\ Top.phase = "tailcall"
      BY <1>3 DEF TailCall, In
    <3>2. Top \in Frames /\ Top.at \in Depths
      BY <3>1, TopFacts
    <3>3. Len(scopes) = Top.at.sc + 1
      BY <3>1, TopFacts DEF Scopes
    <3>4. /\ evalDepth = Top.at.ev /\ ctxDepth = Top.at.cx + 1 /\ callDepth = Top.at.cs + 1
          /\ dieDepth = Top.at.dh
      BY <3>1, TopFacts DEF Depths
    <3> QED BY <3>1, <3>2, <3>3, <3>4
  <2>2. f \in Frames /\ f.kind = "subS" /\ f.at = Top.at /\ f.phase = "tailed"
    BY <2>1, PhaseTypes DEF Frames
  <2>3. d = [sc |-> Len(scopes), ev |-> evalDepth, cx |-> ctxDepth, cs |-> callDepth - 1,
             dh |-> dieDepth]
    BY DEF Live
  <2>4. d \in Depths
    BY <2>1, <2>3, SMTT(30) DEF Depths, IInv, TypeOK
  <2>5. "subS" \in Kinds /\ NoLabel \in LabelsN /\ "body" \in Phases
    BY DEF Kinds, CallKinds, LabelsN, Phases, ListPhases
  <2>6. g \in Frames /\ g.kind = "subS" /\ g.phase = "body" /\ g.at = d
    BY <2>4, <2>5, FrameType DEF IInv
  <2>7. stack' = Append(ReplaceTop(f), g)
    BY <1>3 DEF TailCall, SetPhase
  <2> HIDE DEF f, g, d
  <2>8. Linked(f, g)
    <3>1. Pushed(f) = [sc |-> f.at.sc + 1, ev |-> f.at.ev + 0, cx |-> f.at.cx + 1,
                       cs |-> f.at.cs + 0, dh |-> f.at.dh + 0]
      BY <2>2 DEF Pushed, Scopes
    <3>2. d = Pushed(f)
      BY <2>1, <2>2, <2>3, <3>1, SMTT(30) DEF Depths
    <3> QED BY <2>6, <3>2 DEF Linked
  <2>9. scopes' \in Seq(Nat) /\ Len(scopes') = Len(scopes) + 1
    BY <1>3, ScopeTypes DEF TailCall, IInv, TypeOK
  <2>10. Live' = Pushed(g)
    <3>1. Pushed(g) = [sc |-> g.at.sc + 1, ev |-> g.at.ev + 0, cx |-> g.at.cx + 1,
                       cs |-> g.at.cs + 1, dh |-> g.at.dh + 0]
      BY <2>6 DEF Pushed, Scopes
    <3> QED BY <1>3, <2>3, <2>6, <2>9, <3>1 DEF TailCall, Live, IInv, TypeOK
  <2>11. stack' \in Seq(Frames) /\ WellFormed(stack', Live')
    BY <2>1, <2>2, <2>6, <2>7, <2>8, <2>10, Stacking
  <2>12. ctxDepth' \in Nat /\ fuel' \in Nat
    BY <1>3 DEF TailCall, IInv, TypeOK
  <2> QED BY <1>3, <2>9, <2>11, <2>12 DEF TailCall, IInv, TypeOK
<1>4. CASE TailReturn
  <2> DEFINE f == [Top EXCEPT !.phase = "close"]
  <2>1. /\ stack # <<>> /\ Top \in Frames /\ Top.kind = "subS" /\ Top.phase = "tailed"
        /\ Top.at \in Depths
        /\ Len(scopes) = Top.at.sc + 1 /\ evalDepth = Top.at.ev
        /\ ctxDepth = Top.at.cx + 1 /\ callDepth = Top.at.cs /\ dieDepth = Top.at.dh
    <3>1. stack # <<>> /\ Top.kind = "subS" /\ Top.phase = "tailed"
      BY <1>4 DEF TailReturn, In
    <3>2. Top \in Frames /\ Top.at \in Depths
      BY <3>1, TopFacts
    <3>3. Len(scopes) = Top.at.sc + 1
      BY <3>1, TopFacts DEF Scopes
    <3>4. /\ evalDepth = Top.at.ev /\ ctxDepth = Top.at.cx + 1 /\ callDepth = Top.at.cs
          /\ dieDepth = Top.at.dh
      BY <3>1, TopFacts DEF Depths
    <3> QED BY <3>1, <3>2, <3>3, <3>4
  <2>2. f \in Frames /\ f.kind = "subS" /\ f.at = Top.at /\ f.phase = "close"
    BY <2>1, PhaseTypes DEF Frames
  <2>3. stack' = ReplaceTop(f)
    BY <1>4 DEF TailReturn, SetPhase
  <2> HIDE DEF f
  <2>4. Live' = Pushed(f)
    <3>1. Pushed(f) = [sc |-> f.at.sc + 1, ev |-> f.at.ev + 0, cx |-> f.at.cx + 1,
                       cs |-> f.at.cs + 1, dh |-> f.at.dh + 0]
      BY <2>2 DEF Pushed, Scopes
    <3> QED BY <1>4, <2>1, <2>2, <3>1 DEF TailReturn, Live, Depths
  <2>5. stack' \in Seq(Frames) /\ WellFormed(stack', Live')
    BY <2>1, <2>2, <2>3, <2>4, Replacing
  <2> QED BY <1>4, <2>5 DEF TailReturn, IInv, TypeOK
<1>5. CASE NoTarget
  <2>1. stack # <<>> /\ Top.kind = "subS" /\ Top.phase = "tailcall"
    BY <1>5 DEF NoTarget, In
  <2>2. Scopes(Top.kind, "close") = Scopes(Top.kind, Top.phase)
    BY <2>1 DEF Scopes
  <2>3. stack' \in Seq(Frames) /\ WellFormed(stack', Live')
    BY <1>5, <2>1, <2>2, Keeping, PhaseTypes, FlowTypes DEF NoTarget
  <2> QED BY <1>5, <2>3 DEF NoTarget, depths, IInv, TypeOK
<1>6. ASSUME stack # <<>>, Scopes(Top.kind, Top.phase) > 0, scopes' = PopScope
      PROVE  /\ scopes' \in Seq(Nat)
             /\ Len(scopes') = Top.at.sc + Scopes(Top.kind, Top.phase) - 1
  <2>1. /\ Scopes(Top.kind, Top.phase) \in Nat /\ Top.at.sc \in Nat
        /\ Len(scopes) = Top.at.sc + Scopes(Top.kind, Top.phase)
    BY <1>6, TopFacts DEF Scopes, Depths
  <2>2. Len(scopes) > 0
    BY <1>6, <2>1
  <2>3. scopes' \in Seq(Nat) /\ Len(scopes') = Len(scopes) - 1
    BY <1>6, <2>2, ScopeTypes DEF IInv, TypeOK
  <2> HIDE <1>6
  <2> QED BY <2>1, <2>3
<1>7. CASE LoopUnwinds
  <2>1. /\ stack # <<>> /\ Top.kind \in ScopedBody /\ Top.phase = "unwind"
        /\ Top.held \in Flows /\ None \in Flows /\ Top.at \in Depths
    BY <1>0, <1>7, FlowTypes DEF LoopUnwinds, Popped, Frames
  <2>2. \/ /\ scopes' = PopScope
           /\ \E p \in {"continue", "test", "close"}, h \in Flows :
                /\ Hold(p, h)
                /\ p = "close" => Top.kind # "until"
                /\ p = "test" => Top.kind = "foreach"
        \/ scopes' = scopes /\ Hold("body", None)
        \/ scopes' = PopScope /\ Top.kind = "until" /\ \E h \in Flows : Complete(h)
    BY <1>7, <2>1, Zenon DEF LoopUnwinds, Leave, Hold
  <2>3. ASSUME NEW p \in {"continue", "test", "close"}, NEW h \in Flows, Hold(p, h),
               p = "close" => Top.kind # "until", p = "test" => Top.kind = "foreach",
               scopes' = PopScope
        PROVE  IInv'
    <3>1. Scopes(Top.kind, Top.phase) > 0
      BY <2>1 DEF Scopes, ScopedBody
    <3>2. Scopes(Top.kind, p) = Scopes(Top.kind, Top.phase) - 1 /\ Scopes(Top.kind, p) \in Nat
      BY <2>1, <2>3 DEF Scopes, ScopedBody
    <3>3. scopes' \in Seq(Nat) /\ Len(scopes') = Top.at.sc + Scopes(Top.kind, p)
      BY <1>6, <2>1, <2>3, <3>1, <3>2 DEF Scopes, Depths
    <3>4. stack' \in Seq(Frames) /\ WellFormed(stack', Live')
      BY <1>7, <2>1, <2>3, <3>3, Moving, PhaseTypes DEF LoopUnwinds, Hold, ScopedBody
    <3> QED BY <1>7, <2>3, <3>3, <3>4 DEF LoopUnwinds, Hold, depths, IInv, TypeOK
  <2>4. ASSUME scopes' = scopes, Hold("body", None) PROVE IInv'
    <3>1. Scopes(Top.kind, "body") = Scopes(Top.kind, Top.phase)
      BY <2>1 DEF Scopes, ScopedBody
    <3>2. stack' \in Seq(Frames) /\ WellFormed(stack', Live')
      BY <1>7, <2>1, <2>4, <3>1, Keeping, PhaseTypes DEF LoopUnwinds, Hold, ScopedBody
    <3> QED BY <1>7, <2>4, <3>2 DEF LoopUnwinds, Hold, depths, IInv, TypeOK
  <2>5. ASSUME NEW h \in Flows, scopes' = PopScope, Top.kind = "until", Complete(h)
        PROVE  IInv'
    <3>1. Scopes(Top.kind, Top.phase) = 1
      BY <2>1, <2>5 DEF Scopes
    <3>2. scopes' \in Seq(Nat) /\ Len(scopes') = Top.at.sc
      BY <1>6, <2>1, <2>5, <3>1 DEF Depths
    <3>3. Live' = Top.at
      BY <1>7, <2>1, <2>5, <3>2, NothingPushed DEF LoopUnwinds
    <3>4. /\ stack' \in Seq(Frames) /\ WellFormed(stack', Live')
          /\ flow' \in Flows \cup {Running}
      BY <2>1, <2>5, <3>3, Completing
    <3> QED BY <1>7, <3>2, <3>4 DEF LoopUnwinds, depths, IInv, TypeOK
  <2> QED BY <2>2, <2>3, <2>4, <2>5
<1>8. ASSUME NEW h \in Flows, stack # <<>>, scopes' = PopScope, Complete(h), UNCHANGED depths,
             Top.kind \in BlockKinds \ {"until", "evalS"} \/ (Top.kind = "evalS" /\ Top.phase = "close"),
             Scopes(Top.kind, Top.phase) = 1
      PROVE  /\ stack' \in Seq(Frames) /\ WellFormed(stack', Live')
             /\ flow' \in Flows \cup {Running} /\ scopes' \in Seq(Nat)
  <2>1. scopes' \in Seq(Nat) /\ Len(scopes') = Top.at.sc
    BY <1>6, <1>8, TopFacts DEF Depths
  <2>2. Live' = Top.at
    BY <1>8, <2>1, NothingPushed DEF BlockKinds
  <2> QED BY <1>8, <2>1, <2>2, Completing
<1>9. CASE ContBodyUnwinds
  <2>1. /\ stack # <<>> /\ Top.kind = "cont" /\ Top.phase = "unwind"
        /\ Top.held \in Flows /\ None \in Flows /\ Scopes(Top.kind, Top.phase) = 1
    BY <1>0, <1>9, FlowTypes DEF ContBodyUnwinds, Popped, Scopes
  <2>2. \/ scopes' = scopes /\ \E p \in {"continue", "body"} : Hold(p, None)
        \/ scopes' = PopScope /\ \E h \in Flows : Complete(h)
    BY <1>9, <2>1, Zenon DEF ContBodyUnwinds
  <2>3. ASSUME NEW p \in {"continue", "body"}, Hold(p, None), scopes' = scopes PROVE IInv'
    <3>1. Scopes(Top.kind, p) = Scopes(Top.kind, Top.phase)
      BY <2>1 DEF Scopes
    <3>2. stack' \in Seq(Frames) /\ WellFormed(stack', Live')
      BY <1>9, <2>1, <2>3, <3>1, Keeping, PhaseTypes DEF ContBodyUnwinds, Hold
    <3> QED BY <1>9, <2>3, <3>2 DEF ContBodyUnwinds, Hold, depths, IInv, TypeOK
  <2>4. ASSUME NEW h \in Flows, scopes' = PopScope, Complete(h) PROVE IInv'
    <3>1. /\ stack' \in Seq(Frames) /\ WellFormed(stack', Live')
          /\ flow' \in Flows \cup {Running} /\ scopes' \in Seq(Nat)
      BY <1>8, <1>9, <2>1, <2>4 DEF ContBodyUnwinds, BlockKinds
    <3> QED BY <1>9, <3>1 DEF ContBodyUnwinds, depths, IInv, TypeOK
  <2> QED BY <2>2, <2>3, <2>4
<1>10. CASE ContCloses
  <2>1. /\ stack # <<>> /\ Top.kind = "cont" /\ Top.phase = "close"
        /\ Top.held \in Flows /\ None \in Flows /\ Scopes(Top.kind, Top.phase) = 1
    BY <1>0, <1>10, FlowTypes DEF ContCloses, Popped, Scopes
  <2>2. PICK h \in Flows : Complete(h)
    BY <1>10, <2>1 DEF ContCloses
  <2>3. /\ stack' \in Seq(Frames) /\ WellFormed(stack', Live')
        /\ flow' \in Flows \cup {Running} /\ scopes' \in Seq(Nat)
    BY <1>8, <1>10, <2>1, <2>2 DEF ContCloses, BlockKinds
  <2>4. errsv' \in BOOLEAN
    BY <1>10 DEF ContCloses, IInv, TypeOK
  <2> QED BY <1>10, <2>3, <2>4 DEF ContCloses, depths, IInv, TypeOK
<1>11. CASE PlainCloses
  <2>1. /\ stack # <<>> /\ Top.kind \in {"if", "while", "for", "foreach"} /\ Top.phase = "close"
        /\ Top.held \in Flows /\ Scopes(Top.kind, Top.phase) = 1
    BY <1>0, <1>11 DEF PlainCloses, Popped, Scopes
  <2>2. /\ stack' \in Seq(Frames) /\ WellFormed(stack', Live')
        /\ flow' \in Flows \cup {Running} /\ scopes' \in Seq(Nat)
    BY <1>8, <1>11, <2>1 DEF PlainCloses, BlockKinds
  <2> QED BY <1>11, <2>2 DEF PlainCloses, depths, IInv, TypeOK
<1>12. CASE BareCloses
  <2>1. /\ stack # <<>> /\ Top.kind = "bare" /\ Top.phase = "close"
        /\ Top.held \in Flows /\ None \in Flows /\ Scopes(Top.kind, Top.phase) = 1
    BY <1>0, <1>12, FlowTypes DEF BareCloses, Popped, Scopes
  <2>2. \/ scopes' = scopes /\ Hold("body", None)
        \/ scopes' = PopScope /\ \E h \in Flows : Complete(h)
    BY <1>12, <2>1, Zenon DEF BareCloses
  <2>3. ASSUME Hold("body", None), scopes' = scopes PROVE IInv'
    <3>1. Scopes(Top.kind, "body") = Scopes(Top.kind, Top.phase)
      BY <2>1 DEF Scopes
    <3>2. stack' \in Seq(Frames) /\ WellFormed(stack', Live')
      BY <1>12, <2>1, <2>3, <3>1, Keeping, PhaseTypes DEF BareCloses, Hold
    <3> QED BY <1>12, <2>3, <3>2 DEF BareCloses, Hold, depths, IInv, TypeOK
  <2>4. ASSUME NEW h \in Flows, scopes' = PopScope, Complete(h) PROVE IInv'
    <3>1. /\ stack' \in Seq(Frames) /\ WellFormed(stack', Live')
          /\ flow' \in Flows \cup {Running} /\ scopes' \in Seq(Nat)
      BY <1>8, <1>12, <2>1, <2>4 DEF BareCloses, BlockKinds
    <3> QED BY <1>12, <3>1 DEF BareCloses, depths, IInv, TypeOK
  <2> QED BY <2>2, <2>3, <2>4
<1>13. CASE NamedCloses
  <2>1. /\ stack # <<>> /\ Top.kind = "named" /\ Top.phase = "close"
        /\ Top.held \in Flows /\ None \in Flows /\ Scopes(Top.kind, Top.phase) = 1
    BY <1>0, <1>13, FlowTypes DEF NamedCloses, Popped, Scopes
  <2>2. PICK h \in Flows : Complete(h)
    BY <1>13, <2>1 DEF NamedCloses
  <2>3. /\ stack' \in Seq(Frames) /\ WellFormed(stack', Live')
        /\ flow' \in Flows \cup {Running} /\ scopes' \in Seq(Nat)
    BY <1>8, <1>13, <2>1, <2>2 DEF NamedCloses, BlockKinds
  <2> QED BY <1>13, <2>3 DEF NamedCloses, depths, IInv, TypeOK
<1>14. CASE EvalCloses
  <2>1. /\ stack # <<>> /\ Top.kind = "evalS" /\ Top.phase = "close"
        /\ Top.held \in Flows /\ None \in Flows /\ Scopes(Top.kind, Top.phase) = 1
    BY <1>0, <1>14, FlowTypes DEF EvalCloses, Popped, Scopes
  <2>2. PICK h \in Flows : Complete(h)
    BY <1>14, <2>1 DEF EvalCloses
  <2>3. /\ stack' \in Seq(Frames) /\ WellFormed(stack', Live')
        /\ flow' \in Flows \cup {Running} /\ scopes' \in Seq(Nat)
    BY <1>8, <1>14, <2>1, <2>2 DEF EvalCloses
  <2>4. errsv' \in BOOLEAN
    BY <1>14 DEF EvalCloses
  <2>5. pending' \in Flows
    BY <1>14, <2>1 DEF EvalCloses, IInv, TypeOK
  <2> QED BY <1>14, <2>3, <2>4, <2>5 DEF EvalCloses, depths, IInv, TypeOK
<1>15. ASSUME stack # <<>>, Top.kind \in {"evalE", "do", "doL", "file"}, Top.phase = "close",
              stack' = Pop, scopes' = PopScope, UNCHANGED depths
       PROVE  stack' \in Seq(Frames) /\ WellFormed(stack', Live') /\ scopes' \in Seq(Nat)
  <2>1. Scopes(Top.kind, Top.phase) = 1
    BY <1>15 DEF Scopes
  <2>2. scopes' \in Seq(Nat) /\ Len(scopes') = Top.at.sc
    BY <1>6, <1>15, <2>1, TopFacts DEF Depths
  <2>3. Live' = Top.at
    BY <1>15, <2>2, NothingPushed
  <2> QED BY <1>15, <2>2, <2>3, Departing
<1>16. CASE EvalExprCloses
  <2>1. stack' \in Seq(Frames) /\ WellFormed(stack', Live') /\ scopes' \in Seq(Nat)
    BY <1>0, <1>15, <1>16 DEF EvalExprCloses, Popped
  <2>2. errsv' \in BOOLEAN
    BY <1>16 DEF EvalExprCloses
  <2> QED BY <1>16, <2>1, <2>2 DEF EvalExprCloses, depths, IInv, TypeOK
<1>17. CASE SubReturns
  <2>1. /\ stack # <<>> /\ Top.kind \in {"subS", "subL"} /\ Top.phase = "close"
        /\ Top.held \in Flows /\ stack' = Pop /\ scopes' = PopScope
        /\ Scopes(Top.kind, Top.phase) = 1
    BY <1>0, <1>17 DEF SubReturns, Popped, Scopes
  <2>2. /\ ctxDepth' = Top.at.cx /\ callDepth' = Top.at.cs /\ evalDepth' = Top.at.ev
        /\ dieDepth' = Top.at.dh /\ Top.at \in Depths
    BY <1>17, <2>1, TopFacts, SMTT(30) DEF SubReturns, Depths
  <2>3. scopes' \in Seq(Nat) /\ Len(scopes') = Top.at.sc
    BY <1>6, <2>1, <2>2 DEF Depths
  <2>4. Live' = Top.at
    <3>1. Top.at = [sc |-> Top.at.sc, ev |-> Top.at.ev, cx |-> Top.at.cx,
                    cs |-> Top.at.cs, dh |-> Top.at.dh]
      BY <2>2 DEF Depths
    <3> QED BY <2>2, <2>3, <3>1 DEF Live
  <2>5. stack' \in Seq(Frames) /\ WellFormed(stack', Live')
    BY <2>1, <2>4, Departing
  <2>6. pending' \in Flows
    BY <1>17, <2>1 DEF SubReturns, IInv, TypeOK
  <2>7. errsv' \in BOOLEAN /\ retPending' \in BOOLEAN
    BY <1>17 DEF SubReturns, IInv, TypeOK
  <2>8. ctxDepth' \in Nat /\ callDepth' \in Nat
    BY <2>2 DEF Depths
  <2> QED BY <1>17, <2>3, <2>5, <2>6, <2>7, <2>8 DEF SubReturns, IInv, TypeOK
<1>18. CASE DoCloses
  <2>1. stack' \in Seq(Frames) /\ WellFormed(stack', Live') /\ scopes' \in Seq(Nat)
    BY <1>0, <1>15, <1>18 DEF DoCloses, Popped
  <2>2. pending' \in Flows
    BY <1>0, <1>18 DEF DoCloses, Popped, IInv, TypeOK
  <2>3. errsv' \in BOOLEAN /\ retPending' \in BOOLEAN
    BY <1>18 DEF DoCloses, IInv, TypeOK
  <2> QED BY <1>18, <2>1, <2>2, <2>3 DEF DoCloses, depths, IInv, TypeOK
<1>19. CASE ListBlockCloses
  <2>1. /\ stack # <<>> /\ Top.kind \in {"doL", "map"} /\ Top.phase = "close"
        /\ Scopes(Top.kind, Top.phase) = 1 /\ Scopes(Top.kind, "body") = 1
    BY <1>0, <1>19 DEF ListBlockCloses, Popped, Scopes
  <2>2. CASE Hold("body", None) /\ UNCHANGED <<scopes, ctxDepth>>
    <3>1. stack' \in Seq(Frames) /\ WellFormed(stack', Live')
      BY <1>19, <2>1, <2>2, Keeping, PhaseTypes, FlowTypes DEF ListBlockCloses, Hold, depths
    <3> QED BY <1>19, <2>2, <3>1 DEF ListBlockCloses, Hold, IInv, TypeOK
  <2>3. CASE /\ stack' = Pop /\ flow' = Running /\ scopes' = PopScope
             /\ ctxDepth' = IF Top.kind = "map" THEN ctxDepth - 1 ELSE ctxDepth
    <3>1. /\ ctxDepth' = Top.at.cx /\ callDepth' = Top.at.cs /\ evalDepth' = Top.at.ev
          /\ dieDepth' = Top.at.dh /\ Top.at \in Depths
      BY <1>19, <2>1, <2>3, TopFacts, SMTT(30) DEF ListBlockCloses, Depths
    <3>2. scopes' \in Seq(Nat) /\ Len(scopes') = Top.at.sc
      BY <1>6, <2>1, <2>3, <3>1 DEF Depths
    <3>3. Live' = Top.at
      <4>1. Top.at = [sc |-> Top.at.sc, ev |-> Top.at.ev, cx |-> Top.at.cx,
                      cs |-> Top.at.cs, dh |-> Top.at.dh]
        BY <3>1 DEF Depths
      <4> QED BY <3>1, <3>2, <4>1 DEF Live
    <3>4. stack' \in Seq(Frames) /\ WellFormed(stack', Live')
      BY <2>1, <2>3, <3>3, Departing
    <3>5. ctxDepth' \in Nat
      BY <3>1 DEF Depths
    <3> QED BY <1>19, <2>3, <3>2, <3>4, <3>5 DEF ListBlockCloses, IInv, TypeOK
  <2> QED BY <1>19, <2>2, <2>3 DEF ListBlockCloses
<1>20. CASE ProgramEnds
  <2>1. stack' \in Seq(Frames) /\ WellFormed(stack', Live') /\ scopes' \in Seq(Nat)
    BY <1>0, <1>15, <1>20 DEF ProgramEnds, Popped
  <2>2. outcome' \in Outcomes
    BY <1>20 DEF ProgramEnds, Outcomes
  <2> QED BY <1>20, <2>1, <2>2 DEF ProgramEnds, depths, IInv, TypeOK
<1> QED BY <1>1, <1>2, <1>3, <1>4, <1>5, <1>7, <1>9, <1>10, <1>11, <1>12, <1>13, <1>14,
           <1>16, <1>17, <1>18, <1>19, <1>20 DEF Unwinding

-----------------------------------------------------------------------------
\* The program starts with its own frame and scope only.
LEMMA InitIInv == Init => IInv
<1> SUFFICES ASSUME Init PROVE IInv
  OBVIOUS
<1> DEFINE f == [kind |-> "file", label |-> NoLabel, phase |-> "body", held |-> None,
                 at |-> NoDepth, clean |-> TRUE]
<1>1. f \in Frames
  BY FlowTypes, PhaseTypes DEF Frames, Kinds, LabelsN, NoDepth, Depths
<1>2. /\ stack = <<f>> /\ stack \in Seq(Frames) /\ stack # <<>> /\ Len(stack) = 1
      /\ stack[1] = f
  BY <1>1 DEF Init
<1>3. f.kind = "file" /\ f.at = NoDepth /\ f.phase = "body"
  OBVIOUS
<1> HIDE DEF f
<1>4. scopes \in Seq(Nat) /\ Len(scopes) = 1
  BY DEF Init
<1>5. Live = Pushed(f)
  <2>1. Live = [sc |-> 1, ev |-> 0, cx |-> 0, cs |-> 0, dh |-> 0]
    BY <1>4 DEF Init, Live
  <2>2. Pushed(f) = [sc |-> NoDepth.sc + 1, ev |-> NoDepth.ev + 0, cx |-> NoDepth.cx + 0,
                     cs |-> NoDepth.cs + 0, dh |-> NoDepth.dh + 0]
    BY <1>3 DEF Pushed, Scopes
  <2> QED BY <2>1, <2>2 DEF NoDepth
<1>6. WellFormed(stack, Live)
  BY <1>2, <1>3, <1>5 DEF WellFormed
<1> QED BY <1>2, <1>4, <1>6, FlowTypes, FlowControlAssumption
       DEF Init, IInv, TypeOK, Outcomes

\* Every step preserves the inductive invariant.
LEMMA NextIInv == IInv /\ [Next]_vars => IInv'
<1> SUFFICES ASSUME IInv, [Next]_vars PROVE IInv'
  OBVIOUS
<1>1. CASE UNCHANGED vars
  BY <1>1 DEF vars, IInv, TypeOK, WellFormed, Live
<1>2. CASE Next
  BY <1>1, <1>2, StatementStep, ExpressionStep, ConditionsStep, ListEndsStep, UnwindingStep
     DEF Next, Terminated
<1> QED BY <1>1, <1>2

\* The inductive invariant holds: the registers are well typed and each frame
\* starts from what the frame around it has pushed.
THEOREM SpecIInv == Spec => []IInv
BY InitIInv, NextIInv, PTL DEF Spec

\* The registers and stacks of the interpreter always hold what their types say:
\* no counter (eval_depth, call_stack, call_context, in_die_handler) goes below
\* zero, whatever constructs the program nests and however it leaves them.
THEOREM TypeCorrect == Spec => []TypeOK
<1>1. IInv => TypeOK
  BY DEF IInv
<1> QED BY <1>1, SpecIInv, PTL

\* Every construct finds the interpreter's parallel stacks (scopes, eval_depth,
\* call_context, call_stack, in_die_handler) as the constructs around it left them,
\* on every path out of every construct.
THEOREM StacksBalanced == Spec => []Balanced
<1>1. IInv => Balanced
  <2> SUFFICES ASSUME IInv PROVE Balanced
    OBVIOUS
  <2>1. CASE stack = <<>>
    BY <2>1 DEF IInv, TypeOK, WellFormed, Balanced
  <2>2. CASE stack # <<>>
    BY <2>2, TopFacts DEF IInv, TypeOK, WellFormed, Balanced, Linked
  <2> QED BY <2>1, <2>2
<1> QED BY <1>1, SpecIInv, PTL
-----------------------------------------------------------------------------
(***************************************************************************)
(* What becomes of a Flow on its way out: ExitKept and LabelRespected of   *)
(* FlowControl for every program, EvalTraps and PendingOwned for those     *)
(* whose every operand is in a place that looks at pending_flow (Looked),  *)
(* ReturnScoped for those whose expressions are statements of their own    *)
(* (OnlyStmts).                                                            *)
(*                                                                         *)
(* A frame has a Flow to hold while it unwinds only: HeldInv says that     *)
(* none is forgotten in a frame that goes on, where it would be overwritten *)
(* or dropped by a later step without anyone looking at it.  OwnedInv and  *)
(* ReturnInv say where the frames are that take what is parked in          *)
(* pending_flow and in pending_return.                                     *)
(***************************************************************************)

HeldOK(f) == f.phase \notin {"unwind", "close"} => f.held = None
HeldInv == \A i \in 1..Len(stack) : HeldOK(stack[i])

\* The Exits that frames around the innermost one hold are still held there.
AroundKept ==
    \A i \in 1..(Len(stack) - 1) :
        /\ i \in 1..Len(stack')
        /\ stack[i].held.t = "Exit" => stack'[i].held.t = "Exit"

\* A step pushes a frame,
LEMMA PushHeld ==
    ASSUME IInv, HeldInv, stack # <<>>, NEW f \in Frames, HeldOK(f), stack' = Append(stack, f)
    PROVE  HeldInv' /\ AroundKept /\ Len(stack) \in 1..Len(stack') /\ stack'[Len(stack)] = Top
<1> DEFINE s == stack
           t == stack'
<1>1. s \in Seq(Frames) /\ s # <<>> /\ t = Append(s, f) /\ Top = s[Len(s)]
  BY DEF IInv, TypeOK, Top
<1>2. \A i \in 1..Len(s) : HeldOK(s[i])
  BY DEF HeldInv
<1> HIDE DEF s, t
<1>3. /\ Len(t) = Len(s) + 1 /\ Len(s) \in Nat /\ Len(s) > 0 /\ t[Len(s) + 1] = f
      /\ \A i \in 1..Len(s) : t[i] = s[i]
  BY <1>1
<1>4. \A i \in 1..Len(t) : HeldOK(t[i])
  BY <1>2, <1>3
<1>5. /\ \A i \in 1..(Len(s) - 1) : i \in 1..Len(t) /\ t[i] = s[i]
      /\ Len(s) \in 1..Len(t) /\ t[Len(s)] = Top
  BY <1>1, <1>3
<1> QED BY <1>4, <1>5 DEF HeldInv, AroundKept, s, t

\* changes the innermost one,
LEMMA ReplaceHeld ==
    ASSUME IInv, HeldInv, stack # <<>>, NEW f \in Frames, HeldOK(f), stack' = ReplaceTop(f)
    PROVE  HeldInv' /\ AroundKept /\ Len(stack') = Len(stack) /\ stack'[Len(stack)] = f
<1> DEFINE s == stack
           t == stack'
<1>1. s \in Seq(Frames) /\ s # <<>> /\ t = [s EXCEPT ![Len(s)] = f]
  BY DEF IInv, TypeOK, ReplaceTop
<1>2. \A i \in 1..Len(s) : HeldOK(s[i])
  BY DEF HeldInv
<1> HIDE DEF s, t
<1>3. /\ Len(t) = Len(s) /\ Len(s) \in Nat /\ Len(s) > 0 /\ t[Len(s)] = f
      /\ \A i \in 1..Len(s) : i # Len(s) => t[i] = s[i]
  BY <1>1
<1>4. \A i \in 1..Len(t) : HeldOK(t[i])
  BY <1>2, <1>3
<1>5. \A i \in 1..(Len(s) - 1) : i \in 1..Len(t) /\ t[i] = s[i]
  BY <1>3
<1> QED BY <1>3, <1>4, <1>5 DEF HeldInv, AroundKept, s, t

\* does both,
LEMMA StackHeld ==
    ASSUME IInv, HeldInv, stack # <<>>, NEW f \in Frames, NEW g \in Frames, HeldOK(f), HeldOK(g),
           stack' = Append(ReplaceTop(f), g)
    PROVE  HeldInv' /\ AroundKept /\ Len(stack) \in 1..Len(stack') /\ stack'[Len(stack)] = f
<1> DEFINE s == stack
           t == stack'
<1>1. s \in Seq(Frames) /\ s # <<>> /\ t = Append([s EXCEPT ![Len(s)] = f], g)
  BY DEF IInv, TypeOK, ReplaceTop
<1>2. \A i \in 1..Len(s) : HeldOK(s[i])
  BY DEF HeldInv
<1> HIDE DEF s, t
<1>3. /\ Len(t) = Len(s) + 1 /\ Len(s) \in Nat /\ Len(s) > 0 /\ t[Len(s)] = f
      /\ t[Len(s) + 1] = g
      /\ \A i \in 1..Len(s) : i # Len(s) => t[i] = s[i]
  BY <1>1
<1>4. \A i \in 1..Len(t) : HeldOK(t[i])
  BY <1>2, <1>3
<1>5. /\ \A i \in 1..(Len(s) - 1) : i \in 1..Len(t) /\ t[i] = s[i]
      /\ Len(s) \in 1..Len(t)
  BY <1>3
<1> QED BY <1>3, <1>4, <1>5 DEF HeldInv, AroundKept, s, t

\* pops one,
LEMMA PopHeld ==
    ASSUME IInv, HeldInv, stack # <<>>, stack' = Pop
    PROVE  HeldInv' /\ AroundKept /\ Len(stack') = Len(stack) - 1
<1> DEFINE s == stack
           t == stack'
           n == Len(s) - 1
<1>1. s \in Seq(Frames) /\ s # <<>> /\ t = SubSeq(s, 1, n)
  BY DEF IInv, TypeOK, Pop
<1>2. \A i \in 1..Len(s) : HeldOK(s[i])
  BY DEF HeldInv
<1> HIDE DEF s, t
<1>3. n \in Nat /\ \A i \in 1..n : s[i] \in Frames /\ i \in 1..Len(s)
  BY <1>1
<1>4. Len(t) = n /\ \A i \in 1..n : t[i] = s[i]
  <2> HIDE DEF n
  <2> QED BY <1>1, <1>3, Prefix
<1>5. \A i \in 1..Len(t) : HeldOK(t[i])
  BY <1>2, <1>3, <1>4
<1>6. \A i \in 1..(Len(s) - 1) : i \in 1..Len(t) /\ t[i] = s[i]
  BY <1>4
<1> QED BY <1>4, <1>5, <1>6 DEF HeldInv, AroundKept, s, t

\* or goes back to the frame around it, which held nothing.
LEMMA PopToHeld ==
    ASSUME IInv, HeldInv, stack # <<>>, Top.kind # "file", NEW f \in Frames, HeldOK(f),
           Parent.phase \notin {"unwind", "close"}, stack' = PopTo(f)
    PROVE  HeldInv' /\ AroundKept /\ Len(stack') = Len(stack) - 1 /\ stack'[Len(stack')] = f
<1> DEFINE s == stack
           t == stack'
           n == Len(s) - 1
           u == SubSeq(s, 1, n)
<1>1. /\ s \in Seq(Frames) /\ s # <<>> /\ t = [u EXCEPT ![n] = f]
      /\ s[n].phase \notin {"unwind", "close"}
  BY DEF IInv, TypeOK, Pop, PopTo, Parent
<1>2. \A i \in 1..Len(s) : HeldOK(s[i])
  BY DEF HeldInv
<1>3. /\ u \in Seq(Frames) /\ Len(u) = n /\ u # <<>>
  BY PopFrame DEF IInv, TypeOK, Top
<1> HIDE DEF s, t
<1>4. n \in Nat /\ \A i \in 1..n : s[i] \in Frames /\ i \in 1..Len(s)
  BY <1>1
<1>5. \A i \in 1..n : u[i] = s[i]
  <2> HIDE DEF n
  <2> QED BY <1>1, <1>4, Prefix
<1> HIDE DEF u
<1>6. n \in 1..n
  <2> HIDE DEF n
  <2> QED BY <1>3, <1>4
<1>7. Len(t) = n /\ t[n] = f /\ \A i \in 1..n : i # n => t[i] = s[i]
  <2> HIDE DEF n
  <2> QED BY <1>1, <1>3, <1>5, <1>6
<1>8. s[n].held = None
  BY <1>1, <1>2, <1>4, <1>6 DEF HeldOK
<1>9. \A i \in 1..Len(t) : HeldOK(t[i])
  <2> HIDE DEF n
  <2> QED BY <1>2, <1>4, <1>7
<1>10. \A i \in 1..n : i \in 1..Len(t) /\ (s[i].held.t = "Exit" => t[i].held.t = "Exit")
  <2> HIDE DEF n
  <2>1. None.t # "Exit"
    BY DEF None, Flow
  <2> QED BY <1>7, <1>8, <2>1
<1> QED BY <1>7, <1>9, <1>10 DEF HeldInv, AroundKept, s, t

-----------------------------------------------------------------------------
(***************************************************************************)
(* Exit on its way.  An Exit in a register or in the innermost frame is    *)
(* there after the step, or the step is one that ExitKept lists.           *)
(***************************************************************************)
ExitHere == flow.t = "Exit" \/ pending.t = "Exit" \/ Top.held.t = "Exit"
ExitTaken ==
    \/ outcome' = "exit"
    \/ Top.kind \in ExitSinks
    \/ Top.phase \in {"init", "handler"}
    \/ pending.t = "Exit" /\ pending'.t \in {"Die", "Last", "Next"}
Careful == HeldInv' /\ AroundKept /\ (ExitHere => ExitInFlight' \/ ExitTaken)

\* None is no Exit, and no statement list goes on after one.
LEMMA ExitTags ==
    /\ None.t # "Exit" /\ Running.t # "Exit" /\ Running # None
    /\ \A f, fl, rp : \A x \in AfterStmt(f, fl, rp) : fl.t = "Exit" => x = fl
BY DEF None, Running, Flow, AfterStmt

\* A new frame holds nothing.
LEMMA NewHeld ==
    ASSUME IInv, NEW k \in Kinds, NEW l \in LabelsN, NEW p \in Phases, NEW d \in Depths
    PROVE  Frame(k, l, p, d) \in Frames /\ HeldOK(Frame(k, l, p, d))
<1>1. Frame(k, l, p, d) \in Frames
  BY FrameType DEF IInv
<1>2. Frame(k, l, p, d).held = None
  BY DEF Frame
<1> QED BY <1>1, <1>2 DEF HeldOK

\* The innermost frame, moved on, holds what it is told to,
LEMMA MovedHeld ==
    ASSUME IInv, HeldInv, stack # <<>>, NEW p \in Phases, NEW h \in Flows,
           p \notin {"unwind", "close"} => h = None
    PROVE  /\ [Top EXCEPT !.phase = p, !.held = h] \in Frames
           /\ HeldOK([Top EXCEPT !.phase = p, !.held = h])
           /\ [Top EXCEPT !.phase = p, !.held = h].held = h
<1> DEFINE f == [Top EXCEPT !.phase = p, !.held = h]
<1>1. Top \in Frames
  BY TopFacts
<1>2. f \in Frames /\ f.phase = p /\ f.held = h
  BY <1>1 DEF Frames
<1> HIDE DEF f
<1>3. HeldOK(f)
  BY <1>2 DEF HeldOK
<1> QED BY <1>2, <1>3 DEF f

\* or what it held.
LEMMA PhasedHeld ==
    ASSUME IInv, HeldInv, stack # <<>>, NEW p \in Phases,
           p \notin {"unwind", "close"} => Top.phase \notin {"unwind", "close"}
    PROVE  /\ [Top EXCEPT !.phase = p] \in Frames
           /\ HeldOK([Top EXCEPT !.phase = p])
           /\ [Top EXCEPT !.phase = p].held = Top.held
<1> DEFINE f == [Top EXCEPT !.phase = p]
<1>1. Top \in Frames /\ HeldOK(Top)
  BY TopFacts DEF HeldInv, Top
<1>2. f \in Frames /\ f.phase = p /\ f.held = Top.held
  BY <1>1 DEF Frames
<1> HIDE DEF f
<1>3. HeldOK(f)
  BY <1>1, <1>2 DEF HeldOK
<1> QED BY <1>2, <1>3 DEF f

\* The kinds of step: nothing happens to the stack,
LEMMA CarefulStay ==
    ASSUME IInv, HeldInv, stack # <<>>, stack' = stack,
           flow.t = "Exit" => flow'.t = "Exit",
           pending.t = "Exit" => pending'.t \in {"Exit", "Die", "Last", "Next"}
    PROVE  Careful
<1>1. HeldInv' /\ AroundKept
  BY TopFacts DEF HeldInv, AroundKept
<1>2. stack'[Len(stack)] = Top /\ Len(stack) \in 1..Len(stack')
  BY TopFacts DEF Top
<1> QED BY <1>1, <1>2 DEF Careful, ExitHere, ExitTaken, ExitInFlight

\* a frame is opened,
LEMMA CarefulPush ==
    ASSUME IInv, HeldInv, stack # <<>>, NEW k \in Kinds, NEW l \in LabelsN, NEW p \in Phases,
           NEW d \in Depths, stack' = Append(stack, Frame(k, l, p, d)),
           UNCHANGED <<flow, pending>>
    PROVE  Careful
<1>1. HeldInv' /\ AroundKept /\ Len(stack) \in 1..Len(stack') /\ stack'[Len(stack)] = Top
  BY NewHeld, PushHeld
<1> QED BY <1>1 DEF Careful, ExitHere, ExitInFlight

\* the innermost one goes on to another phase and takes the Flow,
LEMMA CarefulHold ==
    ASSUME IInv, HeldInv, stack # <<>>, NEW p \in Phases, NEW h \in Flows,
           p \notin {"unwind", "close"} => h = None, stack' = SetHeld(p, h),
           flow.t = "Exit" => h.t = "Exit" \/ Top.kind \in ExitSinks,
           Top.held.t = "Exit" => h.t = "Exit" \/ Top.kind \in ExitSinks,
           pending.t = "Exit" => pending'.t = "Exit" \/ Top.kind \in ExitSinks
    PROVE  Careful
<1>1. PICK f \in Frames : HeldOK(f) /\ f.held = h /\ stack' = ReplaceTop(f)
  BY MovedHeld DEF SetHeld
<1>2. HeldInv' /\ AroundKept /\ Len(stack') = Len(stack) /\ stack'[Len(stack)] = f
  BY <1>1, ReplaceHeld
<1>3. Len(stack) \in 1..Len(stack')
  BY <1>2, TopFacts
<1> QED BY <1>1, <1>2, <1>3 DEF Careful, ExitHere, ExitTaken, ExitInFlight

\* or keeps what it holds,
LEMMA CarefulPhase ==
    ASSUME IInv, HeldInv, stack # <<>>, NEW p \in Phases,
           p \notin {"unwind", "close"} => Top.phase \notin {"unwind", "close"},
           stack' = SetPhase(p), UNCHANGED <<flow, pending>>
    PROVE  Careful
<1>1. PICK f \in Frames : HeldOK(f) /\ f.held = Top.held /\ stack' = ReplaceTop(f)
  BY PhasedHeld DEF SetPhase
<1>2. HeldInv' /\ AroundKept /\ Len(stack') = Len(stack) /\ stack'[Len(stack)] = f
  BY <1>1, ReplaceHeld
<1>3. Len(stack) \in 1..Len(stack')
  BY <1>2, TopFacts
<1> QED BY <1>1, <1>2, <1>3 DEF Careful, ExitHere, ExitInFlight

\* or calls a sub,
LEMMA CarefulStack ==
    ASSUME IInv, HeldInv, stack # <<>>, NEW p \in Phases, p \notin {"unwind", "close"},
           Top.phase \notin {"unwind", "close"}, NEW d \in Depths,
           stack' = Append(SetPhase(p), Frame("subS", NoLabel, "body", d)),
           UNCHANGED <<flow, pending>>
    PROVE  Careful
<1>0. "subS" \in Kinds /\ NoLabel \in LabelsN /\ "body" \in Phases
  BY DEF Kinds, CallKinds, LabelsN, Phases, ListPhases
<1>1. PICK f \in Frames : HeldOK(f) /\ f.held = Top.held /\ SetPhase(p) = ReplaceTop(f)
  BY PhasedHeld DEF SetPhase
<1>2. PICK g \in Frames : HeldOK(g) /\ g = Frame("subS", NoLabel, "body", d)
  BY <1>0, NewHeld
<1>3. HeldInv' /\ AroundKept /\ Len(stack) \in 1..Len(stack') /\ stack'[Len(stack)] = f
  BY <1>1, <1>2, StackHeld
<1> QED BY <1>1, <1>3 DEF Careful, ExitHere, ExitInFlight

\* or it is left, as an operand
LEMMA CarefulPop ==
    ASSUME IInv, HeldInv, stack # <<>>, stack' = Pop,
           \/ Top.kind \in ExitSinks
           \/ outcome' = "exit"
           \/ flow'.t = "Exit"
           \/ pending'.t = "Exit"
           \/ ~ExitHere
           \/ pending.t = "Exit" /\ pending'.t \in {"Die", "Last", "Next"}
           \/ Top.phase \in {"init", "handler"}
    PROVE  Careful
BY PopHeld DEF Careful, ExitTaken, ExitInFlight

\* or as a statement,
LEMMA CarefulComplete ==
    ASSUME IInv, HeldInv, stack # <<>>, flow = Running, NEW fl \in Flows, Complete(fl),
           Top.held.t = "Exit" => fl.t = "Exit" \/ Top.kind \in ExitSinks,
           pending.t = "Exit" => \/ pending'.t = "Exit" \/ fl.t = "Exit"
                                 \/ Top.kind \in ExitSinks \/ Top.phase = "handler"
    PROVE  Careful
<1>1. stack' = Pop /\ (fl.t = "Exit" => flow'.t = "Exit")
  BY ExitTags DEF Complete
<1>2. ExitHere => pending.t = "Exit" \/ Top.held.t = "Exit"
  BY ExitTags DEF ExitHere
<1> QED BY <1>1, <1>2, CarefulPop

\* Every frame but the file's lies in another.
LEMMA HasParent ==
    ASSUME IInv, stack # <<>>, Top.kind # "file"
    PROVE  /\ Len(stack) - 1 \in Nat /\ Len(stack) - 1 > 0
           /\ Len(stack) - 1 \in 1..Len(stack) /\ 1 \in 1..Len(stack)
<1>1. stack[1].kind = "file"
  BY DEF IInv, WellFormed
<1>2. Len(stack) \in Nat /\ Len(stack) > 0
  BY TopFacts
<1>3. Len(stack) # 1
  BY <1>1 DEF Top
<1> DEFINE n == Len(stack)
<1>4. n \in Nat /\ n > 0 /\ n # 1
  BY <1>2, <1>3
<1> HIDE DEF n
<1>5. n - 1 \in Nat /\ n - 1 > 0 /\ n - 1 \in 1..n /\ 1 \in 1..n
  BY <1>4
<1> QED BY <1>5 DEF n

\* or the expression is evaluated, and the construct it is in goes on.
LEMMA CarefulResume ==
    ASSUME IInv, HeldInv, InExpr, Top.phase \in {"tail", "cond", "list", "init", "step"},
           NEW p \in Phases, NEW h \in Flows, p # "close" => h = None, p # "unwind",
           \/ stack' = PopTo([Parent EXCEPT !.phase = p]) /\ h = None
           \/ stack' = PopTo([Parent EXCEPT !.phase = p, !.held = h]),
           flow' = flow,
           pending.t = "Exit" => pending'.t = "Exit" \/ h.t = "Exit" \/ Top.phase = "init"
    PROVE  Careful
<1>0. stack # <<>> /\ Top.kind = "expr" /\ flow = Running /\ Parent \in Frames
  BY ExprTop DEF InExpr
<1>1. SiteOK(Parent, Top.phase)
  BY ExprTop
<1>2. Parent.phase \notin {"unwind", "close"}
  BY <1>1 DEF SiteOK
<1>3. Parent.held = None
  <2>1. Len(stack) - 1 \in 1..Len(stack)
    BY <1>0, HasParent
  <2> QED BY <1>2, <2>1 DEF HeldInv, HeldOK, Parent
<1>4. PICK f \in Frames : f.phase = p /\ f.held = h /\ stack' = PopTo(f)
  <2> DEFINE a == [Parent EXCEPT !.phase = p]
             b == [Parent EXCEPT !.phase = p, !.held = h]
  <2>1. /\ a \in Frames /\ a.phase = p /\ a.held = None
        /\ b \in Frames /\ b.phase = p /\ b.held = h
    BY <1>0, <1>3 DEF Frames
  <2>2. (h = None /\ stack' = PopTo(a)) \/ stack' = PopTo(b)
    OBVIOUS
  <2> HIDE DEF a, b
  <2> QED BY <2>1, <2>2
<1>5. HeldOK(f)
  BY <1>4 DEF HeldOK
<1>6. HeldInv' /\ AroundKept /\ Len(stack') = Len(stack) - 1 /\ stack'[Len(stack')] = f
  BY <1>0, <1>2, <1>4, <1>5, PopToHeld
<1>7. Top.held = None
  <2>1. HeldOK(Top)
    BY <1>0, TopFacts DEF HeldInv, Top
  <2> QED BY <2>1 DEF HeldOK
<1>8. Len(stack') \in 1..Len(stack')
  <2>1. Len(stack) - 1 > 0 /\ Len(stack) - 1 \in Nat
    BY <1>0, HasParent
  <2> QED BY <1>6, <2>1
<1>9. ExitHere => pending.t = "Exit"
  BY <1>0, <1>7, ExitTags DEF ExitHere
<1> QED BY <1>4, <1>6, <1>8, <1>9 DEF Careful, ExitTaken, ExitInFlight

-----------------------------------------------------------------------------
\* The phases and kinds that the steps below name are phases and kinds.
LEMMA PhaseNames ==
    /\ ListPhases \cup ExprPhases \cup {"test", "unwind", "close", "tailcall", "tailed"} = Phases
    /\ {"body", "continue", "last", "branch"} \subseteq Phases
    /\ {"stmt", "my", "return", "step", "init", "cond", "list", "print", "tail", "die", "handler"}
         \subseteq ExprPhases
    /\ BlockKinds \subseteq Kinds /\ CallKinds \subseteq Kinds
    /\ {"expr", "defer", "subS"} \subseteq Kinds
    /\ NoLabel \in LabelsN /\ Labels \subseteq LabelsN
BY DEF Phases, ListPhases, ExprPhases, AllSites, Kinds, CallKinds, LabelsN

\* The statements of a list lose no exit and leave no loop they are not meant for;
LEMMA StatementCareful == ASSUME IInv, HeldInv, Statement PROVE Careful
<1> USE DEF registers, depths
<1>0. Live \in Depths
  BY LiveType DEF IInv
<1>1. CASE JumpStmt
  BY <1>1, CarefulStay, ExitTags DEF JumpStmt, AtStmt
<1>2. CASE DeferStmt
  BY <1>2, CarefulStay, ExitTags DEF DeferStmt, AtStmt
<1>3. CASE EndOfList
  BY <1>3, CarefulStay, ExitTags DEF EndOfList
<1>4. ASSUME NEW site \in {"stmt", "my", "return", "print", "die", "tail"}, ExprStmt(site)
      PROVE  Careful
  <2>1. /\ stack # <<>> /\ stack' = Append(stack, Frame("expr", NoLabel, site, Live))
        /\ UNCHANGED <<flow, pending>>
    BY <1>4 DEF ExprStmt, AtStmt
  <2> QED BY <1>0, <1>4, <2>1, PhaseNames, CarefulPush
<1>5. ASSUME NEW k \in BlockKinds, EnterBlock(k) PROVE Careful
  <2>1. stack # <<>> /\ UNCHANGED <<flow, pending>>
    BY <1>5 DEF EnterBlock, AtStmt
  <2>2. PICK l \in LabelsOf(k) : stack' = Append(stack, Frame(k, l, EntryPhase(k), Live))
    BY <1>5 DEF EnterBlock
  <2>3. l \in LabelsN /\ EntryPhase(k) \in Phases
    BY PhaseNames DEF LabelsOf, EntryPhase
  <2> QED BY <1>0, <2>1, <2>2, <2>3, PhaseNames, CarefulPush
<1> QED BY <1>1, <1>2, <1>3, <1>4, <1>5 DEF Statement, TailExpr

\* nor do the conditions and the clauses of the loops,
LEMMA ConditionsCareful == ASSUME IInv, HeldInv, Conditions PROVE Careful
<1> USE DEF registers, depths
<1>0. Live \in Depths /\ pending \in Flows /\ None \in Flows
  BY LiveType, FlowTypes DEF IInv, TypeOK
<1>1. CASE EvalOwnExpr
  <2>1. PICK site \in {"cond", "init", "step", "list"} :
           stack # <<>> /\ stack' = Append(stack, Frame("expr", NoLabel, site, Live))
    BY <1>1 DEF EvalOwnExpr, OwnExpr, In
  <2>2. UNCHANGED <<flow, pending>>
    BY <1>1 DEF EvalOwnExpr, OwnExpr
  <2> QED BY <1>0, <2>1, <2>2, PhaseNames, CarefulPush
<1>2. CASE SkipOwnExpr \/ EnterBody \/ ElsIf
  <2>1. PICK p \in {"cond", "body"} : stack' = SetPhase(p)
    BY <1>2 DEF SkipOwnExpr, EnterBody, ElsIf
  <2>2. /\ stack # <<>> /\ Top.phase \notin {"unwind", "close"} /\ UNCHANGED <<flow, pending>>
    BY <1>2 DEF SkipOwnExpr, EnterBody, ElsIf, In
  <2> QED BY <2>1, <2>2, PhaseNames, CarefulPhase
<1>3. CASE CondFails \/ FreedValue
  <2>1. PICK h \in Flows : stack' = SetHeld("close", h)
    BY <1>0, <1>3, FlowTypes DEF CondFails, FreedValue, FlowTags
  <2>2. /\ stack # <<>> /\ flow = Running /\ Top.phase \notin {"unwind", "close"}
        /\ UNCHANGED <<flow, pending>>
    BY <1>3 DEF CondFails, FreedValue, In
  <2>3. Top.held = None
    BY <2>2, TopFacts DEF HeldInv, HeldOK, Top
  <2> QED BY <2>1, <2>2, <2>3, ExitTags, PhaseNames, CarefulHold
<1>4. CASE UntilEnds
  <2>1. /\ stack # <<>> /\ flow = Running /\ Top.phase \notin {"unwind", "close"}
        /\ UNCHANGED pending /\ Complete(None)
    BY <1>4 DEF UntilEnds, In
  <2>2. Top.held = None
    BY <2>1, TopFacts DEF HeldInv, HeldOK, Top
  <2> QED BY <1>0, <2>1, <2>2, ExitTags, CarefulComplete
<1>5. CASE FinishStep
  <2> DEFINE mine == pending.l = NoLabel \/ pending.l = Parent.label
             goon == pending = None \/ (pending.t = "Next" /\ mine)
             h == IF goon \/ (pending.t = "Last" /\ mine) THEN None ELSE pending
             p == IF goon THEN "cond" ELSE "close"
  <2>1. /\ InExpr /\ Top.phase = "step" /\ flow' = flow
        /\ \/ stack' = PopTo([Parent EXCEPT !.phase = p]) /\ h = None
           \/ stack' = PopTo([Parent EXCEPT !.phase = p, !.held = h])
    BY <1>5 DEF FinishStep
  <2>2. /\ h \in Flows /\ p \in Phases /\ (p # "close" => h = None) /\ p # "unwind"
        /\ (pending.t = "Exit" => h.t = "Exit")
    BY <1>0, PhaseNames, ExitTags
  <2> HIDE DEF h, p
  <2> QED BY <2>1, <2>2, CarefulResume
<1> QED BY <1>1, <1>2, <1>3, <1>4, <1>5 DEF Conditions

\* nor what an expression does.
LEMMA ExpressionCareful == ASSUME IInv, HeldInv, Expression PROVE Careful
<1> USE DEF registers, depths
<1>0. Live \in Depths /\ pending \in Flows /\ None \in Flows /\ \A t \in FlowTags : Flow(t) \in Flows
  BY LiveType, FlowTypes DEF IInv, TypeOK
<1>1. CASE RaiseDie \/ CallExit
  <2>1. stack # <<>> /\ stack' = stack /\ flow' = flow
    BY <1>1 DEF RaiseDie, CallExit, Operand, InExpr
  <2>2. pending' = Flow("Die") \/ pending' = Flow("Exit")
    BY <1>1 DEF RaiseDie, CallExit
  <2>3. pending'.t \in {"Die", "Exit"}
    BY <2>2 DEF Flow
  <2> QED BY <2>1, <2>3, CarefulStay
<1>2. ASSUME NEW k \in CallKinds, EnterCall(k) PROVE Careful
  <2>1. stack # <<>> /\ UNCHANGED <<flow, pending>>
        /\ stack' = Append(stack, Frame(k, NoLabel, "body", Live))
    BY <1>2 DEF EnterCall, Operand, InExpr
  <2> QED BY <1>0, <2>1, PhaseNames, CarefulPush
<1>3. ASSUME InExpr PROVE stack # <<>> /\ flow = Running /\ (Top.phase \notin {"unwind", "close"} => Top.held = None)
  BY <1>3, TopFacts DEF InExpr, HeldInv, HeldOK, Top
<1>4. CASE FinishStmt \/ FinishMyOrReturn \/ FinishPrint \/ FinishDie \/ FinishHandler
  <2>1. InExpr /\ Top.phase \notin {"unwind", "close"}
    BY <1>4 DEF FinishStmt, FinishMyOrReturn, FinishPrint, FinishDie, FinishHandler
  <2>2. PICK fl \in Flows :
           /\ Complete(fl)
           /\ pending.t = "Exit" => pending'.t = "Exit" \/ fl.t = "Exit" \/ Top.phase = "handler"
    BY <1>0, <1>4, ExitTags DEF FinishStmt, FinishMyOrReturn, FinishPrint, FinishDie, FinishHandler, FlowTags
  <2> QED BY <1>3, <2>1, <2>2, ExitTags, CarefulComplete
<1>5. CASE CallHandler
  <2>1. /\ stack # <<>> /\ Top.phase \notin {"unwind", "close"} /\ UNCHANGED <<flow, pending>>
        /\ stack' = Append(SetPhase("handler"),
                       Frame("subS", NoLabel, "body", [Live EXCEPT !.dh = dieDepth + 1]))
    BY <1>5 DEF CallHandler, InExpr
  <2>2. [Live EXCEPT !.dh = dieDepth + 1] \in Depths
    <3>1. [Live EXCEPT !.dh = dieDepth + 1] =
            [sc |-> Len(scopes), ev |-> evalDepth, cx |-> ctxDepth, cs |-> callDepth,
             dh |-> dieDepth + 1]
      BY DEF Live
    <3> QED BY <3>1 DEF Depths, IInv, TypeOK
  <2> QED BY <2>1, <2>2, PhaseNames, CarefulStack
<1>6. CASE FinishTail
  BY <1>0, <1>6, PhaseNames, CarefulResume DEF FinishTail
<1>7. CASE FinishCond
  BY <1>0, <1>7, PhaseNames, CarefulResume DEF FinishCond
<1>8. CASE FinishList
  BY <1>0, <1>8, PhaseNames, CarefulResume DEF FinishList
<1>9. CASE FinishInit
  BY <1>0, <1>9, PhaseNames, CarefulResume DEF FinishInit
<1> QED BY <1>1, <1>2, <1>4, <1>5, <1>6, <1>7, <1>8, <1>9 DEF Expression

\* A statement list has ended with Flow h, which the frame now holds.
LEMMA ListEndsCareful == ASSUME IInv, HeldInv, ListEnds PROVE Careful
<1> USE DEF registers, depths
<1>0. None \in Flows
  BY FlowTypes
<1>1. ASSUME NEW ks, NEW ps, Ended(ks, ps)
      PROVE  /\ stack # <<>> /\ Top.kind \in ks /\ Top.phase \in ps /\ flow \in Flows
             /\ Top.phase \notin {"unwind", "close"} => Top.held = None
  <2>1. stack # <<>> /\ Top.kind \in ks /\ Top.phase \in ps /\ flow \in Flows
    BY <1>1 DEF Ended, IInv, TypeOK
  <2> QED BY <2>1, TopFacts DEF HeldInv, HeldOK, Top
<1>2. ASSUME NEW p \in Phases, NEW h \in Flows, Hold(p, h), stack # <<>>,
             p \notin {"unwind", "close"} => h = None,
             Top.phase \notin {"unwind", "close"} /\ Top.held = None,
             flow.t = "Exit" => h.t = "Exit" \/ Top.kind \in ExitSinks,
             pending.t = "Exit" => pending'.t = "Exit" \/ Top.kind \in ExitSinks
      PROVE  Careful
  BY <1>2, ExitTags, CarefulHold DEF Hold
<1>3. CASE BodyEnds
  <2>1. /\ stack # <<>> /\ Top.phase \notin {"unwind", "close"} /\ Top.held = None
        /\ flow \in Flows
    BY <1>1, <1>3 DEF BodyEnds
  <2>2. PICK p \in {"close", "unwind"} : Hold(p, flow)
    BY <1>3 DEF BodyEnds
  <2>3. pending' = pending
    BY <1>3 DEF BodyEnds
  <2> QED BY <1>2, <2>1, <2>2, <2>3, PhaseNames
<1>4. CASE EvalBodyEnds
  <2>1. /\ stack # <<>> /\ Top.phase \notin {"unwind", "close"} /\ Top.held = None
        /\ flow \in Flows
    BY <1>1, <1>4 DEF EvalBodyEnds
  <2>2. Hold("close", flow) /\ pending' = pending
    BY <1>4 DEF EvalBodyEnds
  <2> QED BY <1>2, <2>1, <2>2, PhaseNames
<1>5. CASE ForBodyEnds
  <2>1. /\ stack # <<>> /\ Top.phase \notin {"unwind", "close"} /\ Top.held = None
        /\ flow \in Flows
    BY <1>1, <1>5 DEF ForBodyEnds
  <2>2. \/ flow.t # "Exit" /\ \E p \in {"step", "body", "close"} : Hold(p, None)
        \/ Hold("close", flow)
    BY <1>5 DEF ForBodyEnds
  <2>3. pending' = pending
    BY <1>5 DEF ForBodyEnds
  <2>4. CASE Hold("close", flow)
    BY <1>2, <2>1, <2>3, <2>4, PhaseNames
  <2>5. CASE flow.t # "Exit" /\ \E p \in {"step", "body", "close"} : Hold(p, None)
    BY <1>0, <1>2, <2>1, <2>3, <2>5, PhaseNames
  <2> QED BY <2>2, <2>4, <2>5
<1>6. CASE ContinueEnds
  <2>1. /\ stack # <<>> /\ Top.phase \notin {"unwind", "close"} /\ Top.held = None
        /\ flow \in Flows
    BY <1>1, <1>6 DEF ContinueEnds
  <2>2. pending' = pending
    BY <1>6 DEF ContinueEnds
  <2>3. PICK h \in Flows : /\ (flow.t = "Exit" => h.t = "Exit")
                           /\ (Leave(h) \/ (h = None /\ Hold("cond", h)))
    BY <1>0, <1>6, <2>1 DEF ContinueEnds, LeaveLoop
  <2>4. CASE Complete(h)
    <3>1. stack' = Pop /\ (h.t = "Exit" => flow'.t = "Exit")
      BY <2>4, ExitTags DEF Complete
    <3>2. flow.t # "Exit" => (ExitHere => pending'.t = "Exit")
      BY <2>1, <2>2, ExitTags DEF ExitHere
    <3> QED BY <2>1, <2>3, <3>1, <3>2, CarefulPop
  <2>5. CASE Hold("close", h)
    BY <1>2, <2>1, <2>2, <2>3, <2>5, PhaseNames
  <2>6. CASE h = None /\ Hold("cond", h)
    BY <1>2, <2>1, <2>2, <2>3, <2>6, PhaseNames
  <2> QED BY <2>3, <2>4, <2>5, <2>6 DEF Leave, Hold
<1>7. CASE SubBodyEnds
  <2>1. /\ stack # <<>> /\ Top.phase \notin {"unwind", "close"} /\ Top.held = None
        /\ flow \in Flows
    BY <1>1, <1>7 DEF SubBodyEnds
  <2>2. pending' = pending
    BY <1>7 DEF SubBodyEnds
  <2>3. \/ flow.t # "Exit" /\ UNCHANGED stack
        \/ flow.t # "Exit" /\ Hold("tailcall", None)
        \/ Hold("close", flow)
    BY <1>7 DEF SubBodyEnds
  <2>4. CASE flow.t # "Exit" /\ UNCHANGED stack
    BY <2>1, <2>2, <2>4, CarefulStay
  <2>5. CASE flow.t # "Exit" /\ Hold("tailcall", None)
    BY <1>0, <1>2, <2>1, <2>2, <2>5, PhaseNames
  <2>6. CASE Hold("close", flow)
    BY <1>2, <2>1, <2>2, <2>6, PhaseNames
  <2> QED BY <2>3, <2>4, <2>5, <2>6
<1>8. CASE ListSubBodyEnds \/ DoBodyEnds \/ ListBlockEnds \/ LastStmtEnds \/ BranchEnds
  <2>1. /\ stack # <<>> /\ Top.phase \notin {"unwind", "close"} /\ Top.held = None
        /\ flow \in Flows /\ Top.kind \in ExitSinks
    BY <1>1, <1>8 DEF ListSubBodyEnds, DoBodyEnds, ListBlockEnds, LastStmtEnds, BranchEnds, ExitSinks
  <2>2. \/ UNCHANGED stack
        \/ \E h \in Flows : Hold("close", h)
        \/ Hold("last", None)
    BY <1>0, <1>8, <2>1 DEF ListSubBodyEnds, DoBodyEnds, ListBlockEnds, LastStmtEnds, BranchEnds
  <2>3. CASE UNCHANGED stack
    <3>1. HeldInv' /\ AroundKept
      BY <2>1, <2>3, TopFacts DEF HeldInv, AroundKept
    <3> QED BY <2>1, <3>1 DEF Careful, ExitTaken
  <2>4. CASE \E h \in Flows : Hold("close", h)
    BY <1>2, <2>1, <2>4, PhaseNames
  <2>5. CASE Hold("last", None)
    BY <1>0, <1>2, <2>1, <2>5, PhaseNames
  <2> QED BY <2>2, <2>3, <2>4, <2>5
<1>9. CASE EnterBranch
  <2>1. /\ stack # <<>> /\ Top.phase = "last" /\ stack' = SetPhase("branch")
        /\ UNCHANGED <<flow, pending>>
    BY <1>9 DEF EnterBranch, In
  <2> QED BY <2>1, PhaseNames, CarefulPhase
<1>10. CASE DeferEnds
  <2>1. stack # <<>> /\ Top.kind \in ExitSinks /\ stack' = Pop
    BY <1>1, <1>10 DEF DeferEnds, ExitSinks
  <2> QED BY <2>1, CarefulPop
<1> QED BY <1>3, <1>4, <1>5, <1>6, <1>7, <1>8, <1>9, <1>10 DEF ListEnds

\* The scope is popped, and the construct acts on the Flow h it was holding.
LEMMA UnwindingCareful == ASSUME IInv, HeldInv, Unwinding PROVE Careful
<1> USE DEF registers, depths
<1>0. Live \in Depths /\ None \in Flows
  BY LiveType, FlowTypes DEF IInv
<1>1. ASSUME Popping PROVE stack # <<>> /\ Top.held \in Flows /\ flow = Running
  BY <1>1, TopFacts DEF Popping, Frames
<1>2. CASE RunDefer \/ Destroy
  <2>1. PICK k \in {"defer", "subS"} :
           stack # <<>> /\ stack' = Append(stack, Frame(k, NoLabel, "body", Live))
    BY <1>2 DEF RunDefer, Destroy, Popping
  <2>2. UNCHANGED <<flow, pending>>
    BY <1>2 DEF RunDefer, Destroy
  <2> QED BY <1>0, <2>1, <2>2, PhaseNames, CarefulPush
<1>3. CASE TailCall
  <2> DEFINE d == [Live EXCEPT !.cs = callDepth - 1]
  <2>1. /\ stack # <<>> /\ Top.kind = "subS" /\ Top.phase = "tailcall"
        /\ UNCHANGED <<flow, pending>>
        /\ stack' = Append(SetPhase("tailed"), Frame("subS", NoLabel, "body", d))
    BY <1>3 DEF TailCall, In
  <2>2. d \in Depths
    <3>1. callDepth = Top.at.cs + 1 /\ Top.at \in Depths
      BY <2>1, TopFacts
    <3>2. callDepth - 1 \in Nat
      BY <3>1 DEF Depths
    <3>3. d = [sc |-> Len(scopes), ev |-> evalDepth, cx |-> ctxDepth,
               cs |-> callDepth - 1, dh |-> dieDepth]
      BY DEF Live
    <3> QED BY <3>2, <3>3 DEF Depths, IInv, TypeOK
  <2> HIDE DEF d
  <2> QED BY <2>1, <2>2, PhaseNames, CarefulStack
<1>4. CASE TailReturn \/ NoTarget
  <2>1. stack # <<>> /\ stack' = SetPhase("close") /\ UNCHANGED <<flow, pending>>
    BY <1>4 DEF TailReturn, NoTarget, In
  <2> QED BY <2>1, PhaseNames, CarefulPhase
<1>5. ASSUME Popping, pending' = pending, NEW g \in Flows, Complete(g),
             Top.held.t = "Exit" => g.t = "Exit" \/ Top.kind \in ExitSinks
      PROVE  Careful
  BY <1>1, <1>5, CarefulComplete
<1>6. ASSUME Popping, pending' = pending, Top.held.t # "Exit", NEW p \in Phases, Hold(p, None),
             p \notin {"unwind", "close"}
      PROVE  Careful
  BY <1>0, <1>1, <1>6, ExitTags, CarefulHold DEF Hold
<1>7. ASSUME Popping, pending' = pending, stack' = SetHeld("close", Top.held)
      PROVE  Careful
  BY <1>1, <1>7, PhaseNames, ExitTags, CarefulHold
<1>8. CASE LoopUnwinds
  <2>1. Popping /\ pending' = pending
    BY <1>8 DEF LoopUnwinds, Popped
  <2>2. \/ Top.held.t # "Exit" /\ \E p \in {"continue", "test", "body"} : Hold(p, None)
        \/ Top.held.t # "Exit" /\ Leave(None)
        \/ Leave(Top.held)
    BY <1>8 DEF LoopUnwinds
  <2>3. CASE Top.held.t # "Exit" /\ \E p \in {"continue", "test", "body"} : Hold(p, None)
    BY <1>6, <2>1, <2>3, PhaseNames
  <2>4. CASE Top.held.t # "Exit" /\ Leave(None)
    <3>1. CASE Complete(None)
      BY <1>0, <1>5, <2>1, <2>4, <3>1
    <3>2. CASE Hold("close", None)
      BY <1>0, <1>1, <2>1, <2>4, <3>2, PhaseNames, ExitTags, CarefulHold DEF Hold
    <3> QED BY <2>4, <3>1, <3>2 DEF Leave, Hold
  <2>5. CASE Leave(Top.held)
    <3>1. CASE Complete(Top.held)
      BY <1>1, <1>5, <2>1, <3>1
    <3>2. CASE Hold("close", Top.held)
      BY <1>7, <2>1, <3>2 DEF Hold
    <3> QED BY <2>5, <3>1, <3>2 DEF Leave, Hold
  <2> QED BY <2>2, <2>3, <2>4, <2>5
<1>9. CASE ContBodyUnwinds \/ BareCloses
  <2>1. Popping /\ pending' = pending
    BY <1>9 DEF ContBodyUnwinds, BareCloses, Popped
  <2>2. \/ Top.held.t # "Exit" /\ \E p \in {"continue", "body"} : Hold(p, None)
        \/ Top.held.t # "Exit" /\ Complete(None)
        \/ Complete(Top.held)
    BY <1>9 DEF ContBodyUnwinds, BareCloses, Jump
  <2>3. CASE Top.held.t # "Exit" /\ \E p \in {"continue", "body"} : Hold(p, None)
    BY <1>6, <2>1, <2>3, PhaseNames
  <2> QED BY <1>0, <1>1, <1>5, <2>1, <2>2, <2>3
<1>10. CASE ContCloses \/ PlainCloses \/ NamedCloses
  <2>1. Popping /\ pending' = pending
    BY <1>10 DEF ContCloses, PlainCloses, NamedCloses, Popped
  <2>2. (Top.held.t # "Exit" /\ Complete(None)) \/ Complete(Top.held)
    BY <1>10, ExitTags DEF ContCloses, PlainCloses, NamedCloses
  <2> QED BY <1>0, <1>1, <1>5, <2>1, <2>2
<1>11. CASE EvalCloses \/ EvalExprCloses \/ DoCloses
  <2>1. Popping /\ stack' = Pop /\ Top.kind \in ExitSinks
    BY <1>11 DEF EvalCloses, EvalExprCloses, DoCloses, Popped, ExitSinks, Complete
  <2> QED BY <1>1, <2>1, CarefulPop
<1>12. CASE SubReturns
  <2>1. Popping /\ stack' = Pop
    BY <1>12 DEF SubReturns, Popped
  <2>2. \/ pending' = pending /\ Top.held.t # "Exit"
        \/ pending' = Top.held /\ Top.held.t \in {"Die", "Last", "Next", "Exit"}
    BY <1>12 DEF SubReturns, ParkedBySub
  <2>3. ExitHere => pending.t = "Exit" \/ Top.held.t = "Exit"
    BY <1>1, <2>1, ExitTags DEF ExitHere
  <2> QED BY <1>1, <2>1, <2>2, <2>3, CarefulPop
<1>13. CASE ListBlockCloses
  <2>1. Popping /\ pending' = pending /\ Top.kind \in ExitSinks
    BY <1>13 DEF ListBlockCloses, Popped, ExitSinks
  <2>2. Hold("body", None) \/ stack' = Pop
    BY <1>13 DEF ListBlockCloses
  <2> QED BY <1>0, <1>1, <2>1, <2>2, PhaseNames, ExitTags, CarefulPop, CarefulHold DEF Hold
<1>14. CASE ProgramEnds
  <2>1. Popping /\ stack' = Pop /\ pending' = pending
    BY <1>14 DEF ProgramEnds, Popped
  <2>2. Top.held.t = "Exit" => outcome' = "exit"
    BY <1>14 DEF ProgramEnds
  <2>3. ExitHere => pending.t = "Exit" \/ Top.held.t = "Exit"
    BY <1>1, <2>1, ExitTags DEF ExitHere
  <2> QED BY <1>1, <2>1, <2>2, <2>3, CarefulPop
<1> QED BY <1>2, <1>3, <1>4, <1>8, <1>9, <1>10, <1>11, <1>12, <1>13, <1>14 DEF Unwinding

\* Every step of a program with an open construct is careful,
LEMMA NextCareful == ASSUME IInv, HeldInv, [Next]_vars, stack # <<>> PROVE Careful
<1>1. CASE UNCHANGED vars
  BY <1>1, CarefulStay DEF vars
<1> QED BY <1>1, StatementCareful, ExpressionCareful, ConditionsCareful, ListEndsCareful,
           UnwindingCareful DEF Next, Terminated

\* and one without changes nothing.
LEMMA NextEnded == ASSUME [Next]_vars, stack = <<>> PROVE UNCHANGED vars
<1> USE DEF AtStmt, InExpr, In, Ended, Popped, Popping
<1>1. ~Statement
  BY DEF Statement, JumpStmt, DeferStmt, TailExpr, EndOfList, ExprStmt, EnterBlock
<1>2. ~Expression
  BY DEF Expression, RaiseDie, CallExit, EnterCall, Operand, FinishStmt, FinishMyOrReturn,
         FinishPrint, FinishDie, CallHandler, FinishHandler, FinishTail, FinishCond, FinishList,
         FinishInit
<1>3. ~Conditions
  BY DEF Conditions, EvalOwnExpr, SkipOwnExpr, EnterBody, ElsIf, CondFails, UntilEnds,
         FreedValue, FinishStep
<1>4. ~ListEnds
  BY DEF ListEnds, BodyEnds, EvalBodyEnds, ForBodyEnds, ContinueEnds, SubBodyEnds,
         ListSubBodyEnds, DoBodyEnds, ListBlockEnds, LastStmtEnds, EnterBranch, BranchEnds,
         DeferEnds
<1>5. ~Unwinding
  BY DEF Unwinding, RunDefer, Destroy, TailCall, TailReturn, NoTarget, LoopUnwinds,
         ContBodyUnwinds, ContCloses, PlainCloses, BareCloses, NamedCloses, EvalCloses,
         EvalExprCloses, SubReturns, DoCloses, ListBlockCloses, ProgramEnds
<1> QED BY <1>1, <1>2, <1>3, <1>4, <1>5 DEF Next, Terminated

\* A frame holds a Flow while it unwinds only.
LEMMA HeldInductive == Spec => [](IInv /\ HeldInv)
<1>1. Init => IInv /\ HeldInv
  BY InitIInv DEF Init, HeldInv, HeldOK
<1>2. IInv /\ HeldInv /\ [Next]_vars => IInv' /\ HeldInv'
  <2> SUFFICES ASSUME IInv, HeldInv, [Next]_vars PROVE HeldInv'
    BY NextIInv
  <2>1. CASE stack = <<>>
    BY <2>1, NextEnded DEF vars, HeldInv
  <2>2. CASE stack # <<>>
    BY <2>2, NextCareful DEF Careful
  <2> QED BY <2>1, <2>2
<1> QED BY <1>1, <1>2, PTL DEF Spec

\* An Exit that is raised, in whatever program, ends it, or is lost in one of the
\* places that ExitKept lists: no if, loop, bare, labelled or continue block, no
\* statement and no call in scalar context drops it.
THEOREM ExitIsKept == Spec => ExitKept
<1> DEFINE A == ExitInFlight /\ ~ExitInFlight' =>
                  \/ outcome' = "exit"
                  \/ Top.kind \in ExitSinks
                  \/ Top.phase \in {"init", "handler"}
                  \/ pending.t = "Exit" /\ pending'.t \in {"Die", "Last", "Next"}
<1>1. IInv /\ HeldInv /\ [Next]_vars => [A]_vars
  <2> SUFFICES ASSUME IInv, HeldInv, [Next]_vars, ExitInFlight, ~ExitInFlight'
               PROVE  ExitTaken \/ UNCHANGED vars
    BY DEF ExitTaken
  <2>1. CASE stack = <<>>
    BY <2>1, NextEnded
  <2>2. CASE stack # <<>>
    <3>1. AroundKept /\ (ExitHere => ExitTaken)
      BY <2>2, NextCareful DEF Careful
    <3>2. ~ExitHere => \E i \in 1..(Len(stack) - 1) : stack[i].held.t = "Exit"
      <4>1. \A i \in 1..Len(stack) : i = Len(stack) \/ i \in 1..(Len(stack) - 1)
        <5> DEFINE n == Len(stack)
        <5>1. n \in Nat
          BY <2>2, TopFacts
        <5> HIDE DEF n
        <5>2. \A i \in 1..n : i = n \/ i \in 1..(n - 1)
          BY <5>1
        <5> QED BY <5>2 DEF n
      <4> QED BY <4>1 DEF ExitInFlight, ExitHere, Top
    <3>3. ~ExitHere => ExitInFlight'
      BY <3>1, <3>2 DEF AroundKept, ExitInFlight
    <3> QED BY <3>1, <3>3
  <2> QED BY <2>1, <2>2
<1> QED BY <1>1, HeldInductive, PTL DEF Spec, ExitKept

-----------------------------------------------------------------------------
\* A loop that is being unwound does nothing else.
LEMMA OnlyUnwinding ==
    ASSUME Next, stack # <<>>, Top.kind \in LoopKinds, Top.phase \in {"unwind", "close"}
    PROVE  Unwinding /\ Top.kind \notin {"subS", "subL", "do", "doL", "map", "evalS", "evalE", "file"}
<1> USE DEF AtStmt, InExpr, In, Ended, LoopKinds, ListPhases
<1>1. ~Statement
  BY DEF Statement, JumpStmt, DeferStmt, TailExpr, EndOfList, ExprStmt, EnterBlock
<1>2. ~Expression
  BY DEF Expression, RaiseDie, CallExit, EnterCall, Operand, FinishStmt, FinishMyOrReturn,
         FinishPrint, FinishDie, CallHandler, FinishHandler, FinishTail, FinishCond, FinishList,
         FinishInit
<1>3. ~Conditions
  BY DEF Conditions, EvalOwnExpr, SkipOwnExpr, EnterBody, ElsIf, CondFails, UntilEnds,
         FreedValue, FinishStep
<1>4. ~ListEnds
  BY DEF ListEnds, BodyEnds, EvalBodyEnds, ForBodyEnds, ContinueEnds, SubBodyEnds,
         ListSubBodyEnds, DoBodyEnds, ListBlockEnds, LastStmtEnds, EnterBranch, BranchEnds,
         DeferEnds, ScopedBody
<1> QED BY <1>1, <1>2, <1>3, <1>4 DEF Next, Terminated

\* A labelled last, next or redo is absorbed only by a loop or block with that
\* label, whatever loops, blocks, conditionals and deferred blocks it passes: all
\* others are left, and hand it on as it is.
THEOREM LabelIsRespected == Spec => LabelRespected
<1> DEFINE P == /\ stack # <<>>
                /\ Top.kind \in LoopKinds /\ Top.phase \in {"unwind", "close"}
                /\ Top.held.t \in {"Last", "Next", "Redo"}
                /\ Top.held.l \notin {NoLabel, Top.label}
                /\ Len(stack') <= Len(stack)
           Q == \/ stack' # <<>> /\ stack'[Len(stack')].held = Top.held
                \/ Leaving(LoopKinds) /\ flow' = Top.held
<1>1. IInv /\ HeldInv /\ [Next]_vars => [P => Q]_vars
  <2> SUFFICES ASSUME IInv, HeldInv, Next, P PROVE Q
    OBVIOUS
  <2>0. Unwinding /\ Top.kind \notin {"subS", "subL", "do", "doL", "map", "evalS", "evalE", "file"}
    BY OnlyUnwinding
  <2>1. /\ Top \in Frames /\ Top.held \in Flows /\ Len(stack) \in Nat /\ Len(stack) > 0
        /\ ~Mine(Top.held.l) /\ Top.held.t \notin {"None", "Goto"} /\ Top.held # None
    BY TopFacts DEF Frames, Mine, None, Flow
  <2>2. ASSUME stack' = Pop, flow' \in AfterStmt(Parent, Top.held, retPending') PROVE Q
    <3>1. Len(stack') = Len(stack) - 1
      BY <2>2, PopHeld
    <3>2. flow' = Top.held
      BY <2>1, <2>2 DEF AfterStmt
    <3>3. Len(stack') < Len(stack)
      BY <2>1, <3>1
    <3> QED BY <3>2, <3>3 DEF Leaving
  <2>3. ASSUME stack' = SetHeld("close", Top.held) PROVE Q
    <3>1. PICK f \in Frames : HeldOK(f) /\ f.held = Top.held /\ stack' = ReplaceTop(f)
      BY <2>1, <2>3, PhaseNames, MovedHeld DEF SetHeld
    <3>2. Len(stack') = Len(stack) /\ stack'[Len(stack)] = f
      BY <3>1, ReplaceHeld
    <3>3. stack' # <<>>
      BY <2>1, <3>2
    <3> QED BY <3>1, <3>2, <3>3
  <2>4. ASSUME Len(stack') = Len(stack) + 1 PROVE FALSE
    BY <2>1, <2>4
  <2>5. CASE RunDefer \/ Destroy
    <3>1. \E f : stack' = Append(stack, f)
      BY <2>5 DEF RunDefer, Destroy
    <3>2. Len(stack') = Len(stack) + 1
      BY <3>1, TopFacts
    <3> QED BY <2>4, <3>2
  <2>6. CASE LoopUnwinds
    <3>1. Leave(Top.held)
      BY <2>1, <2>6 DEF LoopUnwinds
    <3> QED BY <2>2, <2>3, <3>1 DEF Leave, Complete
  <2>7. CASE ContBodyUnwinds \/ ContCloses \/ PlainCloses \/ BareCloses \/ NamedCloses
    <3>1. Complete(Top.held)
      BY <2>1, <2>7 DEF ContBodyUnwinds, ContCloses, PlainCloses, BareCloses, NamedCloses, Jump
    <3> QED BY <2>2, <3>1 DEF Complete
  <2> QED BY <2>0, <2>5, <2>6, <2>7 DEF Unwinding, TailCall, TailReturn, NoTarget, EvalCloses,
             EvalExprCloses, SubReturns, DoCloses, ListBlockCloses, ProgramEnds, In
<1> QED BY <1>1, HeldInductive, PTL DEF Spec, LabelRespected

-----------------------------------------------------------------------------
(***************************************************************************)
(* Exceptions.  PendingOwned and EvalTraps are not true of every program:  *)
(* a condition, the list of a foreach, the arguments of print or die and an *)
(* operand do not look at pending_flow, nor does a deferred block or a     *)
(* destructor hand it to anyone; a statement that takes pending_return     *)
(* leaves pending_flow to the next one; a map block goes on to the next    *)
(* item.  Of the programs without those they are true, and it is enough    *)
(* that the frames say who opened whom: a call is in an expression, or in  *)
(* the sub whose place it has taken.                                       *)
(***************************************************************************)
LookingSites == {"stmt", "my", "return", "step", "init", "tail"}
Looked == Sites \subseteq LookingSites /\ Constructs \cap {"do", "map"} = {}

Owner(f) == \/ f.kind = "expr"
            \/ f.kind \in {"subS", "subL", "doL"} /\ f.phase \in {"close", "tailed"}
Allowed(f) == /\ f.kind \notin {"do", "map", "defer"}
              /\ f.kind = "expr" => f.phase \in LookingSites
Opened(f, g) ==
    g.kind \in CallKinds => \/ f.kind = "expr"
                            \/ g.kind = "subS" /\ f.kind = "subS" /\ f.phase = "tailed"
ChainOK(s) == \A i \in 1..Len(s) : /\ Allowed(s[i])
                                   /\ i > 1 => s[i].at.sc > 0 /\ Opened(s[i - 1], s[i])
NoDefers(sc) == \A i \in 1..Len(sc) : sc[i] = 0

OwnedInv ==
    /\ ChainOK(stack)
    /\ NoDefers(scopes)
    /\ ~retPending
    /\ pending # None => stack # <<>> /\ Owner(Top)

\* The chain is kept by a frame that is opened,
LEMMA PushChain ==
    ASSUME IInv, ChainOK(stack), stack # <<>>, NEW f \in Frames, Allowed(f), f.at.sc > 0,
           Opened(Top, f), stack' = Append(stack, f)
    PROVE  ChainOK(stack') /\ stack' # <<>> /\ stack'[Len(stack')] = f
<1> DEFINE s == stack
           t == stack'
           n == Len(s)
<1>1. s \in Seq(Frames) /\ s # <<>> /\ t = Append(s, f) /\ Opened(s[n], f)
  BY DEF IInv, TypeOK, Top
<1>2. ChainOK(s)
  OBVIOUS
<1> HIDE DEF s, t
<1>3. /\ Len(t) = n + 1 /\ n \in Nat /\ n > 0 /\ t[n + 1] = f
      /\ \A i \in 1..n : t[i] = s[i]
  BY <1>1
<1> HIDE DEF n
<1>4. ASSUME NEW i \in 1..(n + 1)
      PROVE  Allowed(t[i]) /\ (i > 1 => t[i].at.sc > 0 /\ Opened(t[i - 1], t[i]))
  <2>1. CASE i = n + 1
    <3>1. i - 1 = n /\ t[i - 1] = s[n] /\ t[i] = f
      BY <1>3, <2>1
    <3> QED BY <1>1, <3>1
  <2>2. CASE i # n + 1
    <3>1. i \in 1..n /\ (i > 1 => i - 1 \in 1..n)
      BY <1>3, <2>2
    <3>2. t[i] = s[i] /\ (i > 1 => t[i - 1] = s[i - 1])
      BY <1>3, <3>1
    <3>3. Allowed(s[i]) /\ (i > 1 => s[i].at.sc > 0 /\ Opened(s[i - 1], s[i]))
      BY <1>2, <3>1 DEF ChainOK, n
    <3> QED BY <3>2, <3>3
  <2> QED BY <2>1, <2>2
<1>5. ChainOK(t)
  BY <1>3, <1>4 DEF ChainOK
<1>6. t # <<>> /\ t[Len(t)] = f
  BY <1>3
<1> QED BY <1>5, <1>6 DEF t

\* by one that goes on to another phase,
LEMMA ReplaceChain ==
    ASSUME IInv, ChainOK(stack), stack # <<>>, NEW f \in Frames, Allowed(f), f.at = Top.at,
           f.kind = Top.kind, stack' = ReplaceTop(f)
    PROVE  ChainOK(stack') /\ stack' # <<>> /\ stack'[Len(stack')] = f
<1> DEFINE s == stack
           t == stack'
           n == Len(s)
<1>1. /\ s \in Seq(Frames) /\ s # <<>> /\ t = [s EXCEPT ![n] = f]
      /\ f.at = s[n].at /\ f.kind = s[n].kind
  BY DEF IInv, TypeOK, Top, ReplaceTop
<1>2. ChainOK(s)
  OBVIOUS
<1> HIDE DEF s, t
<1>3. /\ Len(t) = n /\ n \in Nat /\ n > 0 /\ t[n] = f /\ n \in 1..n
      /\ \A i \in 1..n : i # n => t[i] = s[i]
  BY <1>1
<1> HIDE DEF n
<1>4. ASSUME NEW i \in 1..n
      PROVE  Allowed(t[i]) /\ (i > 1 => t[i].at.sc > 0 /\ Opened(t[i - 1], t[i]))
  <2>1. i > 1 => i - 1 \in 1..n /\ i - 1 # n /\ t[i - 1] = s[i - 1]
    BY <1>3
  <2>2. Allowed(s[i]) /\ (i > 1 => s[i].at.sc > 0 /\ Opened(s[i - 1], s[i]))
    BY <1>2 DEF ChainOK, n
  <2>3. CASE i = n
    BY <1>1, <1>3, <2>1, <2>2, <2>3 DEF Opened
  <2>4. CASE i # n
    BY <1>3, <2>1, <2>2, <2>4
  <2> QED BY <2>3, <2>4
<1>5. ChainOK(t)
  BY <1>3, <1>4 DEF ChainOK
<1>6. t # <<>> /\ t[Len(t)] = f
  BY <1>3
<1> QED BY <1>5, <1>6 DEF t

\* by both at once,
LEMMA StackChain ==
    ASSUME IInv, ChainOK(stack), stack # <<>>, NEW f \in Frames, NEW g \in Frames,
           Allowed(f), f.at = Top.at, f.kind = Top.kind, Allowed(g), g.at.sc > 0, Opened(f, g),
           stack' = Append(ReplaceTop(f), g)
    PROVE  ChainOK(stack')
<1> DEFINE s == stack
           t == stack'
           n == Len(s)
<1>1. /\ s \in Seq(Frames) /\ s # <<>> /\ t = Append([s EXCEPT ![n] = f], g)
      /\ f.at = s[n].at /\ f.kind = s[n].kind
  BY DEF IInv, TypeOK, Top, ReplaceTop
<1>2. ChainOK(s)
  OBVIOUS
<1> HIDE DEF s, t
<1>3. /\ Len(t) = n + 1 /\ n \in Nat /\ n > 0 /\ t[n] = f /\ t[n + 1] = g /\ n \in 1..n
      /\ \A i \in 1..n : i # n => t[i] = s[i]
  BY <1>1
<1> HIDE DEF n
<1>4. ASSUME NEW i \in 1..(n + 1)
      PROVE  Allowed(t[i]) /\ (i > 1 => t[i].at.sc > 0 /\ Opened(t[i - 1], t[i]))
  <2>1. CASE i = n + 1
    <3>1. i - 1 = n /\ t[i - 1] = f /\ t[i] = g
      BY <1>3, <2>1
    <3> QED BY <3>1
  <2>2. CASE i # n + 1
    <3>1. i \in 1..n /\ (i > 1 => i - 1 \in 1..n /\ i - 1 # n /\ t[i - 1] = s[i - 1])
      BY <1>3, <2>2
    <3>2. Allowed(s[i]) /\ (i > 1 => s[i].at.sc > 0 /\ Opened(s[i - 1], s[i]))
      BY <1>2, <3>1 DEF ChainOK, n
    <3>3. CASE i = n
      BY <1>1, <1>3, <3>1, <3>2, <3>3 DEF Opened
    <3>4. CASE i # n
      BY <1>3, <3>1, <3>2, <3>4
    <3> QED BY <3>3, <3>4
  <2> QED BY <2>1, <2>2
<1>5. ChainOK(t)
  BY <1>3, <1>4 DEF ChainOK
<1> QED BY <1>5 DEF t

\* by one that is left,
LEMMA PopChain ==
    ASSUME IInv, ChainOK(stack), stack # <<>>, stack' = Pop
    PROVE  /\ ChainOK(stack')
           /\ Top.kind # "file" => /\ stack' # <<>> /\ stack'[Len(stack')] = Parent
                                   /\ Opened(Parent, Top) /\ Allowed(Parent)
<1> DEFINE s == stack
           t == stack'
           n == Len(s) - 1
<1>1. s \in Seq(Frames) /\ s # <<>> /\ t = SubSeq(s, 1, n)
  BY DEF IInv, TypeOK, Pop
<1>2. ChainOK(s)
  OBVIOUS
<1> HIDE DEF s, t
<1>3. n \in Nat /\ Len(s) = n + 1 /\ \A i \in 1..n : s[i] \in Frames
  BY <1>1
<1>4. Len(t) = n /\ \A i \in 1..n : t[i] = s[i]
  <2> HIDE DEF n
  <2> QED BY <1>1, <1>3, Prefix
<1> HIDE DEF n
<1>5. ASSUME NEW i \in 1..(n + 1)
      PROVE  Allowed(s[i]) /\ (i > 1 => s[i].at.sc > 0 /\ Opened(s[i - 1], s[i]))
  BY <1>2, <1>3 DEF ChainOK
<1>6. ASSUME NEW i \in 1..n
      PROVE  Allowed(t[i]) /\ (i > 1 => t[i].at.sc > 0 /\ Opened(t[i - 1], t[i]))
  <2>1. i \in 1..(n + 1) /\ (i > 1 => i - 1 \in 1..n) /\ t[i] = s[i]
    BY <1>3, <1>4
  <2>2. i > 1 => t[i - 1] = s[i - 1]
    BY <1>4, <2>1
  <2> QED BY <1>5, <2>1, <2>2
<1>7. ChainOK(t)
  BY <1>4, <1>6 DEF ChainOK
<1>8. ASSUME Top.kind # "file"
      PROVE  /\ t # <<>> /\ t[Len(t)] = Parent /\ Opened(Parent, Top) /\ Allowed(Parent)
  <2>1. n > 0 /\ n \in Nat
    BY <1>8, HasParent DEF n, s
  <2>2. Parent = s[n] /\ Top = s[n + 1]
    BY <1>3 DEF Parent, Top, n, s
  <2>3. n \in 1..n /\ n + 1 \in 1..(n + 1) /\ n \in 1..(n + 1) /\ (n + 1) - 1 = n /\ n + 1 > 1
    BY <2>1
  <2>4. t # <<>> /\ t[n] = s[n]
    BY <1>4, <2>1, <2>3
  <2> QED BY <1>4, <1>5, <2>2, <2>3, <2>4
<1> QED BY <1>7, <1>8 DEF t

\* and by going back to the frame around it,
LEMMA PopToChain ==
    ASSUME IInv, ChainOK(stack), stack # <<>>, Top.kind # "file", NEW f \in Frames, Allowed(f),
           f.at = Parent.at, f.kind = Parent.kind, stack' = PopTo(f)
    PROVE  ChainOK(stack') /\ stack' # <<>> /\ stack'[Len(stack')] = f
<1> DEFINE s == stack
           t == stack'
           n == Len(s) - 1
           u == SubSeq(s, 1, n)
<1>1. /\ s \in Seq(Frames) /\ s # <<>> /\ t = [u EXCEPT ![n] = f]
      /\ f.at = s[n].at /\ f.kind = s[n].kind
  BY DEF IInv, TypeOK, Pop, PopTo, Parent
<1>2. ChainOK(s)
  OBVIOUS
<1>3. /\ u \in Seq(Frames) /\ Len(u) = n /\ u # <<>> /\ n \in Nat /\ n > 0
  BY PopFrame, HasParent DEF IInv, TypeOK, Top
<1> HIDE DEF s, t
<1>4. Len(s) = n + 1 /\ \A i \in 1..n : s[i] \in Frames
  BY <1>1
<1>5. \A i \in 1..n : u[i] = s[i]
  <2> HIDE DEF n
  <2> QED BY <1>1, <1>3, <1>4, Prefix
<1> HIDE DEF n, u
<1>6. Len(t) = n /\ t[n] = f /\ n \in 1..n /\ \A i \in 1..n : i # n => t[i] = s[i]
  BY <1>1, <1>3, <1>5
<1>7. ASSUME NEW i \in 1..n
      PROVE  Allowed(t[i]) /\ (i > 1 => t[i].at.sc > 0 /\ Opened(t[i - 1], t[i]))
  <2>1. i > 1 => i - 1 \in 1..n /\ i - 1 # n /\ t[i - 1] = s[i - 1]
    BY <1>3, <1>6
  <2>2. Allowed(s[i]) /\ (i > 1 => s[i].at.sc > 0 /\ Opened(s[i - 1], s[i]))
    <3>1. i \in 1..Len(s)
      BY <1>3, <1>4
    <3> QED BY <1>2, <3>1 DEF ChainOK
  <2>3. CASE i = n
    BY <1>1, <1>6, <2>1, <2>2, <2>3 DEF Opened
  <2>4. CASE i # n
    BY <1>6, <2>1, <2>2, <2>4
  <2> QED BY <2>3, <2>4
<1>8. ChainOK(t)
  BY <1>6, <1>7 DEF ChainOK
<1>9. t # <<>> /\ t[Len(t)] = f
  BY <1>3, <1>6
<1> QED BY <1>8, <1>9 DEF t

\* None of the constructs of OwnedInv puts a deferred body in a scope, so none
\* is ever found there.
LEMMA NoDefersKept ==
    ASSUME TypeOK, NoDefers(scopes), scopes # <<>>
    PROVE  /\ NoDefers(PushScope) /\ NoDefers(PopScope) /\ TopScope = 0
<1> DEFINE s == scopes
<1>1. s \in Seq(Nat) /\ s # <<>> /\ \A i \in 1..Len(s) : s[i] = 0
  BY DEF TypeOK, NoDefers
<1> HIDE DEF s
<1>2. s[Len(s)] = 0
  BY <1>1
<1>3. \A i \in 1..Len(Append(s, 0)) : Append(s, 0)[i] = 0
  BY <1>1
<1>4. \A i \in 1..Len(SubSeq(s, 1, Len(s) - 1)) : SubSeq(s, 1, Len(s) - 1)[i] = 0
  <2> DEFINE n == Len(s) - 1
  <2>1. n \in Nat /\ \A i \in 1..n : s[i] \in Nat /\ i \in 1..Len(s)
    BY <1>1
  <2> HIDE DEF n
  <2>2. Len(SubSeq(s, 1, n)) = n /\ \A i \in 1..n : SubSeq(s, 1, n)[i] = s[i]
    BY <2>1, Prefix
  <2>3. \A i \in 1..Len(SubSeq(s, 1, n)) : SubSeq(s, 1, n)[i] = 0
    BY <1>1, <2>1, <2>2
  <2> QED BY <2>3 DEF n
<1> QED BY <1>2, <1>3, <1>4 DEF NoDefers, PushScope, PopScope, TopScope, s

\* What OwnedInv says of the innermost frame: it is one of those allowed, it
\* has a scope to put a my in, and no deferred body waits there.
LEMMA OwnedTop ==
    ASSUME IInv, OwnedInv, stack # <<>>
    PROVE  /\ Allowed(Top) /\ Len(scopes) > 0 /\ TopScope = 0
           /\ Live.sc = Len(scopes) /\ Live \in Depths
           /\ NoDefers(PushScope) /\ NoDefers(PopScope)
           /\ ~Owner(Top) => pending = None
<1>1. /\ Len(stack) \in Nat /\ Len(stack) > 0 /\ Top.at \in Depths
      /\ Len(scopes) = Top.at.sc + Scopes(Top.kind, Top.phase)
  BY TopFacts
<1>2. Allowed(Top) /\ (Len(stack) > 1 => Top.at.sc > 0)
  <2>1. Len(stack) \in 1..Len(stack)
    BY <1>1
  <2> QED BY <2>1 DEF OwnedInv, ChainOK, Top
<1>3. Len(stack) = 1 => Top.kind = "file"
  BY DEF IInv, WellFormed, Top
<1>4. Scopes(Top.kind, Top.phase) \in Nat /\ (Top.kind = "file" => Scopes(Top.kind, Top.phase) = 1)
  BY DEF Scopes
<1>5. Top.at.sc \in Nat
  BY <1>1 DEF Depths
<1>6. Len(stack) = 1 \/ Len(stack) > 1
  <2> DEFINE n == Len(stack)
  <2>1. n \in Nat /\ n > 0
    BY <1>1
  <2> HIDE DEF n
  <2>2. n = 1 \/ n > 1
    BY <2>1
  <2> QED BY <2>2 DEF n
<1>7. Len(scopes) > 0
  <2> DEFINE n == Len(scopes)
             a == Top.at.sc
             b == Scopes(Top.kind, Top.phase)
  <2>1. n = a + b /\ a \in Nat /\ b \in Nat /\ (a > 0 \/ b = 1)
    BY <1>1, <1>2, <1>3, <1>4, <1>5, <1>6
  <2> HIDE DEF n, a, b
  <2>2. n > 0
    BY <2>1
  <2> QED BY <2>2 DEF n
<1>8. scopes # <<>>
  BY <1>7
<1>9. Live \in Depths /\ Live.sc = Len(scopes)
  BY LiveType DEF IInv, Live
<1>10. NoDefers(PushScope) /\ NoDefers(PopScope) /\ TopScope = 0
  BY <1>8, NoDefersKept DEF IInv, OwnedInv
<1> QED BY <1>2, <1>7, <1>9, <1>10 DEF OwnedInv

\* The kinds of step: a frame is opened, with nothing parked,
LEMMA OwnedPush ==
    ASSUME IInv, OwnedInv, stack # <<>>, NEW k \in Kinds, NEW l \in LabelsN, NEW p \in Phases,
           NEW d \in Depths, d.sc = Len(scopes), stack' = Append(stack, Frame(k, l, p, d)),
           k \notin {"do", "map", "defer"}, k = "expr" => p \in LookingSites,
           k \in CallKinds => Top.kind = "expr",
           ~retPending', pending' = None, scopes' \in {scopes, PushScope}
    PROVE  OwnedInv'
<1> DEFINE f == Frame(k, l, p, d)
<1>1. f \in Frames /\ f.kind = k /\ f.phase = p /\ f.at = d
  BY FrameType DEF IInv
<1>2. Len(scopes) > 0 /\ NoDefers(scopes')
  BY OwnedTop DEF OwnedInv
<1>3. stack' = Append(stack, f)
  OBVIOUS
<1> HIDE DEF f
<1>4. Allowed(f) /\ f.at.sc > 0 /\ Opened(Top, f)
  BY <1>1, <1>2 DEF Allowed, Opened
<1>5. ChainOK(stack')
  BY <1>1, <1>3, <1>4, PushChain DEF OwnedInv
<1> QED BY <1>2, <1>5 DEF OwnedInv

\* the innermost one goes on to another phase,
LEMMA OwnedMove ==
    ASSUME IInv, OwnedInv, stack # <<>>, NEW p \in Phases, NEW h \in Flows,
           stack' = SetPhase(p) \/ stack' = SetHeld(p, h), Top.kind # "expr",
           \/ pending' = None
           \/ Top.kind \in {"subS", "subL", "doL"} /\ p \in {"close", "tailed"},
           ~retPending', scopes' \in {scopes, PushScope, PopScope}
    PROVE  OwnedInv'
<1>1. PICK f \in Frames : /\ stack' = ReplaceTop(f) /\ f.kind = Top.kind
                          /\ f.at = Top.at /\ f.phase = p
  <2> DEFINE a == [Top EXCEPT !.phase = p]
             b == [Top EXCEPT !.phase = p, !.held = h]
  <2>1. Top \in Frames
    BY TopFacts
  <2>2. /\ a \in Frames /\ a.kind = Top.kind /\ a.at = Top.at /\ a.phase = p
        /\ b \in Frames /\ b.kind = Top.kind /\ b.at = Top.at /\ b.phase = p
    BY <2>1 DEF Frames
  <2>3. stack' = ReplaceTop(a) \/ stack' = ReplaceTop(b)
    BY DEF SetPhase, SetHeld
  <2> HIDE DEF a, b
  <2> QED BY <2>2, <2>3
<1>2. NoDefers(scopes') /\ Allowed(Top)
  BY OwnedTop DEF OwnedInv
<1>3. Allowed(f)
  BY <1>1, <1>2 DEF Allowed
<1>4. ChainOK(stack') /\ stack' # <<>> /\ stack'[Len(stack')] = f
  BY <1>1, <1>3, ReplaceChain DEF OwnedInv
<1>5. pending' # None => Owner(f)
  BY <1>1 DEF Owner
<1> QED BY <1>2, <1>4, <1>5 DEF OwnedInv, Top

\* it is left, and a jump it parks is its opener's to take,
LEMMA OwnedLeave ==
    ASSUME IInv, OwnedInv, stack # <<>>, stack' = Pop,
           pending' = None \/ Top.kind \in {"subS", "subL", "doL"},
           ~retPending', scopes' \in {scopes, PopScope}
    PROVE  OwnedInv'
<1>1. /\ ChainOK(stack')
      /\ Top.kind # "file" => stack' # <<>> /\ stack'[Len(stack')] = Parent /\ Opened(Parent, Top)
  BY PopChain DEF OwnedInv
<1>2. NoDefers(scopes')
  BY OwnedTop DEF OwnedInv
<1>3. pending' # None => Top.kind # "file" /\ Owner(Parent)
  BY <1>1 DEF Opened, Owner, CallKinds
<1> QED BY <1>1, <1>2, <1>3 DEF OwnedInv, Top

\* the frame around an expression goes on,
LEMMA OwnedResume ==
    ASSUME IInv, OwnedInv, InExpr, Top.phase \in {"tail", "init", "step"},
           NEW p \in Phases, NEW h \in Flows,
           \/ stack' = PopTo([Parent EXCEPT !.phase = p])
           \/ stack' = PopTo([Parent EXCEPT !.phase = p, !.held = h]),
           pending' = None \/ (Top.phase = "tail" /\ p = "close"),
           ~retPending', scopes' = scopes
    PROVE  OwnedInv'
<1>0. stack # <<>> /\ Top.kind = "expr" /\ Parent \in Frames /\ SiteOK(Parent, Top.phase)
  BY ExprTop DEF InExpr
<1>1. PICK f \in Frames : /\ stack' = PopTo(f) /\ f.kind = Parent.kind
                          /\ f.at = Parent.at /\ f.phase = p
  <2> DEFINE a == [Parent EXCEPT !.phase = p]
             b == [Parent EXCEPT !.phase = p, !.held = h]
  <2>1. /\ a \in Frames /\ a.kind = Parent.kind /\ a.at = Parent.at /\ a.phase = p
        /\ b \in Frames /\ b.kind = Parent.kind /\ b.at = Parent.at /\ b.phase = p
    BY <1>0 DEF Frames
  <2>2. stack' = PopTo(a) \/ stack' = PopTo(b)
    OBVIOUS
  <2> HIDE DEF a, b
  <2> QED BY <2>1, <2>2
<1>2. Allowed(Parent) /\ Parent.kind # "expr"
  <2>1. Len(stack) - 1 \in 1..Len(stack)
    BY <1>0, HasParent
  <2> QED BY <1>0, <2>1 DEF OwnedInv, ChainOK, Parent, SiteOK
<1>3. Allowed(f)
  BY <1>1, <1>2 DEF Allowed
<1>4. ChainOK(stack') /\ stack' # <<>> /\ stack'[Len(stack')] = f
  BY <1>0, <1>1, <1>3, PopToChain DEF OwnedInv
<1>5. pending' # None => Owner(f)
  BY <1>0, <1>1, <1>2 DEF Owner, SiteOK, Allowed
<1> QED BY <1>4, <1>5 DEF OwnedInv, Top

\* or nothing happens to the stack.
LEMMA OwnedStay ==
    ASSUME OwnedInv, stack' = stack, scopes' = scopes, retPending' = retPending,
           pending' = pending \/ (stack # <<>> /\ Owner(Top))
    PROVE  OwnedInv'
BY DEF OwnedInv, Top

\* Group by group of the actions of Next.
LEMMA StatementOwned == ASSUME Looked, IInv, OwnedInv, Statement PROVE OwnedInv'
<1> USE DEF registers
<1>1. ASSUME AtStmt
      PROVE  /\ stack # <<>> /\ pending = None /\ ~retPending /\ Live.sc = Len(scopes)
             /\ Live \in Depths
  <2>1. stack # <<>> /\ Top.phase \in ListPhases
    BY <1>1 DEF AtStmt
  <2>2. ~Owner(Top)
    BY <2>1, OwnedTop DEF Owner, Allowed, LookingSites, ListPhases
  <2> QED BY <2>1, <2>2, OwnedTop DEF OwnedInv
<1>2. CASE JumpStmt \/ EndOfList
  BY <1>2, OwnedStay DEF JumpStmt, EndOfList
<1>3. CASE DeferStmt
  BY <1>3 DEF DeferStmt, Looked, LookingSites
<1>4. ASSUME NEW site \in {"stmt", "my", "return", "print", "die", "tail"}, ExprStmt(site)
      PROVE  OwnedInv'
  <2>1. /\ AtStmt /\ stack' = Append(stack, Frame("expr", NoLabel, site, Live))
        /\ site \in LookingSites /\ UNCHANGED <<pending, retPending, scopes>>
    BY <1>4 DEF ExprStmt, Looked
  <2>2. site \in Phases /\ "expr" \in Kinds /\ "expr" \notin CallKinds
    BY PhaseNames DEF CallKinds
  <2> QED BY <1>1, <2>1, <2>2, PhaseNames, OwnedPush
<1>5. ASSUME NEW k \in BlockKinds, EnterBlock(k) PROVE OwnedInv'
  <2>1. /\ AtStmt /\ UNCHANGED <<pending, retPending>> /\ scopes' \in {scopes, PushScope}
    BY <1>5 DEF EnterBlock
  <2>2. PICK l \in LabelsOf(k) : stack' = Append(stack, Frame(k, l, EntryPhase(k), Live))
    BY <1>5 DEF EnterBlock
  <2>3. l \in LabelsN /\ EntryPhase(k) \in Phases
    BY PhaseNames DEF LabelsOf, EntryPhase
  <2>4. k \in Kinds /\ k \notin {"do", "map", "defer", "expr"} /\ k \notin CallKinds
    BY PhaseNames DEF BlockKinds, CallKinds
  <2> QED BY <1>1, <2>1, <2>2, <2>3, <2>4, OwnedPush
<1> QED BY <1>2, <1>3, <1>4, <1>5 DEF Statement, TailExpr

\* Conditions keep the owner of a parked jump: they call nothing (Looked).
LEMMA ConditionsOwned == ASSUME Looked, IInv, OwnedInv, Conditions PROVE OwnedInv'
<1> USE DEF registers
<1>0. pending \in Flows /\ None \in Flows /\ ~retPending
  BY FlowTypes DEF IInv, TypeOK, OwnedInv
<1>1. ASSUME NEW ks, NEW ps, In(ks, ps), ks \cap {"expr", "subS", "subL", "doL"} = {}
      PROVE  /\ stack # <<>> /\ pending = None /\ Top.kind # "expr"
             /\ Live.sc = Len(scopes) /\ Live \in Depths
  <2>1. stack # <<>> /\ Top.kind \in ks
    BY <1>1 DEF In
  <2>2. ~Owner(Top)
    BY <1>1, <2>1 DEF Owner
  <2> QED BY <1>1, <2>1, <2>2, OwnedTop
<1>2. CASE EvalOwnExpr
  <2>1. PICK site \in {"cond", "init", "step", "list"} :
           /\ In({"if", "while", "until", "for", "foreach"}, {"cond", "init", "step"})
           /\ OwnExpr(site)
    BY <1>2 DEF EvalOwnExpr, In
  <2>2. /\ stack' = Append(stack, Frame("expr", NoLabel, site, Live)) /\ site \in LookingSites
        /\ UNCHANGED <<pending, retPending, scopes>>
    BY <2>1 DEF OwnExpr, Looked
  <2>3. site \in Phases /\ "expr" \in Kinds /\ "expr" \notin CallKinds
    BY PhaseNames DEF CallKinds
  <2> QED BY <1>0, <1>1, <2>1, <2>2, <2>3, PhaseNames, OwnedPush
<1>3. CASE SkipOwnExpr \/ EnterBody \/ ElsIf \/ CondFails \/ FreedValue
  <2>1. /\ In({"if", "while", "until", "for", "foreach"}, {"cond", "init", "step", "test"})
        /\ UNCHANGED <<pending, retPending>> /\ scopes' \in {scopes, PushScope}
    BY <1>3 DEF SkipOwnExpr, EnterBody, ElsIf, CondFails, FreedValue, In
  <2>2. PICK p \in {"cond", "body", "close"}, h \in Flows :
           stack' = SetPhase(p) \/ stack' = SetHeld(p, h)
    BY <1>0, <1>3, FlowTypes DEF SkipOwnExpr, EnterBody, ElsIf, CondFails, FreedValue, FlowTags
  <2> QED BY <1>0, <1>1, <2>1, <2>2, PhaseTypes, OwnedMove
<1>4. CASE UntilEnds
  <2>1. /\ In({"until"}, {"cond", "test"}) /\ UNCHANGED <<pending, retPending, scopes>>
        /\ stack' = Pop
    BY <1>4 DEF UntilEnds, Complete
  <2> QED BY <1>0, <1>1, <2>1, OwnedLeave
<1>5. CASE FinishStep
  <2> DEFINE mine == pending.l = NoLabel \/ pending.l = Parent.label
             h == IF pending.t = "Last" /\ mine THEN None ELSE pending
  <2>1. PICK p \in {"cond", "close"} :
           \/ stack' = PopTo([Parent EXCEPT !.phase = p])
           \/ stack' = PopTo([Parent EXCEPT !.phase = p, !.held = h])
    BY <1>5 DEF FinishStep
  <2>2. h \in Flows
    BY <1>0
  <2>3. InExpr /\ Top.phase = "step" /\ UNCHANGED <<retPending, scopes>> /\ pending' = None
    BY <1>5 DEF FinishStep
  <2>4. p \in Phases /\ ~retPending' /\ Top.phase \in {"tail", "init", "step"}
    BY <1>0, <2>3, PhaseTypes
  <2> HIDE DEF h
  <2> QED BY <2>1, <2>2, <2>3, <2>4, OwnedResume
<1> QED BY <1>2, <1>3, <1>4, <1>5 DEF Conditions

\* So does what an expression does: what it parks is its own,
LEMMA ExpressionOwned == ASSUME Looked, IInv, OwnedInv, Expression PROVE OwnedInv'
<1> USE DEF registers
<1>0. None \in Flows /\ ~retPending
  BY FlowTypes DEF OwnedInv
<1>1. ASSUME InExpr
      PROVE  /\ stack # <<>> /\ Owner(Top) /\ Top.kind = "expr" /\ Top.phase \in LookingSites
             /\ Live.sc = Len(scopes) /\ Live \in Depths
  BY <1>1, OwnedTop DEF InExpr, Owner, Allowed
<1>2. CASE RaiseDie \/ CallExit
  BY <1>1, <1>2, OwnedStay DEF RaiseDie, CallExit, Operand
<1>3. ASSUME NEW k \in CallKinds, EnterCall(k) PROVE OwnedInv'
  <2>1. /\ InExpr /\ stack' = Append(stack, Frame(k, NoLabel, "body", Live))
        /\ k \in Constructs /\ UNCHANGED <<pending, retPending>> /\ scopes' = PushScope
        /\ pending = None
    BY <1>3 DEF EnterCall, Operand, Looked, LookingSites
  <2>2. k \in Kinds /\ k \notin {"do", "map", "defer", "expr"}
    BY <2>1, PhaseNames DEF CallKinds, Looked
  <2>3. NoLabel \in LabelsN /\ "body" \in Phases
    BY PhaseNames
  <2> QED BY <1>0, <1>1, <2>1, <2>2, <2>3, OwnedPush
<1>4. CASE FinishStmt \/ FinishMyOrReturn
  <2>1. /\ InExpr /\ stack' = Pop /\ scopes' = scopes /\ ~retPending' /\ pending' = None
    BY <1>0, <1>4 DEF FinishStmt, FinishMyOrReturn, Complete
  <2> QED BY <1>1, <2>1, OwnedLeave
<1>5. CASE FinishPrint \/ FinishDie \/ CallHandler \/ FinishHandler \/ FinishCond \/ FinishList
  <2>1. InExpr /\ Top.phase \in {"print", "die", "handler", "cond", "list"}
    BY <1>5 DEF FinishPrint, FinishDie, CallHandler, FinishHandler, FinishCond, FinishList
  <2> QED BY <1>1, <2>1 DEF LookingSites
<1>6. CASE FinishTail
  BY <1>0, <1>6, PhaseTypes, OwnedResume DEF FinishTail
<1>7. CASE FinishInit
  <2>1. /\ InExpr /\ Top.phase = "init" /\ stack' = PopTo([Parent EXCEPT !.phase = "cond"])
        /\ pending' = None /\ ~retPending' /\ scopes' = scopes
    BY <1>0, <1>7 DEF FinishInit
  <2>2. "cond" \in Phases
    BY PhaseTypes
  <2> QED BY <1>0, <2>1, <2>2, OwnedResume
<1> QED BY <1>2, <1>3, <1>4, <1>5, <1>6, <1>7 DEF Expression

\* and so do the ends of statement lists,
LEMMA ListEndsOwned == ASSUME Looked, IInv, OwnedInv, ListEnds PROVE OwnedInv'
<1> USE DEF registers
<1>0. None \in Flows /\ ~retPending /\ scopes \in {scopes, PushScope, PopScope}
  BY FlowTypes DEF OwnedInv
<1>1. ASSUME NEW ks, NEW ps, Ended(ks, ps) \/ In(ks, ps), ps \cap {"close", "tailed"} = {},
             "expr" \notin ks
      PROVE  /\ stack # <<>> /\ pending = None /\ Top.kind # "expr" /\ Top.kind \in ks
             /\ flow # Running => flow \in Flows
  <2>1. stack # <<>> /\ Top.kind \in ks /\ Top.phase \in ps
    BY <1>1 DEF Ended, In
  <2>2. ~Owner(Top) /\ Top.kind # "expr"
    BY <1>1, <2>1 DEF Owner
  <2> QED BY <2>1, <2>2, OwnedTop DEF IInv, TypeOK
<1>2. CASE \/ BodyEnds \/ EvalBodyEnds \/ ForBodyEnds \/ SubBodyEnds \/ ListSubBodyEnds
           \/ DoBodyEnds \/ ListBlockEnds \/ BranchEnds
  <2>1. PICK ks, ps : /\ Ended(ks, ps) /\ ps \cap {"close", "tailed"} = {} /\ "expr" \notin ks
    BY <1>2 DEF BodyEnds, EvalBodyEnds, ForBodyEnds, SubBodyEnds, ListSubBodyEnds, DoBodyEnds,
           ListBlockEnds, BranchEnds
  <2>2. /\ stack # <<>> /\ pending = None /\ Top.kind # "expr" /\ flow \in Flows
    BY <1>1, <2>1 DEF Ended
  <2>3. UNCHANGED <<pending, retPending, scopes>>
    BY <1>2 DEF BodyEnds, EvalBodyEnds, ForBodyEnds, SubBodyEnds, ListSubBodyEnds, DoBodyEnds,
           ListBlockEnds, BranchEnds
  <2>4. \/ stack' = stack
        \/ \E p \in {"close", "unwind", "body", "step", "tailcall", "last"}, h \in Flows :
             stack' = SetHeld(p, h)
    BY <1>0, <1>2, <2>2 DEF BodyEnds, EvalBodyEnds, ForBodyEnds, SubBodyEnds, ListSubBodyEnds,
           DoBodyEnds, ListBlockEnds, BranchEnds, Hold
  <2>5. CASE stack' = stack
    BY <2>3, <2>5, OwnedStay
  <2>6. ASSUME NEW p \in {"close", "unwind", "body", "step", "tailcall", "last"},
               NEW h \in Flows, stack' = SetHeld(p, h)
        PROVE  OwnedInv'
    <3>1. p \in Phases
      BY PhaseTypes
    <3> QED BY <1>0, <2>2, <2>3, <2>6, <3>1, OwnedMove
  <2> QED BY <2>4, <2>5, <2>6
<1>3. CASE ContinueEnds
  <2>1. Ended(ScopedBody, {"continue"}) /\ UNCHANGED <<pending, retPending, scopes>>
    BY <1>3 DEF ContinueEnds
  <2>2. stack # <<>> /\ pending = None /\ Top.kind # "expr" /\ flow \in Flows
    BY <1>1, <2>1 DEF ScopedBody, Ended
  <2>3. \/ stack' = Pop
        \/ \E p \in {"close", "cond"}, h \in Flows : stack' = SetHeld(p, h)
    BY <1>0, <1>3, <2>2 DEF ContinueEnds, Leave, Complete, Hold
  <2>4. CASE stack' = Pop
    BY <1>0, <2>1, <2>2, <2>4, OwnedLeave
  <2>5. ASSUME NEW p \in {"close", "cond"}, NEW h \in Flows, stack' = SetHeld(p, h)
        PROVE  OwnedInv'
    <3>1. p \in Phases
      BY PhaseTypes
    <3> QED BY <1>0, <2>1, <2>2, <2>5, <3>1, OwnedMove
  <2> QED BY <2>3, <2>4, <2>5
<1>4. CASE LastStmtEnds
  <2>1. /\ Ended({"doL", "map"}, {"last"}) /\ UNCHANGED <<retPending, scopes>>
        /\ stack' = SetHeld("close", None)
    BY <1>4 DEF LastStmtEnds, Hold
  <2>2. stack # <<>> /\ Top.kind \in {"doL", "map"} /\ Top.kind # "expr"
    BY <2>1 DEF Ended
  <2>3. Top.kind = "doL" /\ "close" \in Phases
    BY <2>2, OwnedTop, PhaseTypes DEF Allowed
  <2> QED BY <1>0, <2>1, <2>2, <2>3, OwnedMove
<1>5. CASE EnterBranch
  <2>1. /\ In({"doL", "map"}, {"last"}) /\ UNCHANGED <<pending, retPending, scopes>>
        /\ stack' = SetPhase("branch")
    BY <1>5 DEF EnterBranch
  <2>2. stack # <<>> /\ pending = None /\ Top.kind # "expr" /\ "branch" \in Phases
    BY <1>1, <2>1, PhaseTypes
  <2> QED BY <1>0, <2>1, <2>2, OwnedMove
<1>6. CASE DeferEnds
  BY <1>6, OwnedTop DEF DeferEnds, Ended, Allowed
<1> QED BY <1>2, <1>3, <1>4, <1>5, <1>6 DEF ListEnds

\* and deferred blocks and destructors.
LEMMA UnwindingOwned == ASSUME Looked, IInv, OwnedInv, Unwinding PROVE OwnedInv'
<1> USE DEF registers
<1>0. /\ None \in Flows /\ ~retPending /\ Live \in Depths
      /\ scopes \in {scopes, PushScope, PopScope} /\ PopScope \in {scopes, PushScope, PopScope}
      /\ scopes \in {scopes, PopScope} /\ PopScope \in {scopes, PopScope}
  BY FlowTypes, LiveType DEF IInv, OwnedInv
<1>1. ASSUME Popping
      PROVE  /\ stack # <<>> /\ Top.held \in Flows /\ TopScope = 0 /\ Top.kind # "expr"
             /\ Top.kind \notin {"do", "map", "defer"}
             /\ Top.kind \notin {"subS", "subL", "doL"} => pending = None
             /\ Top.phase = "tailcall" => pending = None
  <2>1. stack # <<>> /\ Top.phase \in {"unwind", "close", "tailcall"}
    BY <1>1 DEF Popping
  <2>2. Allowed(Top) /\ TopScope = 0 /\ (~Owner(Top) => pending = None)
    BY <2>1, OwnedTop
  <2>3. Top.kind # "expr"
    BY <2>1, <2>2 DEF Allowed, LookingSites
  <2>4. Top.held \in Flows
    BY <2>1, TopFacts DEF Frames
  <2> QED BY <2>1, <2>2, <2>3, <2>4 DEF Allowed, Owner
<1>2. CASE RunDefer
  <2>1. Popping /\ TopScope > 0
    BY <1>2 DEF RunDefer
  <2>2. TopScope = 0
    BY <1>1, <2>1
  <2> QED BY <2>1, <2>2
<1>3. CASE Destroy
  BY <1>3 DEF Destroy, Looked, LookingSites
<1>4. CASE TailCall
  <2>1. /\ stack # <<>> /\ Top.kind = "subS" /\ Top.phase = "tailcall"
        /\ stack' = Append(SetPhase("tailed"),
                           Frame("subS", NoLabel, "body", [Live EXCEPT !.cs = callDepth - 1]))
        /\ UNCHANGED <<pending, retPending>> /\ scopes' = PushScope
    BY <1>4 DEF TailCall, In
  <2> DEFINE d == [Live EXCEPT !.cs = callDepth - 1]
             f == [Top EXCEPT !.phase = "tailed"]
             g == Frame("subS", NoLabel, "body", d)
  <2>2. /\ pending = None /\ NoDefers(scopes') /\ Len(scopes) > 0 /\ Allowed(Top)
    <3>1. ~Owner(Top)
      BY <2>1 DEF Owner
    <3> QED BY <2>1, <3>1, OwnedTop
  <2>3. d \in Depths /\ d.sc = Len(scopes)
    <3>1. d = [sc |-> Len(scopes), ev |-> evalDepth, cx |-> ctxDepth, cs |-> callDepth - 1,
               dh |-> dieDepth]
      BY DEF Live
    <3>2. callDepth - 1 \in Nat
      BY <2>1, TopFacts, SMTT(30) DEF Depths
    <3> QED BY <3>1, <3>2 DEF Depths, IInv, TypeOK
  <2>4. /\ g \in Frames /\ g.kind = "subS" /\ g.at = d
    <3>1. "subS" \in Kinds /\ NoLabel \in LabelsN /\ "body" \in Phases
      BY PhaseNames
    <3> HIDE DEF d
    <3> QED BY <2>3, <3>1, FrameType DEF IInv
  <2>5. f \in Frames /\ f.kind = "subS" /\ f.phase = "tailed" /\ f.at = Top.at
    <3>1. Top \in Frames /\ "tailed" \in Phases
      BY <2>1, TopFacts, PhaseTypes
    <3> QED BY <2>1, <3>1 DEF Frames
  <2>6. stack' = Append(ReplaceTop(f), g)
    BY <2>1 DEF SetPhase
  <2> HIDE DEF d, f, g
  <2>7. Allowed(f) /\ Allowed(g) /\ g.at.sc > 0 /\ Opened(f, g)
    BY <2>2, <2>3, <2>4, <2>5 DEF Allowed, Opened
  <2>8. ChainOK(stack')
    BY <2>1, <2>4, <2>5, <2>6, <2>7, StackChain DEF OwnedInv
  <2> QED BY <1>0, <2>1, <2>2, <2>8 DEF OwnedInv
<1>5. CASE TailReturn \/ NoTarget
  <2>1. /\ stack # <<>> /\ Top.kind = "subS" /\ stack' = SetPhase("close")
        /\ UNCHANGED <<pending, retPending, scopes>>
    BY <1>5 DEF TailReturn, NoTarget, In
  <2>2. "close" \in Phases
    BY PhaseTypes
  <2> QED BY <1>0, <2>1, <2>2, OwnedMove
<1>6. CASE LoopUnwinds \/ ContBodyUnwinds \/ ContCloses \/ PlainCloses \/ BareCloses \/ NamedCloses
  <2>1. /\ Popping /\ Top.kind \notin {"subS", "subL", "doL"} /\ UNCHANGED <<pending, retPending>>
        /\ scopes' \in {scopes, PopScope}
    BY <1>6 DEF LoopUnwinds, ContBodyUnwinds, ContCloses, PlainCloses, BareCloses, NamedCloses,
           Popped, ScopedBody
  <2>2. \/ stack' = Pop
        \/ \E p \in {"continue", "test", "body", "close"}, h \in Flows : stack' = SetHeld(p, h)
    <3>1. Top.held \in Flows
      BY <1>1, <2>1
    <3> QED BY <1>0, <1>6, <3>1 DEF LoopUnwinds, ContBodyUnwinds, ContCloses, PlainCloses,
               BareCloses, NamedCloses, Leave, Hold, Complete
  <2>3. stack # <<>> /\ Top.kind # "expr" /\ pending' = None /\ ~retPending'
    BY <1>0, <1>1, <2>1
  <2>4. CASE stack' = Pop
    BY <2>1, <2>3, <2>4, OwnedLeave
  <2>5. ASSUME NEW p \in {"continue", "test", "body", "close"}, NEW h \in Flows,
               stack' = SetHeld(p, h)
        PROVE  OwnedInv'
    <3>1. p \in Phases /\ scopes' \in {scopes, PushScope, PopScope}
      BY <2>1, PhaseTypes
    <3> QED BY <2>3, <2>5, <3>1, OwnedMove
  <2> QED BY <2>2, <2>4, <2>5
<1>7. CASE EvalCloses \/ EvalExprCloses \/ ProgramEnds
  <2>1. /\ Popping /\ Top.kind \in {"evalS", "evalE", "file"} /\ stack' = Pop
        /\ retPending' = retPending /\ scopes' = PopScope /\ pending' \in {pending, None}
    BY <1>7 DEF EvalCloses, EvalExprCloses, ProgramEnds, Popped, Complete
  <2>2. stack # <<>> /\ pending' = None
    BY <1>1, <2>1
  <2> QED BY <1>0, <2>1, <2>2, OwnedLeave
<1>8. CASE SubReturns
  <2>1. /\ Popping /\ Top.kind \in {"subS", "subL"} /\ stack' = Pop /\ scopes' = PopScope
        /\ ~retPending'
    BY <1>0, <1>8 DEF SubReturns, Popped
  <2>2. stack # <<>>
    BY <2>1 DEF Popping
  <2> QED BY <1>0, <2>1, <2>2, OwnedLeave
<1>9. CASE DoCloses
  BY <1>1, <1>9 DEF DoCloses, Popped
<1>10. CASE ListBlockCloses
  <2>1. /\ Popping /\ Top.kind = "doL" /\ stack' = Pop /\ scopes' = PopScope
        /\ retPending' = retPending
    BY <1>1, <1>10 DEF ListBlockCloses, Popped
  <2>2. stack # <<>>
    BY <2>1 DEF Popping
  <2> QED BY <1>0, <2>1, <2>2, OwnedLeave
<1> QED BY <1>2, <1>3, <1>4, <1>5, <1>6, <1>7, <1>8, <1>9, <1>10 DEF Unwinding

\* In a program whose every operand is looked at, the frames say who takes a
\* parked jump.
LEMMA OwnedInductive == Looked => (Spec => [](IInv /\ OwnedInv))
<1> SUFFICES ASSUME Looked PROVE Spec => [](IInv /\ OwnedInv)
  OBVIOUS
<1>1. Init => IInv /\ OwnedInv
  <2> SUFFICES ASSUME Init PROVE OwnedInv
    BY InitIInv
  <2>1. /\ Len(stack) = 1 /\ stack[1].kind = "file" /\ Len(scopes) = 1 /\ scopes[1] = 0
        /\ pending = None /\ ~retPending
    BY DEF Init
  <2> QED BY <2>1 DEF OwnedInv, ChainOK, Allowed, NoDefers
<1>2. IInv /\ OwnedInv /\ [Next]_vars => IInv' /\ OwnedInv'
  <2> SUFFICES ASSUME IInv, OwnedInv, [Next]_vars PROVE OwnedInv'
    BY NextIInv
  <2>1. CASE UNCHANGED vars \/ Terminated
    BY <2>1, OwnedStay DEF vars, Terminated
  <2> QED BY <2>1, StatementOwned, ExpressionOwned, ConditionsOwned, ListEndsOwned,
             UnwindingOwned DEF Next
<1> QED BY <1>1, <1>2, PTL DEF Spec

\* While a die, exit or jump is parked, control is in the expression that raised
\* it, or is leaving the call it was raised in: no statement runs in between.
THEOREM PendingIsOwned == Looked => (Spec => []PendingOwned)
<1>1. OwnedInv => PendingOwned
  BY DEF OwnedInv, PendingOwned, Owner
<1> QED BY <1>1, OwnedInductive, PTL

\* An eval, as a statement or as an operand, is never left with an exception of
\* its own body on its way, and $@ says so if there was one.
THEOREM EvalsTrap == Looked => (Spec => EvalTraps)
<1> SUFFICES ASSUME Looked PROVE Spec => EvalTraps
  OBVIOUS
<1> DEFINE A == Leaving({"evalS", "evalE"}) /\ Top.clean =>
                  /\ pending'.t # "Die" /\ flow'.t # "Die"
                  /\ Top.held.t = "Die" \/ pending.t = "Die" => errsv'
<1>1. IInv /\ OwnedInv /\ [Next]_vars => [A]_vars
  <2> SUFFICES ASSUME IInv, OwnedInv, Next, Len(stack') < Len(stack), Top.kind \in {"evalS", "evalE"}
               PROVE  A
    BY DEF Leaving
  <2>0. stack # <<>>
    <3>1. Len(stack) \in Nat /\ Len(stack') \in Nat
      BY NextIInv DEF IInv, TypeOK
    <3> QED BY <3>1
  <2>1. Len(stack) \in Nat /\ Len(stack) > 0
    BY <2>0, TopFacts
  <2>2. ASSUME NEW f, stack' = Append(stack, f) PROVE FALSE
    BY <2>0, <2>1, <2>2, TopFacts
  <2>3. ASSUME NEW f, stack' = ReplaceTop(f) PROVE FALSE
    BY <2>0, <2>1, <2>3, TopFacts DEF ReplaceTop
  <2>4. stack' # stack
    BY <2>1
  <2>5. ~Statement
    BY <2>2, <2>4 DEF Statement, JumpStmt, DeferStmt, TailExpr, EndOfList, ExprStmt, EnterBlock
  <2>6. ~Expression
    BY DEF Expression, RaiseDie, CallExit, EnterCall, Operand, FinishStmt, FinishMyOrReturn,
           FinishPrint, FinishDie, CallHandler, FinishHandler, FinishTail, FinishCond, FinishList,
           FinishInit, InExpr
  <2>7. ~Conditions
    BY DEF Conditions, EvalOwnExpr, SkipOwnExpr, EnterBody, ElsIf, CondFails, UntilEnds,
           FreedValue, FinishStep, In, InExpr
  <2>8. ~ListEnds
    BY <2>3 DEF ListEnds, BodyEnds, EvalBodyEnds, ForBodyEnds, ContinueEnds, SubBodyEnds,
           ListSubBodyEnds, DoBodyEnds, ListBlockEnds, LastStmtEnds, EnterBranch, BranchEnds,
           DeferEnds, Ended, In, Hold, SetHeld, ScopedBody
  <2>9. EvalCloses \/ EvalExprCloses
    <3>1. Unwinding
      BY <2>5, <2>6, <2>7, <2>8, <2>4 DEF Next, Terminated, vars
    <3> QED BY <2>2, <3>1 DEF Unwinding, RunDefer, Destroy, TailCall, TailReturn, NoTarget,
               LoopUnwinds, ContBodyUnwinds, ContCloses, PlainCloses, BareCloses, NamedCloses,
               SubReturns, DoCloses, ListBlockCloses, ProgramEnds, In, ScopedBody
  <2>10. pending = None /\ flow = Running
    <3>1. ~Owner(Top)
      BY DEF Owner
    <3> QED BY <2>0, <2>9, <3>1, OwnedTop DEF EvalCloses, EvalExprCloses, Popped, Popping
  <2>11. None.t # "Die" /\ Running.t # "Die"
    BY DEF None, Running, Flow
  <2>12. CASE EvalCloses
    BY <2>10, <2>11, <2>12 DEF EvalCloses, Complete, AfterStmt
  <2>13. CASE EvalExprCloses
    BY <2>10, <2>11, <2>13 DEF EvalExprCloses
  <2> QED BY <2>9, <2>12, <2>13
<1> QED BY <1>1, OwnedInductive, PTL DEF Spec, EvalTraps

-----------------------------------------------------------------------------
(***************************************************************************)
(* Returns.  A return parked by a do block is taken by the statement the   *)
(* block is in, if that is a plain expression statement: my, return, print, *)
(* a condition and the others leave it parked, and it makes the sub around *)
(* them return later.  While it is parked, the expression it was parked in *)
(* is open and whatever has been opened above started with a full register. *)
(***************************************************************************)
OnlyStmts == Sites \subseteq {"stmt", "operand", "destroy", "defer", "handler"}

InStmt(s) == \A i \in 1..Len(s) : /\ s[i].kind = "expr" => s[i].phase = "stmt"
                                  /\ i > 1 /\ s[i].kind = "do" => s[i - 1].kind = "expr"
Parked(s) == \E i \in 1..Len(s) : /\ s[i].kind = "expr"
                                  /\ \A j \in (i + 1)..Len(s) : ~s[j].clean
ReturnInv == InStmt(stack) /\ (retPending => Parked(stack))

\* A frame is opened,
LEMMA PushReturn ==
    ASSUME NEW s \in Seq(Frames), s # <<>>, NEW f \in Frames, InStmt(s),
           f.kind = "expr" => f.phase = "stmt", f.kind = "do" => s[Len(s)].kind = "expr"
    PROVE  InStmt(Append(s, f)) /\ (Parked(s) /\ ~f.clean => Parked(Append(s, f)))
<1> DEFINE t == Append(s, f)
           n == Len(s)
<1>1. /\ Len(t) = n + 1 /\ n \in Nat /\ n > 0 /\ t[n + 1] = f
      /\ \A i \in 1..n : t[i] = s[i]
  OBVIOUS
<1>2. s[n].kind = "expr" \/ f.kind # "do"
  OBVIOUS
<1>3. \A i \in 1..n : /\ s[i].kind = "expr" => s[i].phase = "stmt"
                      /\ i > 1 /\ s[i].kind = "do" => s[i - 1].kind = "expr"
  BY DEF InStmt
<1>4. ASSUME Parked(s) PROVE \E i \in 1..n : s[i].kind = "expr" /\ \A j \in (i + 1)..n : ~s[j].clean
  BY <1>4 DEF Parked
<1> HIDE DEF t, n
<1>5. ASSUME NEW i \in 1..(n + 1)
      PROVE  /\ t[i].kind = "expr" => t[i].phase = "stmt"
             /\ i > 1 /\ t[i].kind = "do" => t[i - 1].kind = "expr"
  <2>1. CASE i = n + 1
    <3>1. i - 1 = n /\ n \in 1..n
      BY <1>1, <2>1
    <3> QED BY <1>1, <1>2, <2>1, <3>1
  <2>2. CASE i # n + 1
    <3>1. i \in 1..n /\ (i > 1 => i - 1 \in 1..n)
      BY <1>1, <2>2
    <3>2. t[i] = s[i] /\ (i > 1 => t[i - 1] = s[i - 1])
      BY <1>1, <3>1
    <3> QED BY <1>3, <3>1, <3>2
  <2> QED BY <2>1, <2>2
<1>6. ASSUME Parked(s), ~f.clean PROVE Parked(t)
  <2>1. PICK i \in 1..n : s[i].kind = "expr" /\ \A j \in (i + 1)..n : ~s[j].clean
    BY <1>4, <1>6
  <2>2. \A j \in (i + 1)..(n + 1) : ~t[j].clean
    <3> TAKE j \in (i + 1)..(n + 1)
    <3>1. j = n + 1 \/ (j \in (i + 1)..n /\ j \in 1..n)
      BY <1>1
    <3> QED BY <1>1, <1>6, <2>1, <3>1
  <2>3. i \in 1..(n + 1) /\ t[i].kind = "expr"
    BY <1>1, <2>1, SMTT(30)
  <2> QED BY <1>1, <2>2, <2>3 DEF Parked
<1> QED BY <1>1, <1>5, <1>6 DEF InStmt, t

\* goes on to another phase,
LEMMA ReplaceReturn ==
    ASSUME NEW s \in Seq(Frames), s # <<>>, NEW f \in Frames, InStmt(s),
           f.kind = s[Len(s)].kind, f.clean = s[Len(s)].clean,
           f.kind = "expr" => f.phase = "stmt"
    PROVE  /\ InStmt([s EXCEPT ![Len(s)] = f])
           /\ Parked(s) => Parked([s EXCEPT ![Len(s)] = f])
<1> DEFINE n == Len(s)
           t == [s EXCEPT ![n] = f]
<1>1. /\ Len(t) = n /\ n \in Nat /\ n > 0 /\ n \in 1..n /\ t[n] = f
      /\ \A i \in 1..n : i # n => t[i] = s[i]
  OBVIOUS
<1>2. f.kind = s[n].kind /\ f.clean = s[n].clean
  OBVIOUS
<1>3. \A i \in 1..n : /\ s[i].kind = "expr" => s[i].phase = "stmt"
                      /\ i > 1 /\ s[i].kind = "do" => s[i - 1].kind = "expr"
  BY DEF InStmt
<1>4. ASSUME Parked(s) PROVE \E i \in 1..n : s[i].kind = "expr" /\ \A j \in (i + 1)..n : ~s[j].clean
  BY <1>4 DEF Parked
<1> HIDE DEF t, n
<1>5. \A i \in 1..n : t[i].kind = s[i].kind /\ t[i].clean = s[i].clean
  BY <1>1, <1>2
<1>6. ASSUME NEW i \in 1..n
      PROVE  /\ t[i].kind = "expr" => t[i].phase = "stmt"
             /\ i > 1 /\ t[i].kind = "do" => t[i - 1].kind = "expr"
  <2>1. i > 1 => i - 1 \in 1..n
    BY <1>1
  <2> QED BY <1>1, <1>3, <1>5, <2>1, ZenonT(60)
<1>7. ASSUME Parked(s) PROVE Parked(t)
  <2>1. PICK i \in 1..n : s[i].kind = "expr" /\ \A j \in (i + 1)..n : ~s[j].clean
    BY <1>4, <1>7
  <2>2. \A j \in (i + 1)..n : j \in 1..n
    BY <1>1
  <2> QED BY <1>1, <1>5, <2>1, <2>2 DEF Parked
<1> QED BY <1>1, <1>6, <1>7 DEF InStmt, t, n

\* or is left: the return stays parked in the expression it was parked in, and
\* what a do block parks is parked in the one the block is in.
LEMMA PopReturn ==
    ASSUME IInv, stack # <<>>, InStmt(stack), stack' = Pop
    PROVE  /\ InStmt(stack')
           /\ Parked(stack) /\ Top.kind # "expr" => Parked(stack')
           /\ Top.kind = "do" => Parked(stack')
<1> DEFINE s == stack
           t == stack'
           n == Len(s) - 1
<1>1. s \in Seq(Frames) /\ s # <<>> /\ t = SubSeq(s, 1, n)
  BY DEF IInv, TypeOK, Pop
<1>2. \A i \in 1..Len(s) : /\ s[i].kind = "expr" => s[i].phase = "stmt"
                           /\ i > 1 /\ s[i].kind = "do" => s[i - 1].kind = "expr"
  BY DEF InStmt
<1>3. Parked(s) => \E i \in 1..Len(s) : /\ s[i].kind = "expr"
                                        /\ \A j \in (i + 1)..Len(s) : ~s[j].clean
  BY DEF Parked
<1>4. Top = s[Len(s)] /\ (Top.kind # "file" => n > 0)
  BY HasParent DEF Top
<1> HIDE DEF s, t
<1>5. n \in Nat /\ Len(s) = n + 1 /\ \A i \in 1..n : s[i] \in Frames
  BY <1>1
<1>6. Len(t) = n /\ \A i \in 1..n : t[i] = s[i]
  <2> HIDE DEF n
  <2> QED BY <1>1, <1>5, Prefix
<1> HIDE DEF n
<1>7. ASSUME NEW i \in 1..n
      PROVE  /\ t[i].kind = "expr" => t[i].phase = "stmt"
             /\ i > 1 /\ t[i].kind = "do" => t[i - 1].kind = "expr"
  <2>1. i \in 1..Len(s) /\ (i > 1 => i - 1 \in 1..n)
    BY <1>5
  <2> QED BY <1>2, <1>6, <2>1
<1>8. ASSUME Parked(s), Top.kind # "expr" PROVE Parked(t)
  <2>1. PICK i \in 1..Len(s) : s[i].kind = "expr" /\ \A j \in (i + 1)..Len(s) : ~s[j].clean
    BY <1>3, <1>8
  <2>2. i # n + 1
    BY <1>4, <1>5, <1>8, <2>1
  <2>3. i \in 1..n /\ \A j \in (i + 1)..n : j \in (i + 1)..Len(s) /\ j \in 1..n
    BY <1>5, <2>2
  <2> QED BY <1>6, <2>1, <2>3 DEF Parked
<1>9. ASSUME Top.kind = "do" PROVE Parked(t)
  <2>1. n > 0 /\ n + 1 \in 1..Len(s) /\ n + 1 > 1 /\ (n + 1) - 1 = n
    BY <1>4, <1>5, <1>9
  <2>2. s[n + 1].kind = "do"
    BY <1>4, <1>5, <1>9
  <2>3. s[n].kind = "expr"
    BY <1>2, <2>1, <2>2
  <2>4. n \in 1..n /\ \A j \in (n + 1)..n : FALSE
    BY <1>5, <2>1
  <2> QED BY <1>6, <2>3, <2>4 DEF Parked
<1> QED BY <1>6, <1>7, <1>8, <1>9 DEF InStmt, s, t

\* The kinds of step.
LEMMA ReturnPush ==
    ASSUME IInv, ReturnInv, stack # <<>>, NEW k \in Kinds, NEW l \in LabelsN, NEW p \in Phases,
           NEW d \in Depths, stack' = Append(stack, Frame(k, l, p, d)),
           k = "expr" => p = "stmt", k = "do" => Top.kind = "expr", retPending' = retPending
    PROVE  ReturnInv'
<1> DEFINE f == Frame(k, l, p, d)
<1>1. f \in Frames /\ f.kind = k /\ f.phase = p
  BY FrameType DEF IInv
<1>2. retPending => ~f.clean
  BY DEF Frame, IInv, TypeOK
<1> HIDE DEF f
<1>3. InStmt(stack') /\ (Parked(stack) /\ ~f.clean => Parked(stack'))
  <2>1. stack \in Seq(Frames) /\ stack' = Append(stack, f)
    BY DEF IInv, TypeOK, f
  <2> QED BY <1>1, <2>1, PushReturn DEF ReturnInv, Top
<1> QED BY <1>2, <1>3 DEF ReturnInv

\* A frame that only changes its phase keeps ReturnInv;
LEMMA ReturnMove ==
    ASSUME IInv, ReturnInv, stack # <<>>, NEW p \in Phases, NEW h \in Flows,
           stack' = SetPhase(p) \/ stack' = SetHeld(p, h), Top.kind # "expr",
           retPending' = retPending
    PROVE  ReturnInv'
<1>1. PICK f \in Frames : stack' = ReplaceTop(f) /\ f.kind = Top.kind /\ f.clean = Top.clean
  <2> DEFINE a == [Top EXCEPT !.phase = p]
             b == [Top EXCEPT !.phase = p, !.held = h]
  <2>1. Top \in Frames
    BY TopFacts
  <2>2. /\ a \in Frames /\ a.kind = Top.kind /\ a.clean = Top.clean
        /\ b \in Frames /\ b.kind = Top.kind /\ b.clean = Top.clean
    BY <2>1 DEF Frames
  <2>3. stack' = ReplaceTop(a) \/ stack' = ReplaceTop(b)
    BY DEF SetPhase, SetHeld
  <2> HIDE DEF a, b
  <2> QED BY <2>2, <2>3
<1>2. stack \in Seq(Frames) /\ stack' = [stack EXCEPT ![Len(stack)] = f]
  BY <1>1 DEF IInv, TypeOK, ReplaceTop
<1>3. InStmt(stack') /\ (Parked(stack) => Parked(stack'))
  BY <1>1, <1>2, ReplaceReturn DEF ReturnInv, Top
<1> QED BY <1>3 DEF ReturnInv

\* so does leaving one, if no value of its own is parked then,
LEMMA ReturnLeave ==
    ASSUME IInv, ReturnInv, stack # <<>>, stack' = Pop,
           retPending' => (retPending /\ Top.kind # "expr") \/ Top.kind = "do"
    PROVE  ReturnInv'
BY PopReturn DEF ReturnInv

\* and a step that leaves the stack alone.
LEMMA ReturnStay ==
    ASSUME ReturnInv, UNCHANGED <<stack, retPending>> PROVE ReturnInv'
BY DEF ReturnInv

\* Every expression is a statement of its own.
LEMMA InExprStmt ==
    ASSUME ReturnInv, IInv, InExpr PROVE stack # <<>> /\ Top.phase = "stmt"
<1>1. stack # <<>> /\ Len(stack) \in 1..Len(stack)
  BY TopFacts DEF InExpr
<1> QED BY <1>1 DEF ReturnInv, InStmt, InExpr, Top

\* Statements and conditions only open expressions and blocks, or leave an until
\* loop; no condition has a call in it.
LEMMA OpeningReturn ==
    ASSUME OnlyStmts, IInv, ReturnInv, Statement \/ Conditions PROVE ReturnInv'
<1> USE DEF registers
<1>0. Live \in Depths /\ None \in Flows /\ \A t \in FlowTags : Flow(t) \in Flows
  BY FlowTypes, LiveType DEF IInv
<1>1. CASE JumpStmt \/ DeferStmt \/ EndOfList
  BY <1>1, ReturnStay DEF JumpStmt, DeferStmt, EndOfList
<1>2. ASSUME NEW site \in {"stmt", "my", "return", "print", "die", "tail"}, ExprStmt(site)
      PROVE  ReturnInv'
  <2>1. /\ stack # <<>> /\ stack' = Append(stack, Frame("expr", NoLabel, site, Live))
        /\ site = "stmt" /\ retPending' = retPending
    BY <1>2 DEF ExprStmt, AtStmt, OnlyStmts
  <2>2. "stmt" \in Phases /\ "expr" \in Kinds /\ NoLabel \in LabelsN
    BY PhaseNames
  <2> QED BY <1>0, <2>1, <2>2, ReturnPush
<1>3. ASSUME NEW k \in BlockKinds, EnterBlock(k) PROVE ReturnInv'
  <2>1. stack # <<>> /\ retPending' = retPending
    BY <1>3 DEF EnterBlock, AtStmt
  <2>2. PICK l \in LabelsOf(k) : stack' = Append(stack, Frame(k, l, EntryPhase(k), Live))
    BY <1>3 DEF EnterBlock
  <2>3. l \in LabelsN /\ EntryPhase(k) \in Phases
    BY PhaseNames DEF LabelsOf, EntryPhase
  <2>4. k \in Kinds /\ k \notin {"expr", "do"}
    BY PhaseNames DEF BlockKinds
  <2> QED BY <1>0, <2>1, <2>2, <2>3, <2>4, ReturnPush
<1>4. CASE EvalOwnExpr
  BY <1>4 DEF EvalOwnExpr, OwnExpr, OnlyStmts
<1>5. CASE SkipOwnExpr \/ EnterBody \/ ElsIf \/ CondFails \/ FreedValue
  <2>1. stack # <<>> /\ Top.kind # "expr" /\ retPending' = retPending
    BY <1>5 DEF SkipOwnExpr, EnterBody, ElsIf, CondFails, FreedValue, In
  <2>2. PICK p \in {"cond", "body", "close"}, h \in Flows :
           stack' = SetPhase(p) \/ stack' = SetHeld(p, h)
    BY <1>0, <1>5 DEF SkipOwnExpr, EnterBody, ElsIf, CondFails, FreedValue, FlowTags
  <2>3. p \in Phases
    BY PhaseTypes
  <2> QED BY <2>1, <2>2, <2>3, ReturnMove
<1>6. CASE UntilEnds
  <2>1. stack # <<>> /\ Top.kind # "expr" /\ retPending' = retPending /\ stack' = Pop
    BY <1>6 DEF UntilEnds, In, Complete
  <2>2. retPending' => (retPending /\ Top.kind # "expr") \/ Top.kind = "do"
    BY <2>1
  <2> QED BY <2>1, <2>2, ReturnLeave
<1>7. CASE FinishStep
  BY <1>7, InExprStmt DEF FinishStep
<1> QED BY <1>1, <1>2, <1>3, <1>4, <1>5, <1>6, <1>7 DEF Statement, Conditions, TailExpr

\* An expression statement takes the return that is parked.
LEMMA ExpressionReturn == ASSUME OnlyStmts, IInv, ReturnInv, Expression PROVE ReturnInv'
<1> USE DEF registers
<1>1. CASE RaiseDie \/ CallExit
  BY <1>1, ReturnStay DEF RaiseDie, CallExit
<1>2. ASSUME NEW k \in CallKinds, EnterCall(k) PROVE ReturnInv'
  <2>1. /\ stack # <<>> /\ Top.kind = "expr" /\ retPending' = retPending
        /\ stack' = Append(stack, Frame(k, NoLabel, "body", Live))
    BY <1>2 DEF EnterCall, Operand, InExpr
  <2>2. /\ k \in Kinds /\ k # "expr" /\ NoLabel \in LabelsN /\ "body" \in Phases
        /\ Live \in Depths
    BY PhaseNames, LiveType DEF CallKinds, IInv
  <2> QED BY <2>1, <2>2, ReturnPush
<1>3. CASE FinishStmt
  <2>1. stack # <<>> /\ stack' = Pop /\ ~retPending'
    BY <1>3 DEF FinishStmt, Complete, InExpr, IInv, TypeOK
  <2> QED BY <2>1, ReturnLeave
<1>4. CASE \/ FinishMyOrReturn \/ FinishPrint \/ FinishDie \/ CallHandler \/ FinishHandler
           \/ FinishTail \/ FinishCond \/ FinishList \/ FinishInit
  <2>1. InExpr /\ Top.phase # "stmt"
    BY <1>4 DEF FinishMyOrReturn, FinishPrint, FinishDie, CallHandler, FinishHandler, FinishTail,
           FinishCond, FinishList, FinishInit
  <2> QED BY <2>1, InExprStmt
<1> QED BY <1>1, <1>2, <1>3, <1>4 DEF Expression

\* The ends of statement lists leave it where it is,
LEMMA ListEndsReturn == ASSUME IInv, ReturnInv, ListEnds PROVE ReturnInv'
<1> USE DEF registers
<1>0. None \in Flows /\ (flow # Running => flow \in Flows)
  BY FlowTypes DEF IInv, TypeOK
<1>1. /\ stack # <<>> /\ Top.kind # "expr" /\ retPending' = retPending
      /\ flow # Running \/ EnterBranch
  BY DEF ListEnds, BodyEnds, EvalBodyEnds, ForBodyEnds, ContinueEnds, SubBodyEnds,
     ListSubBodyEnds, DoBodyEnds, ListBlockEnds, LastStmtEnds, EnterBranch, BranchEnds,
     DeferEnds, Ended, In, ScopedBody
<1>2. \/ stack' = stack
      \/ stack' = Pop
      \/ \E p \in {"close", "unwind", "body", "step", "tailcall", "last", "branch", "cond"},
            h \in Flows : stack' = SetHeld(p, h) \/ stack' = SetPhase(p)
  <2>1. CASE BodyEnds \/ EvalBodyEnds \/ ForBodyEnds
    BY <1>0, <1>1, <2>1 DEF BodyEnds, EvalBodyEnds, ForBodyEnds, Hold, EnterBranch, Ended
  <2>2. CASE ContinueEnds
    BY <1>0, <1>1, <2>2 DEF ContinueEnds, Leave, Complete, Hold, Ended
  <2>3. CASE SubBodyEnds \/ ListSubBodyEnds \/ DoBodyEnds
    BY <1>0, <1>1, <2>3 DEF SubBodyEnds, ListSubBodyEnds, DoBodyEnds, Hold, Ended
  <2>4. CASE ListBlockEnds \/ LastStmtEnds \/ EnterBranch \/ BranchEnds \/ DeferEnds
    BY <1>0, <1>1, <2>4 DEF ListBlockEnds, LastStmtEnds, EnterBranch, BranchEnds, DeferEnds, Hold,
       Ended
  <2> QED BY <2>1, <2>2, <2>3, <2>4 DEF ListEnds
<1>3. CASE stack' = stack
  BY <1>1, <1>3, ReturnStay
<1>4. CASE stack' = Pop
  <2>1. retPending' => (retPending /\ Top.kind # "expr") \/ Top.kind = "do"
    BY <1>1
  <2> QED BY <1>1, <1>4, <2>1, ReturnLeave
<1>5. ASSUME NEW p \in {"close", "unwind", "body", "step", "tailcall", "last", "branch", "cond"},
             NEW h \in Flows, stack' = SetHeld(p, h) \/ stack' = SetPhase(p)
      PROVE  ReturnInv'
  <2>1. p \in Phases
    BY PhaseTypes
  <2> QED BY <1>1, <1>5, <2>1, ReturnMove
<1> QED BY <1>2, <1>3, <1>4, <1>5

\* and only the end of a do block parks one.
LEMMA UnwindingReturn == ASSUME IInv, ReturnInv, Unwinding PROVE ReturnInv'
<1> USE DEF registers
<1>0. Live \in Depths /\ None \in Flows
  BY FlowTypes, LiveType DEF IInv
<1>1. ASSUME stack # <<>>, Top.phase \in {"unwind", "close", "tailcall", "tailed"}
      PROVE  Top.kind # "expr" /\ Top.held \in Flows
  <2>1. Len(stack) \in 1..Len(stack)
    BY <1>1, TopFacts
  <2> QED BY <1>1, <2>1, TopFacts DEF ReturnInv, InStmt, Top, Frames
<1>2. CASE RunDefer \/ Destroy
  <2>1. PICK k \in {"defer", "subS"} :
           stack # <<>> /\ stack' = Append(stack, Frame(k, NoLabel, "body", Live))
    BY <1>2 DEF RunDefer, Destroy, Popping
  <2>2. retPending' = retPending
    BY <1>2 DEF RunDefer, Destroy
  <2>3. k \in Kinds /\ "body" \in Phases /\ NoLabel \in LabelsN
    BY PhaseNames
  <2> QED BY <1>0, <2>1, <2>2, <2>3, ReturnPush
<1>3. CASE TailCall
  <2> DEFINE d == [Live EXCEPT !.cs = callDepth - 1]
             f == [Top EXCEPT !.phase = "tailed"]
             g == Frame("subS", NoLabel, "body", d)
             r == ReplaceTop(f)
  <2>1. /\ stack # <<>> /\ Top.kind = "subS" /\ Top.phase = "tailcall"
        /\ retPending' = retPending /\ stack' = Append(r, g)
    BY <1>3 DEF TailCall, In, SetPhase
  <2>2. d \in Depths
    <3>1. d = [sc |-> Len(scopes), ev |-> evalDepth, cx |-> ctxDepth, cs |-> callDepth - 1,
               dh |-> dieDepth]
      BY DEF Live
    <3>2. callDepth - 1 \in Nat
      BY <2>1, TopFacts DEF Depths
    <3> QED BY <3>1, <3>2 DEF Depths, IInv, TypeOK
  <2>3. g \in Frames /\ g.kind = "subS"
    <3>1. "subS" \in Kinds /\ NoLabel \in LabelsN /\ "body" \in Phases
      BY PhaseNames
    <3> HIDE DEF d
    <3> QED BY <2>2, <3>1, FrameType DEF IInv
  <2>4. retPending => ~g.clean
    BY DEF Frame, IInv, TypeOK
  <2>5. f \in Frames /\ f.kind = Top.kind /\ f.clean = Top.clean
    <3>1. Top \in Frames /\ "tailed" \in Phases
      BY <2>1, TopFacts, PhaseTypes
    <3> QED BY <3>1 DEF Frames
  <2> HIDE DEF d, f, g
  <2>6. r \in Seq(Frames) /\ r # <<>> /\ InStmt(r) /\ (Parked(stack) => Parked(r))
    <3>1. stack \in Seq(Frames) /\ r = [stack EXCEPT ![Len(stack)] = f]
      BY DEF IInv, TypeOK, ReplaceTop
    <3>2. r \in Seq(Frames) /\ r # <<>>
      <4> HIDE DEF r
      <4> QED BY <2>1, <2>5, <3>1
    <3> QED BY <2>1, <2>5, <3>1, <3>2, ReplaceReturn DEF ReturnInv, Top
  <2> HIDE DEF r
  <2>7. InStmt(stack') /\ (Parked(r) /\ ~g.clean => Parked(stack'))
    BY <2>1, <2>3, <2>6, PushReturn
  <2> QED BY <2>1, <2>4, <2>6, <2>7 DEF ReturnInv
<1>4. CASE \/ TailReturn \/ NoTarget \/ LoopUnwinds \/ ContBodyUnwinds \/ ContCloses \/ PlainCloses
           \/ BareCloses \/ NamedCloses \/ EvalCloses \/ EvalExprCloses \/ ListBlockCloses
           \/ ProgramEnds
  <2>1. /\ stack # <<>> /\ Top.phase \in {"unwind", "close", "tailcall", "tailed"}
        /\ retPending' = retPending
    BY <1>4 DEF TailReturn, NoTarget, LoopUnwinds, ContBodyUnwinds, ContCloses, PlainCloses,
       BareCloses, NamedCloses, EvalCloses, EvalExprCloses, ListBlockCloses, ProgramEnds,
       Popped, Popping, In
  <2>2. Top.kind # "expr" /\ Top.held \in Flows
    BY <1>1, <2>1
  <2>3. \/ stack' = Pop
        \/ \E p \in {"continue", "test", "body", "close"}, h \in Flows :
             stack' = SetHeld(p, h) \/ stack' = SetPhase(p)
    BY <1>0, <1>4, <2>2 DEF TailReturn, NoTarget, LoopUnwinds, ContBodyUnwinds, ContCloses,
       PlainCloses, BareCloses, NamedCloses, EvalCloses, EvalExprCloses, ListBlockCloses,
       ProgramEnds, Leave, Hold, Complete
  <2>4. CASE stack' = Pop
    <3>1. retPending' => (retPending /\ Top.kind # "expr") \/ Top.kind = "do"
      BY <2>1, <2>2
    <3> QED BY <2>1, <2>4, <3>1, ReturnLeave
  <2>5. ASSUME NEW p \in {"continue", "test", "body", "close"}, NEW h \in Flows,
               stack' = SetHeld(p, h) \/ stack' = SetPhase(p)
        PROVE  ReturnInv'
    <3>1. p \in Phases
      BY PhaseTypes
    <3> QED BY <2>1, <2>2, <2>5, <3>1, ReturnMove
  <2> QED BY <2>3, <2>4, <2>5
<1>5. CASE SubReturns \/ DoCloses
  <2>1. /\ stack # <<>> /\ stack' = Pop /\ Top.kind # "expr"
        /\ retPending' => retPending \/ Top.kind = "do"
    BY <1>5 DEF SubReturns, DoCloses, Popped, Popping
  <2>2. retPending' => (retPending /\ Top.kind # "expr") \/ Top.kind = "do"
    BY <2>1
  <2> QED BY <2>1, <2>2, ReturnLeave
<1> QED BY <1>2, <1>3, <1>4, <1>5 DEF Unwinding

\* A parked return belongs to an expression that is open.
LEMMA ReturnInductive == OnlyStmts => (Spec => [](IInv /\ ReturnInv))
<1> SUFFICES ASSUME OnlyStmts PROVE Spec => [](IInv /\ ReturnInv)
  OBVIOUS
<1>1. Init => IInv /\ ReturnInv
  <2> SUFFICES ASSUME Init PROVE ReturnInv
    BY InitIInv
  <2>1. Len(stack) = 1 /\ stack[1].kind = "file" /\ ~retPending
    BY DEF Init
  <2> QED BY <2>1 DEF ReturnInv, InStmt
<1>2. IInv /\ ReturnInv /\ [Next]_vars => IInv' /\ ReturnInv'
  <2> SUFFICES ASSUME IInv, ReturnInv, [Next]_vars PROVE ReturnInv'
    BY NextIInv
  <2>1. CASE UNCHANGED vars \/ Terminated
    BY <2>1, ReturnStay DEF vars, Terminated
  <2> QED BY <2>1, OpeningReturn, ExpressionReturn, ListEndsReturn, UnwindingReturn DEF Next
<1> QED BY <1>1, <1>2, PTL DEF Spec

\* A return out of a do block leaves the sub the block is in and never its
\* caller, through any loops, evals, deferred blocks and destructors.
THEOREM ReturnIsScoped == OnlyStmts => (Spec => ReturnScoped)
<1> SUFFICES ASSUME OnlyStmts PROVE Spec => ReturnScoped
  OBVIOUS
<1>1. IInv /\ ReturnInv /\ [Next]_vars =>
        [Leaving({"subS", "subL"}) /\ Top.clean => ~retPending']_vars
  <2> SUFFICES ASSUME IInv, ReturnInv, Next, Len(stack') < Len(stack),
                      Top.kind \in {"subS", "subL"}, Top.clean
               PROVE  ~retPending'
    BY DEF Leaving
  <2>0. stack # <<>>
    <3>1. Len(stack) \in Nat /\ Len(stack') \in Nat
      BY NextIInv DEF IInv, TypeOK
    <3> QED BY <3>1
  <2>1. ~Parked(stack)
    <3> SUFFICES ASSUME NEW i \in 1..Len(stack), stack[i].kind = "expr",
                        \A j \in (i + 1)..Len(stack) : ~stack[j].clean
                 PROVE  FALSE
      BY DEF Parked
    <3> DEFINE n == Len(stack)
    <3>1. n \in Nat /\ n > 0
      BY <2>0, TopFacts
    <3>2. i # n /\ n \notin (i + 1)..n
      BY DEF Top
    <3>3. i \in 1..n
      OBVIOUS
    <3> HIDE DEF n
    <3> QED BY <3>1, <3>2, <3>3
  <2>2. ~retPending
    BY <2>1 DEF ReturnInv
  <2>3. Len(stack) \in Nat /\ Len(stack) > 0
    BY <2>0, TopFacts
  <2>4. ~DoCloses
    BY DEF DoCloses
  <2> USE DEF registers
  <2>5. CASE Statement
    BY <2>2, <2>5 DEF Statement, JumpStmt, DeferStmt, TailExpr, EndOfList, ExprStmt, EnterBlock
  <2>6. CASE Expression
    BY <2>2, <2>6 DEF Expression, RaiseDie, CallExit, EnterCall, FinishStmt, FinishMyOrReturn,
           FinishPrint, FinishDie, CallHandler, FinishHandler, FinishTail, FinishCond, FinishList,
           FinishInit
  <2>7. CASE Conditions
    BY <2>2, <2>7 DEF Conditions, EvalOwnExpr, OwnExpr, SkipOwnExpr, EnterBody, ElsIf, CondFails,
           UntilEnds, FreedValue, FinishStep
  <2>8. CASE ListEnds
    BY <2>2, <2>8 DEF ListEnds, BodyEnds, EvalBodyEnds, ForBodyEnds, ContinueEnds, SubBodyEnds,
           ListSubBodyEnds, DoBodyEnds, ListBlockEnds, LastStmtEnds, EnterBranch, BranchEnds,
           DeferEnds
  <2>9. CASE Unwinding
    BY <2>2, <2>4, <2>9 DEF Unwinding, RunDefer, Destroy, TailCall, TailReturn, NoTarget,
           LoopUnwinds, ContBodyUnwinds, ContCloses, PlainCloses, BareCloses, NamedCloses,
           EvalCloses, EvalExprCloses, SubReturns, ListBlockCloses, ProgramEnds
  <2>10. ~Terminated
    BY <2>0 DEF Terminated
  <2> QED BY <2>5, <2>6, <2>7, <2>8, <2>9, <2>10 DEF Next
<1> QED BY <1>1, ReturnInductive, PTL DEF Spec, ReturnScoped
==============================================================================
