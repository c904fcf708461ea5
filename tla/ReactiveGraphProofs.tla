------------------------- MODULE ReactiveGraphProofs -------------------------
(***************************************************************************)
(* Theorems about the reactive graph, for every graph, every body and      *)
(* every bound the assumptions of ReactiveGraph allow.                     *)
(***************************************************************************)
EXTENDS ReactiveGraph, SequenceTheorems, WellFoundedInduction, TLAPS

Out == Val \cup {None}

(***************************************************************************)
(* Sequences.                                                              *)
(***************************************************************************)
\* A trace is a short sequence of what reads return.
LEMMA TraceIsSeq ==
  ASSUME NEW s
  PROVE  s \in Trace <=> s \in Seq(Out) /\ Len(s) <= MaxReads
<1>1. ASSUME s \in Trace PROVE s \in Seq(Out) /\ Len(s) <= MaxReads
  <2>1. PICK k \in 0..MaxReads : s \in [1..k -> Out]
    BY <1>1 DEF Trace, Out
  <2> QED  BY <2>1, BodiesAssumption
<1>2. ASSUME s \in Seq(Out), Len(s) <= MaxReads PROVE s \in Trace
  <2>1. Len(s) \in 0..MaxReads /\ s \in [1..Len(s) -> Out]
    BY <1>2, BodiesAssumption, LenProperties
  <2> QED  BY <2>1 DEF Trace, Out
<1> QED  BY <1>1, <1>2

LEMMA TraceAppend ==
  ASSUME NEW s \in Trace, Len(s) < MaxReads, NEW v \in Out
  PROVE  Append(s, v) \in Trace
<1>1. s \in Seq(Out)  BY TraceIsSeq
<1>2. Append(s, v) \in Seq(Out) /\ Len(Append(s, v)) = Len(s) + 1
  BY <1>1, AppendProperties
<1>3. Len(s) + 1 <= MaxReads  BY <1>1, BodiesAssumption
<1> QED  BY <1>2, <1>3, TraceIsSeq

LEMMA EmptyTrace == <<>> \in Trace
<1>1. <<>> \in Seq(Out) /\ Len(<<>>) = 0  OBVIOUS
<1>2. 0 <= MaxReads  BY BodiesAssumption
<1> QED  BY <1>1, <1>2, TraceIsSeq, Zenon

\* All but the last element of a sequence, and a change of its last element.
LEMMA FrontInSeq ==
  ASSUME NEW S, NEW s \in Seq(S), s # <<>>
  PROVE  /\ Len(s) \in Nat \ {0} /\ s[Len(s)] \in S
         /\ SubSeq(s, 1, Len(s) - 1) \in Seq(S)
         /\ Len(SubSeq(s, 1, Len(s) - 1)) = Len(s) - 1
         /\ \A i \in 1..(Len(s) - 1) : SubSeq(s, 1, Len(s) - 1)[i] = s[i]
<1>1. Len(s) \in Nat /\ Len(s) # 0 /\ DOMAIN s = 1..Len(s)
  BY EmptySeq, LenProperties
<1>2. 1 \in 1..Len(s) /\ Len(s) - 1 \in 0..Len(s) /\ Len(s) \in 1..Len(s)  BY <1>1
<1> QED  BY <1>1, <1>2, SubSeqProperties, ElementOfSeq

(***************************************************************************)
(* The call stack.  A flush is the outermost call of a batch, and a body   *)
(* with a call above it has not read everything yet.                       *)
(***************************************************************************)
StackOK(fs, d) ==
  /\ fs \in Seq(Frame)
  /\ \A i \in DOMAIN fs : fs[i].op \in FlushOp => i = 1 /\ d > 0
  /\ \A i \in DOMAIN fs :
       i < Len(fs) /\ fs[i].op = "run" => NextRead(fs[i].node, fs[i].args) # Done

TypeInv == TypeOK /\ StackOK(frames, depth)

LEMMA FrameKinds ==
  ASSUME NEW f \in Frame
  PROVE  /\ f.op \in {"run", "exit"} => f.node \in Reader /\ f.args \in Trace /\ f.todo = {}
         /\ f.op \in {"drain"} \cup FlushOp => f.todo \subseteq Source \cup Observer
         /\ f.op \in {"run", "exit", "drain"} \cup FlushOp
BY DEF Frame, FlushOp

LEMMA NewFrames ==
  /\ \A r \in Reader : RunFrame(r) \in Frame
  /\ DrainFrame \in Frame
  /\ \A op \in {"drain"} \cup FlushOp, todo \in SUBSET (Source \cup Observer) :
       LoopFrame(op, todo) \in Frame
BY EmptyTrace DEF RunFrame, DrainFrame, LoopFrame, Frame

LEMMA StackPush ==
  ASSUME NEW fs, NEW d, StackOK(fs, d), NEW f \in Frame, f.op \notin FlushOp,
         fs # <<>> /\ fs[Len(fs)].op = "run" =>
           NextRead(fs[Len(fs)].node, fs[Len(fs)].args) # Done
  PROVE  StackOK(Append(fs, f), d)
<1>1. fs \in Seq(Frame) /\ Len(fs) \in Nat /\ DOMAIN fs = 1..Len(fs)
  BY LenProperties DEF StackOK
<1>2. /\ Append(fs, f) \in Seq(Frame)
      /\ Len(Append(fs, f)) = Len(fs) + 1
      /\ DOMAIN Append(fs, f) = 1..(Len(fs) + 1)
      /\ \A i \in 1..Len(fs) : Append(fs, f)[i] = fs[i]
      /\ Append(fs, f)[Len(fs) + 1] = f
  BY <1>1, AppendProperties, LenProperties
<1>3. Len(fs) # 0 => fs # <<>>  BY <1>1
<1> QED  BY <1>1, <1>2, <1>3 DEF StackOK

LEMMA StackPop ==
  ASSUME NEW fs, NEW d, StackOK(fs, d), fs # <<>>
  PROVE  StackOK(SubSeq(fs, 1, Len(fs) - 1), d)
<1> DEFINE gs == SubSeq(fs, 1, Len(fs) - 1)
<1>1. fs \in Seq(Frame) /\ Len(fs) \in Nat /\ DOMAIN fs = 1..Len(fs)
  BY LenProperties DEF StackOK
<1>2. /\ Len(fs) # 0 /\ gs \in Seq(Frame) /\ Len(gs) = Len(fs) - 1
      /\ \A i \in 1..(Len(fs) - 1) : gs[i] = fs[i]
  BY <1>1, FrontInSeq
<1>3. DOMAIN gs = 1..(Len(fs) - 1)  BY <1>2, LenProperties
<1> QED  BY <1>1, <1>2, <1>3 DEF StackOK

LEMMA StackReplace ==
  ASSUME NEW fs, NEW d, StackOK(fs, d), fs # <<>>, NEW f \in Frame,
         f.op \in FlushOp => fs[Len(fs)].op \in FlushOp
  PROVE  /\ StackOK([fs EXCEPT ![Len(fs)] = f], d)
         /\ [fs EXCEPT ![Len(fs)] = f] # <<>>
         /\ Len([fs EXCEPT ![Len(fs)] = f]) = Len(fs)
         /\ [fs EXCEPT ![Len(fs)] = f][Len(fs)] = f
<1> DEFINE gs == [fs EXCEPT ![Len(fs)] = f]
<1>1. fs \in Seq(Frame) /\ Len(fs) \in Nat \ {0} /\ DOMAIN fs = 1..Len(fs)
  BY LenProperties, FrontInSeq DEF StackOK
<1>2. /\ gs \in Seq(Frame) /\ Len(gs) = Len(fs) /\ DOMAIN gs = 1..Len(fs)
      /\ \A i \in 1..Len(fs) : gs[i] = IF i = Len(fs) THEN f ELSE fs[i]
  BY <1>1, ExceptSeq, LenProperties
<1> QED  BY <1>1, <1>2 DEF StackOK

\* A tracked read returns: the body has room for one more value.
LEMMA ReceiveFrame ==
  ASSUME NEW f \in Frame, f.op = "run", NextRead(f.node, f.args) # Done, NEW v \in Out
  PROVE  [f EXCEPT !.args = Append(@, v)] \in Frame
<1>1. f \in [op : {"run", "exit"}, node : Reader, args : Trace, todo : {{}}]
  BY DEF Frame, FlushOp
<1>2. Len(f.args) < MaxReads
  BY <1>1, TraceIsSeq, BodiesAssumption, LenProperties
<1>3. Append(f.args, v) \in Trace
  BY <1>1, <1>2, TraceAppend
<1> QED  BY <1>1, <1>3 DEF Frame

LEMMA StackReturn ==
  ASSUME TypeInv, frames # <<>>, NEW v \in Out
  PROVE  StackOK(Return(v), depth)
<1>1. StackOK(Below, depth)
  BY StackPop DEF Below, TypeInv
<1>2. CASE Below # <<>> /\ Below[Len(Below)].op = "run"
  <2> DEFINE f == Below[Len(Below)]
  <2>1. /\ Below \in Seq(Frame) /\ Len(Below) \in Nat \ {0} /\ f \in Frame
        /\ Len(Below) = Len(frames) - 1 /\ frames \in Seq(Frame)
        /\ f = frames[Len(Below)] /\ DOMAIN frames = 1..Len(frames)
    BY <1>1, <1>2, FrontInSeq, LenProperties DEF StackOK, Below, TypeInv
  <2>2. NextRead(f.node, f.args) # Done
    BY <1>2, <2>1 DEF StackOK, TypeInv
  <2>3. [f EXCEPT !.args = Append(@, v)] \in Frame /\ [f EXCEPT !.args = Append(@, v)].op = "run"
    BY <1>2, <2>1, <2>2, ReceiveFrame DEF Frame
  <2>4. StackOK([Below EXCEPT ![Len(Below)] = [f EXCEPT !.args = Append(@, v)]], depth)
    BY <1>1, <1>2, <2>3, StackReplace DEF FlushOp
  <2> QED  BY <1>2, <2>4 DEF Return
<1>3. CASE ~(Below # <<>> /\ Below[Len(Below)].op = "run")
  BY <1>1, <1>3 DEF Return
<1> QED  BY <1>2, <1>3

(***************************************************************************)
(* Edges and the work-stack keep their types.                              *)
(***************************************************************************)
LEMMA TopFrame ==
  ASSUME TypeInv, frames # <<>>
  PROVE  /\ Top \in Frame /\ Len(frames) \in Nat \ {0}
         /\ Top.op \in {"run", "exit"} => Top.node \in Reader /\ Top.args \in Trace
BY FrontInSeq, FrameKinds DEF TypeInv, StackOK, Top

LEMMA EdgeTypes ==
  ASSUME TypeOK
  PROVE  /\ \A ns, r : r \in Reader => Registered(ns, r) \in [Node -> SUBSET Reader]
         /\ \A r : Detached(r) \in [Node -> SUBSET Reader]
         /\ \A n : TouchedEdges(n) \in [Node -> SUBSET Reader]
         /\ \A n \in Node : TouchedWork(n) \in Seq(SUBSET (Reader \cup {None}))
BY AppendProperties DEF TypeOK, Registered, Detached, TouchedEdges, TouchedWork

LEMMA WorkTypes ==
  ASSUME TypeOK, work # <<>>, NEW r
  PROVE  Popped(r) \in Seq(SUBSET (Reader \cup {None})) /\ Last \subseteq Reader \cup {None}
<1>1. /\ Last \in SUBSET (Reader \cup {None}) /\ Len(work) \in 1..Len(work)
      /\ SubSeq(work, 1, Len(work) - 1) \in Seq(SUBSET (Reader \cup {None}))
  BY FrontInSeq DEF TypeOK, Last
<1>2. [work EXCEPT ![Len(work)] = Last \ {r}] \in Seq(SUBSET (Reader \cup {None}))
  BY <1>1, ExceptSeq DEF TypeOK
<1> QED  BY <1>1, <1>2 DEF Popped, Last

LEMMA CachedTypes ==
  ASSUME TypeOK, NEW n \in Slot, cache[n] # None
  PROVE  cache[n] \in Trace /\ CachedValue(n) \in Val
BY BodiesAssumption DEF TypeOK, CachedValue, Reader

LEMMA TypeInit == Init => TypeInv
<1> SUFFICES ASSUME Init PROVE TypeInv
  OBVIOUS
<1>1. StackOK(frames, depth)
  BY DEF Init, StackOK
<1>2. work \in Seq(SUBSET (Reader \cup {None})) /\ frames \in Seq(Frame)
  BY DEF Init
<1>3. depth \in 0..MaxDepth
  BY BodiesAssumption DEF Init
<1>4. /\ value \in [Source -> Val] /\ cache \in [Slot -> Trace \cup {None}]
      /\ settled \in [Computed -> Val \cup {None}] /\ seen \in [Effect -> Trace \cup {None}]
      /\ parents \in [Node -> SUBSET Reader] /\ deps \in [Reader -> SUBSET Node]
  BY Zenon DEF Init
<1>5. TypeOK
  BY <1>2, <1>3, <1>4, Zenon DEF Init, TypeOK
<1> QED  BY <1>1, <1>5 DEF TypeInv

(***************************************************************************)
(* One lemma for each group of actions.                                    *)
(***************************************************************************)
LEMMA TypeReceive ==
  ASSUME TypeInv, NEW d \in Node, Reads(d), NEW v \in Out, NEW ns, ns \subseteq Node,
         Register(ns, Top.node), Receive(v), UNCHANGED <<nodeVars, work, batchVars, raising>>
  PROVE  TypeInv'
<1>1. frames # <<>> /\ Top.op = "run" /\ NextRead(Top.node, Top.args) # Done
  BY KindsAssumption DEF Reads, At
<1>2. Top \in Frame /\ Top.node \in Reader
  BY <1>1, TopFrame
<1>3. [Top EXCEPT !.args = Append(@, v)] \in Frame /\ [Top EXCEPT !.args = Append(@, v)].op = "run"
  BY <1>1, <1>2, ReceiveFrame DEF Frame
<1>4. StackOK(frames', depth')
  BY <1>1, <1>3, StackReplace DEF TypeInv, Receive, Continue, FlushOp, batchVars
<1>5. parents' \in [Node -> SUBSET Reader] /\ deps' \in [Reader -> SUBSET Node]
  BY <1>2, EdgeTypes DEF TypeInv, TypeOK, Register
<1> QED
  BY <1>4, <1>5 DEF TypeInv, TypeOK, StackOK, nodeVars, batchVars

LEMMA TypeBodyReads ==
  ASSUME TypeInv, NEW d \in Node,
         \/ d \in Source /\ ReadSource(d)
         \/ d \in Source \cup Slot /\ ReadDisposed(d)
         \/ d \in Slot /\ (ReadCached(d) \/ ReadMiss(d))
         \/ d \in Computed /\ (\/ ReadLazyCached(d) \/ ReadLazyMiss(d)
                               \/ ReadSettled(d) \/ ReadStale(d))
  PROVE  TypeInv'
<1>1. Reads(d)
  BY DEF ReadSource, ReadDisposed, ReadCached, ReadMiss, ReadLazyCached, ReadLazyMiss,
         ReadSettled, ReadStale
<1>2. /\ frames # <<>> /\ Top.op = "run" /\ NextRead(Top.node, Top.args) # Done
      /\ Top.node \in Reader /\ Top.args \in Trace
  BY <1>1, KindsAssumption, TopFrame DEF Reads, At
<1>3. \A r \in Reader : StackOK(Push(RunFrame(r)), depth)
  <2> SUFFICES ASSUME NEW r \in Reader PROVE StackOK(Push(RunFrame(r)), depth)
    OBVIOUS
  <2>1. RunFrame(r) \in Frame /\ RunFrame(r).op \notin FlushOp
    BY NewFrames DEF RunFrame, FlushOp
  <2> QED  BY <1>2, <2>1, StackPush DEF TypeInv, Push, Top
<1>4. CASE d \in Source /\ ReadSource(d)
  BY <1>1, <1>4, TypeReceive DEF ReadSource, TypeInv, TypeOK, Out
<1>5. CASE d \in Source \cup Slot /\ ReadDisposed(d)
  <2>1. parents' \in [Node -> SUBSET Reader] /\ deps' \in [Reader -> SUBSET Node]
    BY <1>2, <1>5, EdgeTypes DEF TypeInv, TypeOK, ReadDisposed, Register, Node
  <2> QED
    BY <1>5, <2>1 DEF TypeInv, TypeOK, StackOK, ReadDisposed, nodeVars, batchVars
<1>6. CASE d \in Slot /\ ReadCached(d)
  BY <1>1, <1>6, TypeReceive, CachedTypes DEF ReadCached, TypeInv, Out
<1>7. CASE d \in Slot /\ ReadMiss(d)
  <2>1. parents' \in [Node -> SUBSET Reader] /\ deps' \in [Reader -> SUBSET Node]
    BY <1>2, <1>7, EdgeTypes DEF TypeInv, TypeOK, ReadMiss, RegisterMiss, Node
  <2>2. StackOK(frames', depth')
    BY <1>3, <1>7 DEF ReadMiss, Reader, batchVars
  <2> QED
    BY <1>7, <2>1, <2>2 DEF TypeInv, TypeOK, StackOK, ReadMiss, nodeVars, batchVars
<1>8. CASE d \in Computed /\ ReadLazyCached(d)
  <2>1. Memo[d] \in Slot  BY <1>8, BodiesAssumption
  <2>2. {d, Memo[d]} \subseteq Node /\ CachedValue(Memo[d]) \in Out
    BY <1>8, <2>1, CachedTypes DEF ReadLazyCached, TypeInv, Node, Out
  <2> QED  BY <1>1, <1>8, <2>2, TypeReceive DEF ReadLazyCached
<1>9. CASE d \in Computed /\ ReadLazyMiss(d)
  <2>1. Memo[d] \in Slot /\ Memo[d] \in Reader  BY <1>9, BodiesAssumption DEF Reader
  <2>2. parents' \in [Node -> SUBSET Reader] /\ deps' \in [Reader -> SUBSET Node]
    BY <1>2, <1>9, <2>1, EdgeTypes DEF TypeInv, TypeOK, ReadLazyMiss, RegisterMiss, Node
  <2>3. StackOK(frames', depth')
    BY <1>3, <1>9, <2>1 DEF ReadLazyMiss, batchVars
  <2> QED
    BY <1>9, <2>2, <2>3 DEF TypeInv, TypeOK, StackOK, ReadLazyMiss, nodeVars, batchVars
<1>10. CASE d \in Computed /\ ReadSettled(d)
  BY <1>1, <1>10, TypeReceive DEF ReadSettled, TypeInv, TypeOK, Out
<1>11. CASE d \in Computed /\ ReadStale(d)
  <2>1. parents' \in [Node -> SUBSET Reader] /\ deps' \in [Reader -> SUBSET Node]
    <3>1. Detached(d) \in [Node -> SUBSET Reader]
      BY EdgeTypes DEF TypeInv
    <3>2. parents' \in [Node -> SUBSET Reader]
      BY <1>2, <1>11, <3>1 DEF ReadStale
    <3>3. [deps EXCEPT ![Top.node] = @ \cup {d}] \in [Reader -> SUBSET Node]
      BY <1>2 DEF TypeInv, TypeOK
    <3>4. deps' = [[deps EXCEPT ![Top.node] = @ \cup {d}] EXCEPT ![d] = {}]
      BY <1>11 DEF ReadStale
    <3> QED  BY <3>2, <3>3, <3>4
  <2>2. StackOK(frames', depth')
    BY <1>3, <1>11 DEF ReadStale, Reader, batchVars
  <2> QED
    BY <1>11, <2>1, <2>2 DEF TypeInv, TypeOK, StackOK, ReadStale, batchVars
<1> QED  BY <1>4, <1>5, <1>6, <1>7, <1>8, <1>9, <1>10, <1>11

\* An observer waits for the drain its write or publication starts.
LEMMA ExitDrain ==
  ASSUME TypeInv, frames # <<>>, Top.op = "run"
  PROVE  StackOK(Append(Continue([Top EXCEPT !.op = "exit"]), DrainFrame), depth)
<1> DEFINE f == [Top EXCEPT !.op = "exit"]
<1>1. f \in Frame /\ f.op = "exit"
  BY TopFrame DEF Frame, FlushOp
<1> HIDE DEF f
<1>2. /\ StackOK(Continue(f), depth)
      /\ Continue(f)[Len(Continue(f))] = f
  BY <1>1, StackReplace DEF TypeInv, Continue, FlushOp
<1>3. DrainFrame \in Frame /\ DrainFrame.op \notin FlushOp
  BY NewFrames DEF DrainFrame, LoopFrame, FlushOp
<1> QED  BY <1>1, <1>2, <1>3, StackPush DEF f

\* A body's frame is replaced or popped only by the steps below; what a body
\* returns to its caller is a value or _UNSET.
LEMMA TypeReturns ==
  ASSUME TypeInv,
         \/ \E n \in Slot : SlotReturns(n)
         \/ \E e \in Effect : EffectReturns(e) \/ EffectWrites(e)
         \/ \E c \in Computed : PullerReturns(c)
         \/ \E r \in Observer : ObserverExits(r)
         \/ BodyRaises \/ Unwind
  PROVE  TypeInv'
<1>1. CASE \E n \in Slot : SlotReturns(n)
  <2>1. PICK n \in Slot : SlotReturns(n)  BY <1>1
  <2>2. frames # <<>> /\ Top.op = "run" /\ Top.node = n
    BY <2>1 DEF SlotReturns, Returns, At
  <2>3. Top.args \in Trace /\ Result(n, Top.args) \in Out
    BY <2>2, TopFrame, BodiesAssumption DEF Reader, Out
  <2>4. StackOK(frames', depth')
    BY <2>1, <2>2, <2>3, StackReturn DEF SlotReturns, batchVars
  <2>5. cache' \in [Slot -> Trace \cup {None}]
    BY <2>1, <2>3 DEF SlotReturns, TypeInv, TypeOK
  <2> QED
    BY <2>1, <2>4, <2>5 DEF SlotReturns, TypeInv, TypeOK, StackOK, edgeVars, batchVars
<1>2. CASE \E e \in Effect : EffectReturns(e)
  <2>1. PICK e \in Effect : EffectReturns(e)  BY <1>2
  <2>2. frames # <<>> /\ Top.op = "run"
    BY <2>1 DEF EffectReturns, Returns, At
  <2>3. Top.args \in Trace /\ StackOK(frames', depth')
    BY <2>1, <2>2, TopFrame, StackPop DEF EffectReturns, Below, batchVars, TypeInv
  <2>4. seen' \in [Effect -> Trace \cup {None}]
    BY <2>1, <2>3 DEF EffectReturns, TypeInv, TypeOK
  <2> QED
    BY <2>1, <2>3, <2>4 DEF EffectReturns, TypeInv, TypeOK, StackOK, edgeVars, batchVars
<1>3. CASE \E e \in Effect : EffectWrites(e)
  <2>1. PICK e \in Effect : EffectWrites(e)  BY <1>3
  <2>2. frames # <<>> /\ Top.op = "run" /\ Top.node = e
    BY <2>1 DEF EffectWrites, Returns, At
  <2>3. Top \in Frame /\ Top.args \in Trace /\ Result(e, Top.args) \in Val
    BY <2>2, TopFrame, BodiesAssumption DEF Reader
  <2>4. PICK w \in Written(e) : EffectWrites(e)!2!(w)
    BY <2>1 DEF EffectWrites
  <2>5. w[1] \in Source /\ w[2] \in Val /\ w[1] \in Node
    BY <2>3, BodiesAssumption DEF Written, Node
  <2>6. value' \in [Source -> Val] /\ pendingCells' \subseteq Source
    BY <2>4, <2>5 DEF TypeInv, TypeOK
  <2>7. seen' \in [Effect -> Trace \cup {None}]
    <3>1. seen' = seen \/ seen' = [seen EXCEPT ![e] = Top.args]
      BY <2>4
    <3> QED  BY <2>3, <3>1 DEF TypeInv, TypeOK
  <2>8. /\ parents' \in [Node -> SUBSET Reader]
        /\ work' \in Seq(SUBSET (Reader \cup {None}))
    <3>1. \/ parents' = parents /\ work' = work
          \/ parents' = TouchedEdges(w[1]) /\ work' = TouchedWork(w[1])
      BY <2>4
    <3> QED  BY <2>5, <3>1, EdgeTypes DEF TypeInv, TypeOK
  <2>9. StackOK(frames', depth)
    <3>1. StackOK(Below, depth)
      BY <2>2, StackPop DEF Below, TypeInv
    <3>2. StackOK(Append(Continue([Top EXCEPT !.op = "exit"]), DrainFrame), depth)
      BY <2>2, ExitDrain
    <3> QED  BY <2>4, <3>1, <3>2
  <2> QED
    BY <2>1, <2>6, <2>7, <2>8, <2>9 DEF EffectWrites, TypeInv, TypeOK, StackOK
<1>4. CASE \E c \in Computed : PullerReturns(c)
  <2>1. PICK c \in Computed : PullerReturns(c)  BY <1>4
  <2>2. /\ frames # <<>> /\ Top.op = "run" /\ Top.node = c
        /\ NextRead(c, Top.args) = Done
    BY <2>1 DEF PullerReturns, Returns, At
  <2>3. Top.args \in Trace /\ c \in Reader /\ c \in Node
    BY <2>2, TopFrame DEF Reader, Node
  <2>4. Top.args # <<>>
    BY <2>2, <2>3, BodiesAssumption, KindsAssumption DEF Node
  <2>5. Top.args[1] \in Out
    BY <2>3, <2>4, TraceIsSeq, FrontInSeq, ElementOfSeq
  <2>6. settled' \in [Computed -> Out] /\ settled'[c] \in Out
    BY <2>1, <2>5 DEF PullerReturns, TypeInv, TypeOK, Out
  <2>7. /\ parents' \in [Node -> SUBSET Reader]
        /\ work' \in Seq(SUBSET (Reader \cup {None}))
    <3>1. \/ parents' = parents /\ work' = work
          \/ parents' = TouchedEdges(c) /\ work' = TouchedWork(c)
      BY <2>1 DEF PullerReturns
    <3> QED  BY <2>3, <3>1, EdgeTypes DEF TypeInv, TypeOK
  <2>8. StackOK(frames', depth)
    BY <2>1, <2>2, <2>6, StackReturn, ExitDrain DEF PullerReturns
  <2> QED
    BY <2>1, <2>6, <2>7, <2>8 DEF PullerReturns, TypeInv, TypeOK, StackOK, Out, batchVars
<1>5. CASE \E r \in Observer : ObserverExits(r)
  <2>1. PICK r \in Observer : ObserverExits(r)  BY <1>5
  <2>2. frames # <<>> /\ Top.op = "exit" /\ Top.args \in Trace
    BY <2>1, TopFrame DEF ObserverExits, At
  <2>3. r \in Computed => settled[r] \in Out
    BY DEF TypeInv, TypeOK, Out
  <2>4. StackOK(frames', depth)
    BY <2>1, <2>2, <2>3, StackReturn, StackPop DEF ObserverExits, Below, TypeInv
  <2>5. seen' \in [Effect -> Trace \cup {None}]
    BY <2>1, <2>2 DEF ObserverExits, TypeInv, TypeOK
  <2> QED
    BY <2>1, <2>4, <2>5 DEF ObserverExits, TypeInv, TypeOK, StackOK, edgeVars, batchVars
<1>7. CASE BodyRaises
  BY <1>7 DEF BodyRaises, TypeInv, TypeOK, StackOK, nodeVars, edgeVars, batchVars
<1>8. CASE Unwind
  <2>1. frames # <<>> => StackOK(frames', depth')
    BY <1>8, StackPop DEF Unwind, Below, TypeInv, batchVars
  <2>2. CASE frames # <<>>
    BY <1>8, <2>1, <2>2 DEF Unwind, TypeInv, TypeOK, StackOK, nodeVars, edgeVars, batchVars
  <2>3. CASE frames = <<>>
    BY <1>8, <2>3 DEF Unwind, Below, TypeInv, TypeOK, StackOK, nodeVars, edgeVars, batchVars
  <2> QED  BY <2>2, <2>3
<1> QED  BY <1>1, <1>2, <1>3, <1>4, <1>5, <1>7, <1>8

\* An observer starts above anything but a body.
LEMMA TypeLaunch ==
  ASSUME TypeInv, NEW r \in Observer, NEW fs, Launch(r, fs), StackOK(fs, depth),
         fs = <<>> \/ fs[Len(fs)].op # "run"
  PROVE  /\ seen' \in [Effect -> Trace \cup {None}]
         /\ parents' \in [Node -> SUBSET Reader] /\ deps' \in [Reader -> SUBSET Node]
         /\ StackOK(frames', depth)
<1>1. r \in Reader /\ RunFrame(r) \in Frame /\ RunFrame(r).op \notin FlushOp
  BY NewFrames DEF Observer, Reader, RunFrame, FlushOp
<1>2. seen' \in [Effect -> Trace \cup {None}]
  BY DEF Launch, Cleaned, TypeInv, TypeOK
<1>3. parents' \in [Node -> SUBSET Reader] /\ deps' \in [Reader -> SUBSET Node]
  BY <1>1, EdgeTypes DEF Launch, Detach, TypeInv, TypeOK
<1>4. StackOK(frames', depth)
  BY <1>1, StackPush DEF Launch
<1> QED  BY <1>2, <1>3, <1>4

LEMMA TypeDrain ==
  ASSUME TypeInv,
         \/ \E n \in Slot : InvalidateSlot(n)
         \/ \E r \in Observer \cup {None} : InvalidateIgnored(r)
         \/ \E r \in Observer : InvalidateDeferred(r) \/ InvalidateRuns(r)
         \/ DrainDone
  PROVE  TypeInv'
<1>1. CASE \E n \in Slot : InvalidateSlot(n)
  <2>1. PICK n \in Slot : InvalidateSlot(n)  BY <1>1
  <2>2. n \in Node /\ Popped(n) \in Seq(SUBSET (Reader \cup {None}))
    BY <2>1, WorkTypes DEF InvalidateSlot, Pops, Node, TypeInv
  <2>3. /\ cache' \in [Slot -> Trace \cup {None}]
        /\ parents' \in [Node -> SUBSET Reader]
    <3>1. cache' = cache \/ cache' = [cache EXCEPT ![n] = None]
      BY <2>1 DEF InvalidateSlot
    <3>2. cache \in [Slot -> Trace \cup {None}]
      BY DEF TypeInv, TypeOK
    <3>3. parents' \in [Node -> SUBSET Reader]
      BY <2>1, EdgeTypes DEF InvalidateSlot, TypeInv, TypeOK
    <3> QED  BY <3>1, <3>2, <3>3
  <2>4. work' \in Seq(SUBSET (Reader \cup {None}))
    <3>1. parents[n] \in SUBSET (Reader \cup {None})
      BY <2>2 DEF TypeInv, TypeOK
    <3>2. work' = Popped(n) \/ work' = Append(Popped(n), parents[n])
      BY <2>1 DEF InvalidateSlot
    <3> QED  BY <2>2, <3>1, <3>2, AppendProperties
  <2> QED
    BY <2>1, <2>3, <2>4 DEF InvalidateSlot, TypeInv, TypeOK, StackOK, batchVars
<1>2. CASE \E r \in Observer \cup {None} : InvalidateIgnored(r)
  <2>1. PICK r \in Observer \cup {None} : InvalidateIgnored(r)  BY <1>2
  <2>2. work' \in Seq(SUBSET (Reader \cup {None}))
    BY <2>1, WorkTypes DEF InvalidateIgnored, Pops, TypeInv
  <2> QED
    BY <2>1, <2>2 DEF InvalidateIgnored, TypeInv, TypeOK, StackOK, nodeVars, edgeVars, batchVars
<1>3. CASE \E r \in Observer : InvalidateDeferred(r)
  <2>1. PICK r \in Observer : InvalidateDeferred(r)  BY <1>3
  <2>2. work' \in Seq(SUBSET (Reader \cup {None}))
    BY <2>1, WorkTypes DEF InvalidateDeferred, Pops, TypeInv
  <2>3. pendingEffects' \subseteq Effect \cup eager
    BY <2>1 DEF InvalidateDeferred, Observer, Dead, TypeInv, TypeOK
  <2> QED
    BY <2>1, <2>2, <2>3 DEF InvalidateDeferred, TypeInv, TypeOK, StackOK, nodeVars, edgeVars
<1>4. CASE \E r \in Observer : InvalidateRuns(r)
  <2>1. PICK r \in Observer : InvalidateRuns(r)  BY <1>4
  <2>2. work' \in Seq(SUBSET (Reader \cup {None}))
    BY <2>1, WorkTypes DEF InvalidateRuns, Pops, TypeInv
  <2>3. Top.op = "drain" /\ Launch(r, frames) /\ StackOK(frames, depth)
    BY <2>1 DEF InvalidateRuns, Pops, At, TypeInv
  <2>4. /\ seen' \in [Effect -> Trace \cup {None}]
        /\ parents' \in [Node -> SUBSET Reader] /\ deps' \in [Reader -> SUBSET Node]
        /\ StackOK(frames', depth)
    BY <2>3, TypeLaunch DEF Top
  <2> QED
    BY <2>1, <2>2, <2>4 DEF InvalidateRuns, TypeInv, TypeOK, StackOK, batchVars
<1>5. CASE DrainDone
  <2>1. StackOK(frames', depth)
    BY <1>5, StackPop DEF DrainDone, At, Below, TypeInv
  <2> QED
    BY <1>5, <2>1 DEF DrainDone, TypeInv, TypeOK, StackOK, nodeVars, edgeVars, batchVars
<1> QED  BY <1>1, <1>2, <1>3, <1>4, <1>5

LEMMA TypeFlush ==
  ASSUME TypeInv,
         \/ \E x \in Source : FlushTouch(x)
         \/ FlushWave \/ FlushEffects \/ FlushDone
         \/ \E r \in Observer : FlushRerun(r)
  PROVE  TypeInv'
<1>1. CASE \E x \in Source : FlushTouch(x)
  <2>1. PICK x \in Source : FlushTouch(x)  BY <1>1
  <2>2. frames # <<>> /\ Top.op = "phase1" /\ Top \in Frame
    BY <2>1, TopFrame DEF FlushTouch, At
  <2>3. StackOK(frames', depth)
    <3>1. [Top EXCEPT !.todo = @ \ {x}] \in Frame
      BY <2>2 DEF Frame, FlushOp
    <3>2. Top.op \in FlushOp
      BY <2>2 DEF FlushOp
    <3> QED  BY <2>1, <2>2, <3>1, <3>2, StackReplace DEF FlushTouch, Continue, Top, TypeInv
  <2>4. parents' \in [Node -> SUBSET Reader] /\ work' \in Seq(SUBSET (Reader \cup {None}))
    <3>1. x \in Node  BY DEF Node
    <3>2. \/ parents' = parents /\ work' = work
          \/ parents' = TouchedEdges(x) /\ work' = TouchedWork(x)
      BY <2>1 DEF FlushTouch
    <3> QED  BY <3>1, <3>2, EdgeTypes DEF TypeInv, TypeOK
  <2> QED
    BY <2>1, <2>3, <2>4 DEF FlushTouch, TypeInv, TypeOK, StackOK, nodeVars, batchVars
<1>2. CASE FlushWave
  <2>1. frames # <<>> /\ Top.op \in FlushOp
    BY <1>2 DEF FlushWave, At, FlushOp
  <2>2. /\ LoopFrame("wave", {}) \in Frame /\ LoopFrame("wave", {}).op = "wave"
        /\ DrainFrame \in Frame /\ DrainFrame.op \notin FlushOp
    BY NewFrames DEF LoopFrame, DrainFrame, FlushOp
  <2>3. /\ StackOK(Continue(LoopFrame("wave", {})), depth)
        /\ Continue(LoopFrame("wave", {}))[Len(Continue(LoopFrame("wave", {})))].op = "wave"
    BY <2>1, <2>2, StackReplace DEF Continue, Top, TypeInv
  <2>4. StackOK(frames', depth)
    BY <1>2, <2>2, <2>3, StackPush DEF FlushWave
  <2> QED
    BY <1>2, <2>4 DEF FlushWave, TypeInv, TypeOK, StackOK, nodeVars, edgeVars, batchVars
<1>3. CASE FlushEffects
  <2>1. frames # <<>> /\ Top.op \in FlushOp
    BY <1>3 DEF FlushEffects, At, FlushOp
  <2>2. pendingEffects \subseteq Source \cup Observer
    <3>1. pendingEffects \subseteq Effect \cup eager /\ eager \subseteq Computed
      BY ClientAssumption DEF TypeInv, TypeOK
    <3> QED  BY <3>1 DEF Observer
  <2>3. LoopFrame("phase2", pendingEffects) \in Frame
    BY <2>2, NewFrames DEF FlushOp
  <2>4. StackOK(frames', depth)
    BY <1>3, <2>1, <2>3, StackReplace DEF FlushEffects, Continue, Top, TypeInv
  <2> QED
    BY <1>3, <2>4 DEF FlushEffects, TypeInv, TypeOK, StackOK, nodeVars, edgeVars
<1>4. CASE \E r \in Observer : FlushRerun(r)
  <2>1. PICK r \in Observer : FlushRerun(r)  BY <1>4
  <2> DEFINE rest == Continue([Top EXCEPT !.todo = @ \ {r}])
  <2>2. frames # <<>> /\ Top.op = "phase2" /\ Top \in Frame
    BY <2>1, TopFrame DEF FlushRerun, At
  <2>3. StackOK(rest, depth) /\ rest[Len(rest)].op # "run"
    <3> DEFINE g == [Top EXCEPT !.todo = @ \ {r}]
    <3>1. g \in Frame /\ g.op = "phase2"
      BY <2>2 DEF Frame, FlushOp
    <3>2. Top.op \in FlushOp /\ g.op \in FlushOp
      BY <2>2, <3>1 DEF FlushOp
    <3>3. frames[Len(frames)].op \in FlushOp
      BY <3>2 DEF Top
    <3>4. rest = [frames EXCEPT ![Len(frames)] = g]
      BY DEF Continue
    <3>5. StackOK(frames, depth)
      BY DEF TypeInv
    <3> HIDE DEF g, rest
    <3>6. StackOK(rest, depth) /\ Len(rest) = Len(frames) /\ rest[Len(frames)] = g
      BY <2>2, <3>1, <3>2, <3>3, <3>4, <3>5, StackReplace
    <3> QED  BY <3>1, <3>6
  <2>4. CASE Dead(r)
    BY <2>1, <2>3, <2>4 DEF FlushRerun, TypeInv, TypeOK, StackOK, edgeVars, batchVars
  <2>5. CASE ~Dead(r)
    <3>1. Launch(r, rest)
      BY <2>1, <2>5 DEF FlushRerun
    <3>2. /\ seen' \in [Effect -> Trace \cup {None}]
          /\ parents' \in [Node -> SUBSET Reader] /\ deps' \in [Reader -> SUBSET Node]
          /\ StackOK(frames', depth)
      BY <2>3, <3>1, TypeLaunch
    <3> QED
      BY <2>1, <3>2 DEF FlushRerun, TypeInv, TypeOK, StackOK, batchVars
  <2> QED  BY <2>4, <2>5
<1>5. CASE FlushDone
  <2>1. frames # <<>> /\ Top.op \in FlushOp
    BY <1>5 DEF FlushDone, At, FlushOp
  <2>2. Len(frames) = 1 /\ depth > 0
    BY <2>1, FrontInSeq, LenProperties DEF StackOK, TypeInv, Top
  <2>3. frames' = <<>>
    BY <1>5, <2>2 DEF FlushDone, Below, TypeInv, StackOK
  <2>4. StackOK(frames', depth')
    BY <2>3 DEF StackOK
  <2>5. depth' \in 0..MaxDepth
    BY <1>5, <2>2, BodiesAssumption DEF FlushDone, TypeInv, TypeOK
  <2> QED
    BY <1>5, <2>4, <2>5 DEF FlushDone, TypeInv, TypeOK, StackOK, nodeVars, edgeVars
<1> QED  BY <1>1, <1>2, <1>3, <1>4, <1>5

LEMMA StackOne ==
  ASSUME NEW f \in Frame, NEW d, f.op \in FlushOp => d > 0
  PROVE  StackOK(<<f>>, d)
BY DEF StackOK

LEMMA StackNone == \A d : StackOK(<<>>, d)
BY DEF StackOK

LEMMA TypeWrites ==
  ASSUME TypeInv,
         \/ \E x \in Source, v \in Val : Set(x, v)
         \/ \E n \in Slot : Reset(n) \/ CallSlot(n)
         \/ BatchEnter \/ BatchExit
  PROVE  TypeInv'
<1>0. Idle /\ StackOK(<<DrainFrame>>, depth)
  BY NewFrames, StackOne DEF Set, Reset, CallSlot, BatchEnter, BatchExit, DrainFrame,
     LoopFrame, FlushOp
<1>1. CASE \E x \in Source, v \in Val : Set(x, v)
  <2>1. PICK x \in Source, v \in Val : Set(x, v)  BY <1>1
  <2>2. value' \in [Source -> Val] /\ pendingCells' \subseteq Source
    BY <2>1 DEF Set, TypeInv, TypeOK
  <2>3. parents' \in [Node -> SUBSET Reader] /\ work' \in Seq(SUBSET (Reader \cup {None}))
    <3>1. x \in Node  BY DEF Node
    <3>2. \/ parents' = parents /\ work' = work
          \/ parents' = TouchedEdges(x) /\ work' = TouchedWork(x)
      BY <2>1 DEF Set
    <3> QED  BY <3>1, <3>2, EdgeTypes DEF TypeInv, TypeOK
  <2>4. StackOK(frames', depth)
    BY <1>0, <2>1, StackNone DEF Set, Idle
  <2> QED
    BY <2>1, <2>2, <2>3, <2>4 DEF Set, TypeInv, TypeOK, StackOK
<1>2. CASE \E n \in Slot : Reset(n)
  <2>1. PICK n \in Slot : Reset(n)  BY <1>2
  <2>2. work' \in Seq(SUBSET (Reader \cup {None}))
    <3>1. {n} \in SUBSET (Reader \cup {None})  BY DEF Reader
    <3> QED  BY <2>1, <3>1, AppendProperties DEF Reset, TypeInv, TypeOK
  <2> QED
    BY <1>0, <2>1, <2>2 DEF Reset, TypeInv, TypeOK, StackOK, nodeVars, edgeVars, batchVars
<1>3. CASE \E n \in Slot : CallSlot(n)
  <2>1. PICK n \in Slot : CallSlot(n)  BY <1>3
  <2>2. deps' \in [Reader -> SUBSET Node]
    BY <2>1 DEF CallSlot, TypeInv, TypeOK
  <2>3. StackOK(<<RunFrame(n)>>, depth)
    BY NewFrames, StackOne DEF RunFrame, Reader, FlushOp
  <2> QED
    BY <2>1, <2>2, <2>3 DEF CallSlot, TypeInv, TypeOK, StackOK, nodeVars, batchVars
<1>4. CASE BatchEnter
  <2>1. depth' \in 0..MaxDepth
    BY <1>4, BodiesAssumption DEF BatchEnter, TypeInv, TypeOK
  <2>2. StackOK(frames', depth')
    BY <1>4, StackNone DEF BatchEnter, Idle
  <2> QED
    BY <1>4, <2>1, <2>2 DEF BatchEnter, TypeInv, TypeOK, StackOK, nodeVars, edgeVars
<1>5. CASE BatchExit
  <2>1. depth' \in 0..MaxDepth /\ pendingCells' \subseteq Source
    BY <1>5, BodiesAssumption DEF BatchExit, TypeInv, TypeOK
  <2>2. StackOK(frames', depth')
    <3>1. LoopFrame("phase1", pendingCells) \in Frame
      BY NewFrames DEF TypeInv, TypeOK, FlushOp
    <3>2. CASE depth = 1
      BY <1>5, <3>1, <3>2, StackOne DEF BatchExit
    <3>3. CASE depth # 1
      BY <1>5, <3>3, StackNone DEF BatchExit, Idle
    <3> QED  BY <3>2, <3>3
  <2> QED
    BY <1>5, <2>1, <2>2 DEF BatchExit, TypeInv, TypeOK, StackOK, nodeVars, edgeVars
<1> QED  BY <1>1, <1>2, <1>3, <1>4, <1>5

LEMMA TypeObservers ==
  ASSUME TypeInv,
         \/ \E c \in Computed : CallStale(c) \/ MakeEager(c) \/ MakeLazy(c)
         \/ \E e \in Effect : CallEffect(e)
  PROVE  TypeInv'
<1>1. ASSUME NEW r \in Observer, Launch(r, <<>>)
      PROVE  /\ seen' \in [Effect -> Trace \cup {None}]
             /\ parents' \in [Node -> SUBSET Reader] /\ deps' \in [Reader -> SUBSET Node]
             /\ StackOK(frames', depth)
  BY <1>1, StackNone, TypeLaunch
<1>2. CASE \E c \in Computed : CallStale(c) \/ MakeEager(c)
  <2>1. PICK c \in Computed : CallStale(c) \/ MakeEager(c)  BY <1>2
  <2>2. c \in Observer /\ Launch(c, <<>>)
    BY <2>1 DEF CallStale, MakeEager, Observer
  <2>3. eager' \subseteq CanEager /\ stale' \subseteq eager'
    BY <2>1 DEF CallStale, MakeEager, TypeInv, TypeOK
  <2>4. pendingEffects' \subseteq Effect \cup eager'
    BY <2>1 DEF CallStale, MakeEager, TypeInv, TypeOK, batchVars
  <2> QED
    BY <1>1, <2>1, <2>2, <2>3, <2>4
    DEF CallStale, MakeEager, TypeInv, TypeOK, StackOK, batchVars
<1>3. CASE \E e \in Effect : CallEffect(e)
  <2>1. PICK e \in Effect : CallEffect(e)  BY <1>3
  <2>2. e \in Observer /\ Launch(e, <<>>)
    BY <2>1 DEF CallEffect, Observer
  <2> QED
    BY <1>1, <2>1, <2>2 DEF CallEffect, TypeInv, TypeOK, StackOK, batchVars
<1>4. CASE \E c \in Computed : MakeLazy(c)
  <2>1. PICK c \in Computed : MakeLazy(c)  BY <1>4
  <2>2. parents' \in [Node -> SUBSET Reader] /\ deps' \in [Reader -> SUBSET Node]
    BY <2>1, EdgeTypes DEF MakeLazy, Detach, TypeInv, TypeOK
  <2>3. work' \in Seq(SUBSET (Reader \cup {None}))
    <3> DEFINE forget(S) == {IF r = c THEN None ELSE r : r \in S}
    <3>1. work \in Seq(SUBSET (Reader \cup {None})) /\ Len(work) \in Nat
          /\ DOMAIN work = 1..Len(work)
      BY LenProperties DEF TypeInv, TypeOK
    <3>2. \A i \in 1..Len(work) : work[i] \in SUBSET (Reader \cup {None})
      BY <3>1, ElementOfSeq
    <3>3. \A S \in SUBSET (Reader \cup {None}) : forget(S) \in SUBSET (Reader \cup {None})
      OBVIOUS
    <3>4. work' = [i \in 1..Len(work) |-> forget(work[i])]
      BY <2>1, <3>1 DEF MakeLazy
    <3> HIDE DEF forget
    <3>5. work' \in [1..Len(work) -> SUBSET (Reader \cup {None})]
      BY <3>2, <3>3, <3>4
    <3> QED  BY <3>1, <3>5
  <2>4. /\ eager' \subseteq CanEager /\ stale' \subseteq eager'
        /\ pendingEffects' \subseteq Effect \cup eager'
    BY <2>1 DEF MakeLazy, TypeInv, TypeOK
  <2> QED
    BY <2>1, <2>2, <2>3, <2>4 DEF MakeLazy, TypeInv, TypeOK, StackOK
<1> QED  BY <1>2, <1>3, <1>4

LEMMA TypeDisposal ==
  ASSUME TypeInv,
         \/ \E x \in Source : DisposeSource(x)
         \/ \E n \in Slot : DisposeSlot(n)
         \/ \E e \in Effect : DisposeEffect(e)
  PROVE  TypeInv'
<1>1. ASSUME NEW roots, NEW es \in [Node -> SUBSET Reader], Dirty(Cone(roots, es), es),
             UNCHANGED eager
      PROVE  /\ cache' \in [Slot -> Trace \cup {None}] /\ stale' \subseteq eager'
             /\ parents' \in [Node -> SUBSET Reader]
  <2>1. Cone(roots, es) \cap Computed \subseteq eager
    BY DEF Cone, Dead
  <2>2. cache' \in [Slot -> Trace \cup {None}] /\ stale' \subseteq eager'
    BY <1>1, <2>1 DEF Dirty, TypeInv, TypeOK
  <2>3. parents' \in [Node -> SUBSET Reader]
    BY <1>1 DEF Dirty, Reader
  <2> QED  BY <2>2, <2>3
<1>2. CASE \E x \in Source : DisposeSource(x)
  <2>1. PICK x \in Source : DisposeSource(x)  BY <1>2
  <2>2. TouchedEdges(x) \in [Node -> SUBSET Reader]
    BY EdgeTypes DEF TypeInv
  <2>3. Dirty(Cone(parents[x], TouchedEdges(x)), TouchedEdges(x)) /\ UNCHANGED eager
        /\ disposed' \subseteq Disposable
    BY <2>1 DEF DisposeSource, TypeInv, TypeOK
  <2> QED
    BY <1>1, <2>1, <2>2, <2>3 DEF DisposeSource, TypeInv, TypeOK, StackOK, batchVars
<1>3. CASE \E n \in Slot : DisposeSlot(n)
  <2>1. PICK n \in Slot : DisposeSlot(n)  BY <1>3
  <2> DEFINE es == [Detached(n) EXCEPT ![n] = {}]
  <2>2. es \in [Node -> SUBSET Reader]
    BY EdgeTypes DEF TypeInv
  <2>3. Dirty(Cone(parents[n], es), es) /\ UNCHANGED eager
        /\ disposed' \subseteq Disposable /\ deps' \in [Reader -> SUBSET Node]
    BY <2>1 DEF DisposeSlot, TypeInv, TypeOK
  <2> HIDE DEF es
  <2> QED
    BY <1>1, <2>1, <2>2, <2>3 DEF DisposeSlot, TypeInv, TypeOK, StackOK, batchVars
<1>4. CASE \E e \in Effect : DisposeEffect(e)
  <2>1. PICK e \in Effect : DisposeEffect(e)  BY <1>4
  <2>2. parents' \in [Node -> SUBSET Reader] /\ deps' \in [Reader -> SUBSET Node]
    BY <2>1, EdgeTypes DEF DisposeEffect, Detach, TypeInv, TypeOK
  <2>3. seen' \in [Effect -> Trace \cup {None}] /\ disposed' \subseteq Disposable
    BY <2>1 DEF DisposeEffect, Cleaned, TypeInv, TypeOK
  <2> QED
    BY <2>1, <2>2, <2>3 DEF DisposeEffect, TypeInv, TypeOK, StackOK, batchVars
<1> QED  BY <1>2, <1>3, <1>4

(***************************************************************************)
(* Type correctness.                                                       *)
(***************************************************************************)
LEMMA TypeStep == TypeInv /\ [Next]_vars => TypeInv'
<1> SUFFICES ASSUME TypeInv, [Next]_vars PROVE TypeInv'
  OBVIOUS
<1>1. CASE Body
  BY <1>1, TypeBodyReads, TypeReturns DEF Body, Node
<1>2. CASE Engine
  BY <1>2, TypeDrain, TypeFlush DEF Engine
<1>3. CASE Unwind \/ BodyRaises
  BY <1>3, TypeReturns
<1>4. CASE Client
  BY <1>4, TypeWrites, TypeObservers, TypeDisposal DEF Client
<1>5. CASE UNCHANGED vars
  BY <1>5 DEF vars, nodeVars, edgeVars, batchVars, TypeInv, TypeOK, StackOK
<1> QED  BY <1>1, <1>2, <1>3, <1>4, <1>5 DEF Next, Internal

\* The state keeps its shape: in particular a flush only ever runs as the
\* outermost call of a batch, so `_depth -= 1` never makes the depth negative,
\* and no body's trace outgrows what it reads (batch.py _flush, slot.py,
\* signal.py, effect.py).
THEOREM TypeCorrect == Spec => []TypeOK
<1>1. Init => TypeInv
  BY TypeInit
<1>2. TypeInv /\ [Next]_vars => TypeInv'
  BY TypeStep
<1>3. TypeInv => TypeOK
  BY DEF TypeInv
<1> QED  BY <1>1, <1>2, <1>3, PTL DEF Spec

(***************************************************************************)
(* What the steps do to the call stack, frame by frame.                    *)
(***************************************************************************)
LEMMA Stack ==
  ASSUME TypeInv
  PROVE  /\ frames \in Seq(Frame) /\ Len(frames) \in Nat /\ DOMAIN frames = 1..Len(frames)
         /\ frames # <<>> => Len(frames) # 0 /\ Top = frames[Len(frames)] /\ Top \in Frame
         /\ frames = <<>> => Len(frames) = 0
BY LenProperties, TopFrame, EmptySeq DEF TypeInv, TypeOK, Top

LEMMA BelowStack ==
  ASSUME TypeInv, frames # <<>>
  PROVE  /\ Below \in Seq(Frame) /\ Len(Below) = Len(frames) - 1
         /\ DOMAIN Below = 1..(Len(frames) - 1)
         /\ \A i \in DOMAIN Below : i \in DOMAIN frames /\ i < Len(frames) /\ Below[i] = frames[i]
<1>1. frames \in Seq(Frame) /\ Len(frames) \in Nat /\ DOMAIN frames = 1..Len(frames)
  BY Stack
<1>2. /\ Below \in Seq(Frame) /\ Len(Below) = Len(frames) - 1
      /\ \A i \in 1..(Len(frames) - 1) : Below[i] = frames[i]
  BY <1>1, FrontInSeq DEF Below
<1> QED  BY <1>1, <1>2, LenProperties

LEMMA PushStack ==
  ASSUME TypeInv, NEW f
  PROVE  /\ Len(Push(f)) = Len(frames) + 1 /\ DOMAIN Push(f) = 1..(Len(frames) + 1)
         /\ \A i \in DOMAIN frames : Push(f)[i] = frames[i]
         /\ Push(f)[Len(frames) + 1] = f
<1>1. frames \in Seq(Frame) /\ Len(frames) \in Nat /\ DOMAIN frames = 1..Len(frames)
  BY Stack
<1> QED  BY <1>1 DEF Push

LEMMA ContinueStack ==
  ASSUME TypeInv, frames # <<>>, NEW f
  PROVE  /\ Len(Continue(f)) = Len(frames) /\ DOMAIN Continue(f) = 1..Len(frames)
         /\ \A i \in DOMAIN frames : Continue(f)[i] = IF i = Len(frames) THEN f ELSE frames[i]
<1>1. frames \in Seq(Frame) /\ Len(frames) \in Nat /\ DOMAIN frames = 1..Len(frames)
  BY Stack
<1> QED  BY <1>1 DEF Continue

\* The last frame changes and another is put on top.
LEMMA ContinuePush ==
  ASSUME TypeInv, frames # <<>>, NEW f \in Frame, NEW g \in Frame, NEW fs,
         fs = Append(Continue(f), g)
  PROVE  /\ Len(fs) = Len(frames) + 1 /\ DOMAIN fs = 1..(Len(frames) + 1)
         /\ \A i \in DOMAIN frames : fs[i] = IF i = Len(frames) THEN f ELSE frames[i]
         /\ fs[Len(frames) + 1] = g
<1>1. /\ TypeInv /\ frames \in Seq(Frame) /\ Len(frames) \in Nat \ {0}
      /\ DOMAIN frames = 1..Len(frames)
  BY Stack
<1> DEFINE gs == Continue(f)
<1>2. /\ gs \in Seq(Frame) /\ Len(gs) = Len(frames)
      /\ \A i \in DOMAIN frames : gs[i] = IF i = Len(frames) THEN f ELSE frames[i]
  BY <1>1, ContinueStack, ExceptSeq DEF Continue
<1>3. fs = Append(gs, g)
  OBVIOUS
<1> HIDE DEF gs
<1>4. /\ Len(fs) = Len(gs) + 1 /\ DOMAIN fs = 1..(Len(gs) + 1)
      /\ \A i \in 1..Len(gs) : fs[i] = gs[i]
      /\ fs[Len(gs) + 1] = g
  BY <1>2, <1>3, AppendProperties, LenProperties
<1> QED  BY <1>1, <1>2, <1>4

\* Where each frame of such a stack comes from.
LEMMA TopFrames ==
  ASSUME TypeInv, frames # <<>>, NEW f \in Frame, NEW g \in Frame,
         frames' = Continue(f) \/ frames' = Append(Continue(f), g)
  PROVE  \A i \in DOMAIN frames' :
           \/ i \in DOMAIN frames /\ i # Len(frames) /\ frames'[i] = frames[i]
           \/ frames'[i] = f
           \/ frames'[i] = g
<1>1. /\ DOMAIN frames = 1..Len(frames) /\ Len(frames) \in Nat \ {0} /\ TypeInv
      /\ Top = frames[Len(frames)]
  BY Stack
<1>2. CASE frames' = Continue(f)
  <2>1. /\ DOMAIN frames' = 1..Len(frames)
        /\ \A i \in DOMAIN frames : frames'[i] = IF i = Len(frames) THEN f ELSE frames[i]
    BY <1>1, <1>2, ContinueStack
  <2> QED  BY <1>1, <2>1
<1>3. CASE frames' = Append(Continue(f), g)
  <2> DEFINE fs == frames'
  <2>1. fs = Append(Continue(f), g)
    BY <1>3
  <2> HIDE DEF fs
  <2>2. /\ DOMAIN fs = 1..(Len(frames) + 1) /\ fs[Len(frames) + 1] = g
        /\ \A i \in DOMAIN frames : fs[i] = IF i = Len(frames) THEN f ELSE frames[i]
    BY <1>1, <2>1, ContinuePush
  <2>3. \A i \in DOMAIN fs : i = Len(frames) + 1 \/ i \in DOMAIN frames
    BY <1>1, <2>2
  <2> QED  BY <2>2, <2>3 DEF fs
<1> QED  BY <1>2, <1>3

\* What a return does to the stack: one frame less, a value more for a reader.
LEMMA ReturnStack ==
  ASSUME TypeInv, frames # <<>>, NEW v
  PROVE  /\ Len(Return(v)) = Len(frames) - 1 /\ DOMAIN Return(v) = 1..(Len(frames) - 1)
         /\ \A i \in 1..(Len(frames) - 1) :
              Return(v)[i] = IF i = Len(frames) - 1 /\ frames[i].op = "run"
                             THEN [frames[i] EXCEPT !.args = Append(@, v)] ELSE frames[i]
<1>1. /\ Below \in Seq(Frame) /\ Len(Below) = Len(frames) - 1
      /\ DOMAIN Below = 1..(Len(frames) - 1) /\ Len(frames) \in Nat
      /\ \A i \in DOMAIN Below : Below[i] = frames[i]
  BY BelowStack, Stack
<1>2. CASE Below # <<>> /\ Below[Len(Below)].op = "run"
  <2>1. Len(Below) \in DOMAIN Below
    BY <1>1, <1>2, EmptySeq
  <2>2. Return(v) = [Below EXCEPT ![Len(Below)].args = Append(@, v)]
    BY <1>2 DEF Return
  <2>3. /\ Len(Return(v)) = Len(Below) /\ DOMAIN Return(v) = DOMAIN Below
        /\ \A i \in DOMAIN Below :
             Return(v)[i] = IF i = Len(Below) THEN [Below[i] EXCEPT !.args = Append(@, v)]
                            ELSE Below[i]
    <3> DEFINE g == [Below[Len(Below)] EXCEPT !.args = Append(@, v)]
    <3>1. Return(v) = [Below EXCEPT ![Len(Below)] = g]
      BY <2>2
    <3>2. Below \in Seq(Frame)
      BY <1>1
    <3> HIDE DEF g
    <3>3. DOMAIN Return(v) = DOMAIN Below
          /\ \A i \in DOMAIN Below : Return(v)[i] = IF i = Len(Below) THEN g ELSE Below[i]
      BY <2>1, <3>1, <3>2
    <3>4. Len(Return(v)) = Len(Below)
      BY <3>1, <3>2, LenProperties
    <3> QED  BY <3>3, <3>4 DEF g
  <2> QED  BY <1>1, <1>2, <2>3
<1>3. CASE ~(Below # <<>> /\ Below[Len(Below)].op = "run")
  <2>1. Return(v) = Below
    BY <1>3 DEF Return
  <2>2. \A i \in 1..(Len(frames) - 1) : Below # <<>>
    BY <1>1
  <2> QED  BY <1>1, <1>3, <2>1, <2>2
<1> QED  BY <1>2, <1>3

\* g is the frame f, which may have read one thing more.
ReadsOn(f, g) ==
  /\ g.op = f.op /\ g.node = f.node
  /\ \/ g.args = f.args
     \/ NextRead(f.node, f.args) # Done /\ \E v : g.args = Append(f.args, v)

\* Every way a step changes the stack: it leaves it or pops it; a read calls a
\* slot's body, or reruns a stale computed's puller; a step above anything but a
\* slot's body starts loops and live observers; a client calls a slot.
Moves ==
  \/ \A i \in DOMAIN frames' : i \in DOMAIN frames /\ ReadsOn(frames[i], frames'[i])
  \/ frames # <<>> /\ Top.op = "run" /\ \E q \in Slot : frames' = Push(RunFrame(q))
  \/ \E c \in Computed : ReadStale(c)
  \/ /\ frames = <<>> \/ Top.op # "run" \/ Top.node \in Observer
     /\ \A i \in DOMAIN frames' : \/ i \in DOMAIN frames /\ frames'[i] = frames[i]
                                  \/ frames'[i].op # "run"
                                  \/ frames'[i].node \in Observer \ disposed'
  \/ frames = <<>> /\ \E n \in Slot : frames' = <<RunFrame(n)>>

LEMMA PopMoves ==
  ASSUME TypeInv, frames # <<>>, frames' = Below \/ \E v : frames' = Return(v)
  PROVE  Moves
<1>1. frames \in Seq(Frame) /\ Len(frames) \in Nat /\ DOMAIN frames = 1..Len(frames)
  BY Stack
<1>2. CASE frames' = Below
  BY <1>2, BelowStack DEF Moves, ReadsOn
<1>3. CASE \E v : frames' = Return(v)
  <2>1. PICK v : frames' = Return(v)
    BY <1>3
  <2>2. /\ DOMAIN frames' = 1..(Len(frames) - 1)
        /\ \A i \in 1..(Len(frames) - 1) :
             frames'[i] = IF i = Len(frames) - 1 /\ frames[i].op = "run"
                          THEN [frames[i] EXCEPT !.args = Append(@, v)] ELSE frames[i]
    BY <2>1, ReturnStack
  <2>3. ASSUME NEW i \in DOMAIN frames'
        PROVE  i \in DOMAIN frames /\ ReadsOn(frames[i], frames'[i])
    <3>1. i \in DOMAIN frames /\ frames[i] \in Frame /\ i < Len(frames)
      BY <1>1, <2>2
    <3>2. CASE i = Len(frames) - 1 /\ frames[i].op = "run"
      <4>1. NextRead(frames[i].node, frames[i].args) # Done
        BY <3>1, <3>2 DEF TypeInv, StackOK
      <4> QED  BY <2>2, <3>1, <3>2, <4>1 DEF Frame, ReadsOn
    <3>3. CASE ~(i = Len(frames) - 1 /\ frames[i].op = "run")
      BY <2>2, <3>1, <3>3 DEF ReadsOn
    <3> QED  BY <3>1, <3>2, <3>3
  <2> QED  BY <2>3 DEF Moves
<1> QED  BY <1>2, <1>3

LEMMA LoopMoves ==
  ASSUME TypeInv, frames # <<>>, Top.op # "run" \/ Top.node \in Observer,
         NEW f \in Frame, f.op # "run", NEW g \in Frame,
         g.op # "run" \/ g.node \in Observer \ disposed',
         frames' = Continue(f) \/ frames' = Append(Continue(f), g)
  PROVE  Moves
BY TopFrames DEF Moves

LEMMA BodyMoves ==
  ASSUME TypeInv, Body
  PROVE  Moves
<1>1. ASSUME NEW d \in Node, Reads(d), NEW v, Receive(v)
      PROVE  Moves
  <2>1. /\ frames # <<>> /\ Top \in Frame /\ Top = frames[Len(frames)]
        /\ DOMAIN frames = 1..Len(frames) /\ Len(frames) \in Nat
    BY <1>1, Stack DEF Reads, At
  <2> DEFINE f == [Top EXCEPT !.args = Append(@, v)]
  <2>2. ReadsOn(Top, f)
    BY <1>1, <2>1, KindsAssumption DEF Frame, Reads, ReadsOn
  <2>3. frames' = Continue(f)
    BY <1>1 DEF Receive
  <2> HIDE DEF f
  <2>4. /\ DOMAIN frames' = 1..Len(frames)
        /\ \A i \in DOMAIN frames : frames'[i] = IF i = Len(frames) THEN f ELSE frames[i]
    BY <2>1, <2>3, ContinueStack
  <2> QED  BY <2>1, <2>2, <2>4 DEF Moves, ReadsOn
<1>2. ASSUME NEW d \in Node, NEW q \in Slot, Reads(d), frames' = Push(RunFrame(q))
      PROVE  Moves
  BY <1>2 DEF Moves, Reads, At
<1>3. ASSUME Top.node \in Observer, frames # <<>>,
             frames' = Append(Continue([Top EXCEPT !.op = "exit"]), DrainFrame)
      PROVE  Moves
  <2> DEFINE f == [Top EXCEPT !.op = "exit"]
  <2>1. /\ f.op = "exit" /\ DOMAIN frames = 1..Len(frames) /\ Len(frames) \in Nat \ {0}
        /\ frames \in Seq(Frame)
    BY <1>3, Stack DEF Frame
  <2> DEFINE gs == Continue(f)
  <2>2. /\ gs \in Seq({frames[i] : i \in DOMAIN frames} \cup {f}) /\ Len(gs) = Len(frames)
        /\ \A i \in DOMAIN frames : gs[i] = IF i = Len(frames) THEN f ELSE frames[i]
    <3>1. frames \in Seq({frames[i] : i \in DOMAIN frames} \cup {f})
      BY <2>1
    <3>2. Len(frames) \in 1..Len(frames)
      BY <2>1
    <3> QED  BY <1>3, <2>1, <3>1, <3>2, ContinueStack, ExceptSeq DEF Continue
  <2>3. frames' = Append(gs, DrainFrame)
    BY <1>3
  <2> HIDE DEF gs, f
  <2>4. /\ DOMAIN frames' = 1..(Len(gs) + 1) /\ frames'[Len(gs) + 1] = DrainFrame
        /\ \A i \in 1..Len(gs) : frames'[i] = gs[i]
    BY <2>2, <2>3
  <2>5. ASSUME NEW i \in DOMAIN frames', frames'[i].op = "run"
        PROVE  i \in DOMAIN frames /\ frames'[i] = frames[i]
    <3>1. i # Len(gs) + 1
      BY <2>4, <2>5 DEF DrainFrame, LoopFrame
    <3>2. i \in DOMAIN frames /\ frames'[i] = gs[i]
      BY <2>1, <2>2, <2>4, <3>1
    <3> QED  BY <2>1, <2>2, <2>5, <3>2
  <2> QED  BY <1>3, <2>5 DEF Moves
<1>4. ASSUME NEW x \in Source, ReadSource(x) \/ ReadDisposed(x)
      PROVE  Moves
  <2>1. CASE ReadSource(x)
    BY <1>1, <2>1 DEF ReadSource, Node
  <2>2. CASE ReadDisposed(x)
    BY <2>2 DEF ReadDisposed, Moves, ReadsOn
  <2> QED  BY <1>4, <2>1, <2>2
<1>5. ASSUME NEW n \in Slot, ReadCached(n) \/ ReadMiss(n) \/ ReadDisposed(n) \/ SlotReturns(n)
      PROVE  Moves
  <2>1. CASE ReadCached(n)
    BY <1>1, <2>1 DEF ReadCached, Node
  <2>2. CASE ReadMiss(n)
    BY <1>2, <2>2 DEF ReadMiss, Node
  <2>3. CASE ReadDisposed(n)
    BY <2>3 DEF ReadDisposed, Moves, ReadsOn
  <2>4. CASE SlotReturns(n)
    BY <2>4, PopMoves DEF SlotReturns, Returns, At
  <2> QED  BY <1>5, <2>1, <2>2, <2>3, <2>4
<1>6. ASSUME NEW c \in Computed, \/ ReadLazyCached(c) \/ ReadLazyMiss(c) \/ ReadSettled(c)
                                \/ ReadStale(c) \/ PullerReturns(c)
      PROVE  Moves
  <2>1. CASE ReadLazyCached(c) \/ ReadSettled(c)
    BY <1>1, <2>1 DEF ReadLazyCached, ReadSettled, Node
  <2>2. CASE ReadLazyMiss(c)
    BY <1>2, <2>2, BodiesAssumption DEF ReadLazyMiss, Node
  <2>3. CASE ReadStale(c)
    BY <2>3 DEF Moves
  <2>4. CASE PullerReturns(c)
    <3>1. /\ frames # <<>> /\ Top.node \in Observer
          /\ \/ frames' = Append(Continue([Top EXCEPT !.op = "exit"]), DrainFrame)
             \/ \E v : frames' = Return(v)
      BY <2>4 DEF PullerReturns, Returns, At, Observer
    <3> QED  BY <1>3, <3>1, PopMoves
  <2> QED  BY <1>6, <2>1, <2>2, <2>3, <2>4
<1>7. ASSUME NEW e \in Effect, EffectReturns(e) \/ EffectWrites(e)
      PROVE  Moves
  <2>1. /\ frames # <<>> /\ Top.node \in Observer
        /\ \/ frames' = Append(Continue([Top EXCEPT !.op = "exit"]), DrainFrame)
           \/ frames' = Below
    BY <1>7 DEF EffectReturns, EffectWrites, Returns, At, Observer
  <2> QED  BY <1>3, <2>1, PopMoves
<1>8. ASSUME NEW r \in Observer, ObserverExits(r)
      PROVE  Moves
  BY <1>8, PopMoves DEF ObserverExits, At
<1> QED  BY <1>4, <1>5, <1>6, <1>7, <1>8 DEF Body

LEMMA EngineMoves ==
  ASSUME TypeInv, Engine
  PROVE  Moves
<1>1. ASSUME NEW r \in Observer
      PROVE  RunFrame(r) \in Frame /\ RunFrame(r).node = r
  BY NewFrames DEF RunFrame, Observer, Reader
<1>2. CASE \/ \E n \in Slot : InvalidateSlot(n)
           \/ \E r \in Observer \cup {None} : InvalidateIgnored(r)
           \/ \E r \in Observer : InvalidateDeferred(r)
  BY <1>2 DEF InvalidateSlot, InvalidateIgnored, InvalidateDeferred, Moves, ReadsOn
<1>3. ASSUME NEW r \in Observer, InvalidateRuns(r)
      PROVE  Moves
  <2>1. /\ frames # <<>> /\ Top.op = "drain" /\ frames' = Append(frames, RunFrame(r))
        /\ r \notin disposed'
    BY <1>3 DEF InvalidateRuns, Pops, At, Launch, Dead
  <2>2. Top \in Frame /\ Continue(Top) = frames
    BY <2>1, Stack, FrontInSeq DEF Continue
  <2> QED  BY <1>1, <2>1, <2>2, LoopMoves
<1>4. ASSUME NEW r \in Observer, FlushRerun(r)
      PROVE  Moves
  <2> DEFINE f == [Top EXCEPT !.todo = @ \ {r}]
  <2>1. frames # <<>> /\ Top.op = "phase2" /\ Top \in Frame
    BY <1>4, Stack DEF FlushRerun, At
  <2>2. f \in Frame /\ f.op # "run"
    BY <2>1 DEF Frame, FlushOp
  <2>3. \/ frames' = Continue(f)
        \/ frames' = Append(Continue(f), RunFrame(r)) /\ r \notin disposed'
    BY <1>4 DEF FlushRerun, Launch, Dead
  <2> HIDE DEF f
  <2>4. CASE frames' = Continue(f)
    BY <2>1, <2>2, <2>4, LoopMoves
  <2>5. CASE frames' = Append(Continue(f), RunFrame(r)) /\ r \notin disposed'
    BY <1>1, <2>1, <2>2, <2>5, LoopMoves
  <2> QED  BY <2>3, <2>4, <2>5
<1>5. ASSUME NEW x \in Source, FlushTouch(x)
      PROVE  Moves
  <2> DEFINE f == [Top EXCEPT !.todo = @ \ {x}]
  <2>1. frames # <<>> /\ Top.op = "phase1" /\ Top \in Frame /\ frames' = Continue(f)
    BY <1>5, Stack DEF FlushTouch, At
  <2>2. f \in Frame /\ f.op # "run"
    BY <2>1 DEF Frame, FlushOp
  <2> HIDE DEF f
  <2> QED  BY <2>1, <2>2, LoopMoves
<1>6. CASE DrainDone \/ FlushDone
  BY <1>6, PopMoves DEF DrainDone, FlushDone, At
<1>7. CASE FlushWave
  <2>1. /\ LoopFrame("wave", {}) \in Frame /\ LoopFrame("wave", {}).op # "run"
        /\ DrainFrame \in Frame /\ DrainFrame.op # "run"
    BY NewFrames DEF LoopFrame, DrainFrame, FlushOp
  <2> QED  BY <1>7, <2>1, LoopMoves DEF FlushWave, At
<1>8. CASE FlushEffects
  <2>1. pendingEffects \subseteq Source \cup Observer
    BY ClientAssumption DEF TypeInv, TypeOK, Observer
  <2>2. /\ LoopFrame("phase2", pendingEffects) \in Frame
        /\ LoopFrame("phase2", pendingEffects).op # "run"
    BY <2>1, NewFrames DEF LoopFrame, FlushOp
  <2> QED  BY <1>8, <2>2, LoopMoves DEF FlushEffects, At
<1> QED  BY <1>2, <1>3, <1>4, <1>5, <1>6, <1>7, <1>8 DEF Engine

LEMMA ClientMoves ==
  ASSUME TypeInv, Client
  PROVE  Moves
<1>1. ASSUME NEW r \in Observer, r \notin disposed', frames = <<>>, Launch(r, <<>>)
      PROVE  Moves
  <2>1. frames' = <<RunFrame(r)>>
    BY <1>1 DEF Launch
  <2> QED  BY <1>1, <2>1 DEF RunFrame, Moves
<1>2. ASSUME NEW r \in Observer, CallStale(r) \/ MakeEager(r) \/ CallEffect(r)
      PROVE  Moves
  <2>1. r \notin disposed
    BY <1>2, ClientAssumption, KindsAssumption
    DEF CallStale, MakeEager, CallEffect, TypeInv, TypeOK, Observer
  <2> QED  BY <1>1, <1>2, <2>1 DEF CallStale, MakeEager, CallEffect, Idle
<1>3. ASSUME frames = <<>>, \/ frames' = <<>> \/ frames' = <<DrainFrame>>
                            \/ \E todo : frames' = <<LoopFrame("phase1", todo)>>
      PROVE  Moves
  BY <1>3 DEF Moves, DrainFrame, LoopFrame
<1>4. ASSUME NEW n \in Slot, CallSlot(n)
      PROVE  Moves
  BY <1>4 DEF CallSlot, Idle, Moves
<1>5. CASE \/ \E x \in Source, v \in Val : Set(x, v)
           \/ \E n \in Slot : Reset(n) \/ DisposeSlot(n)
           \/ \E x \in Source : DisposeSource(x)
           \/ \E c \in Computed : MakeLazy(c)
           \/ BatchEnter \/ BatchExit
  BY <1>3, <1>5 DEF Set, Reset, DisposeSlot, DisposeSource, MakeLazy, BatchEnter, BatchExit, Idle
<1>6. CASE \E e \in Effect : DisposeEffect(e)
  BY <1>6 DEF DisposeEffect, Moves, ReadsOn
<1> QED  BY <1>2, <1>4, <1>5, <1>6 DEF Client, Observer

LEMMA StackMoves ==
  ASSUME TypeInv, [Next]_vars
  PROVE  Moves
<1>1. CASE Unwind
  <2>1. frames = <<>> => Below = <<>>
    BY DEF Below
  <2>2. CASE frames = <<>>
    BY <1>1, <2>1, <2>2 DEF Unwind, Moves, ReadsOn
  <2>3. CASE frames # <<>>
    BY <1>1, <2>3, PopMoves DEF Unwind
  <2> QED  BY <2>2, <2>3
<1>2. CASE BodyRaises \/ UNCHANGED vars
  BY <1>2 DEF BodyRaises, vars, Moves, ReadsOn
<1> QED  BY <1>1, <1>2, BodyMoves, EngineMoves, ClientMoves DEF Next, Internal

(***************************************************************************)
(* What disposing an effect promises (effect.py dispose, slot.py           *)
(* _detach_from_dependencies): the graph forgets it, in every graph and    *)
(* whatever the order of runs, waves, exceptions and disposals.            *)
(***************************************************************************)
\* A dependent set that names an effect is named by that effect: detaching finds
\* every edge there is.
Named == \A d \in Node, e \in Effect : e \in parents[d] => d \in deps[e]

EInv == TypeInv /\ Named

\* An edge to a disposed effect was there before, or its open body has made it.
Leaves ==
  \A e \in Effect \cap disposed', d \in Node :
    e \in parents'[d] => e \in disposed /\ (e \in parents[d] \/ InBody(e))

(***************************************************************************)
(* What a step may do to the edges of effects.                             *)
(***************************************************************************)
\* It drops reverse edges only.
Drops ==
  /\ \A d \in Node, e \in Effect : e \in parents'[d] => e \in parents[d]
  /\ \A e \in Effect : deps'[e] = deps[e]
  /\ disposed' \cap Effect \subseteq disposed

\* The body on top of the stack subscribes to the nodes of ns.
Subscribes(ns) ==
  /\ frames # <<>> /\ Top.op = "run"
  /\ \A d \in Node, e \in Effect : e \in parents'[d] => e \in parents[d] \/ (e = Top.node /\ d \in ns)
  /\ \A e \in Effect : deps'[e] = IF e = Top.node THEN deps[e] \cup ns ELSE deps[e]
  /\ UNCHANGED disposed

\* An observer gives up all it depends on.
GivesUp(r) == r \in Observer /\ Detach(r) /\ disposed' \subseteq disposed \cup {r}

LEMMA DropsKeep ==
  ASSUME EInv, Drops
  PROVE  Named' /\ Leaves
<1>1. Named'
  BY DEF EInv, Named, Drops
<1>2. Leaves
  BY DEF Leaves, Drops
<1> QED  BY <1>1, <1>2

LEMMA SubscribesKeep ==
  ASSUME EInv, NEW ns, Subscribes(ns)
  PROVE  Named' /\ Leaves
<1>1. Named'
  BY DEF EInv, Named, Subscribes
<1>2. InBody(Top.node)
  BY Stack DEF EInv, InBody, Subscribes
<1>3. Leaves
  BY <1>2 DEF Leaves, Subscribes
<1> QED  BY <1>1, <1>3

LEMMA GivesUpKeep ==
  ASSUME EInv, NEW r, GivesUp(r)
  PROVE  Named' /\ Leaves
<1>1. /\ \A d \in Node, e \in Effect : e \in parents'[d] => e \in parents[d] /\ (e = r => d \notin deps[e])
      /\ \A e \in Effect : deps'[e] = IF e = r THEN {} ELSE deps[e]
  BY DEF GivesUp, Detach, Detached, EInv, TypeInv, TypeOK, Reader
<1>2. \A d \in Node : r \notin parents'[d] \/ r \notin Effect
  BY <1>1 DEF EInv, Named
<1>3. Named'
  BY <1>1, <1>2 DEF EInv, Named
<1>4. Leaves
  BY <1>1, <1>2 DEF Leaves, GivesUp
<1> QED  BY <1>3, <1>4

\* Bodies begin for live effects only.
LEMMA NeverBegins ==
  ASSUME TypeInv, [Next]_vars, NEW e \in Effect, e \in disposed', InBody(e)'
  PROVE  InBody(e)
<1>1. Moves /\ Slot \cap Effect = {} /\ Computed \cap Effect = {}
  BY StackMoves, KindsAssumption
<1>2. PICK i \in DOMAIN frames' : frames'[i].op = "run" /\ frames'[i].node = e
  BY DEF InBody
<1>3. ASSUME frames # <<>>, NEW q, q \notin Effect, frames' = Push(RunFrame(q))
      PROVE  InBody(e)
  <2>1. /\ DOMAIN frames' = 1..(Len(frames) + 1)
        /\ \A j \in DOMAIN frames : frames'[j] = frames[j]
        /\ frames'[Len(frames) + 1].node = q
    BY <1>3, PushStack DEF RunFrame
  <2>2. i \in DOMAIN frames
    BY <1>2, <1>3, <2>1, Stack
  <2> QED  BY <1>2, <2>1, <2>2 DEF InBody
<1>4. ASSUME NEW c \in Computed, ReadStale(c)
      PROVE  InBody(e)
  BY <1>1, <1>3, <1>4 DEF ReadStale, Reads, At
<1>5. ASSUME NEW n \in Slot, frames' = <<RunFrame(n)>>
      PROVE  InBody(e)
  BY <1>1, <1>2, <1>5 DEF RunFrame
<1>6. CASE i \in DOMAIN frames /\ (frames'[i] = frames[i] \/ ReadsOn(frames[i], frames'[i]))
  BY <1>2, <1>6 DEF InBody, ReadsOn
<1> QED  BY <1>1, <1>2, <1>3, <1>4, <1>5, <1>6 DEF Moves

(***************************************************************************)
(* One lemma for each group of actions.                                    *)
(***************************************************************************)
LEMMA BodyEdges ==
  ASSUME EInv, Body
  PROVE  /\ Named' /\ Leaves
         /\ UNCHANGED disposed
<1>1. /\ Slot \cap Effect = {} /\ Computed \cap Effect = {} /\ TypeInv
      /\ Memo \in [Computed -> Slot]
  BY KindsAssumption, BodiesAssumption DEF EInv
<1>2. ASSUME NEW ns, NEW d, Reads(d), Register(ns, Top.node), UNCHANGED disposed
      PROVE  Named' /\ Leaves
  <2>1. Top.node \in Reader
    BY <1>1, <1>2, TopFrame DEF Reads, At
  <2>2. Subscribes(ns)
    BY <1>2, <2>1
    DEF Subscribes, Reads, At, Register, Registered, EInv, TypeInv, TypeOK, Reader
  <2> QED  BY <2>2, SubscribesKeep
<1>3. ASSUME NEW ns, NEW d, NEW n \in Slot, Reads(d), RegisterMiss(ns, Top.node, n),
             UNCHANGED disposed
      PROVE  Named' /\ Leaves
  <2>1. Top.node \in Reader
    BY <1>1, <1>3, TopFrame DEF Reads, At
  <2>2. \A e \in Effect : deps'[e] = IF e = Top.node THEN deps[e] \cup ns ELSE deps[e]
    <3> SUFFICES ASSUME NEW e \in Effect
                 PROVE  deps'[e] = IF e = Top.node THEN deps[e] \cup ns ELSE deps[e]
      OBVIOUS
    <3>1. e # n /\ e \in Reader
      BY <1>1 DEF Reader
    <3> QED  BY <1>3, <2>1, <3>1 DEF RegisterMiss, EInv, TypeInv, TypeOK
  <2>3. Subscribes(ns)
    BY <1>3, <2>2 DEF Subscribes, Reads, At, RegisterMiss, Registered
  <2> QED  BY <2>3, SubscribesKeep
<1>4. ASSUME NEW x \in Source, ReadSource(x) \/ ReadDisposed(x)
      PROVE  Named' /\ Leaves /\ UNCHANGED disposed
  BY <1>2, <1>4 DEF ReadSource, ReadDisposed, nodeVars
<1>5. ASSUME NEW n \in Slot, ReadCached(n) \/ ReadDisposed(n)
      PROVE  Named' /\ Leaves /\ UNCHANGED disposed
  BY <1>2, <1>5 DEF ReadCached, ReadDisposed, nodeVars
<1>6. ASSUME NEW n \in Slot, ReadMiss(n)
      PROVE  Named' /\ Leaves /\ UNCHANGED disposed
  BY <1>3, <1>6 DEF ReadMiss, nodeVars
<1>7. ASSUME NEW c \in Computed, ReadLazyCached(c) \/ ReadSettled(c)
      PROVE  Named' /\ Leaves /\ UNCHANGED disposed
  BY <1>2, <1>7 DEF ReadLazyCached, ReadSettled, nodeVars
<1>8. ASSUME NEW c \in Computed, ReadLazyMiss(c)
      PROVE  Named' /\ Leaves /\ UNCHANGED disposed
  BY <1>1, <1>3, <1>8 DEF ReadLazyMiss, nodeVars
<1>9. ASSUME NEW c \in Computed, ReadStale(c)
      PROVE  Named' /\ Leaves /\ UNCHANGED disposed
  <2>1. Top.node \in Reader /\ c \in Node /\ frames # <<>> /\ Top.op = "run"
    BY <1>1, <1>9, TopFrame DEF ReadStale, Reads, At, Node
  <2>2. \A e \in Effect : deps'[e] = IF e = Top.node THEN deps[e] \cup {c} ELSE deps[e]
    <3> SUFFICES ASSUME NEW e \in Effect
                 PROVE  deps'[e] = IF e = Top.node THEN deps[e] \cup {c} ELSE deps[e]
      OBVIOUS
    <3>1. e # c /\ e \in Reader
      BY <1>1 DEF Reader
    <3> QED  BY <1>9, <2>1, <3>1 DEF ReadStale, EInv, TypeInv, TypeOK
  <2>3. ASSUME NEW d \in Node, NEW e \in Effect, e \in parents'[d]
        PROVE  e \in parents[d] \/ (e = Top.node /\ d \in {c})
    <3>1. parents' = [Detached(c) EXCEPT ![c] = @ \cup {Top.node}]
      BY <1>9 DEF ReadStale
    <3>2. Detached(c)[d] \subseteq parents[d] /\ DOMAIN Detached(c) = Node
      BY DEF Detached
    <3>3. CASE d = c
      BY <2>1, <2>3, <3>1, <3>2, <3>3
    <3>4. CASE d # c
      BY <2>3, <3>1, <3>2, <3>4
    <3> QED  BY <3>3, <3>4
  <2>4. Subscribes({c}) /\ UNCHANGED disposed
    BY <1>9, <2>1, <2>2, <2>3 DEF Subscribes, ReadStale
  <2> QED  BY <2>4, SubscribesKeep
<1>10. ASSUME \/ \E n \in Slot : SlotReturns(n)
              \/ \E c \in Computed : PullerReturns(c)
              \/ \E e \in Effect : EffectReturns(e) \/ EffectWrites(e)
              \/ \E r \in Observer : ObserverExits(r)
       PROVE  Named' /\ Leaves /\ UNCHANGED disposed
  <2>1. UNCHANGED <<deps, disposed>> /\ \/ UNCHANGED parents
                                        \/ \E x : parents' = TouchedEdges(x)
    BY <1>10
    DEF SlotReturns, PullerReturns, EffectReturns, EffectWrites, ObserverExits, edgeVars
  <2>2. \A d \in Node : parents'[d] \subseteq parents[d]
    BY <2>1 DEF TouchedEdges, EInv, TypeInv, TypeOK
  <2>3. Drops
    BY <2>1, <2>2 DEF Drops
  <2> QED  BY <2>1, <2>3, DropsKeep
<1> QED
  BY <1>4, <1>5, <1>6, <1>7, <1>8, <1>9, <1>10 DEF Body

LEMMA EngineEdges ==
  ASSUME EInv, Engine
  PROVE  /\ Named' /\ Leaves
         /\ UNCHANGED disposed
<1>1. CASE \/ \E n \in Slot : InvalidateSlot(n)
           \/ \E r \in Observer \cup {None} : InvalidateIgnored(r)
           \/ \E r \in Observer : InvalidateDeferred(r)
           \/ \E r \in Observer : FlushRerun(r) /\ Dead(r)
           \/ \E x \in Source : FlushTouch(x)
           \/ DrainDone \/ FlushWave \/ FlushEffects \/ FlushDone
  <2>1. UNCHANGED <<deps, disposed>> /\ \/ UNCHANGED parents
                                        \/ \E x : parents' = TouchedEdges(x)
    BY <1>1
    DEF InvalidateSlot, InvalidateIgnored, InvalidateDeferred, FlushRerun, FlushTouch, DrainDone,
        FlushWave, FlushEffects, FlushDone, nodeVars, edgeVars
  <2>2. \A d \in Node : parents'[d] \subseteq parents[d]
    BY <2>1 DEF TouchedEdges, EInv, TypeInv, TypeOK
  <2>3. Drops
    BY <2>1, <2>2 DEF Drops
  <2> QED  BY <2>1, <2>3, DropsKeep
<1>2. CASE \E r \in Observer : InvalidateRuns(r) \/ (FlushRerun(r) /\ ~Dead(r))
  <2>1. PICK r \in Observer : InvalidateRuns(r) \/ (FlushRerun(r) /\ ~Dead(r))
    BY <1>2
  <2>2. GivesUp(r) /\ UNCHANGED disposed
    BY <2>1 DEF InvalidateRuns, FlushRerun, Launch, GivesUp
  <2> QED  BY <2>2, GivesUpKeep
<1> QED  BY <1>1, <1>2 DEF Engine

LEMMA ClientEdges ==
  ASSUME EInv, Client
  PROVE  Named' /\ Leaves
<1>1. /\ Slot \cap Effect = {} /\ Computed \cap Effect = {} /\ Source \cap Effect = {} /\ TypeInv
  BY KindsAssumption DEF EInv
<1>2. CASE \/ \E x \in Source, v \in Val : Set(x, v)
           \/ \E n \in Slot : Reset(n) \/ CallSlot(n)
           \/ BatchEnter \/ BatchExit
  <2>1. UNCHANGED disposed /\ \/ UNCHANGED parents
                              \/ \E x : parents' = TouchedEdges(x)
    BY <1>2 DEF Set, Reset, CallSlot, BatchEnter, BatchExit, nodeVars, edgeVars
  <2>2. \A d \in Node : parents'[d] \subseteq parents[d]
    BY <2>1 DEF TouchedEdges, EInv, TypeInv, TypeOK
  <2>3. \A e \in Effect : deps'[e] = deps[e]
    <3>1. deps' = deps \/ \E n \in Slot : deps' = [deps EXCEPT ![n] = {}]
      BY <1>2 DEF Set, Reset, CallSlot, BatchEnter, BatchExit, edgeVars
    <3> QED  BY <1>1, <3>1 DEF EInv, TypeInv, TypeOK, Reader
  <2>4. Drops
    BY <2>1, <2>2, <2>3 DEF Drops
  <2> QED  BY <2>4, DropsKeep
<1>3. CASE \/ \E c \in Computed : CallStale(c) \/ MakeEager(c) \/ MakeLazy(c)
           \/ \E e \in Effect : CallEffect(e) \/ DisposeEffect(e)
  <2>1. PICK r \in Observer : \/ CallStale(r) \/ MakeEager(r) \/ MakeLazy(r)
                              \/ CallEffect(r) \/ DisposeEffect(r)
    BY <1>3 DEF Observer
  <2>2. GivesUp(r)
    BY <2>1 DEF CallStale, MakeEager, MakeLazy, CallEffect, DisposeEffect, Launch, GivesUp
  <2> QED  BY <2>2, GivesUpKeep
<1>4. ASSUME NEW x \in Source \cup Slot, NEW roots, NEW es, Dirty(Cone(roots, es), es),
             disposed' = disposed \cup {x}, \A d \in Node : es[d] \subseteq parents[d],
             \A e \in Effect : deps'[e] = deps[e]
      PROVE  Named' /\ Leaves
  <2>1. \A d \in Node, e \in Effect : e \in parents'[d] => e \in es[d]
    BY <1>1, <1>4 DEF Dirty
  <2>2. Drops
    BY <1>1, <1>4, <2>1 DEF Drops
  <2> QED  BY <2>2, DropsKeep
<1>5. ASSUME NEW x \in Source, DisposeSource(x)
      PROVE  Named' /\ Leaves
  <2> DEFINE es == TouchedEdges(x)
  <2>1. \A d \in Node : es[d] \subseteq parents[d]
    BY DEF TouchedEdges, EInv, TypeInv, TypeOK
  <2>2. /\ Dirty(Cone(parents[x], es), es) /\ disposed' = disposed \cup {x}
        /\ UNCHANGED deps
    BY <1>5 DEF DisposeSource
  <2> HIDE DEF es
  <2> QED  BY <1>4, <2>1, <2>2
<1>6. ASSUME NEW n \in Slot, DisposeSlot(n)
      PROVE  Named' /\ Leaves
  <2> DEFINE es == [Detached(n) EXCEPT ![n] = {}]
  <2>1. \A d \in Node : es[d] \subseteq parents[d]
    BY DEF Detached
  <2>2. /\ Dirty(Cone(parents[n], es), es) /\ disposed' = disposed \cup {n}
        /\ \A e \in Effect : deps'[e] = deps[e]
    BY <1>1, <1>6 DEF DisposeSlot
  <2> HIDE DEF es
  <2> QED  BY <1>4, <2>1, <2>2
<1> QED  BY <1>2, <1>3, <1>5, <1>6 DEF Client

LEMMA EffectsStep ==
  ASSUME EInv, [Next]_vars
  PROVE  EInv' /\ Detaches
<1>1. TypeInv'
  BY TypeStep DEF EInv
<1>2. Named' /\ Leaves
  <2>1. CASE Body \/ Engine \/ Client
    BY <2>1, BodyEdges, EngineEdges, ClientEdges
  <2>2. CASE Unwind \/ BodyRaises \/ UNCHANGED vars
    <3>1. Drops
      BY <2>2 DEF Unwind, BodyRaises, vars, nodeVars, edgeVars, Drops
    <3> QED  BY <3>1, DropsKeep
  <2> QED  BY <2>1, <2>2 DEF Next, Internal
<1>3. Detaches
  BY <1>2, NeverBegins DEF EInv, Leaves, Detaches
<1> QED  BY <1>1, <1>2, <1>3 DEF EInv

\* Disposing an effect ends it, whatever runs, is queued or raises meanwhile, its
\* own body included: the disposal leaves it in no dependent set, no body of it
\* begins after, and only one that had begun before can subscribe it again
\* (effect.py dispose, Effect.__call__, slot.py _detach_from_dependencies,
\* _register_edge).
THEOREM EffectsStayDetached == Spec => EffectsDetached
<1>1. Init => EInv
  <2>1. Init => TypeInv
    BY TypeInit
  <2> QED  BY <2>1 DEF Init, EInv, Named
<1>2. EInv /\ [Next]_vars => EInv' /\ Detaches
  BY EffectsStep
<1> QED  BY <1>1, <1>2, PTL DEF Spec, EffectsDetached

(***************************************************************************)
(* What a cached slot promises (slot.py Slot.__call__, _invalidate,        *)
(* touch): it is linked to everything it was computed from, for every      *)
(* graph of slots, computeds and effects without a cycle.  Where slots     *)
(* read sources and slots it is also worth what recomputing it would give. *)
(*                                                                         *)
(* The promise rests on one thing the code does not enforce: that no       *)
(* invalidation runs above a slot's own computation.  A slot that reads an *)
(* eager computed a disposal dirtied makes it publish in the middle of the *)
(* slot's run; that wave takes the links of the caches being computed, and *)
(* they are filled afterwards without them.                                *)
(***************************************************************************)
(***************************************************************************)
(* The shape of the call stack.                                            *)
(***************************************************************************)
\* A slot's body; a body a slot's read may have started.
IsSlotRun(f) == f.op = "run" /\ f.node \in Slot
IsInner(f) == f.op = "run" /\ f.node \in Slot \cup Computed

\* g is what the body f waits for.
Callee(f, g) ==
  LET d == NextRead(f.node, f.args) IN
  g.node = d \/ (d \in Computed /\ g.node = Memo[d])

\* Above a slot's body there is only the chain of calls its read started.
Shape(fs) ==
  \A i, j \in DOMAIN fs :
    i < j /\ IsSlotRun(fs[i]) => IsInner(fs[j]) /\ Callee(fs[j - 1], fs[j])

\* A source waits in a flush only while nothing else runs (batch.py _flush).
Staged(fs, rs) ==
  \A i \in DOMAIN fs :
    IF fs[i].op = "phase1" THEN i = Len(fs) /\ ~rs ELSE fs[i].todo \cap Source = {}

\* A drain runs above a slot's computation.
Interrupted ==
  \E i, j \in DOMAIN frames : i < j /\ IsSlotRun(frames[i]) /\ frames[j].op = "drain"

\* No slot or computed reads itself, even through others.
Acyclic ==
  \A S \in SUBSET (Slot \cup Computed) : S # {} =>
    \E r \in S : \A s \in Trace :
      LET d == NextRead(r, s) IN d \notin S /\ (d \in Computed => Memo[d] \notin S)

(***************************************************************************)
(* The invariant.                                                          *)
(***************************************************************************)
\* r is queued for invalidation, or hears of changes of all that it read to
\* get s, and s is still what those are.
Linked(r, s) ==
  InWork(r) \/ \A k \in DOMAIN s :
    LET d == ReadAt(r, s, k) IN
    d \in Source \cup Slot => d \notin disposed /\ Tracks(r, d, s[k])

Cached == \A n \in Slot : cache[n] # None => Linked(n, cache[n])
Partial == \A i \in DOMAIN frames :
             IsSlotRun(frames[i]) => Linked(frames[i].node, frames[i].args)

\* A slot waits for a slot only after it subscribed to it.
Awaited == \A i \in DOMAIN frames :
             i < Len(frames) /\ IsSlotRun(frames[i]) /\ IsSlotRun(frames[i + 1])
               => frames[i].node \in parents[frames[i + 1].node]

\* A disposed slot has no value and does not run; one that runs has none yet.
Unsettled ==
  /\ \A n \in Slot : n \in disposed => cache[n] = None
  /\ \A i \in DOMAIN frames : IsSlotRun(frames[i]) =>
       cache[frames[i].node] = None /\ frames[i].node \notin disposed

IInv == /\ TypeInv /\ Shape(frames) /\ Staged(frames, raising)
        /\ Unsettled /\ Awaited /\ Cached /\ Partial

(***************************************************************************)
(* Steps that keep links.                                                  *)
(***************************************************************************)
QueuedNext(r) == \E i \in DOMAIN work' : r \in work'[i]
DeferredNext(x) == x \in pendingCells' \/ \E i \in DOMAIN frames' : x \in frames'[i].todo

\* Linked(r, s) in the next state.
LinkedNext(r, s) ==
  QueuedNext(r) \/ \A k \in DOMAIN s :
    LET d == ReadAt(r, s, k) IN
    d \in Source \cup Slot =>
      /\ d \notin disposed' /\ r \in parents'[d]
      /\ IF d \in Source THEN value'[d] = s[k] \/ DeferredNext(d)
         ELSE cache'[d] # None /\ Result(d, cache'[d]) = s[k]

\* The step invalidates r or leaves what r is linked to.
KeepsLink(r, d) ==
  /\ r \in parents'[d] /\ d \notin disposed'
  /\ d \in Source => /\ Deferred(d) => DeferredNext(d)
                     /\ value'[d] = value[d] \/ DeferredNext(d)
  /\ d \in Slot /\ cache[d] # None => cache'[d] = cache[d]
Keeps(r) ==
  \/ QueuedNext(r)
  \/ /\ ~InWork(r)
     /\ \A d \in Source \cup Slot : r \in parents[d] /\ d \notin disposed => KeepsLink(r, d)

LEMMA LinkedKept ==
  ASSUME NEW r, NEW s, Linked(r, s), Keeps(r)
  PROVE  LinkedNext(r, s)
<1>1. CASE QueuedNext(r)
  BY <1>1 DEF LinkedNext
<1>2. CASE ~QueuedNext(r)
  <2>1. /\ ~InWork(r)
        /\ \A d \in Source \cup Slot : r \in parents[d] /\ d \notin disposed => KeepsLink(r, d)
    BY <1>2 DEF Keeps
  <2> SUFFICES ASSUME NEW k \in DOMAIN s, NEW d \in Source \cup Slot, d = ReadAt(r, s, k)
               PROVE  /\ d \notin disposed' /\ r \in parents'[d]
                      /\ IF d \in Source THEN value'[d] = s[k] \/ DeferredNext(d)
                         ELSE cache'[d] # None /\ Result(d, cache'[d]) = s[k]
    BY DEF LinkedNext
  <2>2. d \notin disposed /\ Tracks(r, d, s[k])
    BY <2>1 DEF Linked
  <2>3. r \in parents[d] /\ KeepsLink(r, d)
    BY <2>1, <2>2 DEF Tracks
  <2>4. CASE d \in Source
    BY <2>2, <2>3, <2>4 DEF Tracks, KeepsLink
  <2>5. CASE d \notin Source
    BY <2>2, <2>3, <2>5 DEF Tracks, KeepsLink, CachedValue
  <2> QED  BY <2>4, <2>5
<1> QED  BY <1>1, <1>2

\* The invariant in the next state, spelt out.
LEMMA NextLinks ==
  /\ (\A n \in Slot : cache'[n] # None => LinkedNext(n, cache'[n])) => Cached'
  /\ (\A i \in DOMAIN frames' : IsSlotRun(frames'[i]) =>
        LinkedNext(frames'[i].node, frames'[i].args)) => Partial'
<1>1. ASSUME \A n \in Slot : cache'[n] # None => LinkedNext(n, cache'[n])
      PROVE  Cached'
  BY <1>1 DEF Cached, Linked, LinkedNext, InWork, QueuedNext, Tracks, Deferred, DeferredNext,
             CachedValue, ReadAt
<1>2. ASSUME \A i \in DOMAIN frames' : IsSlotRun(frames'[i]) =>
               LinkedNext(frames'[i].node, frames'[i].args)
      PROVE  Partial'
  BY <1>2 DEF Partial, IsSlotRun, Linked, LinkedNext, InWork, QueuedNext, Tracks, Deferred,
             DeferredNext, CachedValue, ReadAt
<1> QED  BY <1>1, <1>2

\* A step that fills no cache and after which no slot's body is on the stack.
Slotless(fs) == \A i \in DOMAIN fs : ~IsSlotRun(fs[i])

LEMMA SlotlessStep ==
  ASSUME IInv, TypeInv', Slotless(frames'), Staged(frames', raising'),
         \A n \in Slot : n \in disposed' => cache'[n] = None,
         \A n \in Slot : cache'[n] # None => cache'[n] = cache[n] /\ Keeps(n)
  PROVE  IInv'
<1>1. Shape(frames')
  BY DEF Slotless, Shape
<1>2. Unsettled' /\ Awaited'
  BY DEF Slotless, Unsettled, Awaited, IsSlotRun
<1>3. Partial'
  BY NextLinks DEF Slotless
<1>4. ASSUME NEW n \in Slot, cache'[n] # None
      PROVE  LinkedNext(n, cache'[n])
  BY <1>4, LinkedKept DEF IInv, Cached
<1>5. Cached'
  BY <1>4, NextLinks
<1> QED  BY <1>1, <1>2, <1>3, <1>5 DEF IInv

\* Where a drain, a flush, an effect or an ending observer is at work, no slot
\* is being computed.
LEMMA NoSlotBelow ==
  ASSUME IInv, frames # <<>>, ~IsInner(Top)
  PROVE  Slotless(frames)
<1>1. /\ Len(frames) \in Nat \ {0} /\ DOMAIN frames = 1..Len(frames)
      /\ Top = frames[Len(frames)]
  BY Stack DEF IInv
<1> SUFFICES ASSUME NEW i \in DOMAIN frames, IsSlotRun(frames[i]) PROVE FALSE
  BY DEF Slotless
<1>2. i # Len(frames)
  BY <1>1 DEF IsSlotRun, IsInner
<1> QED  BY <1>1, <1>2 DEF IInv, Shape

\* The argument for Acyclic: the bodies from one run of a slot up to a second
\* one would all read each other.
LEMMA NoReentry ==
  ASSUME Acyclic, IInv, NEW i \in DOMAIN frames, NEW j \in DOMAIN frames, i < j,
         IsSlotRun(frames[i])
  PROVE  frames[i].node # frames[j].node
<1>1. frames \in Seq(Frame) /\ Len(frames) \in Nat /\ DOMAIN frames = 1..Len(frames)
  BY Stack DEF IInv
<1>2. \A k \in i..j : k \in DOMAIN frames /\ IsInner(frames[k])
  BY <1>1 DEF IInv, Shape, IsSlotRun, IsInner
<1>3. \A k \in i..(j - 1) : Callee(frames[k], frames[k + 1])
  <2> SUFFICES ASSUME NEW k \in i..(j - 1) PROVE Callee(frames[k], frames[k + 1])
    OBVIOUS
  <2>1. k \in DOMAIN frames /\ k + 1 \in DOMAIN frames /\ i < k + 1 /\ (k + 1) - 1 = k
    BY <1>1
  <2> QED  BY <2>1 DEF IInv, Shape
<1> SUFFICES ASSUME frames[i].node = frames[j].node PROVE FALSE
  OBVIOUS
<1> DEFINE S == {frames[k].node : k \in i..(j - 1)}
<1>4. S \subseteq Slot \cup Computed /\ S # {}
  <2>1. i \in i..(j - 1)
    BY <1>1
  <2> QED  BY <1>1, <1>2, <2>1 DEF IsInner
<1>5. PICK r \in S : \A s \in Trace :
        LET d == NextRead(r, s) IN d \notin S /\ (d \in Computed => Memo[d] \notin S)
  BY <1>4 DEF Acyclic
<1>6. PICK k \in i..(j - 1) : r = frames[k].node
  BY <1>5
<1>7. frames[k].args \in Trace
  <2>1. frames[k] \in Frame /\ frames[k].op = "run"
    BY <1>1, <1>2 DEF IsInner
  <2> QED  BY <2>1, FrameKinds
<1>8. frames[k + 1].node \in S
  <2>1. CASE k = j - 1
    BY <1>1, <1>4, <2>1
  <2>2. CASE k # j - 1
    BY <1>1, <2>2
  <2> QED  BY <2>1, <2>2
<1> QED  BY <1>3, <1>5, <1>6, <1>7, <1>8 DEF Callee

(***************************************************************************)
(* Steps of a body.                                                        *)
(***************************************************************************)
LEMMA DeferredKept ==
  ASSUME IInv, frames = <<>> \/ Top.op # "phase1", pendingCells \subseteq pendingCells'
  PROVE  \A x \in Source : Deferred(x) => DeferredNext(x)
<1>1. /\ DOMAIN frames = 1..Len(frames) /\ Len(frames) \in Nat
      /\ frames # <<>> => Top = frames[Len(frames)]
      /\ frames = <<>> => Len(frames) = 0
  BY Stack DEF IInv
<1>2. \A i \in DOMAIN frames : frames[i].todo \cap Source = {}
  BY <1>1 DEF IInv, Staged
<1> QED  BY <1>2 DEF Deferred, DeferredNext

\* A step that writes nothing, invalidates nothing and only adds links.
LEMMA QuietKeeps ==
  ASSUME IInv, frames = <<>> \/ Top.op # "phase1", UNCHANGED <<value, disposed>>,
         pendingCells \subseteq pendingCells',
         \A n \in Slot : cache[n] # None => cache'[n] = cache[n],
         NEW r, InWork(r) => QueuedNext(r),
         \A d \in Source \cup Slot : r \in parents[d] => r \in parents'[d]
  PROVE  Keeps(r)
BY DeferredKept DEF Keeps, KeepsLink

\* Where a step leaves the stack as it is but for its last frame, the shape is
\* left as it is if the last frame runs the same body.
LEMMA SameShape ==
  ASSUME TypeInv, Shape(frames), NEW fs, DOMAIN fs = 1..Len(fs), Len(fs) \in Nat,
         Len(fs) <= Len(frames),
         \A i \in 1..Len(fs) : fs[i].op = frames[i].op /\ fs[i].node = frames[i].node,
         \A i \in 1..Len(fs) : i < Len(fs) => fs[i] = frames[i]
  PROVE  Shape(fs)
<1>1. Len(frames) \in Nat /\ DOMAIN frames = 1..Len(frames)
  BY Stack
<1> SUFFICES ASSUME NEW i \in DOMAIN fs, NEW j \in DOMAIN fs, i < j, IsSlotRun(fs[i])
             PROVE  IsInner(fs[j]) /\ Callee(fs[j - 1], fs[j])
  BY DEF Shape
<1>2. i \in DOMAIN frames /\ j \in DOMAIN frames /\ IsSlotRun(frames[i])
  BY <1>1 DEF IsSlotRun
<1>3. IsInner(frames[j]) /\ Callee(frames[j - 1], frames[j])
  BY <1>2 DEF Shape
<1>4. IsInner(fs[j])
  BY <1>1, <1>3 DEF IsInner
<1>5. fs[j - 1] = frames[j - 1]
  BY <1>1
<1>6. fs[j].node = frames[j].node
  OBVIOUS
<1> QED  BY <1>3, <1>4, <1>5, <1>6 DEF Callee

\* What a body read before does not depend on what it reads next.
LEMMA AppendRead ==
  ASSUME NEW r, NEW s \in Seq(Out), NEW v
  PROVE  LET t == Append(s, v) IN
         /\ DOMAIN t = 1..(Len(s) + 1) /\ t[Len(s) + 1] = v
         /\ \A k \in 1..Len(s) : t[k] = s[k] /\ ReadAt(r, t, k) = ReadAt(r, s, k)
         /\ ReadAt(r, t, Len(s) + 1) = NextRead(r, s)
<1> DEFINE t == Append(s, v)
<1>1. Len(s) \in Nat /\ DOMAIN s = 1..Len(s)
  BY LenProperties
<1>2. /\ DOMAIN t = 1..(Len(s) + 1) /\ t[Len(s) + 1] = v
      /\ \A k \in 1..Len(s) : t[k] = s[k]
  BY <1>1
<1>3. \A k \in 0..Len(s) : SubSeq(t, 1, k) = SubSeq(s, 1, k)
  <2> SUFFICES ASSUME NEW k \in 0..Len(s) PROVE SubSeq(t, 1, k) = SubSeq(s, 1, k)
    OBVIOUS
  <2>1. SubSeq(t, 1, k) = [i \in 1..k |-> t[i]] /\ SubSeq(s, 1, k) = [i \in 1..k |-> s[i]]
    BY <1>1
  <2> QED  BY <1>1, <1>2, <2>1
<1>4. SubSeq(s, 1, Len(s)) = s
  BY <1>1
<1>5. ReadAt(r, t, Len(s) + 1) = NextRead(r, s)
  <2>1. (Len(s) + 1) - 1 = Len(s) /\ Len(s) \in 0..Len(s)
    BY <1>1
  <2> QED  BY <1>3, <1>4, <2>1 DEF ReadAt
<1>6. \A k \in 1..Len(s) : ReadAt(r, t, k) = ReadAt(r, s, k)
  <2> SUFFICES ASSUME NEW k \in 1..Len(s) PROVE ReadAt(r, t, k) = ReadAt(r, s, k)
    OBVIOUS
  <2>1. k - 1 \in 0..Len(s)
    BY <1>1
  <2> QED  BY <1>3, <2>1 DEF ReadAt
<1> HIDE DEF t
<1> QED  BY <1>2, <1>5, <1>6 DEF t

LEMMA ReceiveStep ==
  ASSUME IInv, TypeInv', NEW d \in Node, Reads(d), NEW v, NEW ns, Register(ns, Top.node), Receive(v),
         UNCHANGED <<nodeVars, work, batchVars, raising>>,
         Top.node \in Slot /\ d \in Source \cup Slot =>
           /\ d \in ns /\ d \notin disposed
           /\ IF d \in Source THEN v = value[d] ELSE cache[d] # None /\ v = CachedValue(d)
  PROVE  IInv'
<1>1. /\ frames # <<>> /\ Top.op = "run" /\ d = NextRead(Top.node, Top.args) /\ TypeInv
      /\ Top \in Frame /\ Top = frames[Len(frames)] /\ Len(frames) \in DOMAIN frames
      /\ DOMAIN frames = 1..Len(frames) /\ Len(frames) \in Nat /\ Top.node \in Reader
      /\ Top.args \in Trace
  BY Stack, TopFrame DEF Reads, At, IInv
<1> DEFINE f == [Top EXCEPT !.args = Append(@, v)]
<1>2. f.op = "run" /\ f.node = Top.node /\ f.todo = Top.todo /\ f.args = Append(Top.args, v)
  BY <1>1 DEF Frame
<1>3. /\ frames' = Continue(f) /\ Len(frames') = Len(frames) /\ DOMAIN frames' = 1..Len(frames)
      /\ \A i \in DOMAIN frames : frames'[i] = IF i = Len(frames) THEN f ELSE frames[i]
  BY <1>1, ContinueStack DEF Receive
<1> HIDE DEF f
<1>4. Shape(frames')
  <2>1. /\ \A i \in 1..Len(frames') :
             frames'[i].op = frames[i].op /\ frames'[i].node = frames[i].node
        /\ \A i \in 1..Len(frames') : i < Len(frames') => frames'[i] = frames[i]
    BY <1>1, <1>2, <1>3
  <2>2. DOMAIN frames' = 1..Len(frames') /\ Len(frames') \in Nat /\ Len(frames') <= Len(frames)
    BY <1>1, <1>3
  <2> QED  BY <2>1, <2>2, SameShape DEF IInv
<1>5. Staged(frames', raising')
  <2> SUFFICES ASSUME NEW i \in DOMAIN frames'
               PROVE  IF frames'[i].op = "phase1" THEN i = Len(frames') /\ ~raising'
                      ELSE frames'[i].todo \cap Source = {}
    BY DEF Staged
  <2>1. frames'[i].op = frames[i].op /\ frames'[i].todo = frames[i].todo /\ i \in DOMAIN frames
    BY <1>1, <1>2, <1>3
  <2> QED  BY <1>3, <2>1 DEF IInv, Staged
<1>6. Unsettled'
  BY <1>1, <1>2, <1>3 DEF IInv, Unsettled, IsSlotRun, nodeVars
<1>7. \A n \in Node : parents[n] \subseteq parents'[n]
  BY DEF Register, Registered
<1>8. Awaited'
  <2> SUFFICES ASSUME NEW i \in DOMAIN frames', i < Len(frames'), IsSlotRun(frames'[i]),
                      IsSlotRun(frames'[i + 1])
               PROVE  frames'[i].node \in parents'[frames'[i + 1].node]
    BY DEF Awaited, IsSlotRun
  <2>1. /\ i + 1 \in DOMAIN frames /\ i \in DOMAIN frames
        /\ frames'[i].node = frames[i].node /\ frames'[i + 1].node = frames[i + 1].node
        /\ IsSlotRun(frames[i]) /\ IsSlotRun(frames[i + 1])
    BY <1>1, <1>2, <1>3 DEF IsSlotRun
  <2> QED  BY <1>3, <1>7, <2>1 DEF IInv, Awaited, IsSlotRun, Node
<1>9. \A r : Keeps(r)
  <2> SUFFICES ASSUME NEW r PROVE Keeps(r)
    OBVIOUS
  <2>1. InWork(r) => QueuedNext(r)
    BY DEF InWork, QueuedNext
  <2>2. \A e \in Source \cup Slot : r \in parents[e] => r \in parents'[e]
    BY <1>7 DEF Node
  <2> QED  BY <1>1, <2>1, <2>2, QuietKeeps DEF nodeVars, batchVars
<1>10. Cached'
  <2>1. ASSUME NEW n \in Slot, cache'[n] # None
        PROVE  LinkedNext(n, cache'[n])
    BY <1>9, <2>1, LinkedKept DEF IInv, Cached, nodeVars
  <2> QED  BY <2>1, NextLinks
<1>11. ASSUME Top.node \in Slot
       PROVE  LinkedNext(Top.node, f.args)
  <2> DEFINE t == Top.node
             s == Top.args
  <2>1. LinkedNext(t, s)
    BY <1>1, <1>9, <1>11, LinkedKept DEF IInv, Partial, IsSlotRun
  <2>2. s \in Seq(Out) /\ Len(s) \in Nat /\ DOMAIN s = 1..Len(s)
    BY <1>1, TraceIsSeq, LenProperties
  <2>3. /\ DOMAIN f.args = 1..(Len(s) + 1) /\ f.args[Len(s) + 1] = v
        /\ \A k \in 1..Len(s) : f.args[k] = s[k] /\ ReadAt(t, f.args, k) = ReadAt(t, s, k)
        /\ ReadAt(t, f.args, Len(s) + 1) = d
    BY <1>1, <1>2, <2>2, AppendRead
  <2>4. d \in Source \cup Slot =>
          /\ d \notin disposed' /\ t \in parents'[d]
          /\ IF d \in Source THEN value'[d] = v ELSE cache'[d] # None /\ Result(d, cache'[d]) = v
    BY <1>11 DEF Register, Registered, nodeVars, CachedValue
  <2> HIDE DEF t, s
  <2>5. CASE QueuedNext(t)
    BY <2>5 DEF LinkedNext, t
  <2>6. CASE ~QueuedNext(t)
    <3> SUFFICES ASSUME NEW k \in 1..(Len(s) + 1), NEW e \in Source \cup Slot,
                        e = ReadAt(t, f.args, k)
                 PROVE  /\ e \notin disposed' /\ t \in parents'[e]
                        /\ IF e \in Source THEN value'[e] = f.args[k] \/ DeferredNext(e)
                           ELSE cache'[e] # None /\ Result(e, cache'[e]) = f.args[k]
      BY <2>3 DEF LinkedNext, t
    <3>1. CASE k = Len(s) + 1
      BY <2>3, <2>4, <3>1
    <3>2. CASE k # Len(s) + 1
      <4>1. k \in 1..Len(s) /\ k \in DOMAIN s /\ e = ReadAt(t, s, k) /\ f.args[k] = s[k]
        BY <2>2, <2>3, <3>2
      <4> QED  BY <2>1, <2>6, <4>1 DEF LinkedNext
    <3> QED  BY <3>1, <3>2
  <2> QED  BY <2>5, <2>6
<1>12. Partial'
  <2>1. ASSUME NEW i \in DOMAIN frames', IsSlotRun(frames'[i])
        PROVE  LinkedNext(frames'[i].node, frames'[i].args)
    <3>1. CASE i = Len(frames)
      BY <1>1, <1>2, <1>3, <1>11, <2>1, <3>1 DEF IsSlotRun
    <3>2. CASE i # Len(frames)
      <4>1. frames'[i] = frames[i] /\ i \in DOMAIN frames
        BY <1>1, <1>3, <3>2
      <4> QED  BY <1>9, <2>1, <4>1, LinkedKept DEF IInv, Partial
    <3> QED  BY <3>1, <3>2
  <2> QED  BY <2>1, NextLinks
<1> QED  BY <1>4, <1>5, <1>6, <1>8, <1>10, <1>12 DEF IInv

\* A step that leaves caches and links, and the slots' bodies it leaves on the
\* stack as they were.
LEMMA LinksStay ==
  ASSUME IInv, \A n \in Slot : cache'[n] # None => cache'[n] = cache[n] /\ Keeps(n),
         \A i \in DOMAIN frames' : IsSlotRun(frames'[i]) =>
            \/ frames'[i].args = <<>>
            \/ i \in DOMAIN frames /\ frames'[i] = frames[i] /\ Keeps(frames[i].node)
  PROVE  Cached' /\ Partial'
<1>1. ASSUME NEW n \in Slot, cache'[n] # None
      PROVE  LinkedNext(n, cache'[n])
  BY <1>1, LinkedKept DEF IInv, Cached
<1>2. ASSUME NEW i \in DOMAIN frames', IsSlotRun(frames'[i])
      PROVE  LinkedNext(frames'[i].node, frames'[i].args)
  <2>1. CASE frames'[i].args = <<>>
    <3>1. DOMAIN frames'[i].args = {}
      BY <2>1
    <3> QED  BY <3>1 DEF LinkedNext
  <2>2. CASE i \in DOMAIN frames /\ frames'[i] = frames[i] /\ Keeps(frames[i].node)
    BY <1>2, <2>2, LinkedKept DEF IInv, Partial
  <2> QED  BY <1>2, <2>1, <2>2
<1> QED  BY <1>1, <1>2, NextLinks

LEMMA PushStep ==
  ASSUME IInv, TypeInv', NEW d \in Node, Reads(d), NEW q \in Slot \cup Computed,
         q = d \/ (d \in Computed /\ q = Memo[d]), frames' = Push(RunFrame(q)),
         UNCHANGED <<value, cache, disposed, work, pendingCells, raising>>,
         q \in Slot => /\ cache[q] = None /\ q \notin disposed
                       /\ Top.node \in Slot => Top.node \in parents'[q],
         \A e \in Source \cup Slot, n \in Slot : n \in parents[e] => n \in parents'[e]
  PROVE  IInv'
<1>1. /\ frames # <<>> /\ Top.op = "run" /\ d = NextRead(Top.node, Top.args) /\ TypeInv
      /\ Top = frames[Len(frames)] /\ Len(frames) \in DOMAIN frames
      /\ DOMAIN frames = 1..Len(frames) /\ Len(frames) \in Nat
  BY Stack DEF Reads, At, IInv
<1> DEFINE f == RunFrame(q)
<1>2. f.op = "run" /\ f.node = q /\ f.todo = {} /\ f.args = <<>>
  BY DEF RunFrame
<1>3. /\ Len(frames') = Len(frames) + 1 /\ DOMAIN frames' = 1..(Len(frames) + 1)
      /\ \A i \in DOMAIN frames : frames'[i] = frames[i]
      /\ frames'[Len(frames) + 1] = f
  BY <1>1, PushStack
<1> HIDE DEF f
<1>4. Shape(frames')
  <2> SUFFICES ASSUME NEW i \in DOMAIN frames', NEW j \in DOMAIN frames', i < j,
                      IsSlotRun(frames'[i])
               PROVE  IsInner(frames'[j]) /\ Callee(frames'[j - 1], frames'[j])
    BY DEF Shape
  <2>1. i \in DOMAIN frames /\ frames'[i] = frames[i]
    BY <1>1, <1>3
  <2>2. CASE j = Len(frames) + 1
    <3>1. frames'[j - 1] = Top /\ frames'[j] = f
      BY <1>1, <1>3, <2>2
    <3> QED  BY <1>1, <1>2, <3>1 DEF IsInner, Callee
  <2>3. CASE j # Len(frames) + 1
    <3>1. j \in DOMAIN frames /\ j - 1 \in DOMAIN frames
      BY <1>1, <1>3, <2>1, <2>3
    <3> QED  BY <1>3, <2>1, <3>1 DEF IInv, Shape
  <2> QED  BY <2>2, <2>3
<1>5. Staged(frames', raising')
  <2> SUFFICES ASSUME NEW i \in DOMAIN frames'
               PROVE  IF frames'[i].op = "phase1" THEN i = Len(frames') /\ ~raising'
                      ELSE frames'[i].todo \cap Source = {}
    BY DEF Staged
  <2>1. CASE i = Len(frames) + 1
    BY <1>2, <1>3, <2>1
  <2>2. CASE i # Len(frames) + 1
    <3>1. i \in DOMAIN frames /\ frames'[i] = frames[i]
      BY <1>1, <1>3, <2>2
    <3>2. frames[i].op # "phase1"
      BY <1>1, <3>1 DEF IInv, Staged
    <3> QED  BY <3>1, <3>2 DEF IInv, Staged
  <2> QED  BY <2>1, <2>2
<1>6. Unsettled'
  <2> SUFFICES ASSUME NEW i \in DOMAIN frames', IsSlotRun(frames'[i])
               PROVE  cache[frames'[i].node] = None /\ frames'[i].node \notin disposed
    BY DEF Unsettled, IsSlotRun, IInv
  <2>1. CASE i = Len(frames) + 1
    BY <1>2, <1>3, <2>1 DEF IsSlotRun
  <2>2. CASE i # Len(frames) + 1
    <3>1. i \in DOMAIN frames /\ frames'[i] = frames[i]
      BY <1>1, <1>3, <2>2
    <3> QED  BY <3>1 DEF IInv, Unsettled
  <2> QED  BY <2>1, <2>2
<1>7. Awaited'
  <2> SUFFICES ASSUME NEW i \in DOMAIN frames', i < Len(frames'), IsSlotRun(frames'[i]),
                      IsSlotRun(frames'[i + 1])
               PROVE  frames'[i].node \in parents'[frames'[i + 1].node]
    BY DEF Awaited, IsSlotRun
  <2>1. i \in DOMAIN frames /\ frames'[i] = frames[i]
    BY <1>1, <1>3
  <2>2. CASE i = Len(frames)
    BY <1>1, <1>2, <1>3, <2>1, <2>2 DEF IsSlotRun
  <2>3. CASE i # Len(frames)
    <3>1. i < Len(frames) /\ i + 1 \in DOMAIN frames /\ frames'[i + 1] = frames[i + 1]
      BY <1>1, <1>3, <2>1, <2>3
    <3>2. frames[i].node \in parents[frames[i + 1].node]
      BY <2>1, <3>1 DEF IInv, Awaited
    <3> QED  BY <2>1, <3>1, <3>2 DEF IsSlotRun
  <2> QED  BY <2>2, <2>3
<1>8. \A n \in Slot : Keeps(n)
  <2> SUFFICES ASSUME NEW n \in Slot PROVE Keeps(n)
    OBVIOUS
  <2>1. InWork(n) => QueuedNext(n)
    BY DEF InWork, QueuedNext
  <2> QED  BY <1>1, <2>1, QuietKeeps
<1>9. Cached' /\ Partial'
  <2>1. ASSUME NEW i \in DOMAIN frames', IsSlotRun(frames'[i])
        PROVE  \/ frames'[i].args = <<>>
               \/ i \in DOMAIN frames /\ frames'[i] = frames[i] /\ Keeps(frames[i].node)
    <3>1. CASE i = Len(frames) + 1
      BY <1>2, <1>3, <3>1
    <3>2. CASE i # Len(frames) + 1
      <4>1. i \in DOMAIN frames /\ frames'[i] = frames[i]
        BY <1>1, <1>3, <3>2
      <4> QED  BY <1>8, <2>1, <4>1 DEF IsSlotRun
    <3> QED  BY <3>1, <3>2
  <2> QED  BY <1>8, <2>1, LinksStay
<1> QED  BY <1>4, <1>5, <1>6, <1>7, <1>9 DEF IInv

\* An exception leaves a body, or starts.
LEMMA RaiseStep ==
  ASSUME IInv, TypeInv',
         \/ frames' = frames /\ At("run") /\ raising'
         \/ Unwind,
         UNCHANGED <<nodeVars, work, batchVars>>,
         \A e \in Node : parents[e] \subseteq parents'[e]
  PROVE  IInv'
<1>1. /\ DOMAIN frames = 1..Len(frames) /\ Len(frames) \in Nat /\ TypeInv
      /\ frames # <<>> => Top = frames[Len(frames)] /\ Len(frames) # 0
      /\ frames = <<>> => Len(frames) = 0
  BY Stack DEF IInv
<1>2. Len(frames') \in Nat /\ Len(frames') <= Len(frames) /\ DOMAIN frames' = 1..Len(frames')
      /\ \A i \in DOMAIN frames' : i \in DOMAIN frames /\ frames'[i] = frames[i]
  <2>1. CASE frames' = frames
    BY <1>1, <2>1
  <2>2. CASE Unwind /\ frames # <<>>
    <3>1. frames' = Below /\ Len(Below) = Len(frames) - 1
          /\ DOMAIN Below = 1..(Len(frames) - 1)
          /\ \A i \in DOMAIN Below : i \in DOMAIN frames /\ Below[i] = frames[i]
      BY <1>1, <2>2, BelowStack DEF Unwind
    <3> QED  BY <1>1, <2>2, <3>1
  <2>3. CASE Unwind /\ frames = <<>>
    <3>1. frames' = <<>>
      BY <2>3 DEF Unwind, Below
    <3> QED  BY <1>1, <3>1
  <2> QED  BY <2>1, <2>2, <2>3
<1>3. Shape(frames')
  BY <1>1, <1>2, SameShape DEF IInv
<1>4. \A i \in DOMAIN frames' : frames[i].op # "phase1"
  <2> SUFFICES ASSUME NEW i \in DOMAIN frames', frames[i].op = "phase1" PROVE FALSE
    OBVIOUS
  <2>1. i = Len(frames) /\ ~raising /\ i \in DOMAIN frames
    BY <1>2 DEF IInv, Staged
  <2> QED  BY <1>1, <2>1 DEF Unwind, At
<1>5. Staged(frames', raising')
  BY <1>2, <1>4 DEF IInv, Staged
<1>6. Unsettled'
  BY <1>2 DEF IInv, Unsettled, nodeVars, IsSlotRun
<1>7. Awaited'
  <2> SUFFICES ASSUME NEW i \in DOMAIN frames', i < Len(frames'), IsSlotRun(frames'[i]),
                      IsSlotRun(frames'[i + 1])
               PROVE  frames'[i].node \in parents'[frames'[i + 1].node]
    BY DEF Awaited, IsSlotRun
  <2>1. i \in DOMAIN frames /\ i + 1 \in DOMAIN frames' /\ i < Len(frames)
    BY <1>1, <1>2
  <2>2. frames'[i] = frames[i] /\ frames'[i + 1] = frames[i + 1]
    BY <1>2, <2>1
  <2>3. frames[i].node \in parents[frames[i + 1].node]
    BY <2>1, <2>2 DEF IInv, Awaited
  <2> QED  BY <2>2, <2>3 DEF IsSlotRun, Node
<1>8. \A n \in Slot : Keeps(n)
  <2> SUFFICES ASSUME NEW n \in Slot PROVE Keeps(n)
    OBVIOUS
  <2>1. InWork(n) => QueuedNext(n)
    BY DEF InWork, QueuedNext
  <2>2. frames = <<>> \/ Top.op # "phase1"
    BY <1>1 DEF Unwind, At, IInv, Staged
  <2> QED  BY <2>1, <2>2, QuietKeeps DEF nodeVars, batchVars, Node
<1>9. Cached' /\ Partial'
  BY <1>2, <1>8, LinksStay DEF nodeVars, IsSlotRun
<1> QED  BY <1>3, <1>5, <1>6, <1>7, <1>9 DEF IInv

\* What is left of a stack by a return has the old shape.
LEMMA ReturnShape ==
  ASSUME IInv, TypeInv', frames # <<>>, ~(Top.op = "phase1"), NEW v, frames' = Return(v),
         UNCHANGED raising
  PROVE  Shape(frames') /\ Staged(frames', raising')
<1>1. /\ DOMAIN frames = 1..Len(frames) /\ Len(frames) \in Nat \ {0} /\ TypeInv
      /\ Top = frames[Len(frames)] /\ frames \in Seq(Frame)
  BY Stack DEF IInv
<1>2. /\ Len(frames') = Len(frames) - 1 /\ DOMAIN frames' = 1..(Len(frames) - 1)
      /\ \A i \in 1..(Len(frames) - 1) :
           frames'[i] = IF i = Len(frames) - 1 /\ frames[i].op = "run"
                        THEN [frames[i] EXCEPT !.args = Append(@, v)] ELSE frames[i]
  BY <1>1, ReturnStack
<1>3. \A i \in DOMAIN frames' : /\ i \in DOMAIN frames /\ frames'[i].op = frames[i].op
                                /\ frames'[i].node = frames[i].node
                                /\ frames'[i].todo = frames[i].todo
                                /\ i < Len(frames') => frames'[i] = frames[i]
  <2> SUFFICES ASSUME NEW i \in DOMAIN frames'
               PROVE  /\ i \in DOMAIN frames /\ frames'[i].op = frames[i].op
                      /\ frames'[i].node = frames[i].node /\ frames'[i].todo = frames[i].todo
                      /\ i < Len(frames') => frames'[i] = frames[i]
    OBVIOUS
  <2>1. i \in DOMAIN frames /\ frames[i] \in Frame
    BY <1>1, <1>2
  <2> QED  BY <1>1, <1>2, <2>1 DEF Frame
<1>4. Shape(frames')
  <2>1. DOMAIN frames' = 1..Len(frames') /\ Len(frames') \in Nat /\ Len(frames') <= Len(frames)
    BY <1>1, <1>2
  <2> QED  BY <1>1, <1>3, <2>1, SameShape DEF IInv
<1>5. Staged(frames', raising')
  <2>1. \A i \in DOMAIN frames' : frames[i].op # "phase1"
    BY <1>1, <1>2 DEF IInv, Staged
  <2> QED  BY <1>3, <2>1 DEF IInv, Staged
<1> QED  BY <1>4, <1>5

\* A body returns v to the body that reads it: what a slot below read last is v.
LEMMA ReturnStep ==
  ASSUME IInv, TypeInv', frames # <<>>, IsInner(Top), NEW v, frames' = Return(v),
         UNCHANGED <<disposed, raising>>,
         \A n \in Slot : cache'[n] # None => cache'[n] = cache[n] \/ LinkedNext(n, cache'[n]),
         \A n \in Slot : Keeps(n),
         \A i \in DOMAIN frames :
           i < Len(frames) /\ IsSlotRun(frames[i]) => cache'[frames[i].node] = None,
         \A e \in Slot, n \in Slot : n \in parents[e] => n \in parents'[e],
         Top.node \in Slot => cache'[Top.node] # None /\ Result(Top.node, cache'[Top.node]) = v,
         \A n \in Slot : n \in disposed => cache'[n] = None
  PROVE  IInv'
<1>1. /\ DOMAIN frames = 1..Len(frames) /\ Len(frames) \in Nat \ {0} /\ TypeInv
      /\ Top = frames[Len(frames)] /\ frames \in Seq(Frame)
  BY Stack DEF IInv
<1>2. /\ Len(frames') = Len(frames) - 1 /\ DOMAIN frames' = 1..(Len(frames) - 1)
      /\ \A i \in 1..(Len(frames) - 1) :
           frames'[i] = IF i = Len(frames) - 1 /\ frames[i].op = "run"
                        THEN [frames[i] EXCEPT !.args = Append(@, v)] ELSE frames[i]
  BY <1>1, ReturnStack
<1>3. \A i \in DOMAIN frames' :
        /\ i \in DOMAIN frames /\ i < Len(frames) /\ frames[i] \in Frame
        /\ frames'[i].op = frames[i].op /\ frames'[i].node = frames[i].node
        /\ i < Len(frames') => frames'[i] = frames[i]
        /\ i = Len(frames') /\ frames[i].op = "run" => frames'[i].args = Append(frames[i].args, v)
  <2> SUFFICES ASSUME NEW i \in DOMAIN frames'
               PROVE  /\ i \in DOMAIN frames /\ i < Len(frames) /\ frames[i] \in Frame
                      /\ frames'[i].op = frames[i].op /\ frames'[i].node = frames[i].node
                      /\ i < Len(frames') => frames'[i] = frames[i]
                      /\ i = Len(frames') /\ frames[i].op = "run" =>
                           frames'[i].args = Append(frames[i].args, v)
    OBVIOUS
  <2>1. i \in DOMAIN frames /\ i < Len(frames) /\ frames[i] \in Frame
    BY <1>1, <1>2
  <2> QED  BY <1>1, <1>2, <2>1 DEF Frame
<1>4. Shape(frames') /\ Staged(frames', raising')
  BY ReturnShape DEF IsInner
<1>5. Unsettled'
  <2>1. ASSUME NEW i \in DOMAIN frames', IsSlotRun(frames'[i])
        PROVE  cache'[frames'[i].node] = None /\ frames'[i].node \notin disposed
    <3>1. IsSlotRun(frames[i]) /\ i \in DOMAIN frames /\ i < Len(frames)
      BY <1>3, <2>1 DEF IsSlotRun
    <3> QED  BY <1>3, <3>1 DEF IInv, Unsettled
  <2> QED  BY <2>1 DEF Unsettled, IsSlotRun
<1>6. Awaited'
  <2> SUFFICES ASSUME NEW i \in DOMAIN frames', i < Len(frames'), IsSlotRun(frames'[i]),
                      IsSlotRun(frames'[i + 1])
               PROVE  frames'[i].node \in parents'[frames'[i + 1].node]
    BY DEF Awaited, IsSlotRun
  <2>1. i \in DOMAIN frames /\ i + 1 \in DOMAIN frames' /\ i < Len(frames)
    BY <1>1, <1>2
  <2>2. /\ IsSlotRun(frames[i]) /\ IsSlotRun(frames[i + 1])
        /\ frames'[i].node = frames[i].node /\ frames'[i + 1].node = frames[i + 1].node
    BY <1>3, <2>1 DEF IsSlotRun
  <2>3. frames[i].node \in parents[frames[i + 1].node]
    BY <2>1, <2>2 DEF IInv, Awaited
  <2> QED  BY <2>2, <2>3 DEF IsSlotRun
<1>7. Cached'
  <2>1. ASSUME NEW n \in Slot, cache'[n] # None
        PROVE  LinkedNext(n, cache'[n])
    BY <2>1, LinkedKept DEF IInv, Cached
  <2> QED  BY <2>1, NextLinks
<1>8. ASSUME NEW i \in DOMAIN frames', i = Len(frames'), IsSlotRun(frames[i])
      PROVE  LinkedNext(frames[i].node, Append(frames[i].args, v))
  <2> DEFINE t == frames[i].node
             s == frames[i].args
             q == Top.node
  <2>1. /\ i \in DOMAIN frames /\ i < Len(frames) /\ Len(frames) = i + 1 /\ frames[i + 1] = Top
        /\ Len(frames) \in DOMAIN frames /\ frames[i] \in Frame /\ frames[i].op = "run"
    BY <1>1, <1>2, <1>3, <1>8 DEF IsSlotRun
  <2>2. LinkedNext(t, s) /\ t \in Slot
    BY <1>8, <2>1, LinkedKept DEF IInv, Partial, IsSlotRun
  <2>3. s \in Trace /\ s \in Seq(Out)
    BY <2>1, FrameKinds, TraceIsSeq
  <2>4. Callee(frames[i], Top)
    <3>1. Callee(frames[(i + 1) - 1], frames[i + 1])
      BY <1>8, <2>1 DEF IInv, Shape
    <3> QED  BY <2>1, <3>1
  <2>5. NextRead(t, s) \in Source \cup Slot => NextRead(t, s) = q
    BY <2>4, KindsAssumption, BodiesAssumption DEF Callee
  <2>6. q \in Slot => q \notin disposed' /\ t \in parents'[q]
    <3>1. ASSUME q \in Slot
          PROVE  q \notin disposed /\ t \in parents[q]
      <4>1. IsSlotRun(frames[i + 1])
        BY <2>1, <3>1 DEF IsSlotRun, IsInner
      <4> QED  BY <1>8, <2>1, <4>1 DEF IInv, Unsettled, Awaited
    <3> QED  BY <2>2, <3>1
  <2>7. q \in Slot \cup Computed /\ q \notin Source
    BY KindsAssumption DEF IsInner
  <2> HIDE DEF t, s, q
  <2>8. /\ DOMAIN Append(s, v) = 1..(Len(s) + 1) /\ Append(s, v)[Len(s) + 1] = v
        /\ \A k \in 1..Len(s) : Append(s, v)[k] = s[k] /\ ReadAt(t, Append(s, v), k) = ReadAt(t, s, k)
        /\ ReadAt(t, Append(s, v), Len(s) + 1) = NextRead(t, s)
    BY <2>3, AppendRead
  <2>9. Len(s) \in Nat /\ DOMAIN s = 1..Len(s)
    BY <2>3, LenProperties
  <2>10. LinkedNext(t, Append(s, v))
    <3>1. CASE QueuedNext(t)
      BY <3>1 DEF LinkedNext
    <3>2. CASE ~QueuedNext(t)
      <4> SUFFICES ASSUME NEW k \in 1..(Len(s) + 1), NEW e \in Source \cup Slot,
                          e = ReadAt(t, Append(s, v), k)
                   PROVE  /\ e \notin disposed' /\ t \in parents'[e]
                          /\ IF e \in Source THEN value'[e] = Append(s, v)[k] \/ DeferredNext(e)
                             ELSE cache'[e] # None /\ Result(e, cache'[e]) = Append(s, v)[k]
        BY <2>8 DEF LinkedNext
      <4>1. CASE k = Len(s) + 1
        <5>1. e = q /\ e \in Slot
          BY <2>5, <2>7, <2>8, <4>1
        <5> QED  BY <2>6, <2>7, <2>8, <4>1, <5>1 DEF q
      <4>2. CASE k # Len(s) + 1
        <5>1. k \in 1..Len(s) /\ k \in DOMAIN s /\ e = ReadAt(t, s, k) /\ Append(s, v)[k] = s[k]
          BY <2>8, <2>9, <4>2
        <5> QED  BY <2>2, <3>2, <5>1 DEF LinkedNext
      <4> QED  BY <4>1, <4>2
    <3> QED  BY <3>1, <3>2
  <2> QED  BY <2>10 DEF t, s
<1>9. Partial'
  <2>1. ASSUME NEW i \in DOMAIN frames', IsSlotRun(frames'[i])
        PROVE  LinkedNext(frames'[i].node, frames'[i].args)
    <3>1. IsSlotRun(frames[i]) /\ frames'[i].node = frames[i].node /\ frames[i].node \in Slot
      BY <1>3, <2>1 DEF IsSlotRun
    <3>2. CASE i = Len(frames')
      BY <1>3, <1>8, <3>1, <3>2 DEF IsSlotRun
    <3>3. CASE i # Len(frames')
      <4>1. frames'[i] = frames[i] /\ i \in DOMAIN frames
        BY <1>1, <1>2, <1>3, <3>3
      <4> QED  BY <3>1, <4>1, LinkedKept DEF IInv, Partial
    <3> QED  BY <3>2, <3>3
  <2> QED  BY <2>1, NextLinks
<1> QED  BY <1>4, <1>5, <1>6, <1>7, <1>9 DEF IInv

(***************************************************************************)
(* One lemma for each group of actions.                                    *)
(***************************************************************************)
LEMMA PrivateLives ==
  ASSUME TypeInv, NEW c \in Computed
  PROVE  Memo[c] \in Slot /\ Memo[c] \in Node /\ Memo[c] \notin disposed /\ c \notin Slot
BY BodiesAssumption, ClientAssumption, KindsAssumption DEF TypeInv, TypeOK, Private, Node

LEMMA LinksBodyReads ==
  ASSUME IInv, TypeInv', NEW d \in Node,
         \/ d \in Source /\ ReadSource(d)
         \/ d \in Source \cup Slot /\ ReadDisposed(d)
         \/ d \in Slot /\ (ReadCached(d) \/ ReadMiss(d))
         \/ d \in Computed /\ (\/ ReadLazyCached(d) \/ ReadLazyMiss(d)
                               \/ ReadSettled(d) \/ ReadStale(d))
  PROVE  IInv'
<1>1. Reads(d) /\ TypeInv /\ Slot \cap Source = {} /\ Computed \cap Source = {} /\ Slot \cap Computed = {}
  BY KindsAssumption
  DEF ReadSource, ReadDisposed, ReadCached, ReadMiss, ReadLazyCached, ReadLazyMiss,
      ReadSettled, ReadStale, IInv
<1>2. CASE d \in Source /\ ReadSource(d)
  BY <1>1, <1>2, ReceiveStep DEF ReadSource
<1>3. CASE d \in Source \cup Slot /\ ReadDisposed(d)
  <2>1. \A e \in Node : parents[e] \subseteq parents'[e]
    BY <1>3 DEF ReadDisposed, Register, Registered
  <2>2. frames' = frames /\ At("run") /\ raising'
    BY <1>1, <1>3 DEF ReadDisposed, Reads
  <2> QED  BY <1>3, <2>1, <2>2, RaiseStep DEF ReadDisposed
<1>4. CASE d \in Slot /\ ReadCached(d)
  BY <1>1, <1>4, ReceiveStep DEF ReadCached
<1>5. CASE d \in Slot /\ ReadMiss(d)
  <2>1. \A e \in Node : parents[e] \subseteq parents'[e] /\ (e = d => Top.node \in parents'[e])
    BY <1>5 DEF ReadMiss, RegisterMiss, Registered
  <2>2. \A e \in Source \cup Slot, n \in Slot : n \in parents[e] => n \in parents'[e]
    BY <2>1 DEF Node
  <2> QED  BY <1>1, <1>5, <2>1, <2>2, PushStep DEF ReadMiss, nodeVars, batchVars
<1>6. CASE d \in Computed /\ ReadLazyCached(d)
  BY <1>1, <1>6, ReceiveStep DEF ReadLazyCached
<1>7. CASE d \in Computed /\ ReadLazyMiss(d)
  <2>1. Memo[d] \in Slot /\ Memo[d] \in Node /\ Memo[d] \notin disposed
    BY <1>1, <1>7, PrivateLives
  <2>2. \A e \in Node : parents[e] \subseteq parents'[e] /\ (e = Memo[d] => Top.node \in parents'[e])
    BY <1>7 DEF ReadLazyMiss, RegisterMiss, Registered
  <2>3. \A e \in Source \cup Slot, n \in Slot : n \in parents[e] => n \in parents'[e]
    BY <2>2 DEF Node
  <2> QED  BY <1>1, <1>7, <2>1, <2>2, <2>3, PushStep DEF ReadLazyMiss, nodeVars, batchVars
<1>8. CASE d \in Computed /\ ReadSettled(d)
  BY <1>1, <1>8, ReceiveStep DEF ReadSettled
<1>9. CASE d \in Computed /\ ReadStale(d)
  <2>1. ASSUME NEW e \in Source \cup Slot, NEW n \in Slot, n \in parents[e]
        PROVE  n \in parents'[e]
    <3>1. n # d /\ e # d /\ e \in Node
      BY <1>1, <1>9 DEF Node
    <3>2. parents' = [Detached(d) EXCEPT ![d] = @ \cup {Top.node}]
      BY <1>9 DEF ReadStale
    <3>3. n \in Detached(d)[e]
      BY <2>1, <3>1 DEF Detached
    <3> QED  BY <3>1, <3>2, <3>3 DEF Detached
  <2> QED  BY <1>1, <1>9, <2>1, PushStep DEF ReadStale, batchVars
<1> QED  BY <1>2, <1>3, <1>4, <1>5, <1>6, <1>7, <1>8, <1>9

\* A slot's value is what its body read, which it heard of all along.
LEMMA LinksSlotReturns ==
  ASSUME Acyclic, IInv, TypeInv', NEW n \in Slot, SlotReturns(n)
  PROVE  IInv'
<1>1. /\ frames # <<>> /\ Top.op = "run" /\ Top.node = n /\ IsInner(Top) /\ TypeInv
      /\ Top = frames[Len(frames)] /\ Len(frames) \in DOMAIN frames
      /\ Top.args \in Trace /\ IsSlotRun(frames[Len(frames)])
  BY Stack, TopFrame, EmptySeq DEF SlotReturns, Returns, At, IInv, IsInner, IsSlotRun
<1>2. /\ cache' = [cache EXCEPT ![n] = Top.args] /\ frames' = Return(Result(n, Top.args))
      /\ UNCHANGED <<value, disposed, parents, work, pendingCells, raising>>
  BY DEF SlotReturns, edgeVars, batchVars
<1>3. cache[n] = None /\ n \notin disposed
  BY <1>1 DEF IInv, Unsettled
<1>4. \A m \in Slot : m # n => cache'[m] = cache[m]
  BY <1>2 DEF IInv, TypeInv, TypeOK
<1>5. cache'[n] = Top.args /\ Top.args # None
  BY <1>1, <1>2, KindsAssumption DEF IInv, TypeInv, TypeOK
<1>6. ASSUME NEW m \in Slot PROVE Keeps(m)
  <2>1. InWork(m) => QueuedNext(m)
    BY <1>2 DEF InWork, QueuedNext
  <2> QED  BY <1>1, <1>2, <1>3, <1>4, <2>1, QuietKeeps
<1>7. LinkedNext(n, cache'[n])
  BY <1>1, <1>5, <1>6, LinkedKept DEF IInv, Partial
<1>8. ASSUME NEW i \in DOMAIN frames, i < Len(frames), IsSlotRun(frames[i])
      PROVE  cache'[frames[i].node] = None
  <2>1. frames[i].node # n
    BY <1>1, <1>8, NoReentry
  <2> QED  BY <1>4, <1>8, <2>1 DEF IInv, Unsettled, IsSlotRun
<1>9. \A m \in Slot : m \in disposed => cache'[m] = None
  BY <1>3, <1>4 DEF IInv, Unsettled
<1> QED  BY <1>1, <1>2, <1>4, <1>5, <1>6, <1>7, <1>8, <1>9, ReturnStep

\* touch(x) queues whoever it unlinks.
LEMMA Touch ==
  ASSUME TypeInv, NEW x \in Node, parents' = TouchedEdges(x), work' = TouchedWork(x)
  PROVE  /\ \A r : InWork(r) \/ r \in parents[x] => QueuedNext(r)
         /\ \A d \in Node : d # x => parents'[d] = parents[d]
<1>1. work \in Seq(SUBSET (Reader \cup {None})) /\ Len(work) \in Nat /\ DOMAIN work = 1..Len(work)
  BY LenProperties DEF TypeInv, TypeOK
<1>2. \A d \in Node : d # x => parents'[d] = parents[d]
  BY DEF TypeInv, TypeOK, TouchedEdges
<1>3. CASE parents[x] = {}
  BY <1>2, <1>3 DEF TouchedWork, InWork, QueuedNext
<1>4. CASE parents[x] # {}
  <2>1. work' = Append(work, parents[x])
    BY <1>4 DEF TouchedWork
  <2>2. /\ DOMAIN work' = 1..(Len(work) + 1) /\ work'[Len(work) + 1] = parents[x]
        /\ \A i \in DOMAIN work : work'[i] = work[i]
    BY <1>1, <2>1
  <2> QED  BY <1>1, <1>2, <2>2 DEF InWork, QueuedNext
<1> QED  BY <1>3, <1>4

\* A body's last call starts a drain: where none runs above a slot's body, no
\* slot's body is on the stack.
LEMMA ExitStep ==
  ASSUME IInv, TypeInv', ~Interrupted', frames # <<>>, Top.op = "run",
         frames' = Append(Continue([Top EXCEPT !.op = "exit"]), DrainFrame),
         \A n \in Slot : n \in disposed' => cache'[n] = None,
         \A n \in Slot : cache'[n] # None => cache'[n] = cache[n] /\ Keeps(n)
  PROVE  IInv'
<1> DEFINE f == [Top EXCEPT !.op = "exit"]
<1>1. /\ TypeInv /\ frames \in Seq(Frame) /\ Len(frames) \in Nat \ {0}
      /\ DOMAIN frames = 1..Len(frames) /\ Top \in Frame /\ Top = frames[Len(frames)]
      /\ Top.todo = {}
  BY Stack, FrameKinds DEF IInv
<1>2. f \in Frame /\ f.op = "exit" /\ f.todo = {}
  BY <1>1 DEF Frame, FlushOp
<1> HIDE DEF f
<1>3. /\ Continue(f) \in Seq(Frame) /\ Len(Continue(f)) = Len(frames)
      /\ DOMAIN Continue(f) = 1..Len(frames)
      /\ \A i \in DOMAIN frames : Continue(f)[i] = IF i = Len(frames) THEN f ELSE frames[i]
  BY <1>1, <1>2, ContinueStack, ExceptSeq DEF Continue
<1>4. /\ Len(frames') = Len(frames) + 1 /\ DOMAIN frames' = 1..(Len(frames) + 1)
      /\ \A i \in DOMAIN frames : frames'[i] = IF i = Len(frames) THEN f ELSE frames[i]
      /\ frames'[Len(frames) + 1] = DrainFrame
  <2>1. frames' = Append(Continue(f), DrainFrame)
    BY DEF f
  <2>2. DrainFrame \in Frame
    BY NewFrames
  <2> DEFINE gs == Continue(f)
  <2>3. /\ Len(frames') = Len(gs) + 1 /\ DOMAIN frames' = 1..(Len(gs) + 1)
        /\ \A i \in 1..Len(gs) : frames'[i] = gs[i]
        /\ frames'[Len(gs) + 1] = DrainFrame
    <3>1. gs \in Seq(Frame)
      BY <1>3
    <3> HIDE DEF gs
    <3>2. frames' = Append(gs, DrainFrame)
      BY <2>1 DEF gs
    <3>3. DOMAIN gs = 1..Len(gs) /\ Len(gs) \in Nat
      BY <3>1, LenProperties
    <3>4. /\ Len(frames') = Len(gs) + 1
          /\ \A i \in 1..Len(gs) : frames'[i] = gs[i]
          /\ frames'[Len(gs) + 1] = DrainFrame
      <4> DEFINE hs == Append(gs, DrainFrame)
      <4>1. /\ Len(hs) = Len(gs) + 1
            /\ \A i \in 1..Len(gs) : hs[i] = gs[i]
            /\ hs[Len(gs) + 1] = DrainFrame
        BY <2>2, <3>1, AppendProperties
      <4>2. frames' = hs
        BY <3>2
      <4> HIDE DEF hs
      <4> QED  BY <4>1, <4>2
    <3>5. frames' \in Seq(Frame)
      <4>1. Append(gs, DrainFrame) \in Seq(Frame)
        BY <2>2, <3>1, AppendProperties
      <4> QED  BY <3>2, <4>1
    <3> QED  BY <3>4, <3>5, LenProperties
  <2> QED  BY <1>1, <1>3, <2>3
<1>5. DrainFrame.op = "drain" /\ DrainFrame.todo = {}
  BY DEF DrainFrame, LoopFrame
<1>6. Slotless(frames')
  <2> SUFFICES ASSUME NEW i \in DOMAIN frames', IsSlotRun(frames'[i]) PROVE FALSE
    BY DEF Slotless
  <2>1. i < Len(frames) + 1
    <3>1. i \in 1..(Len(frames) + 1)
      BY <1>4
    <3>2. i # Len(frames) + 1
      BY <1>4, <1>5 DEF IsSlotRun
    <3> QED  BY <1>1, <3>1, <3>2
  <2>2. Len(frames) + 1 \in DOMAIN frames' /\ frames'[Len(frames) + 1].op = "drain"
    <3>1. Len(frames) + 1 \in 1..(Len(frames) + 1)
      BY <1>1
    <3> QED  BY <1>4, <1>5, <3>1
  <2> QED  BY <2>1, <2>2 DEF Interrupted, IsSlotRun
<1>7. Staged(frames', raising')
  <2> SUFFICES ASSUME NEW i \in DOMAIN frames'
               PROVE  IF frames'[i].op = "phase1" THEN i = Len(frames') /\ ~raising'
                      ELSE frames'[i].todo \cap Source = {}
    BY DEF Staged
  <2>1. CASE i >= Len(frames)
    BY <1>1, <1>2, <1>4, <1>5, <2>1
  <2>2. CASE ~(i >= Len(frames))
    <3>1. i \in 1..(Len(frames) + 1)
      BY <1>4
    <3>2. i \in 1..Len(frames) /\ i # Len(frames)
      BY <1>1, <2>2, <3>1
    <3>3. i \in DOMAIN frames
      BY <1>1, <3>2
    <3>4. frames'[i] = frames[i]
      BY <1>4, <3>2, <3>3
    <3> QED  BY <3>2, <3>3, <3>4 DEF IInv, Staged
  <2> QED  BY <2>1, <2>2
<1> QED  BY <1>6, <1>7, SlotlessStep

LEMMA LinksPullerReturns ==
  ASSUME IInv, TypeInv', ~Interrupted', NEW c \in Computed, PullerReturns(c)
  PROVE  IInv'
<1>1. /\ frames # <<>> /\ Top.op = "run" /\ Top.node = c /\ IsInner(Top) /\ TypeInv
      /\ Top = frames[Len(frames)] /\ Len(frames) \in DOMAIN frames /\ Len(frames) \in Nat
      /\ DOMAIN frames = 1..Len(frames) /\ Top.todo = {} /\ c \notin Slot /\ c \notin Source
      /\ c \in Node
  BY Stack, TopFrame, EmptySeq, KindsAssumption, FrameKinds
  DEF PullerReturns, Returns, At, IInv, IsInner, Node
<1>2. /\ UNCHANGED <<value, cache, disposed, pendingCells, raising>>
      /\ \/ UNCHANGED <<parents, work>>
         \/ parents' = TouchedEdges(c) /\ work' = TouchedWork(c)
      /\ \/ frames' = Append(Continue([Top EXCEPT !.op = "exit"]), DrainFrame)
         \/ frames' = Return(settled'[c])
  BY DEF PullerReturns, batchVars
<1>3. \A e \in Source \cup Slot : parents'[e] = parents[e]
  BY <1>1, <1>2, Touch DEF Node
<1>4. ASSUME NEW n \in Slot PROVE Keeps(n)
  <2>1. InWork(n) => QueuedNext(n)
    BY <1>1, <1>2, Touch DEF InWork, QueuedNext
  <2> QED  BY <1>1, <1>2, <1>3, <2>1, QuietKeeps
<1>5. \A m \in Slot : m \in disposed => cache'[m] = None
  BY <1>2 DEF IInv, Unsettled
<1>6. CASE frames' = Return(settled'[c])
  <2>1. \A i \in DOMAIN frames :
          i < Len(frames) /\ IsSlotRun(frames[i]) => cache'[frames[i].node] = None
    BY <1>2 DEF IInv, Unsettled
  <2> DEFINE v == settled'[c]
  <2> HIDE DEF v
  <2>2. frames' = Return(v)
    BY <1>6 DEF v
  <2> QED  BY <1>1, <1>2, <1>3, <1>4, <1>5, <2>1, <2>2, ReturnStep
<1>7. CASE frames' = Append(Continue([Top EXCEPT !.op = "exit"]), DrainFrame)
  BY <1>1, <1>2, <1>4, <1>5, <1>7, ExitStep
<1> QED  BY <1>2, <1>6, <1>7

\* No slot's body appears on a stack by a return.
LEMMA PopSlotless ==
  ASSUME IInv, TypeInv', frames # <<>>, ~IsInner(Top), Top.op # "phase1", UNCHANGED raising,
         frames' = Below \/ \E v : frames' = Return(v)
  PROVE  Slotless(frames') /\ Staged(frames', raising')
<1>1. Slotless(frames) /\ TypeInv
  BY NoSlotBelow DEF IInv
<1>2. CASE frames' = Below
  <2>1. /\ \A i \in DOMAIN frames' : i \in DOMAIN frames /\ frames'[i] = frames[i] /\ i < Len(frames)
    BY <1>1, <1>2, BelowStack
  <2> QED  BY <1>1, <2>1 DEF Slotless, IInv, Staged
<1>3. CASE \E v : frames' = Return(v)
  <2>1. PICK v : frames' = Return(v)
    BY <1>3
  <2>2. Staged(frames', raising')
    BY <2>1, ReturnShape
  <2>3. /\ DOMAIN frames = 1..Len(frames) /\ Len(frames) \in Nat /\ frames \in Seq(Frame)
        /\ DOMAIN frames' = 1..(Len(frames) - 1)
        /\ \A i \in 1..(Len(frames) - 1) :
             frames'[i] = IF i = Len(frames) - 1 /\ frames[i].op = "run"
                          THEN [frames[i] EXCEPT !.args = Append(@, v)] ELSE frames[i]
    BY <1>1, <2>1, ReturnStack, Stack
  <2>4. Slotless(frames')
    <3> SUFFICES ASSUME NEW i \in DOMAIN frames', IsSlotRun(frames'[i]) PROVE FALSE
      BY DEF Slotless
    <3>1. i \in DOMAIN frames /\ frames[i] \in Frame
      BY <2>3
    <3>2. frames'[i].op = frames[i].op /\ frames'[i].node = frames[i].node
      BY <2>3, <3>1 DEF Frame
    <3> QED  BY <1>1, <3>1, <3>2 DEF Slotless, IsSlotRun
  <2> QED  BY <2>2, <2>4
<1> QED  BY <1>2, <1>3

\* A write defers its touch or queues the readers.
LEMMA WriteKeeps ==
  ASSUME TypeInv, Source \cap Slot = {}, NEW x \in Source, UNCHANGED <<cache, disposed>>,
         \A y \in Source : y # x => value'[y] = value[y],
         \A y \in Source : Deferred(y) => DeferredNext(y),
         \/ pendingCells' = pendingCells \cup {x} /\ UNCHANGED <<parents, work>>
         \/ parents' = TouchedEdges(x) /\ work' = TouchedWork(x),
         NEW n
  PROVE  Keeps(n)
<1>1. CASE pendingCells' = pendingCells \cup {x} /\ UNCHANGED <<parents, work>>
  <2>1. InWork(n) => QueuedNext(n)
    BY <1>1 DEF InWork, QueuedNext
  <2>2. DeferredNext(x)
    BY <1>1 DEF DeferredNext
  <2> QED  BY <1>1, <2>1, <2>2 DEF Keeps, KeepsLink
<1>2. CASE parents' = TouchedEdges(x) /\ work' = TouchedWork(x)
  <2>1. /\ \A r : InWork(r) \/ r \in parents[x] => QueuedNext(r)
        /\ \A d \in Node : d # x => parents'[d] = parents[d]
    BY <1>2, Touch DEF Node
  <2> QED  BY <2>1 DEF Keeps, KeepsLink, Node
<1> QED  BY <1>1, <1>2

LEMMA LinksObservers ==
  ASSUME IInv, TypeInv', ~Interrupted',
         \/ \E e \in Effect : EffectReturns(e) \/ EffectWrites(e)
         \/ \E r \in Observer : ObserverExits(r)
  PROVE  IInv'
<1>1. Source \cap Slot = {} /\ Effect \cap (Slot \cup Computed) = {} /\ TypeInv
  BY KindsAssumption DEF IInv
<1>2. CASE \E e \in Effect : EffectReturns(e)
  <2>1. PICK e \in Effect : EffectReturns(e)
    BY <1>2
  <2>2. frames # <<>> /\ ~IsInner(Top) /\ Top.op = "run" /\ frames' = Below
    BY <1>1, <2>1 DEF EffectReturns, Returns, At, IsInner
  <2>3. \A n \in Slot : Keeps(n)
    <3> SUFFICES ASSUME NEW n \in Slot PROVE Keeps(n)
      OBVIOUS
    <3>1. InWork(n) => QueuedNext(n)
      BY <2>1 DEF EffectReturns, InWork, QueuedNext
    <3> QED  BY <2>1, <2>2, <3>1, QuietKeeps DEF EffectReturns, edgeVars, batchVars
  <2>4. Slotless(frames') /\ Staged(frames', raising')
    BY <2>1, <2>2, PopSlotless DEF EffectReturns
  <2> QED  BY <2>1, <2>3, <2>4, SlotlessStep DEF EffectReturns, IInv, Unsettled
<1>3. CASE \E r \in Observer : ObserverExits(r)
  <2>1. PICK r \in Observer : ObserverExits(r)
    BY <1>3
  <2>2. /\ frames # <<>> /\ ~IsInner(Top) /\ Top.op = "exit"
        /\ frames' = Below \/ \E v : frames' = Return(v)
    BY <2>1 DEF ObserverExits, At, IsInner
  <2>3. \A n \in Slot : Keeps(n)
    <3> SUFFICES ASSUME NEW n \in Slot PROVE Keeps(n)
      OBVIOUS
    <3>1. InWork(n) => QueuedNext(n)
      BY <2>1 DEF ObserverExits, InWork, QueuedNext
    <3> QED  BY <2>1, <2>2, <3>1, QuietKeeps DEF ObserverExits, edgeVars, batchVars
  <2>4. Slotless(frames') /\ Staged(frames', raising')
    BY <2>1, <2>2, PopSlotless DEF ObserverExits
  <2> QED  BY <2>1, <2>3, <2>4, SlotlessStep DEF ObserverExits, IInv, Unsettled
<1>4. CASE \E e \in Effect : EffectWrites(e)
  <2>1. PICK e \in Effect : EffectWrites(e)
    BY <1>4
  <2>2. frames # <<>> /\ ~IsInner(Top) /\ Top.op = "run"
    BY <1>1, <2>1 DEF EffectWrites, Returns, At, IsInner
  <2>3. PICK w \in Written(e) :
          /\ value' = [value EXCEPT ![w[1]] = w[2]]
          /\ \/ pendingCells' = pendingCells \cup {w[1]} /\ UNCHANGED <<parents, work>>
             \/ /\ parents' = TouchedEdges(w[1]) /\ work' = TouchedWork(w[1])
                /\ UNCHANGED pendingCells
          /\ \/ frames' = Append(Continue([Top EXCEPT !.op = "exit"]), DrainFrame)
             \/ frames' = Below
    BY <2>1 DEF EffectWrites
  <2> DEFINE x == w[1]
  <2>4. x \in Source /\ x \in Node
    BY <2>3, BodiesAssumption DEF Written, Node
  <2>5. cache' = cache /\ disposed' = disposed /\ raising' = raising
    BY <2>1 DEF EffectWrites
  <2> HIDE DEF x
  <2>6. /\ \A y \in Source : y # x => value'[y] = value[y]
        /\ \/ pendingCells' = pendingCells \cup {x} /\ UNCHANGED <<parents, work>>
           \/ /\ parents' = TouchedEdges(x) /\ work' = TouchedWork(x)
              /\ UNCHANGED pendingCells
    BY <2>3, <2>4 DEF TypeInv, TypeOK, IInv, x
  <2>7. \A y \in Source : Deferred(y) => DeferredNext(y)
    BY <2>2, <2>6, DeferredKept
  <2>8. ASSUME NEW n \in Slot PROVE Keeps(n)
    BY <1>1, <2>4, <2>5, <2>6, <2>7, WriteKeeps
  <2>9. CASE frames' = Below
    <3>1. Slotless(frames') /\ Staged(frames', raising')
      BY <2>2, <2>5, <2>9, PopSlotless
    <3> QED  BY <2>5, <2>8, <3>1, SlotlessStep DEF IInv, Unsettled
  <2>10. CASE frames' = Append(Continue([Top EXCEPT !.op = "exit"]), DrainFrame)
    BY <2>2, <2>5, <2>8, <2>10, ExitStep DEF IInv, Unsettled
  <2> QED  BY <2>3, <2>9, <2>10
<1> QED  BY <1>2, <1>3, <1>4

\* Popping one reader leaves the others queued.
LEMMA PopKeepsOthers ==
  ASSUME TypeInv, work # <<>>, NEW r, NEW n, n # r, InWork(n)
  PROVE  /\ \E i \in DOMAIN Popped(r) : n \in Popped(r)[i]
         /\ Popped(r) \in Seq(SUBSET (Reader \cup {None}))
<1>1. /\ work \in Seq(SUBSET (Reader \cup {None})) /\ Len(work) \in Nat \ {0}
      /\ DOMAIN work = 1..Len(work) /\ TypeOK
  BY FrontInSeq, LenProperties DEF TypeInv, TypeOK
<1>2. PICK i \in DOMAIN work : n \in work[i]
  BY DEF InWork
<1>3. Popped(r) \in Seq(SUBSET (Reader \cup {None}))
  BY <1>1, WorkTypes
<1>4. CASE Last = {r}
  <2>1. i \in 1..(Len(work) - 1)
    BY <1>1, <1>2, <1>4 DEF Last
  <2>2. /\ Popped(r) = SubSeq(work, 1, Len(work) - 1) /\ Len(Popped(r)) = Len(work) - 1
        /\ \A k \in 1..(Len(work) - 1) : Popped(r)[k] = work[k]
    BY <1>1, <1>4, FrontInSeq DEF Popped
  <2> QED  BY <1>1, <1>2, <1>3, <2>1, <2>2, LenProperties
<1>5. CASE Last # {r}
  <2>1. Popped(r) = [work EXCEPT ![Len(work)] = @ \ {r}]
    BY <1>5 DEF Popped
  <2> QED  BY <1>1, <1>2, <1>3, <2>1
<1> QED  BY <1>4, <1>5

\* What follows a drain or a flush of readers alone: queues lose r at most.
LEMMA PopKeeps ==
  ASSUME IInv, frames = <<>> \/ Top.op # "phase1", UNCHANGED <<value, disposed, cache>>,
         pendingCells \subseteq pendingCells', NEW r, r \notin Slot,
         work' = work \/ (work # <<>> /\ work' = Popped(r)),
         \A d \in Source \cup Slot, m \in Slot : m \in parents[d] => m \in parents'[d],
         NEW n \in Slot
  PROVE  Keeps(n)
<1>1. InWork(n) => QueuedNext(n)
  <2>1. CASE work' = work
    BY <2>1 DEF InWork, QueuedNext
  <2>2. CASE work # <<>> /\ work' = Popped(r)
    BY <2>2, PopKeepsOthers DEF QueuedNext, IInv
  <2> QED  BY <2>1, <2>2
<1> QED  BY <1>1, QuietKeeps

LEMMA LaunchStep ==
  ASSUME IInv, TypeInv', Slotless(frames), frames # <<>>,
         NEW f \in Frame, f.op # "phase1", ~IsSlotRun(f), f.todo \cap Source = {},
         NEW g \in Frame, g.op # "phase1", ~IsSlotRun(g), g.todo \cap Source = {},
         frames' = Continue(f) \/ frames' = Append(Continue(f), g),
         UNCHANGED raising
  PROVE  Slotless(frames') /\ Staged(frames', raising')
<1>1. /\ DOMAIN frames = 1..Len(frames) /\ Len(frames) \in Nat \ {0} /\ TypeInv
      /\ Top = frames[Len(frames)]
  BY Stack DEF IInv
<1>2. \A i \in DOMAIN frames' :
        \/ i \in DOMAIN frames /\ i # Len(frames) /\ frames'[i] = frames[i]
        \/ frames'[i] = f
        \/ frames'[i] = g
  BY <1>1, TopFrames
<1>3. Slotless(frames')
  BY <1>2 DEF Slotless
<1>4. Staged(frames', raising')
  <2> SUFFICES ASSUME NEW i \in DOMAIN frames'
               PROVE  frames'[i].op # "phase1" /\ frames'[i].todo \cap Source = {}
    BY DEF Staged
  <2>1. CASE i \in DOMAIN frames /\ i # Len(frames) /\ frames'[i] = frames[i]
    BY <2>1 DEF IInv, Staged
  <2> QED  BY <1>2, <2>1
<1> QED  BY <1>3, <1>4

LEMMA LinksDrain ==
  ASSUME IInv, TypeInv',
         \/ \E n \in Slot : InvalidateSlot(n)
         \/ \E r \in Observer \cup {None} : InvalidateIgnored(r)
         \/ \E r \in Observer : InvalidateDeferred(r) \/ InvalidateRuns(r)
         \/ DrainDone
  PROVE  IInv'
<1>1. /\ Source \cap Slot = {} /\ Observer \cap Slot = {} /\ None \notin Slot /\ TypeInv
      /\ frames # <<>> /\ Top.op = "drain" /\ ~IsInner(Top)
  BY KindsAssumption
  DEF IInv, Observer, Reader, InvalidateSlot, InvalidateIgnored, InvalidateDeferred, InvalidateRuns,
      Pops, DrainDone, At, IsInner
<1>2. Slotless(frames) /\ Staged(frames, raising)
  BY <1>1, NoSlotBelow DEF IInv
<1>3. CASE \E n \in Slot : InvalidateSlot(n)
  <2>1. PICK n \in Slot : InvalidateSlot(n)
    BY <1>3
  <2>2. /\ UNCHANGED <<value, disposed, pendingCells, frames, raising>> /\ work # <<>> /\ n \in Node
    BY <2>1 DEF InvalidateSlot, Pops, batchVars, Node
  <2>3. \A y \in Source : Deferred(y) => DeferredNext(y)
    BY <1>1, <2>2, DeferredKept
  <2>4. CASE n \in disposed
    <3>1. work' = Popped(n) /\ UNCHANGED <<cache, parents>>
      BY <2>1, <2>4 DEF InvalidateSlot
    <3>2. ASSUME NEW m \in Slot, cache'[m] # None
          PROVE  cache'[m] = cache[m] /\ Keeps(m)
      <4>1. m # n
        BY <2>4, <3>1, <3>2 DEF IInv, Unsettled
      <4>2. InWork(m) => QueuedNext(m)
        BY <1>1, <2>2, <3>1, <4>1, PopKeepsOthers DEF QueuedNext
      <4> QED  BY <1>1, <2>2, <3>1, <4>2, QuietKeeps
    <3> QED  BY <1>2, <2>2, <3>1, <3>2, SlotlessStep DEF IInv, Unsettled
  <2>5. CASE n \notin disposed
    <3>1. /\ cache' = [cache EXCEPT ![n] = None] /\ parents' = TouchedEdges(n)
          /\ work' = IF parents[n] = {} THEN Popped(n) ELSE Append(Popped(n), parents[n])
      BY <2>1, <2>5 DEF InvalidateSlot
    <3>2. /\ cache'[n] = None /\ \A m \in Slot : m # n => cache'[m] = cache[m]
          /\ \A d \in Node : d # n => parents'[d] = parents[d]
      BY <3>1 DEF TypeInv, TypeOK, IInv, TouchedEdges
    <3>3. Popped(n) \in Seq(SUBSET (Reader \cup {None})) /\ parents[n] \in SUBSET Reader
      BY <1>1, <2>2, WorkTypes DEF TypeInv, TypeOK
    <3>4. /\ \A m : (\E i \in DOMAIN Popped(n) : m \in Popped(n)[i]) => QueuedNext(m)
          /\ \A m \in parents[n] : QueuedNext(m)
      <4>1. CASE parents[n] = {}
        BY <3>1, <4>1 DEF QueuedNext
      <4>2. CASE parents[n] # {}
        <5> DEFINE w == Popped(n)
        <5>1. work' = Append(w, parents[n]) /\ w \in Seq(SUBSET (Reader \cup {None}))
          BY <3>1, <3>3, <4>2
        <5> HIDE DEF w
        <5>2. /\ DOMAIN work' = 1..(Len(w) + 1) /\ work'[Len(w) + 1] = parents[n]
              /\ DOMAIN w = 1..Len(w) /\ Len(w) \in Nat /\ \A i \in DOMAIN w : work'[i] = w[i]
          BY <5>1
        <5>3. \A m : (\E i \in DOMAIN w : m \in w[i]) => QueuedNext(m)
          BY <5>2 DEF QueuedNext
        <5>4. \A m \in parents[n] : QueuedNext(m)
          BY <5>2 DEF QueuedNext
        <5> QED  BY <5>3, <5>4 DEF w
      <4> QED  BY <4>1, <4>2
    <3>5. ASSUME NEW m \in Slot, cache'[m] # None
          PROVE  cache'[m] = cache[m] /\ Keeps(m)
      <4>1. m # n
        BY <3>2, <3>5
      <4>2. InWork(m) => QueuedNext(m)
        BY <1>1, <2>2, <3>4, <4>1, PopKeepsOthers
      <4>3. CASE QueuedNext(m)
        BY <3>2, <4>1, <4>3 DEF Keeps
      <4>4. CASE ~QueuedNext(m)
        <5>1. m \notin parents[n] /\ ~InWork(m)
          BY <3>4, <4>2, <4>4
        <5> QED  BY <2>2, <2>3, <3>2, <4>1, <5>1 DEF Keeps, KeepsLink, Node
      <4> QED  BY <4>3, <4>4
    <3> QED  BY <1>2, <2>2, <3>2, <3>5, SlotlessStep DEF IInv, Unsettled
  <2> QED  BY <2>4, <2>5
<1>4. CASE \E r \in Observer \cup {None} : InvalidateIgnored(r)
  <2>1. PICK r \in Observer \cup {None} : InvalidateIgnored(r)
    BY <1>4
  <2>2. ASSUME NEW n \in Slot PROVE Keeps(n)
    BY <1>1, <2>1, PopKeeps DEF InvalidateIgnored, Pops, nodeVars, edgeVars, batchVars
  <2> QED  BY <1>2, <2>1, <2>2, SlotlessStep DEF InvalidateIgnored, nodeVars, IInv, Unsettled
<1>5. CASE \E r \in Observer : InvalidateDeferred(r)
  <2>1. PICK r \in Observer : InvalidateDeferred(r)
    BY <1>5
  <2>2. ASSUME NEW n \in Slot PROVE Keeps(n)
    BY <1>1, <2>1, PopKeeps DEF InvalidateDeferred, Pops, nodeVars, edgeVars
  <2> QED  BY <1>2, <2>1, <2>2, SlotlessStep DEF InvalidateDeferred, nodeVars, IInv, Unsettled
<1>6. CASE \E r \in Observer : InvalidateRuns(r)
  <2>1. PICK r \in Observer : InvalidateRuns(r)
    BY <1>6
  <2>2. \A d \in Source \cup Slot, m \in Slot : m \in parents[d] => m \in parents'[d]
    BY <1>1, <2>1 DEF InvalidateRuns, Launch, Detach, Detached, Node
  <2>3. ASSUME NEW n \in Slot PROVE Keeps(n)
    BY <1>1, <2>1, <2>2, PopKeeps DEF InvalidateRuns, Pops, batchVars
  <2>4. frames' = Append(Continue(Top), RunFrame(r)) /\ Top.todo \cap Source = {}
    <3>1. Continue(Top) = frames
      BY <1>1, Stack, FrontInSeq DEF Continue
    <3>2. Len(frames) \in DOMAIN frames /\ Top = frames[Len(frames)]
      BY <1>1, Stack
    <3> QED  BY <1>1, <1>2, <2>1, <3>1, <3>2 DEF InvalidateRuns, Launch, Staged
  <2>5. /\ Top \in Frame /\ ~IsSlotRun(Top) /\ Top.op # "phase1"
        /\ RunFrame(r) \in Frame /\ RunFrame(r).op # "phase1" /\ RunFrame(r).todo = {}
        /\ ~IsSlotRun(RunFrame(r))
    BY <1>1, Stack, NewFrames DEF RunFrame, Observer, Reader, IsSlotRun
  <2>6. Slotless(frames') /\ Staged(frames', raising')
    BY <1>1, <1>2, <2>1, <2>4, <2>5, LaunchStep DEF InvalidateRuns
  <2> QED  BY <2>1, <2>3, <2>6, SlotlessStep DEF InvalidateRuns, IInv, Unsettled
<1>7. CASE DrainDone
  <2>1. ASSUME NEW n \in Slot PROVE Keeps(n)
    BY <1>1, <1>7, PopKeeps DEF DrainDone, nodeVars, edgeVars, batchVars
  <2>2. Slotless(frames') /\ Staged(frames', raising')
    BY <1>1, <1>7, PopSlotless DEF DrainDone
  <2> QED  BY <1>7, <2>1, <2>2, SlotlessStep DEF DrainDone, nodeVars, IInv, Unsettled
<1> QED  BY <1>3, <1>4, <1>5, <1>6, <1>7

LEMMA LinksFlush ==
  ASSUME IInv, TypeInv',
         \/ \E x \in Source : FlushTouch(x)
         \/ FlushWave \/ FlushEffects \/ FlushDone
         \/ \E r \in Observer : FlushRerun(r)
  PROVE  IInv'
<1>1. /\ TypeInv /\ frames # <<>> /\ ~raising /\ Top.op \in FlushOp /\ ~IsInner(Top)
      /\ Source \cap Slot = {} /\ Source \cap Observer = {} /\ Observer \cap Slot = {}
  BY KindsAssumption
  DEF IInv, FlushTouch, FlushWave, FlushEffects, FlushDone, FlushRerun, At, FlushOp, IsInner,
      Observer
<1>2. /\ Slotless(frames) /\ Top \in Frame /\ Top = frames[Len(frames)]
      /\ Len(frames) \in DOMAIN frames /\ DOMAIN frames = 1..Len(frames) /\ Len(frames) \in Nat
  BY <1>1, NoSlotBelow, Stack
<1>3. CASE \E x \in Source : FlushTouch(x)
  <2>1. PICK x \in Source : FlushTouch(x)
    BY <1>3
  <2> DEFINE f == [Top EXCEPT !.todo = @ \ {x}]
  <2>2. f.op = "phase1" /\ f.todo = Top.todo \ {x} /\ Top.op = "phase1"
    BY <1>2, <2>1 DEF FlushTouch, At, Frame
  <2>3. frames' = Continue(f) /\ UNCHANGED <<value, cache, disposed, pendingCells, raising>>
    BY <2>1 DEF FlushTouch, nodeVars, batchVars
  <2> HIDE DEF f
  <2>4. /\ DOMAIN frames' = 1..Len(frames) /\ Len(frames') = Len(frames)
        /\ \A i \in DOMAIN frames : frames'[i] = IF i = Len(frames) THEN f ELSE frames[i]
    BY <1>1, <2>3, ContinueStack
  <2>5. Slotless(frames') /\ Staged(frames', raising')
    BY <1>1, <1>2, <2>2, <2>3, <2>4 DEF Slotless, IsSlotRun, IInv, Staged
  <2>6. ASSUME NEW y \in Source, y # x, Deferred(y)
        PROVE  DeferredNext(y)
    <3>1. CASE y \in pendingCells
      BY <2>3, <3>1 DEF DeferredNext
    <3>2. CASE \E i \in DOMAIN frames : y \in frames[i].todo
      <4>1. PICK i \in DOMAIN frames : y \in frames[i].todo
        BY <3>2
      <4>2. i \in DOMAIN frames' /\ y \in frames'[i].todo
        BY <1>2, <2>2, <2>4, <2>6, <4>1
      <4> QED  BY <4>2 DEF DeferredNext
    <3> QED  BY <2>6, <3>1, <3>2 DEF Deferred
  <2>7. ASSUME NEW n \in Slot PROVE Keeps(n)
    <3>1. CASE x \in disposed
      <4>1. UNCHANGED <<parents, work>>
        BY <2>1, <3>1 DEF FlushTouch
      <4> QED  BY <2>3, <2>6, <3>1, <4>1 DEF Keeps, KeepsLink, InWork, QueuedNext
    <3>2. CASE x \notin disposed
      <4>1. parents' = TouchedEdges(x) /\ work' = TouchedWork(x)
        BY <2>1, <3>2 DEF FlushTouch
      <4>2. /\ \A r : InWork(r) \/ r \in parents[x] => QueuedNext(r)
            /\ \A d \in Node : d # x => parents'[d] = parents[d]
        BY <1>1, <4>1, Touch DEF Node
      <4> QED  BY <2>3, <2>6, <4>2 DEF Keeps, KeepsLink, Node
    <3> QED  BY <3>1, <3>2
  <2> QED  BY <2>3, <2>5, <2>7, SlotlessStep DEF IInv, Unsettled
<1>4. CASE FlushWave
  <2>1. /\ LoopFrame("wave", {}) \in Frame /\ LoopFrame("wave", {}).op = "wave"
        /\ LoopFrame("wave", {}).todo = {} /\ ~IsSlotRun(LoopFrame("wave", {}))
        /\ DrainFrame \in Frame /\ DrainFrame.op = "drain" /\ DrainFrame.todo = {}
        /\ ~IsSlotRun(DrainFrame)
    BY NewFrames DEF LoopFrame, DrainFrame, FlushOp, IsSlotRun
  <2>2. Slotless(frames') /\ Staged(frames', raising')
    BY <1>1, <1>2, <1>4, <2>1, LaunchStep DEF FlushWave
  <2>3. \A i \in DOMAIN frames : frames[i].todo \cap Source = {}
    BY <1>2, <1>4 DEF FlushWave, IInv, Staged
  <2>4. ASSUME NEW n \in Slot PROVE Keeps(n)
    BY <1>4, <2>3
    DEF FlushWave, Keeps, KeepsLink, InWork, QueuedNext, Deferred, DeferredNext, nodeVars,
        edgeVars, batchVars
  <2> QED  BY <1>4, <2>2, <2>4, SlotlessStep DEF FlushWave, nodeVars, IInv, Unsettled
<1>5. CASE FlushEffects
  <2> DEFINE f == LoopFrame("phase2", pendingEffects)
  <2>1. pendingEffects \subseteq Observer
    BY ClientAssumption DEF IInv, TypeInv, TypeOK, Observer
  <2>2. /\ f \in Frame /\ f.op = "phase2" /\ f.todo = pendingEffects /\ ~IsSlotRun(f)
    BY <2>1, NewFrames DEF LoopFrame, FlushOp, IsSlotRun
  <2> HIDE DEF f
  <2>3. frames' = Continue(f) /\ f.todo \cap Source = {} /\ raising' = raising
    BY <1>1, <1>5, <2>1, <2>2 DEF FlushEffects, f
  <2>4. Slotless(frames') /\ Staged(frames', raising')
    BY <1>1, <1>2, <2>2, <2>3, LaunchStep
  <2>5. ASSUME NEW n \in Slot PROVE Keeps(n)
    <3>1. Top.op # "phase1" /\ (InWork(n) => QueuedNext(n))
      BY <1>5 DEF FlushEffects, At, InWork, QueuedNext
    <3> QED  BY <1>5, <3>1, QuietKeeps DEF FlushEffects, nodeVars, edgeVars
  <2> QED  BY <1>5, <2>4, <2>5, SlotlessStep DEF FlushEffects, nodeVars, IInv, Unsettled
<1>6. CASE FlushDone
  <2>1. Top.op # "phase1" /\ frames' = Below /\ raising' = raising
    BY <1>6 DEF FlushDone, At
  <2>2. Slotless(frames') /\ Staged(frames', raising')
    BY <1>1, <2>1, PopSlotless
  <2>3. ASSUME NEW n \in Slot PROVE Keeps(n)
    <3>1. InWork(n) => QueuedNext(n)
      BY <1>6 DEF FlushDone, InWork, QueuedNext
    <3> QED  BY <1>6, <2>1, <3>1, QuietKeeps DEF FlushDone, nodeVars, edgeVars
  <2> QED  BY <1>6, <2>2, <2>3, SlotlessStep DEF FlushDone, nodeVars, IInv, Unsettled
<1>7. CASE \E r \in Observer : FlushRerun(r)
  <2>1. PICK r \in Observer : FlushRerun(r)
    BY <1>7
  <2> DEFINE f == [Top EXCEPT !.todo = @ \ {r}]
  <2>2. f \in Frame /\ f.op = "phase2" /\ f.todo \subseteq Top.todo /\ Top.op = "phase2"
    BY <1>2, <2>1 DEF FlushRerun, At, Frame, FlushOp
  <2>3. /\ RunFrame(r) \in Frame /\ RunFrame(r).op = "run" /\ RunFrame(r).todo = {}
        /\ ~IsSlotRun(RunFrame(r)) /\ r \in Observer /\ r \notin Slot
    BY <1>1, NewFrames DEF RunFrame, Observer, Reader, IsSlotRun
  <2>4. f.todo \cap Source = {} /\ ~IsSlotRun(f)
    BY <1>2, <2>2 DEF IInv, Staged, IsSlotRun
  <2>5. frames' = Continue(f) \/ frames' = Append(Continue(f), RunFrame(r))
    BY <2>1 DEF FlushRerun, Launch
  <2> HIDE DEF f
  <2>6. Slotless(frames') /\ Staged(frames', raising')
    BY <1>1, <1>2, <2>1, <2>2, <2>3, <2>4, <2>5, LaunchStep DEF FlushRerun
  <2>7. \A d \in Source \cup Slot, m \in Slot : m \in parents[d] => m \in parents'[d]
    BY <2>1, <2>3 DEF FlushRerun, Launch, Detach, Detached, edgeVars, Node
  <2>8. ASSUME NEW n \in Slot PROVE Keeps(n)
    <3>1. InWork(n) => QueuedNext(n)
      BY <2>1 DEF FlushRerun, InWork, QueuedNext
    <3> QED  BY <2>1, <2>2, <2>7, <3>1, QuietKeeps DEF FlushRerun, batchVars
  <2> QED  BY <2>1, <2>6, <2>8, SlotlessStep DEF FlushRerun, IInv, Unsettled
<1> QED  BY <1>3, <1>4, <1>5, <1>6, <1>7

(***************************************************************************)
(* The client's calls.                                                     *)
(***************************************************************************)
\* An exception never outlives the call it was raised in.
Caught == raising => frames # <<>>

\* A call starts with an empty stack.
LEMMA ClientStack ==
  ASSUME frames = <<>>, Caught, UNCHANGED raising,
         \/ frames' = <<>> \/ frames' = <<DrainFrame>>
         \/ \E todo : frames' = <<LoopFrame("phase1", todo)>>
         \/ \E r \in Observer : frames' = Append(<<>>, RunFrame(r))
  PROVE  Slotless(frames') /\ Staged(frames', raising')
<1>1. ~raising'
  BY DEF Caught
<1>2. CASE frames' = <<>>
  BY <1>2 DEF Slotless, Staged
<1>3. CASE frames' = <<DrainFrame>>
  BY <1>3 DEF Slotless, Staged, DrainFrame, LoopFrame, IsSlotRun
<1>4. CASE \E todo : frames' = <<LoopFrame("phase1", todo)>>
  BY <1>1, <1>4 DEF Slotless, Staged, LoopFrame, IsSlotRun
<1>5. CASE \E r \in Observer : frames' = Append(<<>>, RunFrame(r))
  <2>1. PICK r \in Observer : frames' = Append(<<>>, RunFrame(r))
    BY <1>5
  <2>2. frames' = <<RunFrame(r)>> /\ r \notin Slot
    BY <2>1, KindsAssumption DEF Observer
  <2> QED  BY <2>2 DEF Slotless, Staged, RunFrame, IsSlotRun
<1> QED  BY <1>2, <1>3, <1>4, <1>5

LEMMA LinksWrites ==
  ASSUME IInv, Caught, TypeInv',
         \/ \E x \in Source, v \in Val : Set(x, v)
         \/ \E n \in Slot : Reset(n) \/ CallSlot(n)
         \/ BatchEnter \/ BatchExit
  PROVE  IInv'
<1>1. TypeInv /\ frames = <<>> /\ Source \cap Slot = {}
  BY KindsAssumption DEF IInv, Set, Reset, CallSlot, BatchEnter, BatchExit, Idle
<1>2. CASE \E x \in Source, v \in Val : Set(x, v)
  <2>1. PICK x \in Source, v \in Val : Set(x, v)
    BY <1>2
  <2>2. /\ UNCHANGED <<cache, disposed, raising>>
        /\ \A y \in Source : y # x => value'[y] = value[y]
        /\ pendingCells \subseteq pendingCells'
        /\ \/ pendingCells' = pendingCells \cup {x} /\ UNCHANGED <<parents, work>>
           \/ parents' = TouchedEdges(x) /\ work' = TouchedWork(x)
        /\ frames' = <<>> \/ frames' = <<DrainFrame>>
    BY <1>1, <2>1 DEF Set, IInv, TypeInv, TypeOK
  <2>3. \A n \in Slot : Keeps(n)
    BY <1>1, <2>2, DeferredKept, WriteKeeps
  <2>4. Slotless(frames') /\ Staged(frames', raising')
    BY <1>1, <2>2, ClientStack
  <2> QED  BY <2>2, <2>3, <2>4, SlotlessStep DEF IInv, Unsettled
<1>3. CASE \E n \in Slot : Reset(n)
  <2>1. PICK n \in Slot : Reset(n)
    BY <1>3
  <2>2. \A m : InWork(m) => QueuedNext(m)
    <3>1. /\ work \in Seq(SUBSET (Reader \cup {None})) /\ work' = Append(work, {n})
          /\ DOMAIN work = 1..Len(work) /\ Len(work) \in Nat
      BY <1>1, <2>1, LenProperties DEF Reset, TypeInv, TypeOK
    <3>2. \A i \in DOMAIN work : i \in DOMAIN work' /\ work'[i] = work[i]
      BY <3>1
    <3> QED  BY <3>2 DEF InWork, QueuedNext
  <2>3. \A m \in Slot : Keeps(m)
    BY <1>1, <2>1, <2>2, QuietKeeps DEF Reset, nodeVars, edgeVars, batchVars
  <2>4. Slotless(frames') /\ Staged(frames', raising')
    BY <1>1, <2>1, ClientStack DEF Reset
  <2> QED  BY <2>1, <2>3, <2>4, SlotlessStep DEF Reset, nodeVars, IInv, Unsettled
<1>4. CASE \E n \in Slot : CallSlot(n)
  <2>1. PICK n \in Slot : CallSlot(n)
    BY <1>4
  <2>2. /\ frames' = <<RunFrame(n)>> /\ cache[n] = None /\ n \notin disposed
        /\ UNCHANGED <<value, cache, disposed, parents, work, pendingCells, raising>>
    BY <2>1 DEF CallSlot, nodeVars, batchVars
  <2>3. /\ DOMAIN frames' = {1} /\ Len(frames') = 1 /\ frames'[1].op = "run"
        /\ frames'[1].node = n /\ frames'[1].args = <<>> /\ frames'[1].todo = {}
    BY <2>2 DEF RunFrame
  <2>4. \A m \in Slot : Keeps(m)
    <3>1. \A m : InWork(m) => QueuedNext(m)
      BY <2>2 DEF InWork, QueuedNext
    <3> QED  BY <1>1, <2>2, <3>1, QuietKeeps
  <2>5. Cached' /\ Partial'
    BY <2>2, <2>3, <2>4, LinksStay
  <2>6. Shape(frames') /\ Staged(frames', raising')
    BY <2>3 DEF Shape, Staged
  <2>7. Unsettled' /\ Awaited'
    BY <2>2, <2>3 DEF IInv, Unsettled, Awaited, IsSlotRun
  <2> QED  BY <2>5, <2>6, <2>7 DEF IInv
<1>5. CASE BatchEnter
  <2>1. \A n : InWork(n) => QueuedNext(n)
    BY <1>5 DEF BatchEnter, InWork, QueuedNext
  <2>2. \A n \in Slot : Keeps(n)
    BY <1>1, <1>5, <2>1, QuietKeeps DEF BatchEnter, nodeVars, edgeVars
  <2>3. Slotless(frames') /\ Staged(frames', raising')
    BY <1>1, <1>5, ClientStack DEF BatchEnter
  <2> QED  BY <1>5, <2>2, <2>3, SlotlessStep DEF BatchEnter, nodeVars, IInv, Unsettled
<1>6. CASE BatchExit
  <2>1. \A n : InWork(n) => QueuedNext(n)
    BY <1>6 DEF BatchExit, InWork, QueuedNext
  <2>2. /\ UNCHANGED <<nodeVars, edgeVars, work, raising>>
        /\ \/ frames' = <<LoopFrame("phase1", pendingCells)>> /\ pendingCells' = {}
           \/ UNCHANGED <<frames, pendingCells>>
    BY <1>6 DEF BatchExit
  <2>3. ASSUME NEW y \in Source, Deferred(y)
        PROVE  DeferredNext(y)
    <3>1. y \in pendingCells
      BY <1>1, <2>3 DEF Deferred
    <3>2. CASE frames' = <<LoopFrame("phase1", pendingCells)>>
      <4>1. 1 \in DOMAIN frames' /\ frames'[1].todo = pendingCells
        BY <3>2 DEF LoopFrame
      <4> QED  BY <3>1, <4>1 DEF DeferredNext
    <3> QED  BY <2>2, <3>1, <3>2 DEF DeferredNext
  <2>4. \A n \in Slot : Keeps(n)
    BY <2>1, <2>2, <2>3 DEF Keeps, KeepsLink, nodeVars, edgeVars
  <2>5. Slotless(frames') /\ Staged(frames', raising')
    BY <1>1, <2>2, ClientStack
  <2> QED  BY <2>2, <2>4, <2>5, SlotlessStep DEF nodeVars, IInv, Unsettled
<1> QED  BY <1>2, <1>3, <1>4, <1>5, <1>6

LEMMA LinksCalls ==
  ASSUME IInv, Caught, TypeInv',
         \/ \E c \in Computed : CallStale(c) \/ MakeEager(c) \/ MakeLazy(c)
         \/ \E e \in Effect : CallEffect(e)
  PROVE  IInv'
<1>1. TypeInv /\ frames = <<>> /\ Observer \cap Slot = {} /\ None \notin Slot
  BY KindsAssumption DEF IInv, CallStale, MakeEager, MakeLazy, CallEffect, Idle, Observer, Reader
<1>2. ASSUME NEW r \in Observer, Detach(r), UNCHANGED <<value, cache, disposed, pendingCells>>,
             \A n : n \in Slot /\ InWork(n) => QueuedNext(n)
      PROVE  \A n \in Slot : Keeps(n)
  <2>1. \A d \in Source \cup Slot, n \in Slot : n \in parents[d] => n \in parents'[d]
    BY <1>1, <1>2 DEF Detach, Detached, Node
  <2> QED  BY <1>1, <1>2, <2>1, QuietKeeps
<1>3. ASSUME NEW r \in Observer, CallStale(r) \/ MakeEager(r) \/ CallEffect(r)
      PROVE  IInv'
  <2>1. /\ Launch(r, <<>>) /\ UNCHANGED <<value, cache, disposed, work, batchVars, raising>>
    BY <1>3 DEF CallStale, MakeEager, CallEffect
  <2>2. \A n \in Slot : Keeps(n)
    BY <1>2, <2>1 DEF Launch, batchVars, InWork, QueuedNext
  <2>3. Slotless(frames') /\ Staged(frames', raising')
    BY <1>1, <2>1, ClientStack DEF Launch
  <2> QED  BY <2>1, <2>2, <2>3, SlotlessStep DEF IInv, Unsettled
<1>4. CASE \E c \in Computed : MakeLazy(c)
  <2>1. PICK c \in Computed : MakeLazy(c)
    BY <1>4
  <2>2. \A n : n \in Slot /\ InWork(n) => QueuedNext(n)
    <3>1. c \notin Slot
      BY KindsAssumption
    <3>2. \A i \in DOMAIN work : i \in DOMAIN work' /\ \A n \in work[i] : n # c => n \in work'[i]
      BY <2>1 DEF MakeLazy
    <3> QED  BY <3>1, <3>2 DEF InWork, QueuedNext
  <2>3. \A n \in Slot : Keeps(n)
    BY <1>2, <2>1, <2>2 DEF MakeLazy, Observer
  <2>4. Slotless(frames') /\ Staged(frames', raising')
    BY <1>1, <2>1, ClientStack DEF MakeLazy
  <2> QED  BY <2>1, <2>3, <2>4, SlotlessStep DEF MakeLazy, IInv, Unsettled
<1> QED  BY <1>3, <1>4 DEF Observer

\* The walk reaches every live reader of a root and of a slot it reaches.
LEMMA ConeClosed ==
  ASSUME NEW roots, NEW es, NEW r \in Reader, ~Dead(r),
         r \in roots \/ \E n \in Cone(roots, es) \cap Slot : r \in es[n]
  PROVE  r \in Cone(roots, es)
<1> DEFINE live == {q \in Reader : ~Dead(q)}
<1> SUFFICES ASSUME NEW S \in SUBSET live, roots \cap live \subseteq S,
                    \A n \in S \cap Slot : es[n] \cap live \subseteq S
             PROVE  r \in S
  BY DEF Cone
<1>1. Cone(roots, es) \subseteq S
  BY DEF Cone
<1> QED  BY <1>1

\* What survives a disposal read nothing the walk took.
LEMMA DisposeStep ==
  ASSUME IInv, Caught, TypeInv', frames = <<>>, NEW x \in Source \cup Slot,
         disposed' = disposed \cup {x}, NEW es, Dirty(Cone(parents[x], es), es),
         \A d \in Node, n \in Slot : d # x /\ n # x /\ n \in parents[d] => n \in es[d],
         UNCHANGED <<value, work, pendingCells, frames, raising>>
  PROVE  IInv'
<1> DEFINE cone == Cone(parents[x], es)
<1>1. /\ cache' = [n \in Slot |-> IF n \in cone \cup disposed' THEN None ELSE cache[n]]
      /\ \A d \in Node : d \notin cone \cap Slot => es[d] \subseteq parents'[d]
  BY DEF Dirty
<1>2. None \notin Slot /\ Slot \cap Computed = {} /\ x \in Node
  BY KindsAssumption DEF Reader, Node
<1> HIDE DEF cone
<1>3. \A n \in Slot : n \in disposed' => cache'[n] = None
  BY <1>1
<1>4. ASSUME NEW n \in Slot, cache'[n] # None
      PROVE  cache'[n] = cache[n] /\ Keeps(n)
  <2>1. n \notin cone /\ n \notin disposed' /\ cache'[n] = cache[n]
    BY <1>1, <1>4
  <2>2. n \in Reader /\ ~Dead(n) /\ n # x
    BY <1>2, <2>1 DEF Dead, Reader
  <2>3. n \notin parents[x] /\ \A d \in cone \cap Slot : n \notin es[d]
    BY <2>1, <2>2, ConeClosed DEF cone
  <2>4. ASSUME NEW d \in Source \cup Slot, n \in parents[d], d \notin disposed
        PROVE  KeepsLink(n, d)
    <3>1. d # x /\ d \notin disposed' /\ d \in Node
      BY <2>3, <2>4 DEF Node
    <3>2. n \in es[d] /\ d \notin cone \cap Slot
      BY <2>2, <2>3, <2>4, <3>1
    <3>3. n \in parents'[d] /\ (d \in Slot => cache'[d] = cache[d])
      BY <1>1, <3>1, <3>2
    <3> QED  BY <3>1, <3>3 DEF KeepsLink, Deferred, DeferredNext
  <2> QED  BY <2>1, <2>4 DEF Keeps, InWork, QueuedNext
<1>5. Slotless(frames') /\ Staged(frames', raising')
  BY ClientStack
<1> QED  BY <1>3, <1>4, <1>5, SlotlessStep

LEMMA LinksDisposal ==
  ASSUME IInv, Caught, TypeInv',
         \/ \E x \in Source : DisposeSource(x)
         \/ \E n \in Slot : DisposeSlot(n)
         \/ \E e \in Effect : DisposeEffect(e)
  PROVE  IInv'
<1>1. TypeInv /\ Source \cap Slot = {} /\ Effect \cap (Source \cup Slot) = {}
      /\ Computed \cap Effect = {}
  BY KindsAssumption DEF IInv
<1>2. CASE \E x \in Source : DisposeSource(x)
  <2>1. PICK x \in Source : DisposeSource(x)
    BY <1>2
  <2> DEFINE es == TouchedEdges(x)
  <2>2. /\ disposed' = disposed \cup {x} /\ Dirty(Cone(parents[x], es), es)
        /\ frames = <<>> /\ UNCHANGED <<value, work, pendingCells, frames, raising>>
    BY <2>1 DEF DisposeSource, batchVars, Idle
  <2>3. \A d \in Node, n \in Slot : d # x /\ n # x /\ n \in parents[d] => n \in es[d]
    BY <1>1 DEF TouchedEdges, TypeInv, TypeOK
  <2> HIDE DEF es
  <2> QED  BY <1>1, <2>2, <2>3, DisposeStep
<1>3. CASE \E n \in Slot : DisposeSlot(n)
  <2>1. PICK m \in Slot : DisposeSlot(m)
    BY <1>3
  <2> DEFINE es == [Detached(m) EXCEPT ![m] = {}]
  <2>2. /\ disposed' = disposed \cup {m} /\ Dirty(Cone(parents[m], es), es)
        /\ frames = <<>> /\ UNCHANGED <<value, work, pendingCells, frames, raising>>
    BY <2>1 DEF DisposeSlot, batchVars, Idle
  <2>3. \A d \in Node, n \in Slot : d # m /\ n # m /\ n \in parents[d] => n \in es[d]
    BY DEF Detached
  <2> HIDE DEF es
  <2> QED  BY <1>1, <2>2, <2>3, DisposeStep
<1>4. CASE \E e \in Effect : DisposeEffect(e)
  <2>1. PICK e \in Effect : DisposeEffect(e)
    BY <1>4
  <2>2. ASSUME NEW n \in Slot PROVE Keeps(n)
    <3>1. ASSUME NEW d \in Source \cup Slot, n \in parents[d], d \notin disposed
          PROVE  n \in parents'[d] /\ d \notin disposed'
      BY <1>1, <2>1, <3>1 DEF DisposeEffect, Detach, Detached, Node
    <3>2. UNCHANGED <<value, cache, work, pendingCells, frames>>
      BY <2>1 DEF DisposeEffect, batchVars
    <3> QED  BY <3>1, <3>2 DEF Keeps, KeepsLink, InWork, QueuedNext, Deferred, DeferredNext
  <2>3. Slotless(frames') /\ Staged(frames', raising')
    <3>1. Slotless(frames)
      <4>1. CASE frames = <<>>
        BY <4>1 DEF Slotless
      <4>2. CASE frames # <<>> /\ Top.node \in Effect
        BY <1>1, <4>2, NoSlotBelow DEF IsInner
      <4> QED  BY <2>1, <4>1, <4>2 DEF DisposeEffect, Idle, At
    <3> QED  BY <2>1, <3>1 DEF DisposeEffect, IInv
  <2>4. cache' = cache /\ \A n \in Slot : n \in disposed' => cache'[n] = None
    BY <1>1, <2>1 DEF DisposeEffect, IInv, Unsettled
  <2> QED  BY <2>2, <2>3, <2>4, SlotlessStep
<1> QED  BY <1>2, <1>3, <1>4

(***************************************************************************)
(* The invariant holds as long as no wave runs inside a slot's run.        *)
(***************************************************************************)
LEMMA CaughtStep ==
  ASSUME Caught, [Next]_vars
  PROVE  Caught'
<1>1. CASE raising
  <2>1. frames # <<>>
    BY <1>1 DEF Caught
  <2>2. ~Body /\ ~Engine /\ ~BodyRaises
    BY <1>1
    DEF Body, ReadSource, ReadDisposed, ReadCached, ReadMiss, SlotReturns, ReadLazyCached,
        ReadLazyMiss, ReadSettled, ReadStale, PullerReturns, EffectReturns, EffectWrites,
        ObserverExits, Reads, Returns, At, Engine, InvalidateSlot, InvalidateIgnored,
        InvalidateDeferred, InvalidateRuns, FlushRerun, FlushTouch, DrainDone, FlushWave,
        FlushEffects, FlushDone, Pops, BodyRaises
  <2>3. ~Client
    <3>1. \A e \in Effect : ~DisposeEffect(e)
      BY <1>1, <2>1 DEF DisposeEffect, Idle, At
    <3> QED
      BY <2>1, <3>1
      DEF Client, DisposeSource, Set, Reset, CallSlot, DisposeSlot, CallStale, MakeEager,
          MakeLazy, CallEffect, BatchEnter, BatchExit, Idle
  <2>4. CASE Unwind
    BY <2>4 DEF Unwind, Caught
  <2>5. CASE UNCHANGED vars
    BY <2>1, <2>5 DEF vars, Caught
  <2> QED  BY <2>2, <2>3, <2>4, <2>5 DEF Next, Internal
<1>2. CASE ~raising
  <2>1. CASE raising' = raising
    BY <1>2, <2>1 DEF Caught
  <2>2. CASE UNCHANGED frames /\ frames # <<>>
    BY <2>2 DEF Caught
  <2>3. CASE Unwind
    BY <2>3 DEF Unwind, Caught
  <2>4. CASE Body
    <3>1. ASSUME NEW d, ReadDisposed(d)
          PROVE  UNCHANGED frames /\ frames # <<>>
      BY <3>1 DEF ReadDisposed, Reads, At
    <3> QED
      BY <2>1, <2>2, <2>4, <3>1
      DEF Body, ReadSource, ReadCached, ReadMiss, SlotReturns, ReadLazyCached, ReadLazyMiss,
          ReadSettled, ReadStale, PullerReturns, EffectReturns, EffectWrites, ObserverExits
  <2>5. CASE Engine
    BY <2>1, <2>5
    DEF Engine, InvalidateSlot, InvalidateIgnored, InvalidateDeferred, InvalidateRuns, FlushRerun,
        FlushTouch, DrainDone, FlushWave, FlushEffects, FlushDone
  <2>6. CASE Client
    BY <2>1, <2>6
    DEF Client, DisposeSource, Set, Reset, CallSlot, DisposeSlot, CallStale, MakeEager, MakeLazy,
        CallEffect, DisposeEffect, BatchEnter, BatchExit
  <2>7. CASE BodyRaises \/ UNCHANGED vars
    BY <2>1, <2>2, <2>7 DEF BodyRaises, At, vars
  <2> QED  BY <2>3, <2>4, <2>5, <2>6, <2>7 DEF Next, Internal
<1> QED  BY <1>1, <1>2

LEMMA LinksInit == Init => IInv /\ Caught
<1> SUFFICES ASSUME Init PROVE IInv /\ Caught
  OBVIOUS
<1>1. TypeInv
  BY TypeInit
<1>2. frames = <<>> /\ ~raising /\ \A n \in Slot : cache[n] = None
  BY DEF Init
<1> QED
  BY <1>1, <1>2 DEF IInv, Caught, Shape, Staged, Unsettled, Awaited, Cached, Partial

LEMMA LinksStep ==
  ASSUME Acyclic, IInv, Caught, [Next]_vars, ~Interrupted'
  PROVE  IInv' /\ Caught'
<1>1. TypeInv' /\ Caught'
  BY TypeStep, CaughtStep DEF IInv
<1>2. CASE Body
  <2>1. CASE \/ \E x \in Source : ReadSource(x) \/ ReadDisposed(x)
             \/ \E n \in Slot : ReadCached(n) \/ ReadMiss(n) \/ ReadDisposed(n)
             \/ \E c \in Computed : \/ ReadLazyCached(c) \/ ReadLazyMiss(c) \/ ReadSettled(c)
                                    \/ ReadStale(c)
    BY <1>1, <2>1, LinksBodyReads DEF Node
  <2>2. CASE \E n \in Slot : SlotReturns(n)
    BY <1>1, <2>2, LinksSlotReturns
  <2>3. CASE \E c \in Computed : PullerReturns(c)
    BY <1>1, <2>3, LinksPullerReturns
  <2>4. CASE \/ \E e \in Effect : EffectReturns(e) \/ EffectWrites(e)
             \/ \E r \in Observer : ObserverExits(r)
    BY <1>1, <2>4, LinksObservers
  <2> QED  BY <1>1, <1>2, <2>1, <2>2, <2>3, <2>4 DEF Body
<1>3. CASE Engine
  BY <1>1, <1>3, LinksDrain, LinksFlush DEF Engine
<1>4. CASE BodyRaises \/ Unwind
  BY <1>1, <1>4, RaiseStep DEF BodyRaises, Unwind, nodeVars, edgeVars, batchVars
<1>5. CASE Client
  BY <1>1, <1>5, LinksWrites, LinksCalls, LinksDisposal DEF Client
<1>6. CASE UNCHANGED vars
  BY <1>1, <1>6
  DEF vars, nodeVars, edgeVars, batchVars, IInv, Shape, Staged, Unsettled, Awaited, Cached,
      Partial, Linked, InWork, Tracks, Deferred, CachedValue, ReadAt, IsSlotRun, IsInner, Callee
<1> QED  BY <1>1, <1>2, <1>3, <1>4, <1>5, <1>6 DEF Next, Internal

\* What a run read at any point is a node or Done, and neither names an observer.
LEMMA ReadAtNode ==
  ASSUME NEW r \in Reader, NEW s \in Trace, NEW i \in DOMAIN s
  PROVE  ReadAt(r, s, i) \in Node \cup {Done}
<1>1. /\ s \in Seq(Out) /\ Len(s) \in Nat /\ DOMAIN s = 1..Len(s) /\ Len(s) <= MaxReads
      /\ MaxReads \in Nat
  BY TraceIsSeq, LenProperties, BodiesAssumption
<1>2. i - 1 \in 0..Len(s) /\ \A k \in 1..(i - 1) : s[k] \in Out
  BY <1>1, ElementOfSeq
<1>3. SubSeq(s, 1, i - 1) = [k \in 1..(i - 1) |-> s[k]]
  BY <1>1, <1>2
<1>4. SubSeq(s, 1, i - 1) \in Seq(Out) /\ Len(SubSeq(s, 1, i - 1)) = i - 1
  BY <1>1, <1>2, <1>3
<1>5. SubSeq(s, 1, i - 1) \in Trace
  <2>1. i - 1 <= MaxReads
    BY <1>1, <1>2
  <2> QED  BY <1>4, <2>1, TraceIsSeq, Zenon
<1> QED  BY <1>5, BodiesAssumption DEF ReadAt

LEMMA LinksSuffice == IInv => CacheCoherent /\ DisposalDirties
<1> SUFFICES ASSUME IInv PROVE CacheCoherent /\ DisposalDirties
  OBVIOUS
<1> SUFFICES ASSUME NEW n \in Slot, cache[n] # None, ~InWork(n), NEW i \in DOMAIN cache[n],
                    NEW d, d = ReadAt(n, cache[n], i)
             PROVE  /\ d \in Source \cup Slot => Tracks(n, d, cache[n][i])
                    /\ d \notin disposed
  BY DEF CacheCoherent, DisposalDirties
<1>1. d \in Source \cup Slot => d \notin disposed /\ Tracks(n, d, cache[n][i])
  BY DEF IInv, Cached, Linked
<1>2. d \in Node \cup {Done}
  <2>1. n \in Reader /\ cache[n] \in Trace
    BY DEF Reader, IInv, TypeInv, TypeOK
  <2> QED  BY <2>1, ReadAtNode
<1>3. d \notin Source \cup Slot => d \notin disposed
  BY <1>2, KindsAssumption, ClientAssumption DEF Node, Reader, IInv, TypeInv, TypeOK
<1> QED  BY <1>1, <1>3

\* A cached slot is linked to, and agrees with, all it was computed from, in
\* every graph without a cycle, for as long as no wave runs inside the run of a
\* slot (slot.py Slot.__call__, _invalidate, touch; batch.py _flush).
THEOREM CachesStayCoherent ==
  ASSUME Acyclic
  PROVE  Spec /\ []~Interrupted => []CacheCoherent
<1>1. Init => IInv /\ Caught
  BY LinksInit
<1>2. IInv /\ Caught /\ [Next]_vars /\ (~Interrupted)' => (IInv /\ Caught)'
  BY LinksStep
<1>3. IInv => CacheCoherent
  BY LinksSuffice
<1> QED  BY <1>1, <1>2, <1>3, PTL DEF Spec

\* Nor does any cached value outlive a disposed node it was computed from
\* (slot.py _dirty_disposed_dependents).
THEOREM DisposalReachesCaches ==
  ASSUME Acyclic
  PROVE  Spec /\ []~Interrupted => []DisposalDirties
<1>1. Init => IInv /\ Caught
  BY LinksInit
<1>2. IInv /\ Caught /\ [Next]_vars /\ (~Interrupted)' => (IInv /\ Caught)'
  BY LinksStep
<1>3. IInv => DisposalDirties
  BY LinksSuffice
<1> QED  BY <1>1, <1>2, <1>3, PTL DEF Spec

(***************************************************************************)
(* Graphs in which no wave can run inside a slot's run: no eager computed  *)
(* is ever stale, or no slot reads a computed.                             *)
(***************************************************************************)
Calm ==
  \/ Disposable \subseteq Effect
  \/ \A n \in Slot, s \in Trace : NextRead(n, s) \notin Computed

\* Above a slot's body there are only slots' bodies.
Straight(fs) == \A i, j \in DOMAIN fs : i < j /\ IsSlotRun(fs[i]) => IsSlotRun(fs[j])

CalmInv ==
  /\ TypeInv /\ Straight(frames)
  /\ Disposable \subseteq Effect => stale = {}

LEMMA CalmStale ==
  ASSUME CalmInv, [Next]_vars, Disposable \subseteq Effect
  PROVE  stale' = {}
<1>1. /\ stale = {} /\ \A x \in Source : ~DisposeSource(x)
      /\ \A n \in Slot : ~DisposeSlot(n)
  BY KindsAssumption DEF CalmInv, DisposeSource, DisposeSlot
<1>2. CASE Body
  BY <1>1, <1>2
  DEF Body, ReadSource, ReadDisposed, ReadCached, ReadMiss, SlotReturns, ReadLazyCached,
      ReadLazyMiss, ReadSettled, ReadStale, PullerReturns, EffectReturns, EffectWrites,
      ObserverExits, nodeVars
<1>3. CASE Engine
  BY <1>1, <1>3
  DEF Engine, InvalidateSlot, InvalidateIgnored, InvalidateDeferred, InvalidateRuns, FlushRerun,
      FlushTouch, DrainDone, FlushWave, FlushEffects, FlushDone, nodeVars
<1>4. CASE Client
  BY <1>1, <1>4
  DEF Client, Set, Reset, CallSlot, CallStale, MakeEager, MakeLazy, CallEffect, DisposeEffect,
      BatchEnter, BatchExit, nodeVars
<1>5. CASE Unwind \/ BodyRaises \/ UNCHANGED vars
  BY <1>1, <1>5 DEF Unwind, BodyRaises, vars, nodeVars
<1> QED  BY <1>2, <1>3, <1>4, <1>5 DEF Next, Internal

LEMMA CalmStep ==
  ASSUME Calm, CalmInv, [Next]_vars
  PROVE  CalmInv'
<1>1. /\ TypeInv /\ DOMAIN frames = 1..Len(frames) /\ Len(frames) \in Nat
      /\ frames # <<>> => Top = frames[Len(frames)] /\ Top \in Frame /\ Len(frames) # 0
      /\ frames = <<>> => Len(frames) = 0
      /\ Slot \cap Observer = {}
  BY Stack, KindsAssumption DEF CalmInv, Observer
<1>2. TypeInv'
  BY <1>1, TypeStep
<1>3. ASSUME frames = <<>> \/ ~IsSlotRun(Top)
      PROVE  Slotless(frames)
  <2> SUFFICES ASSUME NEW i \in DOMAIN frames, IsSlotRun(frames[i]) PROVE FALSE
    BY DEF Slotless
  <2>1. i <= Len(frames) /\ Len(frames) \in DOMAIN frames /\ frames # <<>>
    BY <1>1
  <2>2. IsSlotRun(Top)
    BY <1>1, <2>1 DEF CalmInv, Straight
  <2> QED  BY <1>3, <2>1, <2>2
<1>4. Moves
  BY <1>1, StackMoves
<1>5. ASSUME \A i \in DOMAIN frames' :
               i \in DOMAIN frames /\ ReadsOn(frames[i], frames'[i])
      PROVE  Straight(frames')
  BY <1>5 DEF CalmInv, Straight, IsSlotRun, ReadsOn
<1>6. ASSUME frames # <<>>, NEW q \in Slot, frames' = Push(RunFrame(q))
      PROVE  Straight(frames')
  <2>1. /\ DOMAIN frames' = 1..(Len(frames) + 1)
        /\ \A i \in DOMAIN frames : frames'[i] = frames[i]
        /\ frames'[Len(frames) + 1] = RunFrame(q) /\ IsSlotRun(RunFrame(q))
    BY <1>1, <1>6, PushStack DEF RunFrame, IsSlotRun
  <2> SUFFICES ASSUME NEW i \in DOMAIN frames', NEW j \in DOMAIN frames', i < j,
                      IsSlotRun(frames'[i])
               PROVE  IsSlotRun(frames'[j])
    BY DEF Straight
  <2>2. CASE j = Len(frames) + 1
    BY <2>1, <2>2
  <2>3. CASE j # Len(frames) + 1
    <3>1. i \in DOMAIN frames /\ j \in DOMAIN frames
      BY <1>1, <2>1, <2>3
    <3> QED  BY <2>1, <3>1 DEF CalmInv, Straight
  <2> QED  BY <2>2, <2>3
<1>7. ASSUME NEW c \in Computed, ReadStale(c)
      PROVE  Straight(frames')
  <2>1. /\ frames # <<>> /\ Top.op = "run" /\ NextRead(Top.node, Top.args) = c /\ c \in stale
        /\ frames' = Push(RunFrame(c))
    BY <1>7 DEF ReadStale, Reads, At
  <2>2. Top.args \in Trace
    BY <1>1, <2>1, TopFrame
  <2>3. ~IsSlotRun(Top)
    BY <2>1, <2>2 DEF Calm, CalmInv, IsSlotRun
  <2>4. Slotless(frames)
    BY <1>3, <2>3
  <2>5. /\ DOMAIN frames' = 1..(Len(frames) + 1)
        /\ \A i \in DOMAIN frames : frames'[i] = frames[i]
        /\ frames'[Len(frames) + 1] = RunFrame(c)
    BY <1>1, <2>1, PushStack
  <2>6. ASSUME NEW i \in DOMAIN frames', NEW j \in DOMAIN frames', i < j
        PROVE  ~IsSlotRun(frames'[i])
    <3>1. i \in DOMAIN frames /\ frames'[i] = frames[i]
      BY <1>1, <2>5, <2>6
    <3> QED  BY <2>4, <3>1 DEF Slotless
  <2> QED  BY <2>6 DEF Straight
<1>8. ASSUME frames = <<>> \/ Top.op # "run" \/ Top.node \in Observer,
             \A i \in DOMAIN frames' : \/ i \in DOMAIN frames /\ frames'[i] = frames[i]
                                      \/ frames'[i].op # "run"
                                      \/ frames'[i].node \in Observer \ disposed'
      PROVE  Straight(frames')
  <2>1. Slotless(frames)
    BY <1>1, <1>3, <1>8 DEF IsSlotRun
  <2>2. Slotless(frames')
    BY <1>1, <1>8, <2>1 DEF Slotless, IsSlotRun
  <2> QED  BY <2>2 DEF Slotless, Straight
<1>9. ASSUME NEW n \in Slot, frames' = <<RunFrame(n)>>
      PROVE  Straight(frames')
  BY <1>9 DEF Straight
<1>10. Straight(frames')
  BY <1>4, <1>5, <1>6, <1>7, <1>8, <1>9 DEF Moves
<1> QED  BY <1>2, <1>10, CalmStale DEF CalmInv

\* In such a graph no wave runs inside the run of a slot: what CachesStayCoherent
\* supposes holds there (signal.py _EagerPuller._drop_cached, slot.py dispose).
THEOREM CalmGraphsAreUninterrupted ==
  ASSUME Calm
  PROVE  Spec => []~Interrupted
<1>1. Init => CalmInv
  BY TypeInit DEF Init, CalmInv, Straight
<1>2. CalmInv /\ [Next]_vars => CalmInv'
  BY CalmStep
<1>3. CalmInv => ~Interrupted
  BY DEF CalmInv, Straight, Interrupted, IsSlotRun
<1> QED  BY <1>1, <1>2, <1>3, PTL DEF Spec

\* Hence there every cache is coherent, and none outlives what it was computed
\* from, without further hypothesis.
THEOREM CalmCachesStayCoherent ==
  ASSUME Acyclic, Calm
  PROVE  Spec => [](CacheCoherent /\ DisposalDirties)
<1>1. Spec => []~Interrupted
  BY CalmGraphsAreUninterrupted
<1>2. Spec /\ []~Interrupted => []CacheCoherent /\ []DisposalDirties
  BY CachesStayCoherent, DisposalReachesCaches
<1> QED  BY <1>1, <1>2, PTL

(***************************************************************************)
(* What a body returns (Eval) is well defined: bodies read finitely often, *)
(* and no body reads itself.                                               *)
(***************************************************************************)
LEMMA SmallestNumber ==
  ASSUME NEW T \in SUBSET Nat, T # {}
  PROVE  \E m \in T : \A n \in T : m <= n
<1> DEFINE R == OpToRel(<, Nat)
<1>1. IsWellFoundedOn(R, Nat)
  BY NatLessThanWellFounded
<1>2. \A a, b \in Nat : a < b => <<a, b>> \in R
  BY DEF OpToRel
<1> HIDE DEF R
<1>3. PICK m \in T : \A n \in T : ~(<<n, m>> \in R)
  BY <1>1, WFMin
<1>4. ASSUME NEW n \in T PROVE m <= n
  <2>1. ~(n < m)
    BY <1>2, <1>3
  <2> QED  BY <2>1
<1> QED  BY <1>4

LEMMA NextReads ==
  ASSUME NEW r \in Reader, NEW s \in Trace
  PROVE  LET d == NextRead(r, s) IN
         /\ d \in {Done} \cup Source \cup Slot \cup Computed
         /\ d # Done => Len(s) < MaxReads
         /\ d \in Slot \cup Computed => Called(d) \in Slot
<1>1. Len(s) \in Nat /\ Len(s) <= MaxReads /\ MaxReads \in Nat
  BY TraceIsSeq, BodiesAssumption, LenProperties
<1> QED  BY <1>1, BodiesAssumption DEF Node, Called

\* Among points that bodies may reach there is one at which nothing further
\* up is among them.
LEMMA Uppermost ==
  ASSUME Acyclic, NEW B \in SUBSET (Reader \X Trace), B # {}
  PROVE  \E r \in Reader, s \in Trace :
           /\ <<r, s>> \in B
           /\ \A v \in Val : <<r, Append(s, v)>> \notin B
           /\ NextRead(r, s) \in Slot \cup Computed => <<Called(NextRead(r, s)), <<>>>> \notin B
<1> DEFINE S == {r \in Reader : \E s \in Trace : <<r, s>> \in B}
<1>1. PICK r \in S : \A s \in Trace :
        NextRead(r, s) \in Slot \cup Computed => Called(NextRead(r, s)) \notin S
  <2>1. CASE S \cap (Slot \cup Computed) = {}
    <3>1. PICK p \in B : TRUE
      OBVIOUS
    <3>2. S # {}
      BY <3>1
    <3> QED  BY <2>1, <3>2, NextReads DEF Reader
  <2>2. CASE S \cap (Slot \cup Computed) # {}
    <3> DEFINE U == S \cap (Slot \cup Computed)
    <3>1. U \in SUBSET (Slot \cup Computed) /\ U # {}
      BY <2>2
    <3>2. PICK r \in U : \A s \in Trace :
            LET d == NextRead(r, s) IN d \notin U /\ (d \in Computed => Memo[d] \notin U)
      BY <3>1 DEF Acyclic
    <3>3. ASSUME NEW s \in Trace, NextRead(r, s) \in Slot \cup Computed
          PROVE  Called(NextRead(r, s)) \notin S
      <4>1. Called(NextRead(r, s)) \in Slot
        BY <3>3, NextReads
      <4>2. Called(NextRead(r, s)) \notin U
        BY <3>2, <3>3 DEF Called
      <4> QED  BY <4>1, <4>2
    <3> QED  BY <3>3
  <2> QED  BY <2>1, <2>2
<1> DEFINE left(t) == MaxReads - Len(t)
           T == {left(t) : t \in {t \in Trace : <<r, t>> \in B}}
<1>2. \A t \in Trace : left(t) \in Nat
  BY TraceIsSeq, BodiesAssumption, LenProperties
<1>3. T \in SUBSET Nat /\ T # {}
  <2> HIDE DEF left
  <2> QED  BY <1>2
<1>4. PICK m \in T : \A n \in T : m <= n
  <2> HIDE DEF T
  <2> QED  BY <1>3, SmallestNumber
<1>5. PICK s \in Trace : <<r, s>> \in B /\ m = left(s)
  <2> HIDE DEF left
  <2> QED  BY <1>4
<1>6. ASSUME NEW v \in Val, <<r, Append(s, v)>> \in B PROVE FALSE
  <2>1. Append(s, v) \in Trace
    BY <1>6
  <2>2. s \in Seq(Out) /\ v \in Out
    BY TraceIsSeq DEF Out
  <2>3. Len(Append(s, v)) = Len(s) + 1 /\ Len(s) \in Nat
    BY <2>2
  <2>4. left(Append(s, v)) \in T
    <3> HIDE DEF left
    <3> QED  BY <1>6, <2>1
  <2>5. left(s) <= left(Append(s, v))
    <3> HIDE DEF T, left
    <3> QED  BY <1>4, <1>5, <2>4
  <2> QED  BY <2>3, <2>5, BodiesAssumption
<1>7. NextRead(r, s) \in Slot \cup Computed => <<Called(NextRead(r, s)), <<>>>> \notin B
  BY <1>1, EmptyTrace
<1>8. r \in Reader /\ s \in Trace /\ <<r, s>> \in B
  BY <1>5
<1> QED  BY <1>6, <1>7, <1>8

(***************************************************************************)
(* Eval as the least set of <<reader, what it read, what it returns>>.     *)
(***************************************************************************)
Outcome == Reader \X Trace \X Val

\* Q holds what the rules of Eval derive from Q.
ClosedUnder(Q) ==
  \A r \in Reader, s \in Trace, v \in Val :
    \/ NextRead(r, s) = Done /\ v = Result(r, s)
    \/ /\ NextRead(r, s) \in Source
       /\ <<r, Append(s, value[NextRead(r, s)]), v>> \in Q
    \/ /\ NextRead(r, s) \in Slot \cup Computed
       /\ \E u \in Val : /\ <<Called(NextRead(r, s)), <<>>, u>> \in Q
                         /\ <<r, Append(s, u), v>> \in Q
    => <<r, s, v>> \in Q

Derived == {t \in Outcome : \A Q \in SUBSET Outcome : ClosedUnder(Q) => t \in Q}

LEMMA DerivedClosed == ClosedUnder(Derived)
<1>1. \A r \in Reader, s \in Trace, v \in Val : <<r, s, v>> \in Outcome
  BY DEF Outcome
<1> SUFFICES ASSUME NEW r \in Reader, NEW s \in Trace, NEW v \in Val,
                    \/ NextRead(r, s) = Done /\ v = Result(r, s)
                    \/ /\ NextRead(r, s) \in Source
                       /\ <<r, Append(s, value[NextRead(r, s)]), v>> \in Derived
                    \/ /\ NextRead(r, s) \in Slot \cup Computed
                       /\ \E u \in Val : /\ <<Called(NextRead(r, s)), <<>>, u>> \in Derived
                                         /\ <<r, Append(s, u), v>> \in Derived
             PROVE  <<r, s, v>> \in Derived
  BY DEF ClosedUnder
<1> SUFFICES ASSUME NEW Q \in SUBSET Outcome, ClosedUnder(Q) PROVE <<r, s, v>> \in Q
  BY <1>1 DEF Derived
<1>2. Derived \subseteq Q
  BY DEF Derived
<1> QED  BY <1>2 DEF ClosedUnder

\* A derived outcome follows from one rule.
LEMMA DerivedFrom ==
  ASSUME NEW r \in Reader, NEW s \in Trace, NEW v \in Val, <<r, s, v>> \in Derived
  PROVE  \/ NextRead(r, s) = Done /\ v = Result(r, s)
         \/ /\ NextRead(r, s) \in Source
            /\ <<r, Append(s, value[NextRead(r, s)]), v>> \in Derived
         \/ /\ NextRead(r, s) \in Slot \cup Computed
            /\ \E u \in Val : /\ <<Called(NextRead(r, s)), <<>>, u>> \in Derived
                              /\ <<r, Append(s, u), v>> \in Derived
<1> SUFFICES ASSUME ~(\/ NextRead(r, s) = Done /\ v = Result(r, s)
                      \/ /\ NextRead(r, s) \in Source
                         /\ <<r, Append(s, value[NextRead(r, s)]), v>> \in Derived
                      \/ /\ NextRead(r, s) \in Slot \cup Computed
                         /\ \E u \in Val : /\ <<Called(NextRead(r, s)), <<>>, u>> \in Derived
                                           /\ <<r, Append(s, u), v>> \in Derived)
             PROVE  FALSE
  OBVIOUS
<1> DEFINE Q == Derived \ {<<r, s, v>>}
<1>1. ClosedUnder(Q)
  <2> SUFFICES ASSUME NEW p \in Reader, NEW t \in Trace, NEW w \in Val,
                      \/ NextRead(p, t) = Done /\ w = Result(p, t)
                      \/ /\ NextRead(p, t) \in Source
                         /\ <<p, Append(t, value[NextRead(p, t)]), w>> \in Q
                      \/ /\ NextRead(p, t) \in Slot \cup Computed
                         /\ \E u \in Val : /\ <<Called(NextRead(p, t)), <<>>, u>> \in Q
                                           /\ <<p, Append(t, u), w>> \in Q
               PROVE  <<p, t, w>> \in Q
    BY DEF ClosedUnder
  <2>1. \/ NextRead(p, t) = Done /\ w = Result(p, t)
        \/ /\ NextRead(p, t) \in Source
           /\ <<p, Append(t, value[NextRead(p, t)]), w>> \in Derived
        \/ /\ NextRead(p, t) \in Slot \cup Computed
           /\ \E u \in Val : /\ <<Called(NextRead(p, t)), <<>>, u>> \in Derived
                             /\ <<p, Append(t, u), w>> \in Derived
    OBVIOUS
  <2>2. <<p, t, w>> \in Derived
    BY <2>1, DerivedClosed DEF ClosedUnder
  <2>3. ~(p = r /\ t = s /\ w = v)
    BY <2>1
  <2> QED  BY <2>2, <2>3
<1>2. Q \in SUBSET Outcome
  BY DEF Derived
<1> QED  BY <1>1, <1>2 DEF Derived

\* A point with no outcome, or with two, has another one further up.
LEMMA OneOutcome ==
  ASSUME Acyclic, value \in [Source -> Val], NEW r \in Reader, NEW s \in Trace
  PROVE  /\ \E v \in Val : <<r, s, v>> \in Derived
         /\ \A v, w \in Val : <<r, s, v>> \in Derived /\ <<r, s, w>> \in Derived => v = w
<1> DEFINE One(p, t) ==
      /\ \E v \in Val : <<p, t, v>> \in Derived
      /\ \A v, w \in Val : <<p, t, v>> \in Derived /\ <<p, t, w>> \in Derived => v = w
<1> DEFINE B == {x \in Reader \X Trace : ~One(x[1], x[2])}
<1> SUFFICES ASSUME ~One(r, s) PROVE FALSE
  OBVIOUS
<1>0. <<r, s>> \in B
  <2> HIDE DEF One
  <2> QED  OBVIOUS
<1>1. PICK p \in Reader, t \in Trace :
        /\ <<p, t>> \in B
        /\ \A v \in Val : <<p, Append(t, v)>> \notin B
        /\ NextRead(p, t) \in Slot \cup Computed => <<Called(NextRead(p, t)), <<>>>> \notin B
  <2> HIDE DEF One
  <2>1. B \in SUBSET (Reader \X Trace) /\ B # {}
    BY <1>0
  <2> HIDE DEF B
  <2> QED  BY <2>1, Uppermost
<1>2. ~One(p, t)
  BY <1>1
<1>3. ASSUME NextRead(p, t) # Done, NEW v \in Val
      PROVE  Append(t, v) \in Trace /\ One(p, Append(t, v))
  <2>1. Append(t, v) \in Trace
    BY <1>3, NextReads, TraceAppend DEF Out
  <2> HIDE DEF One
  <2> QED  BY <1>1, <2>1
<1>4. ASSUME NextRead(p, t) \in Slot \cup Computed
      PROVE  One(Called(NextRead(p, t)), <<>>)
  <2>1. Called(NextRead(p, t)) \in Reader
    BY <1>4, NextReads DEF Reader
  <2> HIDE DEF One
  <2> QED  BY <1>1, <1>4, <2>1, EmptyTrace
<1>5. ClosedUnder(Derived)
  BY DerivedClosed
<1>6. Done \notin Source \cup Slot \cup Computed /\ Source \cap (Slot \cup Computed) = {}
  BY KindsAssumption DEF Node
<1>7. CASE NextRead(p, t) = Done
  <2>1. Result(p, t) \in Val
    BY BodiesAssumption
  <2>2. <<p, t, Result(p, t)>> \in Derived
    BY <1>5, <1>7, <2>1 DEF ClosedUnder
  <2>3. \A v \in Val : <<p, t, v>> \in Derived => v = Result(p, t)
    BY <1>6, <1>7, DerivedFrom
  <2> QED  BY <1>2, <2>1, <2>2, <2>3
<1>8. CASE NextRead(p, t) \in Source
  <2> DEFINE x == NextRead(p, t)
  <2>1. value[x] \in Val /\ x # Done
    BY <1>6, <1>8
  <2>2. One(p, Append(t, value[x]))
    BY <1>3, <2>1
  <2>3. \A v \in Val : <<p, t, v>> \in Derived <=> <<p, Append(t, value[x]), v>> \in Derived
    BY <1>5, <1>6, <1>8, DerivedFrom DEF ClosedUnder
  <2> QED  BY <1>2, <2>2, <2>3
<1>9. CASE NextRead(p, t) \in Slot \cup Computed
  <2> DEFINE d == NextRead(p, t)
  <2>1. d # Done
    BY <1>6, <1>9
  <2>2. PICK u \in Val : <<Called(d), <<>>, u>> \in Derived
    BY <1>4, <1>9
  <2>3. \A w \in Val : <<Called(d), <<>>, w>> \in Derived => w = u
    BY <1>4, <1>9, <2>2
  <2>4. One(p, Append(t, u))
    BY <1>3, <2>1
  <2>5. \A v \in Val : <<p, t, v>> \in Derived <=> <<p, Append(t, u), v>> \in Derived
    BY <1>5, <1>6, <1>9, <2>2, <2>3, DerivedFrom DEF ClosedUnder
  <2> QED  BY <1>2, <2>4, <2>5
<1> QED  BY <1>7, <1>8, <1>9, NextReads

Outcomes == [p \in Reader \X Trace |-> CHOOSE v \in Val : <<p[1], p[2], v>> \in Derived]

\* What a read of d yields, given what the bodies return.
Yields(f, d) == IF d \in Source THEN value[d] ELSE f[<<Called(d), <<>>>>]

LEMMA OutcomesUnfold ==
  ASSUME Acyclic, value \in [Source -> Val], NEW r \in Reader, NEW s \in Trace
  PROVE  LET d == NextRead(r, s) IN
         /\ Outcomes[<<r, s>>] \in Val
         /\ d = Done => Outcomes[<<r, s>>] = Result(r, s)
         /\ d # Done => Outcomes[<<r, s>>] = Outcomes[<<r, Append(s, Yields(Outcomes, d))>>]
<1> DEFINE f == Outcomes
           d == NextRead(r, s)
<1>1. ASSUME NEW p \in Reader, NEW t \in Trace
      PROVE  f[<<p, t>>] \in Val /\ \A v \in Val : <<p, t, v>> \in Derived <=> f[<<p, t>>] = v
  <2>1. f[<<p, t>>] = CHOOSE v \in Val : <<p, t, v>> \in Derived
    BY DEF Outcomes
  <2> HIDE DEF f
  <2> QED  BY <2>1, OneOutcome
<1> HIDE DEF f
<1>2. ClosedUnder(Derived)
  BY DerivedClosed
<1>3. Done \notin Source \cup Slot \cup Computed /\ Source \cap (Slot \cup Computed) = {}
  BY KindsAssumption DEF Node
<1>4. d # Done => \A v \in Val : Append(s, v) \in Trace
  BY NextReads, TraceAppend DEF Out
<1>5. CASE d = Done
  <2>1. Result(r, s) \in Val
    BY BodiesAssumption
  <2>2. <<r, s, Result(r, s)>> \in Derived
    BY <1>2, <1>5, <2>1 DEF ClosedUnder
  <2> QED  BY <1>1, <1>5, <2>1, <2>2 DEF f
<1>6. CASE d # Done
  <2> DEFINE u == Yields(f, d)
  <2>1. /\ u \in Val
        /\ d \in Slot \cup Computed => <<Called(d), <<>>, u>> \in Derived
        /\ d \in Source => u = value[d]
    <3>1. CASE d \in Source
      BY <1>3, <3>1 DEF Yields
    <3>2. CASE d \notin Source
      <4>1. d \in Slot \cup Computed /\ Called(d) \in Reader
        BY <1>6, <3>2, NextReads DEF Reader
      <4> QED  BY <1>1, <3>2, <4>1, EmptyTrace DEF Yields
    <3> QED  BY <3>1, <3>2
  <2> HIDE DEF u
  <2>2. Append(s, u) \in Trace
    BY <1>4, <1>6, <2>1
  <2>3. f[<<r, Append(s, u)>>] \in Val /\ <<r, Append(s, u), f[<<r, Append(s, u)>>]>> \in Derived
    BY <1>1, <2>2
  <2>4. <<r, s, f[<<r, Append(s, u)>>]>> \in Derived
    <3>1. d \in Source \cup Slot \cup Computed
      BY <1>6, NextReads
    <3> QED  BY <1>2, <2>1, <2>3, <3>1 DEF ClosedUnder
  <2> QED  BY <1>1, <1>6, <2>3, <2>4 DEF u, f
<1> QED  BY <1>5, <1>6

\* The recursive definition of Eval determines it.
LEMMA EvalUnfolds ==
  ASSUME Acyclic, value \in [Source -> Val], NEW r \in Reader, NEW s \in Trace
  PROVE  LET d == NextRead(r, s) IN
         /\ d = Done => Eval[<<r, s>>] = Result(r, s)
         /\ d # Done => Eval[<<r, s>>] = Eval[<<r, Append(s, Fresh(d))>>]
<1> DEFINE Unfolded(f, p) ==
      LET q == p[1]
          t == p[2]
          d == NextRead(q, t) IN
      IF d = Done THEN Result(q, t)
      ELSE f[<<q, Append(t, IF d \in Source THEN value[d] ELSE f[<<Called(d), <<>>>>])>>]
<1>1. ASSUME NEW p \in Reader \X Trace
      PROVE  Outcomes[p] = Unfolded(Outcomes, p)
  <2> DEFINE d == NextRead(p[1], p[2])
  <2>1. p[1] \in Reader /\ p[2] \in Trace /\ p = <<p[1], p[2]>>
    OBVIOUS
  <2>2. /\ d = Done => Outcomes[<<p[1], p[2]>>] = Result(p[1], p[2])
        /\ d # Done => Outcomes[<<p[1], p[2]>>]
                        = Outcomes[<<p[1], Append(p[2], Yields(Outcomes, d))>>]
    <3> HIDE DEF Unfolded
    <3> QED  BY ONLY <2>1, OutcomesUnfold, Acyclic, value \in [Source -> Val]
  <2>3. Unfolded(Outcomes, p)
          = IF d = Done THEN Result(p[1], p[2])
            ELSE Outcomes[<<p[1], Append(p[2], Yields(Outcomes, d))>>]
    BY DEF Yields
  <2> HIDE DEF Unfolded, d
  <2> QED  BY <2>1, <2>2, <2>3
<1>2. Outcomes = [p \in Reader \X Trace |-> Unfolded(Outcomes, p)]
  <2>1. Outcomes = [p \in Reader \X Trace |-> Outcomes[p]]
    <3> DEFINE Ch(p) == CHOOSE v \in Val : <<p[1], p[2], v>> \in Derived
    <3>1. Outcomes = [p \in Reader \X Trace |-> Ch(p)]
      BY DEF Outcomes
    <3> HIDE DEF Ch
    <3> QED  BY <3>1
  <2> HIDE DEF Unfolded
  <2> QED  BY <1>1, <2>1
<1>3. Eval = CHOOSE f : f = [p \in Reader \X Trace |-> Unfolded(f, p)]
  BY DEF Eval
<1>4. Eval = [p \in Reader \X Trace |-> Unfolded(Eval, p)]
  <2> HIDE DEF Unfolded
  <2> QED  BY <1>2, <1>3
<1>5. Eval[<<r, s>>] = Unfolded(Eval, <<r, s>>)
  <2>1. <<r, s>> \in Reader \X Trace
    OBVIOUS
  <2> HIDE DEF Unfolded
  <2> QED  BY <1>4, <2>1
<1> QED  BY <1>5 DEF Fresh

(***************************************************************************)
(* A cached slot has read everything its body asks for.                    *)
(***************************************************************************)
Asked(r, s) == \A k \in DOMAIN s : ReadAt(r, s, k) # Done

\* A cached run is complete, and a run in progress never read past its end.
Finished ==
  /\ \A n \in Slot : cache[n] # None => NextRead(n, cache[n]) = Done /\ Asked(n, cache[n])
  /\ \A i \in DOMAIN frames : IsSlotRun(frames[i]) => Asked(frames[i].node, frames[i].args)

LEMMA AskedNext ==
  ASSUME NEW r, NEW s \in Seq(Out), Asked(r, s), NextRead(r, s) # Done, NEW v
  PROVE  Asked(r, Append(s, v))
<1> DEFINE t == Append(s, v)
<1>1. Len(s) \in Nat /\ DOMAIN s = 1..Len(s)
  BY LenProperties
<1>2. /\ DOMAIN t = 1..(Len(s) + 1)
      /\ \A k \in 1..Len(s) : ReadAt(r, t, k) = ReadAt(r, s, k)
      /\ ReadAt(r, t, Len(s) + 1) = NextRead(r, s)
  BY AppendRead
<1> HIDE DEF t
<1>3. ASSUME NEW k \in DOMAIN t PROVE ReadAt(r, t, k) # Done
  <2>1. CASE k \in 1..Len(s)
    BY <1>1, <1>2, <2>1 DEF Asked
  <2>2. CASE k \notin 1..Len(s)
    <3>1. k = Len(s) + 1
      BY <1>1, <1>2, <2>2
    <3> QED  BY <1>2, <3>1
  <2> QED  BY <2>1, <2>2
<1>4. Asked(r, t)
  BY <1>3 DEF Asked
<1> QED  BY <1>4 DEF t

\* Only a slot's own return gives it a value.
LEMMA CacheFills ==
  ASSUME TypeInv, [Next]_vars, NEW n \in Slot, cache'[n] # None
  PROVE  \/ cache'[n] = cache[n]
         \/ SlotReturns(n) /\ cache'[n] = Top.args
<1>1. n \in DOMAIN cache
  BY DEF TypeInv, TypeOK
<1>2. ASSUME NEW m \in Slot, SlotReturns(m), m # n
      PROVE  cache'[n] = cache[n]
  <2>1. cache' = [cache EXCEPT ![m] = Top.args]
    BY <1>2 DEF SlotReturns
  <2> QED  BY <1>1, <1>2, <2>1
<1>3. ASSUME SlotReturns(n)
      PROVE  cache'[n] = Top.args
  <2>1. cache' = [cache EXCEPT ![n] = Top.args]
    BY <1>3 DEF SlotReturns
  <2> QED  BY <1>1, <2>1
<1>4. ASSUME NEW m \in Slot, InvalidateSlot(m)
      PROVE  cache'[n] = cache[n]
  <2>1. cache' = cache \/ cache' = [cache EXCEPT ![m] = None]
    BY <1>4 DEF InvalidateSlot
  <2> QED  BY <1>1, <2>1
<1>5. ASSUME NEW cone, NEW es, Dirty(cone, es)
      PROVE  cache'[n] = cache[n]
  <2>1. cache' = [m \in Slot |-> IF m \in cone \cup disposed' THEN None ELSE cache[m]]
    BY <1>5 DEF Dirty
  <2> QED  BY <2>1
<1>6. CASE Body
  <2>1. UNCHANGED cache \/ \E m \in Slot : SlotReturns(m)
    BY <1>6
    DEF Body, ReadSource, ReadDisposed, ReadCached, ReadMiss, ReadLazyCached, ReadLazyMiss,
        ReadSettled, ReadStale, PullerReturns, EffectReturns, EffectWrites, ObserverExits, nodeVars
  <2> QED  BY <1>2, <1>3, <2>1
<1>7. CASE Engine
  <2>1. UNCHANGED cache \/ \E m \in Slot : InvalidateSlot(m)
    BY <1>7
    DEF Engine, InvalidateIgnored, InvalidateDeferred, InvalidateRuns, FlushRerun, FlushTouch,
        DrainDone, FlushWave, FlushEffects, FlushDone, nodeVars
  <2> QED  BY <1>4, <2>1
<1>8. CASE Client
  <2>1. UNCHANGED cache \/ \E cone, es : Dirty(cone, es)
    <3>1. CASE \E x \in Source : DisposeSource(x)
      BY <3>1 DEF DisposeSource
    <3>2. CASE \E m \in Slot : DisposeSlot(m)
      BY <3>2 DEF DisposeSlot
    <3>3. CASE /\ \A x \in Source : ~DisposeSource(x)
               /\ \A m \in Slot : ~DisposeSlot(m)
      BY <1>8, <3>3
      DEF Client, Set, Reset, CallSlot, CallStale, MakeEager, MakeLazy, CallEffect,
          DisposeEffect, BatchEnter, BatchExit, nodeVars
    <3> QED  BY <3>1, <3>2, <3>3
  <2> QED  BY <1>5, <2>1
<1>9. CASE Unwind \/ BodyRaises \/ UNCHANGED vars
  BY <1>9 DEF Unwind, BodyRaises, vars, nodeVars
<1> QED  BY <1>6, <1>7, <1>8, <1>9 DEF Next, Internal

LEMMA FinishedStep ==
  ASSUME TypeInv, Finished, [Next]_vars
  PROVE  Finished'
<1>1. /\ DOMAIN frames = 1..Len(frames) /\ Len(frames) \in Nat
      /\ frames # <<>> => Top = frames[Len(frames)] /\ Len(frames) # 0
      /\ Slot \cap Observer = {}
  BY Stack, KindsAssumption DEF Observer
<1>2. Moves
  BY StackMoves
<1>3. ASSUME NEW n \in Slot, cache'[n] # None
      PROVE  NextRead(n, cache'[n]) = Done /\ Asked(n, cache'[n])
  <2>1. CASE cache'[n] = cache[n]
    BY <1>3, <2>1 DEF Finished
  <2>2. CASE SlotReturns(n) /\ cache'[n] = Top.args
    <3>1. frames # <<>> /\ IsSlotRun(Top) /\ Top.node = n /\ NextRead(n, Top.args) = Done
      BY <2>2 DEF SlotReturns, Returns, At, IsSlotRun
    <3>2. Len(frames) \in DOMAIN frames
      BY <1>1, <3>1
    <3>3. Asked(n, Top.args)
      BY <1>1, <3>1, <3>2 DEF Finished
    <3> QED  BY <2>2, <3>1, <3>3
  <2> QED  BY <1>3, <2>1, <2>2, CacheFills
<1>4. \A r : Asked(r, <<>>)
  BY DEF Asked
<1>5. ASSUME NEW i \in DOMAIN frames', IsSlotRun(frames'[i])
      PROVE  Asked(frames'[i].node, frames'[i].args)
  <2>1. ASSUME i \in DOMAIN frames, frames'[i] = frames[i]
        PROVE  Asked(frames'[i].node, frames'[i].args)
    BY <1>5, <2>1 DEF Finished
  <2>2. ASSUME i \in DOMAIN frames, ReadsOn(frames[i], frames'[i])
        PROVE  Asked(frames'[i].node, frames'[i].args)
    <3>1. /\ IsSlotRun(frames[i]) /\ frames'[i].node = frames[i].node
          /\ Asked(frames[i].node, frames[i].args)
      BY <1>5, <2>2 DEF ReadsOn, IsSlotRun, Finished
    <3>2. frames[i].args \in Seq(Out)
      <4>1. frames[i] \in Frame /\ frames[i].op = "run"
        BY <2>2, <3>1, Stack DEF IsSlotRun
      <4> QED  BY <4>1, FrameKinds, TraceIsSeq
    <3>3. CASE frames'[i].args = frames[i].args
      BY <3>1, <3>3
    <3>4. CASE NextRead(frames[i].node, frames[i].args) # Done
               /\ \E v : frames'[i].args = Append(frames[i].args, v)
      BY <3>1, <3>2, <3>4, AskedNext
    <3> QED  BY <2>2, <3>3, <3>4 DEF ReadsOn
  <2>3. ASSUME NEW q, frames # <<>>, frames' = Push(RunFrame(q))
        PROVE  Asked(frames'[i].node, frames'[i].args)
    <3>1. /\ DOMAIN frames' = 1..(Len(frames) + 1)
          /\ \A j \in DOMAIN frames : frames'[j] = frames[j]
          /\ frames'[Len(frames) + 1] = RunFrame(q)
      BY <2>3, PushStack
    <3>2. CASE i = Len(frames) + 1
      BY <1>4, <3>1, <3>2 DEF RunFrame
    <3>3. CASE i # Len(frames) + 1
      BY <1>1, <2>1, <3>1, <3>3
    <3> QED  BY <3>2, <3>3
  <2>4. ASSUME NEW c \in Computed, ReadStale(c)
        PROVE  frames # <<>> /\ frames' = Push(RunFrame(c))
    BY <2>4 DEF ReadStale, Reads, At
  <2>5. ASSUME \/ i \in DOMAIN frames /\ frames'[i] = frames[i]
               \/ frames'[i].op # "run"
               \/ frames'[i].node \in Observer \ disposed'
        PROVE  Asked(frames'[i].node, frames'[i].args)
    BY <1>1, <1>5, <2>1, <2>5 DEF IsSlotRun
  <2>6. ASSUME NEW n \in Slot, frames' = <<RunFrame(n)>>
        PROVE  Asked(frames'[i].node, frames'[i].args)
    <3>1. frames'[i] = RunFrame(n)
      BY <2>6
    <3> QED  BY <1>4, <3>1 DEF RunFrame
  <2> QED  BY <1>2, <2>2, <2>3, <2>4, <2>5, <2>6 DEF Moves
<1> QED  BY <1>3, <1>5 DEF Finished, IsSlotRun, Asked, ReadAt

(***************************************************************************)
(* Where no invalidation is queued and no write is deferred, every cached  *)
(* slot is what a recomputation gives.                                     *)
(***************************************************************************)
\* Slots read sources and slots only.
Plain == \A n \in Slot, s \in Trace : NextRead(n, s) \notin Computed

LEMMA PrefixNext ==
  ASSUME NEW s \in Trace, NEW k \in Nat, k < Len(s)
  PROVE  /\ SubSeq(s, 1, k) \in Trace /\ SubSeq(s, 1, k + 1) = Append(SubSeq(s, 1, k), s[k + 1])
         /\ k + 1 \in DOMAIN s
<1>1. s \in Seq(Out) /\ Len(s) \in Nat /\ DOMAIN s = 1..Len(s) /\ Len(s) <= MaxReads
  BY TraceIsSeq, LenProperties
<1>2. SubSeq(s, 1, k) \in Seq(Out) /\ Len(SubSeq(s, 1, k)) = k
  BY <1>1
<1>3. k <= MaxReads
  BY <1>1, BodiesAssumption
<1>4. SubSeq(s, 1, k + 1) = Append(SubSeq(s, 1, k), s[k + 1])
  BY <1>1
<1>5. SubSeq(s, 1, k) \in Trace
  <2> DEFINE t == SubSeq(s, 1, k)
  <2>1. t \in Seq(Out) /\ Len(t) <= MaxReads
    BY <1>2, <1>3
  <2> HIDE DEF t
  <2>2. t \in Trace
    BY <2>1, TraceIsSeq
  <2> QED  BY <2>2 DEF t
<1> QED  BY <1>1, <1>4, <1>5

LEMMA CachesFinal ==
  ASSUME Acyclic, Plain, IInv, Finished, work = <<>>, \A x \in Source : ~Deferred(x)
  PROVE  \A n \in Slot : cache[n] # None => CachedValue(n) = Fresh(n)
<1> DEFINE Prefix(n, k) == SubSeq(cache[n], 1, k)
           Lost(n, k) == /\ cache[n] # None /\ k <= Len(cache[n])
                         /\ Eval[<<n, Prefix(n, k)>>] # Result(n, cache[n])
           B == {p \in Reader \X Trace :
                   \E n \in Slot, k \in Nat : Lost(n, k) /\ p = <<n, Prefix(n, k)>>}
<1>1. /\ value \in [Source -> Val] /\ Slot \subseteq Reader
      /\ \A n \in Slot : cache[n] # None =>
           /\ cache[n] \in Trace /\ Len(cache[n]) \in Nat
           /\ SubSeq(cache[n], 1, Len(cache[n])) = cache[n]
  <2>1. value \in [Source -> Val] /\ cache \in [Slot -> Trace \cup {None}]
    BY DEF IInv, TypeInv, TypeOK
  <2>2. ASSUME NEW s \in Trace PROVE Len(s) \in Nat /\ SubSeq(s, 1, Len(s)) = s
    <3>1. s \in Seq(Out)
      BY TraceIsSeq
    <3> QED  BY <3>1
  <2> QED  BY <2>1, <2>2 DEF Reader
<1>2. ASSUME NEW n \in Slot, cache[n] # None, NEW k \in Nat, k <= Len(cache[n])
      PROVE  /\ Prefix(n, k) \in Trace
             /\ k < Len(cache[n]) =>
                  /\ Prefix(n, k + 1) = Append(Prefix(n, k), cache[n][k + 1])
                  /\ k + 1 \in DOMAIN cache[n]
                  /\ ReadAt(n, cache[n], k + 1) = NextRead(n, Prefix(n, k))
  <2>1. cache[n] \in Trace /\ Len(cache[n]) \in Nat
    BY <1>1, <1>2
  <2>2. CASE k < Len(cache[n])
    <3>1. (k + 1) - 1 = k
      OBVIOUS
    <3> QED  BY <2>1, <2>2, <3>1, PrefixNext DEF ReadAt
  <2>3. CASE k = Len(cache[n])
    <3>1. Prefix(n, k) = cache[n] /\ ~(k < Len(cache[n]))
      BY <1>1, <1>2, <2>1, <2>3
    <3> QED  BY <2>1, <3>1
  <2> QED  BY <1>2, <2>1, <2>2, <2>3
<1> HIDE DEF Prefix
<1>3. ASSUME NEW n \in Slot, NEW k \in Nat, Lost(n, k)
      PROVE  <<n, Prefix(n, k)>> \in B
  <2>1. <<n, Prefix(n, k)>> \in Reader \X Trace
    BY <1>1, <1>2, <1>3
  <2> HIDE DEF Lost
  <2> QED  BY <1>3, <2>1
<1>4. B = {}
  <2> SUFFICES ASSUME B # {} PROVE FALSE
    OBVIOUS
  <2>1. PICK r \in Reader, s \in Trace :
          /\ <<r, s>> \in B
          /\ \A v \in Val : <<r, Append(s, v)>> \notin B
          /\ NextRead(r, s) \in Slot \cup Computed => <<Called(NextRead(r, s)), <<>>>> \notin B
    <3>1. B \in SUBSET (Reader \X Trace)
      OBVIOUS
    <3> HIDE DEF B
    <3> QED  BY <3>1, Uppermost
  <2>2. PICK n \in Slot, k \in Nat : Lost(n, k) /\ <<r, s>> = <<n, Prefix(n, k)>>
    <3> HIDE DEF Lost
    <3> QED  BY <2>1
  <2>3. r = n /\ s = Prefix(n, k) /\ cache[n] # None /\ k <= Len(cache[n])
    BY <2>2
  <2> DEFINE d == NextRead(n, s)
  <2>4. CASE k = Len(cache[n])
    <3>1. s = cache[n] /\ d = Done
      BY <1>1, <2>3, <2>4 DEF Prefix, Finished
    <3>2. Eval[<<n, s>>] = Result(n, s)
      BY <1>1, <3>1, EvalUnfolds
    <3> QED  BY <2>2, <2>3, <3>1, <3>2
  <2>5. CASE k # Len(cache[n])
    <3>1. /\ k < Len(cache[n]) /\ k + 1 \in Nat /\ k + 1 <= Len(cache[n])
      BY <1>1, <2>3, <2>5
    <3>2. /\ Prefix(n, k + 1) = Append(s, cache[n][k + 1]) /\ k + 1 \in DOMAIN cache[n]
          /\ ReadAt(n, cache[n], k + 1) = d
      BY <1>2, <2>3, <3>1
    <3>3. d \in Source \cup Slot /\ d # Done
      <4>1. d # Done
        BY <2>3, <3>2 DEF Finished, Asked
      <4>2. d \in {Done} \cup Source \cup Slot \cup Computed
        BY <1>1, NextReads
      <4>3. d \notin Computed
        BY DEF Plain
      <4> QED  BY <4>1, <4>2, <4>3
    <3>4. Tracks(n, d, cache[n][k + 1])
      <4>1. ~InWork(n)
        BY DEF InWork
      <4> QED  BY <2>3, <3>2, <3>3, <4>1 DEF IInv, Cached, Linked
    <3>5. Fresh(d) = cache[n][k + 1] /\ cache[n][k + 1] \in Val
      <4>1. CASE d \in Source
        BY <1>1, <3>4, <4>1 DEF Tracks, Fresh
      <4>2. CASE d \notin Source
        <5>1. /\ d \in Slot /\ cache[d] # None /\ Result(d, cache[d]) = cache[n][k + 1]
          BY <3>3, <3>4, <4>2 DEF Tracks, CachedValue
        <5>2. Result(d, cache[d]) \in Val
          BY <1>1, <5>1, BodiesAssumption
        <5>3. Prefix(d, 0) = <<>>
          BY <1>1, <5>1 DEF Prefix
        <5>4. ~Lost(d, 0)
          <6> HIDE DEF Lost, B
          <6> QED  BY <1>3, <2>1, <2>3, <3>3, <4>2, <5>1, <5>3 DEF Called
        <5>5. Eval[<<d, <<>>>>] = Result(d, cache[d])
          BY <1>1, <5>1, <5>3, <5>4
        <5> QED  BY <4>2, <5>1, <5>2, <5>5 DEF Fresh, Called
      <4> QED  BY <4>1, <4>2
    <3>6. Eval[<<n, s>>] = Eval[<<n, Prefix(n, k + 1)>>]
      <4>1. Eval[<<n, s>>] = Eval[<<n, Append(s, Fresh(d))>>]
        <5> HIDE DEF B
        <5> QED  BY <1>1, <3>3, EvalUnfolds
      <4> QED  BY <3>2, <3>5, <4>1
    <3>7. ~Lost(n, k + 1)
      <4> HIDE DEF Lost, B
      <4> QED  BY <1>3, <2>1, <2>3, <3>1, <3>2, <3>5
    <3> QED  BY <2>2, <2>3, <3>1, <3>6, <3>7
  <2> QED  BY <2>4, <2>5
<1> SUFFICES ASSUME NEW n \in Slot, cache[n] # None PROVE CachedValue(n) = Fresh(n)
  OBVIOUS
<1>5. ~Lost(n, 0)
  <2> HIDE DEF Lost, B
  <2> QED  BY <1>3, <1>4
<1>6. Prefix(n, 0) = <<>>
  BY <1>1 DEF Prefix
<1>7. n \notin Source
  BY KindsAssumption
<1> QED  BY <1>1, <1>5, <1>6, <1>7 DEF Fresh, Called, CachedValue

(***************************************************************************)
(* While a batch flushes, nothing runs before its wave is over.            *)
(***************************************************************************)
Flushing == frames # <<>> /\ frames[1].op \in {"wave", "phase2"}

\* In a flush a drain is the innermost call, and what is queued is queued under it.
WavesFirst ==
  Flushing => /\ raising \/ work = <<>> \/ Top.op = "drain"
              /\ \A i \in DOMAIN frames : frames[i].op = "drain" => i = Len(frames)

\* Where something else than a drain is at work.
LEMMA FlushTop ==
  ASSUME TypeInv, WavesFirst, Flushing, ~raising, Top.op # "drain"
  PROVE  work = <<>> /\ depth > 0 /\ ~Draining
<1>1. /\ DOMAIN frames = 1..Len(frames) /\ Len(frames) \in Nat \ {0} /\ Top = frames[Len(frames)]
  BY Stack DEF Flushing
<1>2. \A i \in DOMAIN frames : frames[i].op # "drain"
  BY <1>1 DEF WavesFirst
<1>3. 1 \in DOMAIN frames
  BY <1>1
<1>4. \A i \in DOMAIN frames : frames[i].op \in FlushOp => i = 1 /\ depth > 0
  BY DEF TypeInv, StackOK
<1>5. depth > 0 /\ \A i \in DOMAIN frames : frames[i].op # "phase1"
  BY <1>3, <1>4 DEF Flushing, FlushOp
<1> QED  BY <1>2, <1>5 DEF WavesFirst, Draining

\* A step that keeps the stack, shortens it, or puts a call on top of anything
\* but a drain.
LEMMA WaveFirstMoves ==
  ASSUME TypeInv, TypeInv', WavesFirst, frames # <<>>,
         \A i \in DOMAIN frames' :
           \/ i \in DOMAIN frames /\ frames'[i].op \in {frames[i].op, "exit"}
           \/ i = Len(frames) + 1 /\ Top.op # "drain",
         Flushing => \/ raising' \/ work' = <<>>
                     \/ frames' # <<>> => frames'[Len(frames')].op = "drain"
  PROVE  WavesFirst'
<1>1. /\ DOMAIN frames = 1..Len(frames) /\ Len(frames) \in Nat \ {0} /\ Top = frames[Len(frames)]
  BY Stack
<1>2. /\ DOMAIN frames' = 1..Len(frames') /\ Len(frames') \in Nat
      /\ frames' # <<>> => 1 \in DOMAIN frames'
  <2>1. frames' \in Seq(Frame)
    BY DEF TypeInv, TypeOK
  <2> DEFINE fs == frames'
  <2> HIDE DEF fs
  <2>2. /\ DOMAIN fs = 1..Len(fs) /\ Len(fs) \in Nat /\ (fs # <<>> => 1 \in DOMAIN fs)
    <3>1. fs \in Seq(Frame)
      BY <2>1 DEF fs
    <3> QED  BY <3>1, EmptySeq, LenProperties
  <2> QED  BY <2>2 DEF fs
<1> SUFFICES ASSUME frames' # <<>>, frames'[1].op \in {"wave", "phase2"}
             PROVE  /\ raising' \/ work' = <<>> \/ frames'[Len(frames')].op = "drain"
                    /\ \A i \in DOMAIN frames' : frames'[i].op = "drain" => i = Len(frames')
  BY DEF WavesFirst, Flushing, Top
<1>3. Flushing
  BY <1>1, <1>2 DEF Flushing
<1>4. ASSUME NEW i \in DOMAIN frames', frames'[i].op = "drain"
      PROVE  i = Len(frames')
  <2>1. CASE i = Len(frames) + 1
    <3>1. i <= Len(frames') /\ Len(frames') \in DOMAIN frames'
      BY <1>2
    <3>2. Len(frames') \in DOMAIN frames \/ Len(frames') = Len(frames) + 1
      BY <3>1
    <3>3. Len(frames') \in Nat /\ Len(frames) \in Nat
      BY <1>1, <1>2
    <3>4. CASE Len(frames') \in DOMAIN frames
      <4>1. Len(frames') <= Len(frames)
        BY <1>1, <3>4
      <4> QED  BY <2>1, <3>1, <3>3, <4>1
    <3>5. CASE Len(frames') = Len(frames) + 1
      BY <2>1, <3>5
    <3> QED  BY <3>2, <3>4, <3>5
  <2>2. CASE i # Len(frames) + 1
    <3>1. i \in DOMAIN frames /\ frames[i].op = "drain"
      BY <1>4, <2>2
    <3>2. i = Len(frames)
      BY <1>3, <3>1 DEF WavesFirst
    <3>3. Len(frames') \in DOMAIN frames' /\ i <= Len(frames')
      BY <1>2
    <3>4. Len(frames') # Len(frames) + 1
      BY <1>1, <3>1, <3>2, <3>3
    <3> QED  BY <1>1, <3>2, <3>3, <3>4
  <2> QED  BY <2>1, <2>2
<1> QED  BY <1>3, <1>4

LEMMA WaveFirstPop ==
  ASSUME TypeInv, TypeInv', WavesFirst, frames # <<>>,
         frames' = Below \/ \E v : frames' = Return(v),
         Flushing => raising' \/ work' = <<>> \/ frames' = <<>>
  PROVE  WavesFirst'
<1>1. /\ DOMAIN frames = 1..Len(frames) /\ Len(frames) \in Nat \ {0} /\ frames \in Seq(Frame)
  BY Stack
<1>2. ASSUME NEW i \in DOMAIN frames'
      PROVE  i \in DOMAIN frames /\ frames'[i].op = frames[i].op
  <2>1. CASE frames' = Below
    BY <1>2, <2>1, BelowStack
  <2>2. CASE \E v : frames' = Return(v)
    <3>1. PICK v : frames' = Return(v)
      BY <2>2
    <3>2. /\ DOMAIN frames' = 1..(Len(frames) - 1)
          /\ \A j \in 1..(Len(frames) - 1) :
               frames'[j] = IF j = Len(frames) - 1 /\ frames[j].op = "run"
                            THEN [frames[j] EXCEPT !.args = Append(@, v)] ELSE frames[j]
      BY <3>1, ReturnStack
    <3>3. i \in DOMAIN frames /\ frames[i] \in Frame
      BY <1>1, <1>2, <3>2
    <3> QED  BY <1>2, <3>2, <3>3 DEF Frame
  <2> QED  BY <2>1, <2>2
<1> QED  BY <1>2, WaveFirstMoves

LEMMA WaveFirstPush ==
  ASSUME TypeInv, TypeInv', WavesFirst, frames # <<>>, Top.op # "drain",
         NEW f \in Frame, f.op \in {Top.op, "exit"}, NEW g \in Frame,
         frames' = Continue(f) \/ frames' = Append(Continue(f), g),
         Flushing => raising' \/ work' = <<>>
                       \/ (g.op = "drain" /\ frames' = Append(Continue(f), g))
  PROVE  WavesFirst'
<1>1. /\ DOMAIN frames = 1..Len(frames) /\ Len(frames) \in Nat \ {0} /\ Top = frames[Len(frames)]
      /\ TypeInv
  BY Stack
<1>2. CASE frames' = Continue(f) /\ ~(frames' = Append(Continue(f), g))
  <2>1. /\ DOMAIN frames' = DOMAIN frames
        /\ \A i \in DOMAIN frames : frames'[i] = IF i = Len(frames) THEN f ELSE frames[i]
    BY <1>1, <1>2, ContinueStack
  <2>2. \A i \in DOMAIN frames' : i \in DOMAIN frames /\ frames'[i].op \in {frames[i].op, "exit"}
    <3> SUFFICES ASSUME NEW i \in DOMAIN frames'
                 PROVE  i \in DOMAIN frames /\ frames'[i].op \in {frames[i].op, "exit"}
      OBVIOUS
    <3>1. CASE i = Len(frames)
      <4>1. i \in DOMAIN frames
        BY <2>1
      <4>2. frames'[i] = f
        BY <2>1, <3>1, <4>1
      <4>3. frames[i] = Top
        BY <1>1, <3>1
      <4> QED  BY <4>1, <4>2, <4>3
    <3>2. CASE i # Len(frames)
      BY <2>1, <3>2
    <3> QED  BY <3>1, <3>2
  <2> QED  BY <1>2, <2>2, WaveFirstMoves
<1>3. CASE frames' = Append(Continue(f), g)
  <2> DEFINE fs == frames'
  <2>1. fs = Append(Continue(f), g)
    BY <1>3
  <2> HIDE DEF fs
  <2>2. /\ Len(fs) = Len(frames) + 1 /\ DOMAIN fs = 1..(Len(frames) + 1)
        /\ fs[Len(frames) + 1] = g
        /\ \A i \in DOMAIN frames : fs[i] = IF i = Len(frames) THEN f ELSE frames[i]
    BY <1>1, <2>1, ContinuePush
  <2>3. \A i \in DOMAIN fs :
          \/ i \in DOMAIN frames /\ fs[i].op \in {frames[i].op, "exit"}
          \/ i = Len(frames) + 1 /\ Top.op # "drain"
    BY <1>1, <2>2
  <2>4. Flushing => raising' \/ work' = <<>> \/ fs[Len(fs)].op = "drain"
    BY <2>2
  <2> QED  BY <2>3, <2>4, WaveFirstMoves DEF fs
<1> QED  BY <1>2, <1>3

LEMMA WaveFirstBody ==
  ASSUME TypeInv, TypeInv', WavesFirst, Body
  PROVE  WavesFirst'
<1>1. ASSUME NEW op \in {"run", "exit"}, At(op)
      PROVE  /\ frames # <<>> /\ Top \in Frame /\ Top.op = op /\ Top = frames[Len(frames)]
             /\ DOMAIN frames = 1..Len(frames) /\ Len(frames) \in Nat \ {0}
             /\ Flushing => work = <<>> /\ depth > 0 /\ ~Draining
  <2>1. frames # <<>> /\ Top.op = op /\ ~raising /\ op # "drain"
    BY <1>1 DEF At
  <2> QED  BY <2>1, Stack, FlushTop
<1>2. ASSUME At("run"), NEW v, Receive(v), UNCHANGED work
      PROVE  WavesFirst'
  <2> DEFINE f == [Top EXCEPT !.args = Append(@, v)]
  <2>1. frames' = Continue(f) /\ f.op = Top.op
    BY <1>1, <1>2 DEF Receive, Frame
  <2> HIDE DEF f
  <2>2. /\ DOMAIN frames' = DOMAIN frames
        /\ \A i \in DOMAIN frames : frames'[i] = IF i = Len(frames) THEN f ELSE frames[i]
    BY <1>1, <1>2, <2>1, ContinueStack
  <2>3. \A i \in DOMAIN frames' : i \in DOMAIN frames /\ frames'[i].op = frames[i].op
    BY <1>1, <1>2, <2>1, <2>2
  <2> QED  BY <1>1, <1>2, <2>3, WaveFirstMoves
<1>3. ASSUME At("run"), NEW q, frames' = Push(RunFrame(q)), UNCHANGED work
      PROVE  WavesFirst'
  <2>1. /\ DOMAIN frames' = 1..(Len(frames) + 1)
        /\ \A i \in DOMAIN frames : frames'[i] = frames[i]
    BY <1>3, PushStack
  <2>2. ASSUME NEW i \in DOMAIN frames'
        PROVE  \/ i \in DOMAIN frames /\ frames'[i].op = frames[i].op
               \/ i = Len(frames) + 1 /\ Top.op # "drain"
    BY <1>1, <1>3, <2>1
  <2> QED  BY <1>1, <1>3, <2>2, WaveFirstMoves
<1>4. ASSUME At("run"), frames' = Append(Continue([Top EXCEPT !.op = "exit"]), DrainFrame)
      PROVE  WavesFirst'
  <2> DEFINE f == [Top EXCEPT !.op = "exit"]
  <2>1. f \in Frame /\ f.op = "exit" /\ DrainFrame \in Frame /\ DrainFrame.op = "drain"
    BY <1>1, <1>4, NewFrames DEF Frame, DrainFrame, LoopFrame, FlushOp
  <2>2. frames' = Append(Continue(f), DrainFrame)
    BY <1>4
  <2> HIDE DEF f
  <2> QED  BY <1>1, <1>4, <2>1, <2>2, WaveFirstPush
<1>5. ASSUME NEW op \in {"run", "exit"}, At(op), Flushing => UNCHANGED work,
             frames' = Below \/ \E v : frames' = Return(v)
      PROVE  WavesFirst'
  BY <1>1, <1>5, WaveFirstPop
<1>6. ASSUME NEW d, ReadDisposed(d)
      PROVE  WavesFirst'
  <2>1. At("run") /\ UNCHANGED <<frames, work>>
    BY <1>6 DEF ReadDisposed, Reads
  <2>2. \A i \in DOMAIN frames' : i \in DOMAIN frames /\ frames'[i].op = frames[i].op
    BY <2>1
  <2> QED  BY <1>1, <2>1, <2>2, WaveFirstMoves
<1>7. CASE \/ \E x \in Source : ReadSource(x) \/ ReadDisposed(x)
           \/ \E n \in Slot : ReadCached(n) \/ ReadMiss(n) \/ ReadDisposed(n) \/ SlotReturns(n)
  BY <1>2, <1>3, <1>5, <1>6, <1>7
  DEF ReadSource, ReadCached, ReadMiss, SlotReturns, Reads, Returns
<1>8. CASE \E c \in Computed : \/ ReadLazyCached(c) \/ ReadLazyMiss(c) \/ ReadSettled(c)
                               \/ ReadStale(c)
  BY <1>2, <1>3, <1>8 DEF ReadLazyCached, ReadLazyMiss, ReadSettled, ReadStale, Reads
<1>9. ASSUME NEW c \in Computed, PullerReturns(c)
      PROVE  WavesFirst'
  <2>1. /\ At("run")
        /\ \/ frames' = Append(Continue([Top EXCEPT !.op = "exit"]), DrainFrame)
           \/ /\ \E v : frames' = Return(v)
              /\ UNCHANGED work \/ (work' = TouchedWork(c) /\ ~StartsDrain(c))
    BY <1>9 DEF PullerReturns, Returns
  <2>2. Flushing /\ ~StartsDrain(c) => TouchedWork(c) = work
    BY <1>1, <2>1 DEF StartsDrain, TouchedWork
  <2> QED  BY <1>4, <1>5, <2>1, <2>2
<1>10. ASSUME NEW e \in Effect, EffectReturns(e) \/ EffectWrites(e)
       PROVE  WavesFirst'
  <2>1. /\ At("run")
        /\ \/ frames' = Append(Continue([Top EXCEPT !.op = "exit"]), DrainFrame)
           \/ frames' = Below /\ (UNCHANGED work \/ ~(depth > 0))
    BY <1>10 DEF EffectReturns, EffectWrites, Returns
  <2> QED  BY <1>1, <1>4, <1>5, <2>1
<1>11. ASSUME NEW r \in Observer, ObserverExits(r)
       PROVE  WavesFirst'
  BY <1>5, <1>11 DEF ObserverExits
<1> QED  BY <1>7, <1>8, <1>9, <1>10, <1>11 DEF Body

LEMMA WaveFirstEngine ==
  ASSUME TypeInv, TypeInv', WavesFirst, Engine
  PROVE  WavesFirst'
<1>1. ASSUME frames # <<>>
      PROVE  /\ Top \in Frame /\ Top = frames[Len(frames)] /\ 1 \in DOMAIN frames
             /\ DOMAIN frames = 1..Len(frames) /\ Len(frames) \in Nat \ {0}
             /\ Flushing => depth > 0
             /\ Top.op \in FlushOp => Len(frames) = 1
             /\ Flushing /\ ~raising /\ Top.op # "drain" => work = <<>>
  <2>1. /\ Top \in Frame /\ Top = frames[Len(frames)] /\ 1 \in DOMAIN frames
        /\ DOMAIN frames = 1..Len(frames) /\ Len(frames) \in Nat \ {0}
    BY <1>1, Stack
  <2> QED  BY <2>1, FlushTop DEF TypeInv, StackOK, Flushing, FlushOp
<1>2. CASE \/ \E n \in Slot : InvalidateSlot(n)
           \/ \E r \in Observer \cup {None} : InvalidateIgnored(r)
           \/ \E r \in Observer : InvalidateDeferred(r)
  <2>1. frames # <<>> /\ Top.op = "drain" /\ UNCHANGED frames
    BY <1>2 DEF InvalidateSlot, InvalidateIgnored, InvalidateDeferred, Pops, At
  <2>2. \A i \in DOMAIN frames' : i \in DOMAIN frames /\ frames'[i].op = frames[i].op
    BY <2>1
  <2>3. frames'[Len(frames')].op = "drain"
    BY <1>1, <2>1
  <2> QED  BY <2>1, <2>2, <2>3, WaveFirstMoves
<1>3. ASSUME NEW r \in Observer, InvalidateRuns(r)
      PROVE  WavesFirst'
  <2>1. frames # <<>> /\ depth = 0 /\ frames' = Push(RunFrame(r))
    BY <1>3 DEF InvalidateRuns, Pops, At, Launch, Push
  <2>2. frames'[1] = frames[1]
    BY <1>1, <2>1, PushStack
  <2>3. ~Flushing
    BY <1>1, <2>1
  <2> QED  BY <2>1, <2>2, <2>3 DEF WavesFirst, Flushing
<1>4. ASSUME NEW r \in Observer, FlushRerun(r)
      PROVE  WavesFirst'
  <2> DEFINE f == [Top EXCEPT !.todo = @ \ {r}]
  <2>1. frames # <<>> /\ Top.op = "phase2" /\ ~raising /\ UNCHANGED work
    BY <1>4 DEF FlushRerun, At
  <2>2. f \in Frame /\ f.op = "phase2"
    BY <1>1, <2>1 DEF Frame, FlushOp
  <2>3. RunFrame(r) \in Frame
    BY NewFrames DEF Observer, Reader
  <2>4. frames' = Continue(f) \/ frames' = Append(Continue(f), RunFrame(r))
    BY <1>4 DEF FlushRerun, Launch
  <2> HIDE DEF f
  <2> QED  BY <1>1, <2>1, <2>2, <2>3, <2>4, WaveFirstPush
<1>5. ASSUME NEW x \in Source, FlushTouch(x)
      PROVE  WavesFirst'
  <2> DEFINE f == [Top EXCEPT !.todo = @ \ {x}]
  <2>1. frames # <<>> /\ Top.op = "phase1" /\ frames' = Continue(f)
    BY <1>5 DEF FlushTouch, At
  <2>2. f \in Frame /\ f.op = "phase1"
    BY <1>1, <2>1 DEF Frame, FlushOp
  <2>3. ~Flushing
    BY <1>1, <2>1 DEF Flushing, FlushOp
  <2> HIDE DEF f
  <2> QED  BY <1>1, <2>1, <2>2, <2>3, WaveFirstPush
<1>6. CASE DrainDone \/ FlushDone
  <2>1. /\ frames # <<>> /\ frames' = Below /\ ~raising /\ UNCHANGED work
        /\ work = <<>> \/ Top.op # "drain"
    BY <1>6 DEF DrainDone, FlushDone, At
  <2> QED  BY <1>1, <2>1, WaveFirstPop
<1>7. CASE FlushWave
  <2>1. /\ frames # <<>> /\ Top.op = "phase1"
        /\ frames' = Append(Continue(LoopFrame("wave", {})), DrainFrame)
    BY <1>7 DEF FlushWave, At
  <2>2. /\ LoopFrame("wave", {}) \in Frame /\ DrainFrame \in Frame
        /\ LoopFrame("wave", {}).op = "wave" /\ DrainFrame.op = "drain"
    BY NewFrames DEF LoopFrame, DrainFrame, FlushOp
  <2> DEFINE fs == frames'
             f == LoopFrame("wave", {})
  <2>3. fs = Append(Continue(f), DrainFrame)
    BY <2>1
  <2> HIDE DEF fs, f
  <2>4. /\ Len(fs) = 2 /\ DOMAIN fs = 1..2 /\ fs[2] = DrainFrame /\ fs[1] = f
    BY <1>1, <2>1, <2>2, <2>3, ContinuePush DEF f, FlushOp
  <2> QED  BY <2>2, <2>4 DEF WavesFirst, Flushing, Top, fs, f
<1>8. CASE FlushEffects
  <2> DEFINE f == LoopFrame("phase2", pendingEffects)
  <2>1. /\ frames # <<>> /\ Top.op = "wave" /\ ~raising /\ UNCHANGED work /\ frames' = Continue(f)
    BY <1>8 DEF FlushEffects, At
  <2>2. f.op = "phase2"
    BY DEF LoopFrame
  <2> HIDE DEF f
  <2>3. /\ DOMAIN frames' = 1..1 /\ frames'[1] = f
    BY <1>1, <2>1, ContinueStack DEF FlushOp
  <2>4. work = <<>>
    BY <1>1, <2>1 DEF Flushing, FlushOp
  <2> QED  BY <2>1, <2>2, <2>3, <2>4 DEF WavesFirst
<1> QED  BY <1>2, <1>3, <1>4, <1>5, <1>6, <1>7, <1>8 DEF Engine

LEMMA WaveFirstClient ==
  ASSUME TypeInv, WavesFirst, Client
  PROVE  WavesFirst'
<1>1. ASSUME NEW q, frames' = <<RunFrame(q)>>
      PROVE  WavesFirst'
  BY <1>1 DEF WavesFirst, Flushing, RunFrame
<1>2. ASSUME \/ frames' = <<>> \/ frames' = <<DrainFrame>>
             \/ \E todo : frames' = <<LoopFrame("phase1", todo)>>
      PROVE  WavesFirst'
  BY <1>2 DEF WavesFirst, Flushing, DrainFrame, LoopFrame
<1>3. ASSUME NEW r, Launch(r, <<>>)
      PROVE  WavesFirst'
  <2>1. frames' = <<RunFrame(r)>>
    BY <1>3 DEF Launch
  <2> QED  BY <1>1, <2>1
<1>4. CASE \/ \E c \in Computed : CallStale(c) \/ MakeEager(c)
           \/ \E e \in Effect : CallEffect(e)
  BY <1>3, <1>4 DEF CallStale, MakeEager, CallEffect
<1>5. CASE \E n \in Slot : CallSlot(n)
  BY <1>1, <1>5 DEF CallSlot
<1>6. CASE \/ \E x \in Source, v \in Val : Set(x, v)
           \/ \E n \in Slot : Reset(n) \/ DisposeSlot(n)
           \/ \E x \in Source : DisposeSource(x)
           \/ \E c \in Computed : MakeLazy(c)
           \/ BatchEnter \/ BatchExit
  BY <1>2, <1>6 DEF Set, Reset, DisposeSlot, DisposeSource, MakeLazy, BatchEnter, BatchExit, Idle
<1>7. CASE \E e \in Effect : DisposeEffect(e)
  BY <1>7 DEF DisposeEffect, WavesFirst, Flushing, Top
<1> QED  BY <1>4, <1>5, <1>6, <1>7 DEF Client

LEMMA WaveFirstStep ==
  ASSUME TypeInv, WavesFirst, [Next]_vars
  PROVE  WavesFirst'
<1>1. TypeInv'
  BY TypeStep
<1>2. CASE BodyRaises
  <2>1. frames # <<>> /\ UNCHANGED frames /\ raising'
    BY <1>2 DEF BodyRaises, At
  <2>2. \A i \in DOMAIN frames' : i \in DOMAIN frames /\ frames'[i].op = frames[i].op
    BY <2>1
  <2> QED  BY <1>1, <2>1, <2>2, WaveFirstMoves
<1>3. CASE Unwind
  <2>1. frames' = Below /\ (raising' \/ frames' = <<>>)
    BY <1>3 DEF Unwind
  <2>2. CASE frames = <<>>
    <3>1. frames' = <<>>
      BY <2>1, <2>2 DEF Below
    <3> QED  BY <3>1 DEF WavesFirst, Flushing
  <2>3. CASE frames # <<>>
    BY <1>1, <2>1, <2>3, WaveFirstPop
  <2> QED  BY <2>2, <2>3
<1>4. CASE UNCHANGED vars
  BY <1>4 DEF vars, WavesFirst, Flushing, Top
<1> QED
  BY <1>1, <1>2, <1>3, <1>4, WaveFirstBody, WaveFirstEngine, WaveFirstClient DEF Next, Internal

(***************************************************************************)
(* The theorems.                                                           *)
(***************************************************************************)
FreshInv == IInv /\ Caught /\ Finished /\ WavesFirst

LEMMA FreshInit == Init => FreshInv
<1> SUFFICES ASSUME Init PROVE Finished /\ WavesFirst
  BY LinksInit DEF FreshInv
<1> QED  BY DEF Init, Finished, WavesFirst, Flushing

LEMMA FreshStep ==
  ASSUME Acyclic, FreshInv, [Next]_vars, ~Interrupted'
  PROVE  FreshInv'
BY LinksStep, FinishedStep, WaveFirstStep DEF FreshInv, IInv

LEMMA FreshSuffices ==
  ASSUME Acyclic, Plain
  PROVE  FreshInv => SlotsFresh /\ FlushReadsFinal
<1> SUFFICES ASSUME FreshInv PROVE SlotsFresh /\ FlushReadsFinal
  OBVIOUS
<1>1. ASSUME Quiet
      PROVE  \A n \in Slot : cache[n] # None => CachedValue(n) = Fresh(n)
  <2>1. work = <<>> /\ \A x \in Source : ~Deferred(x)
    BY <1>1 DEF Quiet, Idle, Deferred
  <2> QED  BY <2>1, CachesFinal DEF FreshInv
<1>2. ASSUME At("run"), frames[1].op \in {"wave", "phase2"}, pendingCells = {}
      PROVE  \A n \in Slot : cache[n] # None => CachedValue(n) = Fresh(n)
  <2>1. TypeInv /\ Flushing /\ ~raising /\ Top.op = "run" /\ Staged(frames, raising)
    BY <1>2 DEF At, Flushing, FreshInv, IInv
  <2>2. work = <<>>
    BY <2>1, FlushTop DEF FreshInv
  <2>3. ASSUME NEW i \in DOMAIN frames PROVE frames[i].todo \cap Source = {}
    <3>1. frames[i].op # "phase1"
      BY <2>1, Stack DEF Staged, Flushing
    <3> QED  BY <2>1, <3>1 DEF Staged
  <2> QED  BY <1>2, <2>2, <2>3, CachesFinal DEF FreshInv, Deferred
<1> QED  BY <1>1, <1>2 DEF SlotsFresh, FlushReadsFinal

LEMMA PlainIsCalm == Plain => Calm
BY DEF Plain, Calm

\* Once every invalidation has been delivered, what a slot holds is what
\* recomputing it from the sources would give, in every graph without a cycle
\* whose slots read sources and slots (slot.py: a read returns resolved[self]).
THEOREM SlotsStayFresh ==
  ASSUME Acyclic, Plain
  PROVE  Spec => []SlotsFresh
<1>1. Init => FreshInv
  BY FreshInit
<1>2. FreshInv /\ [Next]_vars /\ (~Interrupted)' => FreshInv'
  BY FreshStep
<1>3. FreshInv => SlotsFresh
  BY FreshSuffices
<1>4. Spec => []~Interrupted
  BY PlainIsCalm, CalmGraphsAreUninterrupted
<1> QED  BY <1>1, <1>2, <1>3, <1>4, PTL DEF Spec

\* An effect that a batch's flush reruns finds no cache out of date
\* (batch.py _flush: "rerun each queued effect once against the now-final inputs").
THEOREM FlushesReadFinal ==
  ASSUME Acyclic, Plain
  PROVE  Spec => []FlushReadsFinal
<1>1. Init => FreshInv
  BY FreshInit
<1>2. FreshInv /\ [Next]_vars /\ (~Interrupted)' => FreshInv'
  BY FreshStep
<1>3. FreshInv => FlushReadsFinal
  BY FreshSuffices
<1>4. Spec => []~Interrupted
  BY PlainIsCalm, CalmGraphsAreUninterrupted
<1> QED  BY <1>1, <1>2, <1>3, <1>4, PTL DEF Spec
=============================================================================
