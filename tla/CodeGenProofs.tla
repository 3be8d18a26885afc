---------------------------- MODULE CodeGenProofs ---------------------------
(***************************************************************************)
(* Theorems about CodeGen and the machine that runs its code, for routines *)
(* of any length and nesting and for any width of a jump offset.           *)
(*                                                                         *)
(* The first part is about the state of the code generator: types,         *)
(* branches, break marks. The second is about the operand stack: whatever  *)
(* is nested in what, control comes to an address with one depth only, and *)
(* with none where a statement starts.                                     *)
(*                                                                         *)
(* An open statement holds branches that will arrive somewhere later, so   *)
(* the invariant says with which depth each of them leaves; a loop goes    *)
(* back to code that was emitted when the statements in it were not known  *)
(* yet, so it says that code that nothing reached at the head of a loop is *)
(* still reached by nothing. The machine that runs the code then never     *)
(* leaves it, and its stack is as deep as the compiler knew it to be.      *)
(***************************************************************************)
EXTENDS Execution, TLAPS, FiniteSetTheorems, SequenceTheorems

-----------------------------------------------------------------------------
(* What the helpers of the code generator do to a piece of code.            *)

LEMMA EffectInt == \A op \in Ops : Effect(op) \in Int
  BY DEF Effect, Ops, Events, Silent, Branches

LEMMA ShortInt == \A x \in Int : Short(x) \in Int
<1> TAKE x \in Int
<1> DEFINE m == 2 * ShortHalf
<1>1. m \in Nat \ {0} /\ x + ShortHalf \in Int /\ ShortHalf \in Int
  BY ShortAssumption
<1> HIDE DEF m
<1>2. (x + ShortHalf) % m \in Int
  BY <1>1
<1> QED BY <1>1, <1>2 DEF Short, m

LEMMA DepthHereInt ==
  ASSUME NEW b, IsCode(b)
  PROVE  DepthHere(b) \in Int
<1>1. \A a \in DOMAIN b.ins : DepthOut(b.ins[a]) \in Int
  BY EffectInt DEF IsCode, DepthOut, Instr, Dead
<1>2. Arriving(b) \subseteq Int
  BY <1>1 DEF Arriving
<1> QED BY <1>2 DEF DepthHere, IsCode

(* Emit appends one instruction and leaves the others alone. *)
LEMMA EmitCode ==
  ASSUME NEW b, IsCode(b), NEW op \in Ops, NEW n \in Nat \ {0},
         NEW off \in Int, NEW val \in Int, prog \in Seq(Tokens)
  PROVE  LET e == Emit(b, op, n, off, val) IN
         /\ IsCode(e)
         /\ e.pos = b.pos + n
         /\ DOMAIN e.ins = DOMAIN b.ins \cup {b.pos}
         /\ e.ins[b.pos].op = op /\ e.ins[b.pos].off = off
         /\ \A a \in DOMAIN b.ins : e.ins[a] = b.ins[a]
         /\ b.pos \notin DOMAIN b.ins
<1> DEFINE new == [op |-> op, len |-> n, off |-> off, val |-> val,
                   tok |-> Len(prog) + 1, d |-> DepthHere(b)]
           e == Emit(b, op, n, off, val)
<1>1. new \in Instr
  BY DepthHereInt DEF Instr
<1>2. (IF op \in Transfers THEN Dead ELSE DepthOut(new)) \in Int
  BY <1>1, EffectInt DEF Instr, Dead, DepthOut
<1>3. b.pos \notin DOMAIN b.ins /\ b.pos \in Nat
  BY DEF IsCode
<1>4. e = [ins   |-> [a \in DOMAIN b.ins \cup {b.pos} |->
                        IF a = b.pos THEN new ELSE b.ins[a]],
           pos   |-> b.pos + n,
           depth |-> IF op \in Transfers THEN Dead ELSE DepthOut(new)]
  BY DEF Emit
<1> HIDE DEF e, new
<1>5. e.ins = [a \in DOMAIN b.ins \cup {b.pos} |->
                 IF a = b.pos THEN new ELSE b.ins[a]]
      /\ e.pos = b.pos + n
      /\ e.depth \in Int
      /\ e = [ins |-> e.ins, pos |-> e.pos, depth |-> e.depth]
  BY <1>2, <1>4
<1>6. e.ins \in [DOMAIN e.ins -> Instr] /\ DOMAIN e.ins \subseteq 0 .. e.pos - 1
  BY <1>1, <1>3, <1>5 DEF IsCode
<1>7. new.op = op /\ new.off = off
  BY DEF new
<1>8. IsCode(e)
  BY <1>3, <1>5, <1>6 DEF IsCode
<1> QED BY <1>3, <1>5, <1>7, <1>8 DEF e

(* Patch rewrites offsets only. *)
LEMMA PatchCode ==
  ASSUME NEW b, IsCode(b), NEW S, NEW to \in Int
  PROVE  LET e == Patch(b, S, to) IN
         /\ IsCode(e)
         /\ e.pos = b.pos /\ DOMAIN e.ins = DOMAIN b.ins
         /\ \A a \in DOMAIN b.ins :
              /\ e.ins[a].op = b.ins[a].op
              /\ a \notin S => e.ins[a] = b.ins[a]
              /\ a \in S => e.ins[a].off = Short(to - a)
<1> DEFINE e == Patch(b, S, to)
<1>1. /\ e.ins = [a \in DOMAIN b.ins |->
                   IF a \in S THEN [b.ins[a] EXCEPT !.off = Short(to - a)]
                   ELSE b.ins[a]]
      /\ e.pos = b.pos /\ e.depth = b.depth
      /\ e = [ins |-> e.ins, pos |-> e.pos, depth |-> e.depth]
  BY DEF Patch, IsCode
<1> HIDE DEF e
<1>2. ASSUME NEW a \in DOMAIN b.ins PROVE e.ins[a] \in Instr /\ e.ins[a].op = b.ins[a].op
                           /\ (a \in S => e.ins[a].off = Short(to - a))
                           /\ (a \notin S => e.ins[a] = b.ins[a])
  <2>1. b.ins[a] \in Instr /\ Short(to - a) \in Int
    BY ShortInt DEF IsCode
  <2> QED BY <1>1, <2>1 DEF Instr
<1>3. IsCode(e)
  BY <1>1, <1>2 DEF IsCode
<1> QED BY <1>1, <1>2, <1>3 DEF e

(* TransformBreaks rewrites break marks only. *)
LEMMA TransformCode ==
  ASSUME NEW b, IsCode(b), NEW start, NEW end, NEW to \in Int
  PROVE  LET e == TransformBreaks(b, start, end, to)
             In(a) == a \in start .. end - 1 /\ b.ins[a].op = "break" IN
         /\ IsCode(e)
         /\ e.pos = b.pos /\ DOMAIN e.ins = DOMAIN b.ins
         /\ \A a \in DOMAIN b.ins :
              /\ ~In(a) => e.ins[a] = b.ins[a]
              /\ In(a) => e.ins[a].op = "goto" /\ e.ins[a].off = Short(to - a)
<1> DEFINE e == TransformBreaks(b, start, end, to)
           In(a) == a \in start .. end - 1 /\ b.ins[a].op = "break"
           f == [a \in DOMAIN b.ins |->
                   IF In(a) THEN [b.ins[a] EXCEPT !.op = "goto", !.off = Short(to - a)]
                   ELSE b.ins[a]]
<1>0. e = [b EXCEPT !.ins = f]
  BY DEF TransformBreaks
<1> HIDE DEF e, In, f
<1>1. /\ e.ins = f
      /\ e.pos = b.pos /\ e.depth = b.depth
      /\ e = [ins |-> e.ins, pos |-> e.pos, depth |-> e.depth]
  BY <1>0 DEF IsCode
<1> USE DEF f
<1>2. ASSUME NEW a \in DOMAIN b.ins
      PROVE  /\ e.ins[a] \in Instr
             /\ ~In(a) => e.ins[a] = b.ins[a]
             /\ In(a) => e.ins[a].op = "goto" /\ e.ins[a].off = Short(to - a)
  <2>1. b.ins[a] \in Instr /\ Short(to - a) \in Int /\ "goto" \in Ops
    BY ShortInt DEF IsCode, Ops, Branches
  <2> QED BY <1>1, <2>1 DEF Instr
<1>3. IsCode(e)
  BY <1>1, <1>2 DEF IsCode
<1> QED BY <1>1, <1>2, <1>3 DEF e, In

-----------------------------------------------------------------------------
(* Which branches land after each of them.                                  *)

LEMMA LandsMono ==
  ASSUME NEW b, NEW H, NEW G, H \subseteq G, Lands(b, H)
  PROVE  Lands(b, G)
  BY DEF Lands

LEMMA ShortSame ==
  ASSUME NEW x \in Int, -ShortHalf <= x, x < ShortHalf
  PROVE  Short(x) = x
  BY ShortAssumption DEF Short

LEMMA EmitLands ==
  ASSUME NEW b, IsCode(b), NEW op \in Ops, NEW n \in Nat \ {0},
         NEW off \in Int, NEW val \in Int, prog \in Seq(Tokens),
         NEW H, Lands(b, H)
  PROVE  /\ Lands(Emit(b, op, n, off, val), H \cup {b.pos})
         /\ op \notin Branches => Lands(Emit(b, op, n, off, val), H)
         /\ b.pos + off \in DOMAIN b.ins \cup {b.pos}
              => Lands(Emit(b, op, n, off, val), H)
<1> DEFINE e == Emit(b, op, n, off, val)
<1>1. /\ DOMAIN e.ins = DOMAIN b.ins \cup {b.pos}
      /\ e.ins[b.pos].op = op /\ e.ins[b.pos].off = off
      /\ \A a \in DOMAIN b.ins : e.ins[a] = b.ins[a]
      /\ b.pos \notin DOMAIN b.ins
  BY EmitCode
<1> HIDE DEF e
<1>2. \A a \in DOMAIN b.ins :
        /\ e.ins[a].op \in Branches /\ a \notin H
        => Target(e, a) \in DOMAIN e.ins
  BY <1>1 DEF Lands, Target
<1>3. Target(e, b.pos) = b.pos + off
  BY <1>1 DEF Target
<1> QED BY <1>1, <1>2, <1>3 DEF Lands, e

LEMMA JumpLands ==
  ASSUME NEW b, IsCode(b), NEW op \in Ops, prog \in Seq(Tokens),
         NEW to \in DOMAIN b.ins \cup {b.pos}, b.pos < ShortHalf,
         NEW H, Lands(b, H)
  PROVE  Lands(EmitJump(b, op, to), H)
<1>1. to \in Int /\ 0 <= to /\ to <= b.pos /\ b.pos \in Nat
  BY DEF IsCode
<1>2. Short(to - b.pos) = to - b.pos
  BY <1>1, ShortSame, ShortAssumption
<1> DEFINE off == to - b.pos
<1>3. off \in Int /\ b.pos + off = to /\ 3 \in Nat \ {0} /\ 0 \in Int
  BY <1>1
<1> HIDE DEF off
<1>4. Lands(Emit(b, op, 3, off, 0), H)
  BY <1>3, EmitLands
<1> QED BY <1>2, <1>4 DEF EmitJump, off

LEMMA PatchLands ==
  ASSUME NEW b, IsCode(b), b.pos < ShortHalf, NEW S, NEW H, Lands(b, H)
  PROVE  Lands(PatchHere(b, S), H \ S)
<1> DEFINE e == PatchHere(b, S)
<1>1. /\ e.pos = b.pos /\ DOMAIN e.ins = DOMAIN b.ins
      /\ \A a \in DOMAIN b.ins :
           /\ e.ins[a].op = b.ins[a].op
           /\ a \notin S => e.ins[a] = b.ins[a]
           /\ a \in S => e.ins[a].off = Short(b.pos - a)
  BY PatchCode DEF PatchHere, IsCode
<1> HIDE DEF e
<1>2. ASSUME NEW a \in DOMAIN b.ins, a \in S
      PROVE  Target(e, a) = e.pos
  <2>1. a \in Int /\ 0 <= a /\ a < b.pos /\ b.pos \in Nat
    BY DEF IsCode
  <2>2. Short(b.pos - a) = b.pos - a
    BY <2>1, ShortSame, ShortAssumption
  <2> QED BY <1>1, <1>2, <2>1, <2>2 DEF Target
<1>3. ASSUME NEW a \in DOMAIN b.ins, a \notin S
      PROVE  Target(e, a) = Target(b, a) /\ e.ins[a].op = b.ins[a].op
  BY <1>1, <1>3 DEF Target
<1>4. Lands(e, H \ S)
  BY <1>1, <1>2, <1>3 DEF Lands
<1> QED BY <1>4 DEF e

(* The patch of RD_if_statement in front of the goto of its else.           *)
LEMMA ElseLands ==
  ASSUME NEW b, IsCode(b), b.pos + 3 < ShortHalf, prog \in Seq(Tokens),
         NEW S, NEW H, Lands(b, H)
  PROVE  Lands(EmitHole(Patch(b, S, b.pos + 3), "goto"), (H \ S) \cup {b.pos})
<1> DEFINE to == b.pos + 3
           p == Patch(b, S, to)
           e == EmitHole(p, "goto")
<1>0. b.pos \in Nat /\ to \in Int /\ "goto" \in Ops
  BY DEF IsCode, Ops, Branches
<1> HIDE DEF to
<1>1. /\ IsCode(p) /\ p.pos = b.pos /\ DOMAIN p.ins = DOMAIN b.ins
      /\ \A a \in DOMAIN b.ins :
           /\ p.ins[a].op = b.ins[a].op
           /\ a \notin S => p.ins[a] = b.ins[a]
           /\ a \in S => p.ins[a].off = Short(to - a)
  BY <1>0, PatchCode
<1> HIDE DEF p
<1>2. /\ e.pos = b.pos + 3
      /\ DOMAIN e.ins = DOMAIN b.ins \cup {b.pos}
      /\ \A a \in DOMAIN b.ins : e.ins[a] = p.ins[a]
  BY <1>0, <1>1, EmitCode DEF EmitHole
<1> HIDE DEF e
<1>3. ASSUME NEW a \in DOMAIN b.ins, a \in S
      PROVE  Target(e, a) = e.pos
  <2>1. a \in Int /\ 0 <= a /\ a < b.pos /\ b.pos \in Nat
    BY DEF IsCode
  <2>2. Short(to - a) = to - a
    BY <2>1, ShortSame, ShortAssumption DEF to
  <2>3. e.ins[a].off = to - a
    BY <1>1, <1>2, <1>3, <2>2
  <2> QED BY <1>2, <2>1, <2>3 DEF Target, to
<1>4. ASSUME NEW a \in DOMAIN b.ins, a \notin S
      PROVE  Target(e, a) = Target(b, a) /\ e.ins[a].op = b.ins[a].op
  BY <1>1, <1>2, <1>4 DEF Target
<1>5. Lands(e, (H \ S) \cup {b.pos})
  BY <1>1, <1>2, <1>3, <1>4 DEF Lands
<1> QED BY <1>5 DEF e, p, to

LEMMA TransformLands ==
  ASSUME NEW b, IsCode(b), b.pos < ShortHalf, NEW start, NEW end,
         NEW H, Lands(b, H)
  PROVE  Lands(TransformBreaks(b, start, end, b.pos), H)
<1> DEFINE e == TransformBreaks(b, start, end, b.pos)
           In(a) == a \in start .. end - 1 /\ b.ins[a].op = "break"
<1>1. /\ e.pos = b.pos /\ DOMAIN e.ins = DOMAIN b.ins
      /\ \A a \in DOMAIN b.ins :
           /\ ~In(a) => e.ins[a] = b.ins[a]
           /\ In(a) => e.ins[a].off = Short(b.pos - a)
  BY TransformCode DEF IsCode
<1> HIDE DEF e, In
<1>2. ASSUME NEW a \in DOMAIN b.ins, In(a)
      PROVE  Target(e, a) = e.pos
  <2>1. a \in Int /\ 0 <= a /\ a < b.pos /\ b.pos \in Nat
    BY DEF IsCode
  <2>2. Short(b.pos - a) = b.pos - a
    BY <2>1, ShortSame, ShortAssumption
  <2> QED BY <1>1, <1>2, <2>1, <2>2 DEF Target
<1>3. ASSUME NEW a \in DOMAIN b.ins, ~In(a)
      PROVE  Target(e, a) = Target(b, a) /\ e.ins[a] = b.ins[a]
  BY <1>1, <1>3 DEF Target
<1>4. Lands(e, H)
  BY <1>1, <1>2, <1>3 DEF Lands
<1> QED BY <1>4 DEF e

-----------------------------------------------------------------------------
(* The stack of frames.                                                     *)

LEMMA TopFrame ==
  ASSUME frames \in Seq(Frame), frames # <<>>
  PROVE  Top \in Frame /\ Len(frames) \in DOMAIN frames /\ Len(frames) \in Nat \ {0}
  BY DEF Top

LEMMA PushFrame ==
  ASSUME frames \in Seq(Frame), NEW f \in Frame, Push(f)
  PROVE  /\ frames' \in Seq(Frame)
         /\ DOMAIN frames' = DOMAIN frames \cup {Len(frames) + 1}
         /\ Len(frames) + 1 \notin DOMAIN frames
         /\ frames'[Len(frames) + 1] = f
         /\ \A i \in DOMAIN frames : frames'[i] = frames[i]
         /\ Holes' = Holes \cup FrameHoles(f)
<1>1. /\ frames' \in Seq(Frame)
      /\ DOMAIN frames' = DOMAIN frames \cup {Len(frames) + 1}
      /\ Len(frames) + 1 \notin DOMAIN frames
      /\ frames'[Len(frames) + 1] = f
      /\ \A i \in DOMAIN frames : frames'[i] = frames[i]
  BY DEF Push
<1> QED BY <1>1 DEF Holes, FrameHoles

LEMMA PopFrame ==
  ASSUME frames \in Seq(Frame), frames # <<>>, Pop
  PROVE  /\ frames' \in Seq(Frame)
         /\ DOMAIN frames' = DOMAIN frames \ {Len(frames)}
         /\ Len(frames) \in DOMAIN frames
         /\ \A i \in DOMAIN frames' : frames'[i] = frames[i]
         /\ Holes \subseteq Holes' \cup FrameHoles(Top)
<1>1. /\ frames' \in Seq(Frame)
      /\ DOMAIN frames' = DOMAIN frames \ {Len(frames)}
      /\ Len(frames) \in DOMAIN frames
      /\ \A i \in DOMAIN frames' : frames'[i] = frames[i]
  BY DEF Pop
<1> QED BY <1>1 DEF Holes, FrameHoles, Top

LEMMA SetTopFrame ==
  ASSUME frames \in Seq(Frame), frames # <<>>, NEW f \in Frame, SetTop(f)
  PROVE  /\ frames' \in Seq(Frame)
         /\ DOMAIN frames' = DOMAIN frames
         /\ Len(frames) \in DOMAIN frames
         /\ frames'[Len(frames)] = f
         /\ \A i \in DOMAIN frames : i # Len(frames) => frames'[i] = frames[i]
         /\ Holes \subseteq Holes' \cup FrameHoles(Top)
         /\ FrameHoles(f) \subseteq Holes'
<1>1. /\ frames' \in Seq(Frame)
      /\ DOMAIN frames' = DOMAIN frames
      /\ Len(frames) \in DOMAIN frames
      /\ frames'[Len(frames)] = f
      /\ \A i \in DOMAIN frames : i # Len(frames) => frames'[i] = frames[i]
  BY DEF SetTop
<1> QED BY <1>1 DEF Holes, FrameHoles, Top

-----------------------------------------------------------------------------
(* Code only grows, and only RD_statement's "break" leaves a break mark.    *)

Grows(b, e) ==
  /\ IsCode(e)
  /\ b.pos <= e.pos
  /\ DOMAIN b.ins \cup {b.pos} \subseteq DOMAIN e.ins \cup {e.pos}

NoNewBreaks(b, e) ==
  \A a \in DOMAIN e.ins :
    e.ins[a].op = "break" => a \in DOMAIN b.ins /\ b.ins[a].op = "break"

Grown(b, e) == Grows(b, e) /\ NoNewBreaks(b, e)

LEMMA GrownTwice ==
  ASSUME NEW b, IsCode(b), NEW c, Grown(b, c), NEW e, Grown(c, e)
  PROVE  Grown(b, e)
  BY DEF Grown, Grows, NoNewBreaks, IsCode

LEMMA EmitGrown ==
  ASSUME NEW b, IsCode(b), NEW op \in Ops, NEW n \in Nat \ {0},
         NEW off \in Int, NEW val \in Int, prog \in Seq(Tokens)
  PROVE  /\ Grows(b, Emit(b, op, n, off, val))
         /\ op # "break" => Grown(b, Emit(b, op, n, off, val))
<1> DEFINE e == Emit(b, op, n, off, val)
<1>1. /\ IsCode(e)
      /\ e.pos = b.pos + n
      /\ DOMAIN e.ins = DOMAIN b.ins \cup {b.pos}
      /\ e.ins[b.pos].op = op
      /\ \A a \in DOMAIN b.ins : e.ins[a] = b.ins[a]
  BY EmitCode
<1> HIDE DEF e
<1>2. Grows(b, e)
  BY <1>1 DEF Grows, IsCode
<1>3. op # "break" => NoNewBreaks(b, e)
  BY <1>1 DEF NoNewBreaks
<1> QED BY <1>2, <1>3 DEF Grown, e

LEMMA PatchGrown ==
  ASSUME NEW b, IsCode(b), NEW S, NEW to \in Int
  PROVE  Grown(b, Patch(b, S, to))
<1> DEFINE e == Patch(b, S, to)
<1>1. /\ IsCode(e) /\ e.pos = b.pos /\ DOMAIN e.ins = DOMAIN b.ins
      /\ \A a \in DOMAIN b.ins : e.ins[a].op = b.ins[a].op
  BY PatchCode
<1> HIDE DEF e
<1> QED BY <1>1 DEF Grown, Grows, NoNewBreaks, IsCode, e

LEMMA PatchHereGrown ==
  ASSUME NEW b, IsCode(b), NEW S
  PROVE  Grown(b, PatchHere(b, S)) /\ PatchHere(b, S).pos = b.pos
  BY PatchGrown, PatchCode DEF PatchHere, IsCode

LEMMA TransformGrown ==
  ASSUME NEW b, IsCode(b), NEW start, NEW end, NEW to \in Int
  PROVE  /\ Grown(b, TransformBreaks(b, start, end, to))
         /\ TransformBreaks(b, start, end, to).pos = b.pos
<1> DEFINE e == TransformBreaks(b, start, end, to)
           In(a) == a \in start .. end - 1 /\ b.ins[a].op = "break"
<1>1. /\ IsCode(e) /\ e.pos = b.pos /\ DOMAIN e.ins = DOMAIN b.ins
      /\ \A a \in DOMAIN b.ins : ~In(a) => e.ins[a] = b.ins[a]
      /\ \A a \in DOMAIN b.ins : In(a) => e.ins[a].op = "goto"
  BY TransformCode
<1> HIDE DEF e, In
<1>2. Grows(b, e)
  BY <1>1 DEF Grows, IsCode
<1>3. NoNewBreaks(b, e)
  BY <1>1 DEF NoNewBreaks
<1> QED BY <1>1, <1>2, <1>3 DEF Grown, e

-----------------------------------------------------------------------------
(* The inductive invariant, by what a step does to the frames.              *)

OtherTypes ==
  /\ inRoutine \in BOOLEAN
  /\ errors \in BOOLEAN
  /\ prog \in Seq(Tokens)
  /\ done \in BOOLEAN

LEMMA ShapeKept ==
  ASSUME NEW f \in Frame, FrameShaped(f), IsCode(code), Grows(code, code')
  PROVE  FrameShaped(f)'
  BY DEF FrameShaped, Grows, IsCode, Frame, LoopKinds

LEMMA FramesKept ==
  ASSUME Inductive, Grown(code, code'), UNCHANGED <<frames, insideLoop>>,
         OtherTypes', InRange' => Lands(code, Holes)' 
  PROVE  Inductive'
<1>1. TypeOK'
  BY DEF Inductive, TypeOK, OtherTypes, Grown, Grows
<1>2. \A i \in DOMAIN frames' : FrameShaped(frames[i])'
  BY ShapeKept DEF Inductive, TypeOK, Grown
<1>3. LoopsCounted'
  BY DEF Inductive, LoopsCounted, LoopFrames
<1>4. BreaksAwaitLoop'
  BY DEF Inductive, BreaksAwaitLoop, Code, LoopFrames, Grown, NoNewBreaks
<1> QED BY <1>1, <1>2, <1>3, <1>4 DEF Inductive, JumpsLand

LEMMA LoopFramesFinite ==
  ASSUME frames \in Seq(Frame)
  PROVE  IsFiniteSet(LoopFrames) /\ Cardinality(LoopFrames) \in Nat
<1>1. LoopFrames \subseteq 1 .. Len(frames)
  BY DEF LoopFrames
<1>2. IsFiniteSet(1 .. Len(frames))
  BY FS_Interval
<1> QED BY <1>1, <1>2, FS_Subset, FS_CardinalityType

LEMMA PushKept ==
  ASSUME Inductive, Grown(code, code'), NEW f \in Frame, Push(f),
         FrameShaped(f)',
         insideLoop' = IF f.kind \in LoopKinds THEN insideLoop + 1 ELSE insideLoop,
         OtherTypes', InRange' => Lands(code', Holes \cup FrameHoles(f))
  PROVE  Inductive'
<1>1. /\ frames' \in Seq(Frame)
      /\ DOMAIN frames' = DOMAIN frames \cup {Len(frames) + 1}
      /\ Len(frames) + 1 \notin DOMAIN frames
      /\ frames'[Len(frames) + 1] = f
      /\ \A i \in DOMAIN frames : frames'[i] = frames[i]
      /\ Holes' = Holes \cup FrameHoles(f)
  BY PushFrame DEF Inductive, TypeOK
<1>2. TypeOK'
  BY <1>1 DEF Inductive, TypeOK, OtherTypes, Grown, Grows
<1>3. \A i \in DOMAIN frames' : FrameShaped(frames[i])'
  <2> TAKE i \in DOMAIN frames'
  <2>1. CASE i = Len(frames) + 1
    BY <1>1, <2>1
  <2>2. CASE i \in DOMAIN frames
    <3>1. frames[i] \in Frame /\ FrameShaped(frames[i]) /\ IsCode(code)
      BY <2>2 DEF Inductive, TypeOK
    <3>2. FrameShaped(frames'[i])
      BY <1>1, <2>2, <3>1
    <3> QED BY <1>1, <2>2, <3>1, <3>2, ShapeKept DEF Grown
  <2> QED BY <1>1, <2>1, <2>2
<1>4. LoopsCounted'
  <2>1. CASE f.kind \in LoopKinds
    <3>1. LoopFrames' = LoopFrames \cup {Len(frames) + 1}
      BY <1>1, <2>1 DEF LoopFrames
    <3>2. Len(frames) + 1 \notin LoopFrames
      BY <1>1 DEF LoopFrames
    <3>3. Cardinality(LoopFrames \cup {Len(frames) + 1}) = Cardinality(LoopFrames) + 1
      BY <3>2, LoopFramesFinite, FS_AddElement DEF Inductive, TypeOK
    <3> QED BY <2>1, <3>1, <3>3 DEF LoopsCounted, Inductive
  <2>2. CASE f.kind \notin LoopKinds
    <3>1. LoopFrames' = LoopFrames
      BY <1>1, <2>2 DEF LoopFrames
    <3> QED BY <2>2, <3>1 DEF LoopsCounted, Inductive
  <2> QED BY <2>1, <2>2
<1>5. BreaksAwaitLoop'
  BY <1>1 DEF Inductive, BreaksAwaitLoop, Code, LoopFrames, Grown, NoNewBreaks
<1>6. JumpsLand'
  BY <1>1 DEF JumpsLand
<1> QED BY <1>2, <1>3, <1>4, <1>5, <1>6 DEF Inductive

LEMMA SetTopKept ==
  ASSUME Inductive, Grown(code, code'), frames # <<>>, NEW f \in Frame, SetTop(f),
         FrameShaped(f)', Top.kind \notin LoopKinds, f.kind \notin LoopKinds,
         UNCHANGED insideLoop, OtherTypes',
         NEW P, FrameHoles(Top) \subseteq P \cup FrameHoles(f),
         InRange' => Lands(code', (Holes \ P) \cup FrameHoles(f))
  PROVE  Inductive'
<1>1. /\ frames' \in Seq(Frame)
      /\ DOMAIN frames' = DOMAIN frames
      /\ Len(frames) \in DOMAIN frames
      /\ frames'[Len(frames)] = f
      /\ \A i \in DOMAIN frames : i # Len(frames) => frames'[i] = frames[i]
      /\ Holes \subseteq Holes' \cup FrameHoles(Top)
      /\ FrameHoles(f) \subseteq Holes'
  BY SetTopFrame DEF Inductive, TypeOK
<1>2. TypeOK'
  BY <1>1 DEF Inductive, TypeOK, OtherTypes, Grown, Grows
<1>3. \A i \in DOMAIN frames' : FrameShaped(frames[i])'
  <2> TAKE i \in DOMAIN frames'
  <2>1. CASE i = Len(frames)
    BY <1>1, <2>1
  <2>2. CASE i # Len(frames)
    <3>1. frames[i] \in Frame /\ FrameShaped(frames[i]) /\ IsCode(code)
      BY <1>1 DEF Inductive, TypeOK
    <3>2. FrameShaped(frames'[i])
      BY <1>1, <2>2, <3>1
    <3> QED BY <1>1, <2>2, <3>1, <3>2, ShapeKept DEF Grown
  <2> QED BY <2>1, <2>2
<1>4. LoopFrames' = LoopFrames
  BY <1>1 DEF LoopFrames, Top
<1>5. LoopsCounted'
  BY <1>4 DEF LoopsCounted, Inductive
<1>6. BreaksAwaitLoop'
  BY <1>1, <1>4 DEF Inductive, BreaksAwaitLoop, Code, LoopFrames, Grown, NoNewBreaks, Top
<1>7. (Holes \ P) \cup FrameHoles(f) \subseteq Holes'
  BY <1>1
<1>8. JumpsLand'
  BY <1>7, LandsMono DEF JumpsLand
<1> QED BY <1>2, <1>3, <1>5, <1>6, <1>8 DEF Inductive

(* A loop that is closed has no break mark left in its part of the code.    *)
LEMMA PopKept ==
  ASSUME Inductive, Grown(code, code'), frames # <<>>, Pop,
         insideLoop' = IF Top.kind \in LoopKinds THEN insideLoop - 1 ELSE insideLoop,
         Top.kind \in LoopKinds =>
           \A a \in Code' : code'.ins[a].op = "break" => a < Top.brk,
         OtherTypes',
         NEW P, FrameHoles(Top) \subseteq P,
         InRange' => Lands(code', Holes \ P)
  PROVE  Inductive'
<1>1. /\ frames' \in Seq(Frame)
      /\ DOMAIN frames' = DOMAIN frames \ {Len(frames)}
      /\ Len(frames) \in DOMAIN frames
      /\ \A i \in DOMAIN frames' : frames'[i] = frames[i]
      /\ Holes \subseteq Holes' \cup FrameHoles(Top)
  BY PopFrame DEF Inductive, TypeOK
<1>2. TypeOK'
  <2>1. insideLoop' \in Int
    BY DEF Inductive, TypeOK
  <2> QED BY <1>1, <2>1 DEF TypeOK, OtherTypes, Grown, Grows
<1>3. \A i \in DOMAIN frames' : FrameShaped(frames[i])'
  <2> TAKE i \in DOMAIN frames'
  <2>1. frames[i] \in Frame /\ FrameShaped(frames[i]) /\ IsCode(code)
    BY <1>1 DEF Inductive, TypeOK
  <2>2. FrameShaped(frames'[i])
    BY <1>1, <2>1
  <2> QED BY <1>1, <2>1, <2>2, ShapeKept DEF Grown
<1>4. LoopFrames' = LoopFrames \ {Len(frames)}
  BY <1>1 DEF LoopFrames
<1>5. LoopsCounted'
  <2>1. CASE Top.kind \in LoopKinds
    <3>1. Len(frames) \in LoopFrames
      BY <1>1, <2>1 DEF LoopFrames, Top
    <3>2. Cardinality(LoopFrames \ {Len(frames)}) = Cardinality(LoopFrames) - 1
      BY <3>1, LoopFramesFinite, FS_RemoveElement DEF Inductive, TypeOK
    <3> QED BY <1>4, <2>1, <3>2 DEF LoopsCounted, Inductive
  <2>2. CASE Top.kind \notin LoopKinds
    <3>1. LoopFrames' = LoopFrames
      BY <1>4, <2>2 DEF LoopFrames, Top
    <3> QED BY <2>2, <3>1 DEF LoopsCounted, Inductive
  <2> QED BY <2>1, <2>2
<1>6. BreaksAwaitLoop'
  <2> SUFFICES ASSUME NEW a \in Code', code'.ins[a].op = "break"
               PROVE  \E i \in LoopFrames' : frames'[i].brk <= a
    BY DEF BreaksAwaitLoop
  <2>1. PICK i \in LoopFrames : frames[i].brk <= a
    BY DEF Inductive, BreaksAwaitLoop, Code, Grown, NoNewBreaks
  <2>2. i # Len(frames)
    <3> SUFFICES ASSUME i = Len(frames) PROVE FALSE
      OBVIOUS
    <3>1. Top.kind \in LoopKinds /\ Top.brk <= a /\ Top \in Frame
      BY <2>1, TopFrame DEF LoopFrames, Top, Inductive, TypeOK
    <3>2. a < Top.brk /\ a \in Int
      BY <3>1, <1>2 DEF TypeOK, IsCode, Code
    <3> QED BY <3>1, <3>2 DEF Frame
  <2> QED BY <1>1, <1>4, <2>1, <2>2 DEF LoopFrames
<1>7. Holes \ P \subseteq Holes'
  BY <1>1
<1>8. JumpsLand'
  BY <1>7, LandsMono DEF JumpsLand
<1> QED BY <1>2, <1>3, <1>5, <1>6, <1>8 DEF Inductive

-----------------------------------------------------------------------------
(* The steps an action is made of.                                          *)

LEMMA ChunkStep ==
  ASSUME NEW b, IsCode(b), NEW op \in Ops, op \notin Branches, op # "break",
         NEW n \in Nat \ {0}, NEW val \in Int, prog \in Seq(Tokens)
  PROVE  LET e == Emit(b, op, n, 0, val) IN
         /\ Grown(b, e) /\ IsCode(e) /\ e.pos = b.pos + n
         /\ \A H : Lands(b, H) => Lands(e, H)
<1> DEFINE e == Emit(b, op, n, 0, val)
<1>0. 0 \in Int
  OBVIOUS
<1>1. Grown(b, e)
  BY <1>0, EmitGrown
<1>2. IsCode(e) /\ e.pos = b.pos + n
  BY <1>0, EmitCode
<1>3. ASSUME NEW H, Lands(b, H) PROVE Lands(e, H)
  <2>1. op \notin Branches => Lands(e, H)
    BY <1>0, <1>3, EmitLands
  <2> QED BY <2>1
<1> QED BY <1>1, <1>2, <1>3

LEMMA PlainStep ==
  ASSUME NEW b, IsCode(b), NEW op \in Ops, op \notin Branches, op # "break",
         NEW n \in Nat \ {0}, prog \in Seq(Tokens)
  PROVE  LET e == EmitChunk(b, op, n) IN
         /\ Grown(b, e) /\ IsCode(e) /\ e.pos = b.pos + n
         /\ \A H : Lands(b, H) => Lands(e, H)
  BY ChunkStep DEF EmitChunk

LEMMA HoleStep ==
  ASSUME NEW b, IsCode(b), NEW op \in Branches, prog \in Seq(Tokens)
  PROVE  LET e == EmitHole(b, op) IN
         /\ Grown(b, e) /\ IsCode(e) /\ e.pos = b.pos + 3
         /\ \A H : Lands(b, H) => Lands(e, H \cup {b.pos})
<1> DEFINE e == Emit(b, op, 3, 0, 0)
<1>0. op \in Ops /\ op # "break" /\ 3 \in Nat \ {0} /\ 0 \in Int
  BY DEF Ops, Branches
<1>1. Grown(b, e)
  BY <1>0, EmitGrown
<1>2. IsCode(e) /\ e.pos = b.pos + 3
  BY <1>0, EmitCode
<1>3. ASSUME NEW H, Lands(b, H) PROVE Lands(e, H \cup {b.pos})
  BY <1>0, <1>3, EmitLands
<1> QED BY <1>1, <1>2, <1>3 DEF EmitHole

LEMMA JumpStep ==
  ASSUME NEW b, IsCode(b), NEW op \in Branches, prog \in Seq(Tokens),
         NEW to \in DOMAIN b.ins \cup {b.pos}
  PROVE  LET e == EmitJump(b, op, to) IN
         /\ Grown(b, e) /\ IsCode(e) /\ e.pos = b.pos + 3
         /\ \A H : b.pos < ShortHalf /\ Lands(b, H) => Lands(e, H)
<1> DEFINE e == EmitJump(b, op, to)
<1>0. op \in Ops /\ op # "break" /\ 3 \in Nat \ {0} /\ 0 \in Int
  BY DEF Ops, Branches
<1>1. Short(to - b.pos) \in Int
  BY ShortInt DEF IsCode
<1>2. Grown(b, e) /\ IsCode(e) /\ e.pos = b.pos + 3
  BY <1>0, <1>1, EmitGrown, EmitCode DEF EmitJump
<1>3. ASSUME NEW H, b.pos < ShortHalf, Lands(b, H) PROVE Lands(e, H)
  BY <1>0, <1>3, JumpLands
<1> QED BY <1>2, <1>3

LEMMA PatchStep ==
  ASSUME NEW b, IsCode(b), NEW S
  PROVE  LET e == PatchHere(b, S) IN
         /\ Grown(b, e) /\ IsCode(e) /\ e.pos = b.pos
         /\ \A H : b.pos < ShortHalf /\ Lands(b, H) => Lands(e, H \ S)
<1>1. Grown(b, PatchHere(b, S)) /\ PatchHere(b, S).pos = b.pos
  BY PatchHereGrown
<1>2. IsCode(PatchHere(b, S))
  BY <1>1 DEF Grown, Grows
<1>3. ASSUME NEW H, b.pos < ShortHalf, Lands(b, H)
      PROVE  Lands(PatchHere(b, S), H \ S)
  BY <1>3, PatchLands
<1> QED BY <1>1, <1>2, <1>3

LEMMA ConsumeType ==
  ASSUME NEW k \in Kinds, NEW lo \in Int, NEW hi \in Int,
         prog \in Seq(Tokens), Consume(k, lo, hi)
  PROVE  prog' \in Seq(Tokens)
<1>1. [k |-> k, lo |-> lo, hi |-> hi] \in Tokens
  BY DEF Tokens
<1> QED BY <1>1 DEF Consume

LEMMA WordType ==
  ASSUME NEW k \in Kinds, prog \in Seq(Tokens), ConsumeWord(k)
  PROVE  prog' \in Seq(Tokens)
  BY ConsumeType DEF ConsumeWord

LEMMA NewFrameType ==
  ASSUME NEW kind \in FrameKinds, NEW head \in Nat, NEW hole \in Int, NEW brk \in Nat
  PROVE  /\ NewFrame(kind, head, hole, brk) \in Frame
         /\ NewFrame(kind, head, hole, brk).kind = kind
         /\ NewFrame(kind, head, hole, brk).head = head
         /\ NewFrame(kind, head, hole, brk).hole = hole
         /\ NewFrame(kind, head, hole, brk).brk = brk
         /\ NewFrame(kind, head, hole, brk).arms = {}
         /\ NewFrame(kind, head, hole, brk).ends = {}
         /\ FrameHoles(NewFrame(kind, head, hole, brk))
              = IF hole >= 0 THEN {hole} ELSE {}
  BY DEF NewFrame, Frame, FrameHoles

LEMMA FrameUpdate ==
  ASSUME NEW f \in Frame, NEW kind \in FrameKinds, NEW hole \in Int
  PROVE  LET g == [f EXCEPT !.kind = kind, !.hole = hole] IN
         /\ g \in Frame /\ g.kind = kind /\ g.hole = hole
         /\ g.arms = f.arms /\ g.ends = f.ends
         /\ g.head = f.head /\ g.brk = f.brk
  BY DEF Frame

LEMMA ArmFrame ==
  ASSUME NEW f \in Frame, NEW hole \in Int
  PROVE  LET g == [f EXCEPT !.kind = "arm", !.hole = hole, !.arms = {}] IN
         /\ g \in Frame /\ g.kind = "arm" /\ g.hole = hole
         /\ g.arms = {} /\ g.ends = f.ends
  BY DEF Frame, FrameKinds

LEMMA EndArmFrame ==
  ASSUME NEW f \in Frame, NEW x \in Nat
  PROVE  LET g == [f EXCEPT !.kind = "labels", !.hole = -1, !.ends = @ \cup {x}] IN
         /\ g \in Frame /\ g.kind = "labels" /\ g.hole = -1
         /\ g.arms = f.arms /\ g.ends = f.ends \cup {x}
<1>1. -1 \in Int /\ "labels" \in FrameKinds /\ f.ends \cup {x} \in SUBSET Nat
  BY DEF Frame, FrameKinds
<1> QED BY <1>1 DEF Frame

(* The end of while, repeat and for.  P: the branches patched on the way.   *)
LEMMA CloseLoop ==
  ASSUME Inductive, TopIs(LoopKinds),
         NEW b, Grown(code, b), NEW P, FrameHoles(Top) \subseteq P,
         b.pos < ShortHalf => Lands(b, Holes \ P),
         code' = TransformBreaks(b, Top.brk, code.pos, b.pos),
         Pop, insideLoop' = insideLoop - 1, OtherTypes'
  PROVE  Inductive'
<1> DEFINE e == TransformBreaks(b, Top.brk, code.pos, b.pos)
<1>1. IsCode(code) /\ IsCode(b) /\ b.pos \in Int /\ frames # <<>>
      /\ Top.kind \in LoopKinds
  BY DEF Inductive, TypeOK, Grown, Grows, TopIs, IsCode
<1>2. Grown(b, e) /\ e.pos = b.pos
  BY <1>1, TransformGrown
<1>3. Grown(code, e)
  BY <1>1, <1>2, GrownTwice
<1>4. ASSUME NEW a \in DOMAIN e.ins, e.ins[a].op = "break"
      PROVE  a < Top.brk
  <2>1. a \in DOMAIN code.ins /\ a \in DOMAIN b.ins /\ b.ins[a].op = "break"
    BY <1>2, <1>3, <1>4 DEF Grown, NoNewBreaks
  <2>2. a \in Int /\ a < code.pos /\ 0 <= a /\ code.pos \in Int
    BY <1>1, <2>1 DEF IsCode
  <2>3. a \notin Top.brk .. code.pos - 1
    BY <1>1, <1>4, <2>1, TransformCode
  <2>4. Top.brk \in Nat
    BY <1>1, TopFrame DEF Inductive, TypeOK, Frame
  <2> QED BY <2>2, <2>3, <2>4
<1>5. ASSUME e.pos < ShortHalf PROVE Lands(e, Holes \ P)
  BY <1>1, <1>2, <1>5, TransformLands
<1> HIDE DEF e
<1>6. code' = e
  BY DEF e
<1>7. InRange' => Lands(code', Holes \ P)
  BY <1>5, <1>6 DEF InRange
<1>8. Grown(code, code')
  BY <1>3, <1>6
<1>9. \A a \in Code' : code'.ins[a].op = "break" => a < Top.brk
  BY <1>4, <1>6 DEF Code
<1> QED BY <1>1, <1>7, <1>8, <1>9, PopKept

-----------------------------------------------------------------------------
(* Every action keeps the inductive invariant.                              *)

LEMMA InductiveFacts ==
  ASSUME Inductive
  PROVE  /\ IsCode(code) /\ code.pos \in Nat /\ prog \in Seq(Tokens)
         /\ frames \in Seq(Frame) /\ OtherTypes
         /\ code.pos < ShortHalf => Lands(code, Holes)
         /\ frames # <<>> => Top \in Frame /\ FrameShaped(Top)
  BY TopFrame DEF Inductive, TypeOK, OtherTypes, IsCode, JumpsLand, InRange, Top

LEMMA KindsAreOps ==
  /\ {"stmt", "cond", "false", "select", "label", "strlabel", "init", "limit",
      "incr", "pop", "return", "halt"} \subseteq Ops
  /\ \A op \in {"stmt", "cond", "false", "select", "label", "strlabel", "init",
                "limit", "incr", "pop", "return", "halt"} :
       op \notin Branches /\ op # "break"
  BY DEF Ops, Events, Silent, Branches

LEMMA StmtKeeps ==
  ASSUME Inductive, NEW n \in ChunkSizes, Stmt(n)
  PROVE  Inductive'
<1>1. n \in Nat \ {0} /\ "stmt" \in Kinds
  BY ChunkAssumption DEF Kinds
<1>2. /\ Grown(code, code') /\ code'.pos = code.pos + n
      /\ \A H : Lands(code, H) => Lands(code', H)
  BY <1>1, InductiveFacts, KindsAreOps, PlainStep DEF Stmt
<1>3. OtherTypes'
  BY <1>1, InductiveFacts, WordType DEF Stmt, OtherTypes
<1>4. Holes' = Holes
  BY DEF Stmt, Holes
<1>5. InRange' => Lands(code, Holes)'
  BY <1>1, <1>2, <1>4, InductiveFacts, ShortAssumption DEF InRange
<1> QED BY <1>2, <1>3, <1>5, FramesKept DEF Stmt

LEMMA ExitKeeps ==
  ASSUME Inductive, NEW n \in ChunkSizes, Exit(n)
  PROVE  Inductive'
<1> DEFINE op == IF inRoutine THEN "return" ELSE "halt"
<1>1. n \in Nat \ {0} /\ "exit" \in Kinds /\ op \in Ops /\ op \notin Branches /\ op # "break"
  BY ChunkAssumption, KindsAreOps DEF Kinds
<1> HIDE DEF op
<1>2. /\ Grown(code, code') /\ code'.pos = code.pos + n
      /\ \A H : Lands(code, H) => Lands(code', H)
  BY <1>1, InductiveFacts, PlainStep DEF Exit, op
<1>3. OtherTypes'
  BY <1>1, InductiveFacts, WordType DEF Exit, OtherTypes
<1>4. Holes' = Holes
  BY DEF Exit, Holes
<1>5. InRange' => Lands(code, Holes)'
  BY <1>1, <1>2, <1>4, InductiveFacts, ShortAssumption DEF InRange
<1> QED BY <1>2, <1>3, <1>5, FramesKept DEF Exit

(* The one action that adds a break mark, and only inside a loop.           *)
LEMMA BreakKeeps ==
  ASSUME Inductive, Break
  PROVE  Inductive'
<1>1. OtherTypes'
  <2>1. prog' \in Seq(Tokens)
    BY InductiveFacts, WordType DEF Break, Kinds
  <2> QED BY <2>1, InductiveFacts DEF Break, OtherTypes
<1>2. CASE insideLoop <= 0
  <2>1. code' = code /\ frames' = frames /\ insideLoop' = insideLoop
    BY <1>2 DEF Break
  <2>2. Grown(code, code')
    BY <2>1, InductiveFacts DEF Grown, Grows, NoNewBreaks, IsCode
  <2>3. InRange' => Lands(code, Holes)'
    BY <2>1, InductiveFacts DEF InRange, Holes
  <2> QED BY <1>1, <2>1, <2>2, <2>3, FramesKept
<1>3. CASE ~(insideLoop <= 0)
  <2> DEFINE e == Emit(code, "break", 3, 0, 0)
  <2>0. "break" \in Ops /\ "break" \notin Branches /\ 3 \in Nat \ {0} /\ 0 \in Int
    BY DEF Ops, Branches
  <2>1. code' = e /\ frames' = frames /\ insideLoop' = insideLoop
    BY <1>3 DEF Break, EmitHole
  <2>2. /\ IsCode(e) /\ e.pos = code.pos + 3
        /\ DOMAIN e.ins = Code \cup {code.pos}
        /\ \A a \in Code : e.ins[a] = code.ins[a]
    <3>1. IsCode(code) /\ prog \in Seq(Tokens)
      BY InductiveFacts
    <3>2. /\ IsCode(e) /\ e.pos = code.pos + 3
          /\ DOMAIN e.ins = DOMAIN code.ins \cup {code.pos}
          /\ \A a \in DOMAIN code.ins : e.ins[a] = code.ins[a]
      <4>1. ASSUME NEW op \in Ops
            PROVE  LET x == Emit(code, op, 3, 0, 0) IN
                   /\ IsCode(x) /\ x.pos = code.pos + 3
                   /\ DOMAIN x.ins = DOMAIN code.ins \cup {code.pos}
                   /\ \A a \in DOMAIN code.ins : x.ins[a] = code.ins[a]
        BY <2>0, <3>1, EmitCode
      <4> QED BY <2>0, <4>1
    <3> QED BY <3>2 DEF Code
  <2>3. Grows(code, e)
    BY <2>0, InductiveFacts, EmitGrown
  <2>4. \A H : Lands(code, H) => Lands(e, H)
    <3> SUFFICES ASSUME NEW H, Lands(code, H) PROVE Lands(e, H)
      OBVIOUS
    <3>1. "break" \notin Branches => Lands(e, H)
      BY <2>0, InductiveFacts, EmitLands
    <3> QED BY <2>0, <3>1
  <2> HIDE DEF e
  <2>5. LoopFrames # {}
    BY <1>3, FS_EmptySet DEF Inductive, LoopsCounted
  <2>6. TypeOK'
    BY <1>1, <2>1, <2>2 DEF Inductive, TypeOK, OtherTypes
  <2>7. \A i \in DOMAIN frames' : FrameShaped(frames[i])'
    BY <2>1, <2>3, ShapeKept DEF Inductive, TypeOK
  <2>8. LoopsCounted' /\ LoopFrames' = LoopFrames
    BY <2>1 DEF Inductive, LoopsCounted, LoopFrames
  <2>9. BreaksAwaitLoop'
    <3> SUFFICES ASSUME NEW a \in Code', code'.ins[a].op = "break"
                 PROVE  \E i \in LoopFrames : frames[i].brk <= a
      BY <2>1, <2>8 DEF BreaksAwaitLoop
    <3>1. CASE a \in Code
      BY <2>1, <2>2, <3>1 DEF Inductive, BreaksAwaitLoop
    <3>2. CASE a = code.pos
      BY <2>5, <3>2 DEF LoopFrames, Inductive, FrameShaped
    <3> QED BY <2>1, <2>2, <3>1, <3>2 DEF Code
  <2>10. JumpsLand'
    BY <2>1, <2>2, <2>4, InductiveFacts, ShortAssumption DEF JumpsLand, InRange, Holes
  <2> QED BY <2>6, <2>7, <2>8, <2>9, <2>10 DEF Inductive
<1> QED BY <1>2, <1>3

LEMMA IfThenKeeps ==
  ASSUME Inductive, NEW n \in ChunkSizes, IfThen(n)
  PROVE  Inductive'
<1> DEFINE test == EmitChunk(code, "cond", n)
           b    == EmitHole(test, "ifeq")
<1> PICK f : f = NewFrame("if", 0, test.pos, 0)
  OBVIOUS
<1>1. n \in Nat \ {0} /\ "if" \in Kinds /\ "ifeq" \in Branches /\ "if" \in FrameKinds
      /\ "if" \notin LoopKinds /\ IsCode(code) /\ prog \in Seq(Tokens)
  BY ChunkAssumption, InductiveFacts DEF Kinds, Branches, FrameKinds, LoopKinds
<1>2. /\ Grown(code, test) /\ IsCode(test) /\ test.pos = code.pos + n
      /\ \A H : Lands(code, H) => Lands(test, H)
  BY <1>1, KindsAreOps, PlainStep
<1>3. /\ Grown(test, b) /\ b.pos = test.pos + 3
      /\ \A H : Lands(test, H) => Lands(b, H \cup {test.pos})
  BY <1>1, <1>2, HoleStep
<1>4. code' = b /\ Push(f) /\ UNCHANGED insideLoop
  BY DEF IfThen
<1> HIDE DEF test, b
<1>5. Grown(code, code')
  BY <1>1, <1>2, <1>3, <1>4, GrownTwice
<1>6. test.pos \in Nat /\ code.pos \in Nat /\ code.pos < b.pos
  BY <1>1, <1>2, <1>3 DEF IsCode
<1>7. f \in Frame /\ f.kind = "if" /\ FrameHoles(f) = {test.pos}
      /\ f.arms = {} /\ f.ends = {}
  <2>1. 0 \in Nat /\ test.pos \in Int /\ test.pos >= 0
    BY <1>6
  <2> QED BY <1>1, <2>1, NewFrameType
<1>8. FrameShaped(f)'
  BY <1>1, <1>7 DEF FrameShaped, LoopKinds
<1>9. OtherTypes'
  BY <1>1, InductiveFacts, WordType DEF IfThen, OtherTypes
<1>10. InRange' => Lands(code', Holes \cup FrameHoles(f))
  BY <1>2, <1>3, <1>4, <1>6, <1>7, InductiveFacts, ShortAssumption DEF InRange
<1> QED BY <1>1, <1>4, <1>5, <1>7, <1>8, <1>9, <1>10, PushKept

LEMMA ElseKeeps ==
  ASSUME Inductive, Else
  PROVE  Inductive'
<1> DEFINE p == Patch(code, {Top.hole}, code.pos + 3)
           e == EmitHole(p, "goto")
<1> PICK f : f = [Top EXCEPT !.kind = "else", !.hole = code.pos]
  OBVIOUS
<1>1. /\ frames # <<>> /\ Top.kind = "if" /\ Top \in Frame /\ FrameShaped(Top)
      /\ IsCode(code) /\ prog \in Seq(Tokens) /\ code.pos \in Nat
      /\ code.pos + 3 \in Int /\ "goto" \in Branches
  BY InductiveFacts DEF Else, TopIs, Branches
<1>2. Grown(code, p) /\ IsCode(p) /\ p.pos = code.pos
  BY <1>1, PatchGrown, PatchCode
<1>3. Grown(p, e) /\ e.pos = p.pos + 3
  BY <1>1, <1>2, HoleStep
<1>4. \A H : code.pos + 3 < ShortHalf /\ Lands(code, H)
               => Lands(e, (H \ {Top.hole}) \cup {code.pos})
  BY <1>1, ElseLands
<1>5. code' = e /\ SetTop(f) /\ UNCHANGED insideLoop
  BY DEF Else
<1> HIDE DEF p, e
<1>6. Grown(code, code')
  BY <1>1, <1>2, <1>3, <1>5, GrownTwice
<1>7. f \in Frame /\ f.kind = "else" /\ f.kind \notin LoopKinds
      /\ f.arms = Top.arms /\ f.ends = Top.ends /\ f.hole = code.pos
  <2>1. "else" \in FrameKinds /\ "else" \notin LoopKinds /\ code.pos \in Int
    BY <1>1 DEF LoopKinds, FrameKinds
  <2>2. Top \in Frame
    BY <1>1
  <2> QED BY <2>1, <2>2, FrameUpdate
<1>8. Top.arms = {} /\ Top.ends = {}
  BY <1>1 DEF FrameShaped
<1>9. FrameHoles(f) = {code.pos} /\ FrameHoles(Top) \subseteq {Top.hole}
  BY <1>1, <1>7, <1>8 DEF FrameHoles
<1>10. FrameShaped(f)'
  BY <1>7, <1>8 DEF FrameShaped, LoopKinds
<1>11. OtherTypes'
  BY <1>1, InductiveFacts, WordType DEF Else, OtherTypes, Kinds
<1>12. InRange' => Lands(code', (Holes \ {Top.hole}) \cup FrameHoles(f))
  BY <1>1, <1>2, <1>3, <1>4, <1>5, <1>9, InductiveFacts, ShortAssumption DEF InRange
<1>13. Top.kind \notin LoopKinds
  BY <1>1 DEF LoopKinds
<1> QED BY <1>1, <1>5, <1>6, <1>7, <1>9, <1>10, <1>11, <1>12, <1>13, SetTopKept

LEMMA EndIfKeeps ==
  ASSUME Inductive, EndIf
  PROVE  Inductive'
<1>1. /\ frames # <<>> /\ Top.kind \in {"if", "else"} /\ Top \in Frame
      /\ FrameShaped(Top) /\ IsCode(code) /\ prog \in Seq(Tokens)
      /\ Top.kind \notin LoopKinds
  BY InductiveFacts DEF EndIf, TopIs, LoopKinds
<1>2. /\ Grown(code, code') /\ code'.pos = code.pos
      /\ \A H : code.pos < ShortHalf /\ Lands(code, H) => Lands(code', H \ {Top.hole})
  BY <1>1, PatchStep DEF EndIf
<1>3. FrameHoles(Top) \subseteq {Top.hole}
  BY <1>1 DEF FrameHoles, FrameShaped
<1>4. OtherTypes'
  BY <1>1, InductiveFacts, WordType DEF EndIf, OtherTypes, Kinds
<1>5. InRange' => Lands(code', Holes \ {Top.hole})
  BY <1>2, InductiveFacts DEF InRange
<1>6. Pop /\ insideLoop' = insideLoop
  BY DEF EndIf
<1> QED BY <1>1, <1>2, <1>3, <1>4, <1>5, <1>6, PopKept

(* A loop is opened: head is where it jumps back to.                        *)
LEMMA OpenLoop ==
  ASSUME Inductive, NEW kind \in LoopKinds, NEW head, NEW hole \in Int, NEW brk \in Nat,
         Grown(code, code'), head \in DOMAIN code'.ins \cup {code'.pos},
         brk <= code'.pos, kind = "repeat" => hole = -1,
         Push(NewFrame(kind, head, hole, brk)), insideLoop' = insideLoop + 1,
         OtherTypes',
         InRange' => Lands(code', Holes \cup IF hole >= 0 THEN {hole} ELSE {})
  PROVE  Inductive'
<1> PICK f : f = NewFrame(kind, head, hole, brk)
  OBVIOUS
<1>1. head \in Nat /\ kind \in FrameKinds
  BY DEF Grown, Grows, IsCode, FrameKinds
<1>2. /\ f \in Frame /\ f.kind = kind /\ f.head = head /\ f.hole = hole
      /\ f.brk = brk /\ f.arms = {} /\ f.ends = {}
      /\ FrameHoles(f) = IF hole >= 0 THEN {hole} ELSE {}
  BY <1>1, NewFrameType
<1>3. FrameShaped(f)'
  BY <1>2 DEF FrameShaped, LoopKinds
<1> QED BY <1>2, <1>3, PushKept

LEMMA WhileDoKeeps ==
  ASSUME Inductive, NEW n \in ChunkSizes, WhileDo(n)
  PROVE  Inductive'
<1> DEFINE test == EmitChunk(code, "cond", n)
           b    == EmitHole(test, "ifeq")
<1>1. n \in Nat \ {0} /\ "while" \in Kinds /\ "ifeq" \in Branches
      /\ "while" \in LoopKinds /\ IsCode(code) /\ prog \in Seq(Tokens)
  BY ChunkAssumption, InductiveFacts DEF Kinds, Branches, LoopKinds
<1>2. /\ Grown(code, test) /\ IsCode(test) /\ test.pos = code.pos + n
      /\ \A H : Lands(code, H) => Lands(test, H)
  BY <1>1, KindsAreOps, PlainStep
<1>3. /\ Grown(test, b) /\ b.pos = test.pos + 3
      /\ \A H : Lands(test, H) => Lands(b, H \cup {test.pos})
  BY <1>1, <1>2, HoleStep
<1>4. code.pos \in DOMAIN test.ins \cup {test.pos}
  BY <1>2 DEF Grown, Grows
<1>5. code' = b /\ Push(NewFrame("while", code.pos, test.pos, b.pos))
  BY DEF WhileDo
<1> HIDE DEF test, b
<1>6. Grown(code, code')
  BY <1>1, <1>2, <1>3, <1>5, GrownTwice
<1>7. /\ test.pos \in Int /\ test.pos >= 0 /\ b.pos \in Nat /\ b.pos <= b.pos
      /\ code.pos \in Nat /\ code.pos < b.pos
  BY <1>1, <1>2, <1>3 DEF IsCode
<1>8. OtherTypes' /\ insideLoop' = insideLoop + 1
  BY <1>1, InductiveFacts, WordType DEF WhileDo, OtherTypes
<1>9. InRange' => Lands(code', Holes \cup {test.pos})
  BY <1>2, <1>3, <1>5, <1>7, InductiveFacts, ShortAssumption DEF InRange
<1>10. code.pos \in DOMAIN b.ins \cup {b.pos}
  BY <1>3, <1>4 DEF Grown, Grows
<1> QED BY <1>1, <1>5, <1>6, <1>7, <1>8, <1>9, <1>10, OpenLoop

LEMMA RepeatKeeps ==
  ASSUME Inductive, Repeat
  PROVE  Inductive'
<1>1. "repeat" \in Kinds /\ "repeat" \in LoopKinds /\ IsCode(code)
      /\ prog \in Seq(Tokens) /\ code.pos \in Nat /\ -1 \in Int /\ ~(-1 >= 0)
  BY InductiveFacts DEF Kinds, LoopKinds
<1>2. code' = code /\ Push(NewFrame("repeat", code.pos, -1, code.pos))
  BY DEF Repeat
<1>3. Grown(code, code')
  BY <1>1, <1>2 DEF Grown, Grows, NoNewBreaks, IsCode
<1>4. OtherTypes' /\ insideLoop' = insideLoop + 1
  BY <1>1, InductiveFacts, WordType DEF Repeat, OtherTypes
<1> DEFINE H == Holes \cup IF -1 >= 0 THEN {-1} ELSE {}
<1>5. H = Holes
  BY <1>1
<1>6. InRange' => Lands(code', H)
  BY <1>2, <1>5, InductiveFacts DEF InRange
<1>7. code.pos \in DOMAIN code'.ins \cup {code'.pos} /\ code.pos <= code'.pos
  BY <1>1, <1>2
<1> QED BY <1>1, <1>2, <1>3, <1>4, <1>6, <1>7, OpenLoop

LEMMA ForDoKeeps ==
  ASSUME Inductive, NEW n \in ChunkSizes, NEW dir \in Direction, ForDo(n, dir)
  PROVE  Inductive'
<1> DEFINE start == EmitChunk(code, "init", n)
           check == Emit(start, "limit", n, 0, dir)
           op    == IF dir = 1 THEN "if_icmplt" ELSE "if_icmpgt"
           b     == EmitHole(check, op)
<1>1. n \in Nat \ {0} /\ "for" \in Kinds /\ op \in Branches /\ dir \in Int
      /\ "for" \in LoopKinds /\ IsCode(code) /\ prog \in Seq(Tokens)
  BY ChunkAssumption, InductiveFacts DEF Kinds, Branches, LoopKinds, Direction
<1>2. /\ Grown(code, start) /\ IsCode(start) /\ start.pos = code.pos + n
      /\ \A H : Lands(code, H) => Lands(start, H)
  BY <1>1, KindsAreOps, PlainStep
<1>3. /\ Grown(start, check) /\ IsCode(check) /\ check.pos = start.pos + n
      /\ \A H : Lands(start, H) => Lands(check, H)
  BY <1>1, <1>2, KindsAreOps, ChunkStep
<1> HIDE DEF op
<1>4. /\ Grown(check, b) /\ b.pos = check.pos + 3
      /\ \A H : Lands(check, H) => Lands(b, H \cup {check.pos})
  BY <1>1, <1>3, HoleStep
<1>5. start.pos \in DOMAIN check.ins \cup {check.pos}
  BY <1>3 DEF Grown, Grows
<1>6. code' = b /\ Push(NewFrame("for", start.pos, check.pos, b.pos))
  BY DEF ForDo, op
<1> HIDE DEF start, check, b
<1>7. Grown(code, code')
  <2>1. Grown(code, check)
    BY <1>1, <1>2, <1>3, GrownTwice
  <2> QED BY <1>1, <2>1, <1>4, <1>6, GrownTwice
<1>8. /\ check.pos \in Int /\ check.pos >= 0 /\ b.pos \in Nat /\ b.pos <= b.pos
      /\ code.pos \in Nat /\ code.pos < b.pos
  BY <1>1, <1>2, <1>3, <1>4 DEF IsCode
<1>9. OtherTypes' /\ insideLoop' = insideLoop + 1
  <2>1. 0 \in Int
    OBVIOUS
  <2> QED BY <1>1, <2>1, InductiveFacts, ConsumeType DEF ForDo, OtherTypes
<1>10. InRange' => Lands(code', Holes \cup {check.pos})
  <2> SUFFICES ASSUME InRange' PROVE Lands(b, Holes \cup {check.pos})
    BY <1>6
  <2>1. code.pos < ShortHalf
    BY <1>6, <1>8, ShortAssumption DEF InRange
  <2>2. Lands(check, Holes)
    BY <2>1, <1>2, <1>3, InductiveFacts
  <2> QED BY <2>2, <1>4
<1>11. start.pos \in DOMAIN b.ins \cup {b.pos}
  BY <1>4, <1>5 DEF Grown, Grows
<1> QED BY <1>1, <1>6, <1>7, <1>8, <1>9, <1>10, <1>11, OpenLoop

(* The branches of the frame that a loop closes wait for its end only.      *)
LEMMA LoopTop ==
  ASSUME Inductive, frames # <<>>, Top.kind \in LoopKinds
  PROVE  /\ FrameHoles(Top) \subseteq {Top.hole}
         /\ Top.head \in DOMAIN code.ins \cup {code.pos}
         /\ Top.kind = "repeat" => FrameHoles(Top) = {}
<1>1. Top \in Frame /\ FrameShaped(Top)
  BY InductiveFacts
<1> QED BY <1>1 DEF FrameShaped, FrameHoles, LoopKinds

LEMMA EndWhileKeeps ==
  ASSUME Inductive, EndWhile
  PROVE  Inductive'
<1> DEFINE jump == EmitJump(code, "goto", Top.head)
           b    == PatchHere(jump, {Top.hole})
<1>1. /\ frames # <<>> /\ Top.kind = "while" /\ TopIs(LoopKinds) /\ IsCode(code)
      /\ prog \in Seq(Tokens) /\ "goto" \in Branches /\ "od" \in Kinds
  BY InductiveFacts DEF EndWhile, TopIs, LoopKinds, Branches, Kinds
<1>2. FrameHoles(Top) \subseteq {Top.hole} /\ Top.head \in DOMAIN code.ins \cup {code.pos}
  BY <1>1, LoopTop DEF LoopKinds
<1>3. /\ Grown(code, jump) /\ IsCode(jump) /\ jump.pos = code.pos + 3
      /\ \A H : code.pos < ShortHalf /\ Lands(code, H) => Lands(jump, H)
  BY <1>1, <1>2, JumpStep
<1>4. /\ Grown(jump, b) /\ IsCode(b) /\ b.pos = jump.pos
      /\ \A H : jump.pos < ShortHalf /\ Lands(jump, H) => Lands(b, H \ {Top.hole})
  BY <1>3, PatchStep
<1>5. /\ code' = TransformBreaks(b, Top.brk, code.pos, b.pos)
      /\ Pop /\ insideLoop' = insideLoop - 1
  BY DEF EndWhile
<1> HIDE DEF jump, b
<1>6. Grown(code, b)
  BY <1>1, <1>3, <1>4, GrownTwice
<1>7. b.pos < ShortHalf => Lands(b, Holes \ {Top.hole})
  BY <1>3, <1>4, InductiveFacts, ShortAssumption
<1>8. OtherTypes'
  BY <1>1, InductiveFacts, WordType DEF EndWhile, OtherTypes
<1> QED BY <1>1, <1>2, <1>5, <1>6, <1>7, <1>8, CloseLoop

LEMMA CloseRepeatKeeps ==
  ASSUME Inductive, NEW word \in {"until", "forever"}, NEW op \in {"cond", "false"},
         NEW n \in Nat \ {0}, CloseRepeat(word, op, n)
  PROVE  Inductive'
<1> DEFINE test == EmitChunk(code, op, n)
           b    == EmitJump(test, "ifeq", Top.head)
<1>1. /\ frames # <<>> /\ Top.kind = "repeat" /\ TopIs(LoopKinds) /\ IsCode(code)
      /\ prog \in Seq(Tokens) /\ "ifeq" \in Branches /\ word \in Kinds
  BY InductiveFacts DEF CloseRepeat, TopIs, LoopKinds, Branches, Kinds
<1>2. FrameHoles(Top) \subseteq {} /\ Top.head \in DOMAIN code.ins \cup {code.pos}
  BY <1>1, LoopTop DEF LoopKinds
<1>3. /\ Grown(code, test) /\ IsCode(test) /\ test.pos = code.pos + n
      /\ \A H : Lands(code, H) => Lands(test, H)
  BY <1>1, KindsAreOps, PlainStep
<1>4. Top.head \in DOMAIN test.ins \cup {test.pos}
  BY <1>2, <1>3 DEF Grown, Grows
<1>5. /\ Grown(test, b) /\ IsCode(b) /\ b.pos = test.pos + 3
      /\ \A H : test.pos < ShortHalf /\ Lands(test, H) => Lands(b, H)
  BY <1>1, <1>3, <1>4, JumpStep
<1>6. /\ code' = TransformBreaks(b, Top.brk, code.pos, b.pos)
      /\ Pop /\ insideLoop' = insideLoop - 1
  BY DEF CloseRepeat
<1> HIDE DEF test, b
<1>7. Grown(code, b)
  BY <1>1, <1>3, <1>5, GrownTwice
<1>8. b.pos < ShortHalf => Lands(b, Holes \ {})
  <2> SUFFICES ASSUME b.pos < ShortHalf PROVE Lands(b, Holes)
    BY LandsMono
  <2>1. code.pos < ShortHalf /\ test.pos < ShortHalf
    BY <1>3, <1>5, InductiveFacts, ShortAssumption
  <2> QED BY <1>3, <1>5, <2>1, InductiveFacts
<1>9. OtherTypes'
  BY <1>1, InductiveFacts, WordType DEF CloseRepeat, OtherTypes
<1> QED BY <1>1, <1>2, <1>6, <1>7, <1>8, <1>9, CloseLoop

LEMMA EndForKeeps ==
  ASSUME Inductive, NEW n \in ChunkSizes, EndFor(n)
  PROVE  Inductive'
<1> DEFINE step == EmitChunk(code, "incr", n)
           jump == EmitJump(step, "goto", Top.head)
           b    == PatchHere(jump, {Top.hole})
<1>1. /\ frames # <<>> /\ Top.kind = "for" /\ TopIs(LoopKinds) /\ IsCode(code)
      /\ prog \in Seq(Tokens) /\ "goto" \in Branches /\ "rof" \in Kinds
      /\ n \in Nat \ {0}
  BY ChunkAssumption, InductiveFacts DEF EndFor, TopIs, LoopKinds, Branches, Kinds
<1>2. FrameHoles(Top) \subseteq {Top.hole} /\ Top.head \in DOMAIN code.ins \cup {code.pos}
  BY <1>1, LoopTop DEF LoopKinds
<1>3. /\ Grown(code, step) /\ IsCode(step) /\ step.pos = code.pos + n
      /\ \A H : Lands(code, H) => Lands(step, H)
  BY <1>1, KindsAreOps, PlainStep
<1>4. Top.head \in DOMAIN step.ins \cup {step.pos}
  BY <1>2, <1>3 DEF Grown, Grows
<1>5. /\ Grown(step, jump) /\ IsCode(jump) /\ jump.pos = step.pos + 3
      /\ \A H : step.pos < ShortHalf /\ Lands(step, H) => Lands(jump, H)
  BY <1>1, <1>3, <1>4, JumpStep
<1>6. /\ Grown(jump, b) /\ IsCode(b) /\ b.pos = jump.pos
      /\ \A H : jump.pos < ShortHalf /\ Lands(jump, H) => Lands(b, H \ {Top.hole})
  BY <1>5, PatchStep
<1>7. /\ code' = TransformBreaks(b, Top.brk, code.pos, b.pos)
      /\ Pop /\ insideLoop' = insideLoop - 1
  BY DEF EndFor
<1> HIDE DEF step, jump, b
<1>8. Grown(code, b)
  <2>1. Grown(code, jump)
    BY <1>1, <1>3, <1>5, GrownTwice
  <2> QED BY <1>1, <1>6, <2>1, GrownTwice
<1>9. b.pos < ShortHalf => Lands(b, Holes \ {Top.hole})
  <2> SUFFICES ASSUME b.pos < ShortHalf PROVE Lands(b, Holes \ {Top.hole})
    OBVIOUS
  <2>1. code.pos < ShortHalf /\ step.pos < ShortHalf /\ jump.pos < ShortHalf
    BY <1>1, <1>3, <1>5, <1>6, InductiveFacts, ShortAssumption
  <2>2. Lands(step, Holes)
    BY <1>3, <2>1, InductiveFacts
  <2> QED BY <1>5, <1>6, <2>1, <2>2
<1>10. OtherTypes'
  BY <1>1, InductiveFacts, WordType DEF EndFor, OtherTypes
<1> QED BY <1>1, <1>2, <1>7, <1>8, <1>9, <1>10, CloseLoop

(* The case statement.  The frame of a case keeps its kind away from loops. *)
LEMMA CaseOfKeeps ==
  ASSUME Inductive, NEW n \in ChunkSizes, NEW str \in BOOLEAN, CaseOf(n, str)
  PROVE  Inductive'
<1> PICK f : f = [NewFrame("labels", 0, -1, 0) EXCEPT !.str = str]
  OBVIOUS
<1>1. n \in Nat \ {0} /\ "case" \in Kinds /\ IsCode(code) /\ prog \in Seq(Tokens)
      /\ (IF str THEN 1 ELSE 0) \in Int /\ 0 \in Int
  BY ChunkAssumption, InductiveFacts DEF Kinds
<1>2. /\ Grown(code, code') /\ code'.pos = code.pos + n
      /\ \A H : Lands(code, H) => Lands(code', H)
  BY <1>1, KindsAreOps, PlainStep DEF CaseOf
<1>3. /\ f \in Frame /\ f.kind = "labels" /\ f.kind \notin LoopKinds
      /\ f.hole = -1 /\ FrameHoles(f) = {}
  BY DEF NewFrame, Frame, FrameKinds, LoopKinds, FrameHoles
<1>4. FrameShaped(f)'
  BY <1>3 DEF FrameShaped
<1>5. OtherTypes'
  BY <1>1, InductiveFacts, ConsumeType DEF CaseOf, OtherTypes
<1>6. InRange' => Lands(code', Holes)
  BY <1>1, <1>2, InductiveFacts, ShortAssumption DEF InRange
<1>7. InRange' => Lands(code', Holes \cup FrameHoles(f))
  BY <1>3, <1>6, LandsMono
<1>8. Push(f) /\ UNCHANGED insideLoop
  BY DEF CaseOf
<1> QED BY <1>2, <1>3, <1>4, <1>5, <1>7, <1>8, PushKept

(* A label adds the branch at x to those that wait for the arm.             *)
LEMMA LabelsStay ==
  ASSUME Inductive, TopIs({"labels"}), Grown(code, code'), NEW x \in Nat,
         NEW f \in Frame, f.kind = "labels", f.hole = -1,
         f.arms = Top.arms \cup {x}, f.ends = Top.ends,
         SetTop(f), UNCHANGED insideLoop, OtherTypes',
         InRange' => Lands(code', Holes \cup {x})
  PROVE  Inductive'
<1>1. frames # <<>> /\ Top.kind = "labels" /\ Top \in Frame /\ FrameShaped(Top)
      /\ Top.kind \notin LoopKinds /\ f.kind \notin LoopKinds
  BY InductiveFacts DEF TopIs, LoopKinds
<1>2. FrameHoles(Top) \subseteq {} \cup FrameHoles(f) /\ x \in FrameHoles(f)
  BY <1>1 DEF FrameShaped, FrameHoles
<1>3. FrameShaped(f)'
  BY DEF FrameShaped, LoopKinds
<1>4. InRange' => Lands(code', (Holes \ {}) \cup FrameHoles(f))
  <2>1. Holes \cup {x} \subseteq (Holes \ {}) \cup FrameHoles(f)
    BY <1>2
  <2> QED BY <2>1, LandsMono
<1> QED BY <1>1, <1>2, <1>3, <1>4, SetTopKept

(* What SetTop stores for a label, remembered or refused.                   *)
LEMMA LabelFrame ==
  ASSUME NEW f \in Frame, NEW x \in Nat, NEW lo \in Int, NEW hi \in Int,
         NEW g, \/ g = [f EXCEPT !.arms = @ \cup {x}]
                \/ g = Remember([f EXCEPT !.arms = @ \cup {x}], lo, hi)
  PROVE  /\ g \in Frame /\ g.kind = f.kind /\ g.hole = f.hole
         /\ g.arms = f.arms \cup {x} /\ g.ends = f.ends
<1> PICK h : h = [f EXCEPT !.arms = @ \cup {x}]
  OBVIOUS
<1>1. h \in Frame /\ h.kind = f.kind /\ h.hole = f.hole
      /\ h.arms = f.arms \cup {x} /\ h.ends = f.ends
  BY DEF Frame
<1>2. LET r == Remember(h, lo, hi)
      IN /\ r \in Frame /\ r.kind = h.kind /\ r.hole = h.hole
         /\ r.arms = h.arms /\ r.ends = h.ends
  <2>1. h.seen \cup {<<lo, hi>>} \in SUBSET (Int \X Int)
    BY <1>1 DEF Frame
  <2> QED BY <1>1, <2>1 DEF Frame, Remember
<1>3. g = h \/ g = Remember(h, lo, hi)
  OBVIOUS
<1> QED BY <1>1, <1>2, <1>3

LEMMA LabelKeeps ==
  ASSUME Inductive, NEW n \in ChunkSizes, NEW v \in Values, Label(n, v)
  PROVE  Inductive'
<1> DEFINE op   == IF Top.str THEN "strlabel" ELSE "label"
           jop  == IF Top.str THEN "ifeq" ELSE "if_icmpeq"
           test == Emit(code, op, n, 0, v)
           b    == EmitHole(test, jop)
<1> PICK f : f = IF ~Clashes(v, v)
                 THEN Remember([Top EXCEPT !.arms = @ \cup {test.pos}], v, v)
                 ELSE [Top EXCEPT !.arms = @ \cup {test.pos}]
  OBVIOUS
<1>1. /\ n \in Nat \ {0} /\ "label" \in Kinds /\ IsCode(code) /\ prog \in Seq(Tokens)
      /\ v \in Int /\ op \in Ops /\ op \notin Branches /\ op # "break"
      /\ jop \in Branches
  BY ChunkAssumption, ValuesAssumption, InductiveFacts, KindsAreOps DEF Kinds, Branches
<1>2. /\ frames # <<>> /\ Top.kind = "labels" /\ Top \in Frame /\ FrameShaped(Top)
      /\ Top.hole = -1
  BY InductiveFacts DEF Label, TopIs, FrameShaped
<1>3. code' = b /\ SetTop(f) /\ UNCHANGED insideLoop /\ TopIs({"labels"})
  BY DEF Label
<1> HIDE DEF op, jop
<1>4. /\ Grown(code, test) /\ IsCode(test) /\ test.pos = code.pos + n
      /\ \A H : Lands(code, H) => Lands(test, H)
  BY <1>1, ChunkStep
<1>5. /\ Grown(test, b) /\ b.pos = test.pos + 3
      /\ \A H : Lands(test, H) => Lands(b, H \cup {test.pos})
  BY <1>1, <1>4, HoleStep
<1> HIDE DEF test, b
<1>6. Grown(code, code')
  BY <1>1, <1>3, <1>4, <1>5, GrownTwice
<1>7. test.pos \in Nat /\ code.pos \in Nat
  BY <1>1, <1>4 DEF IsCode
<1>8. f \in Frame /\ f.kind = "labels" /\ f.hole = -1
      /\ f.arms = Top.arms \cup {test.pos} /\ f.ends = Top.ends
  <2>1. \/ f = [Top EXCEPT !.arms = @ \cup {test.pos}]
        \/ f = Remember([Top EXCEPT !.arms = @ \cup {test.pos}], v, v)
    OBVIOUS
  <2> QED BY <1>1, <1>2, <1>7, <2>1, LabelFrame
<1>9. OtherTypes'
  <2>1. errors' \in BOOLEAN
    BY InductiveFacts DEF Label, OtherTypes, Clashes
  <2> QED BY <1>1, <2>1, InductiveFacts, ConsumeType DEF Label, OtherTypes
<1>10. InRange' => Lands(code', Holes \cup {test.pos})
  BY <1>1, <1>3, <1>4, <1>5, <1>7, InductiveFacts, ShortAssumption DEF InRange
<1> QED BY <1>3, <1>6, <1>7, <1>8, <1>9, <1>10, LabelsStay

LEMMA LabelRangeKeeps ==
  ASSUME Inductive, NEW n \in ChunkSizes, NEW lo \in Values, NEW hi \in Values,
         LabelRange(n, lo, hi)
  PROVE  Inductive'
<1> DEFINE low   == Emit(code, "label", n, 0, lo)
           skip  == EmitHole(low, "if_icmplt")
           high  == Emit(skip, "label", n, 0, hi)
           both  == EmitHole(high, "if_icmple")
           valid == ~Top.str /\ lo <= hi
           keep  == valid /\ ~Clashes(lo, hi)
<1> PICK f : f = IF keep
                 THEN Remember([Top EXCEPT !.arms = @ \cup {high.pos}], lo, hi)
                 ELSE [Top EXCEPT !.arms = @ \cup {high.pos}]
  OBVIOUS
<1>1. /\ n \in Nat \ {0} /\ "label" \in Kinds /\ IsCode(code) /\ prog \in Seq(Tokens)
      /\ lo \in Int /\ hi \in Int /\ "if_icmplt" \in Branches /\ "if_icmple" \in Branches
      /\ keep \in BOOLEAN
  BY ChunkAssumption, ValuesAssumption, InductiveFacts DEF Kinds, Branches, Clashes
<1>2. /\ frames # <<>> /\ Top.kind = "labels" /\ Top \in Frame /\ Top.hole = -1
  BY InductiveFacts DEF LabelRange, TopIs, FrameShaped
<1>3. /\ code' = PatchHere(both, {low.pos}) /\ SetTop(f) /\ UNCHANGED insideLoop
      /\ TopIs({"labels"})
  BY DEF LabelRange
<1>4. /\ Grown(code, low) /\ IsCode(low) /\ low.pos = code.pos + n
      /\ \A H : Lands(code, H) => Lands(low, H)
  BY <1>1, KindsAreOps, ChunkStep
<1>5. /\ Grown(low, skip) /\ IsCode(skip) /\ skip.pos = low.pos + 3
      /\ \A H : Lands(low, H) => Lands(skip, H \cup {low.pos})
  BY <1>1, <1>4, HoleStep
<1>6. /\ Grown(skip, high) /\ IsCode(high) /\ high.pos = skip.pos + n
      /\ \A H : Lands(skip, H) => Lands(high, H)
  BY <1>1, <1>5, KindsAreOps, ChunkStep
<1>7. /\ Grown(high, both) /\ IsCode(both) /\ both.pos = high.pos + 3
      /\ \A H : Lands(high, H) => Lands(both, H \cup {high.pos})
  BY <1>1, <1>6, HoleStep
<1>8. /\ Grown(both, code') /\ code'.pos = both.pos
      /\ \A H : both.pos < ShortHalf /\ Lands(both, H) => Lands(code', H \ {low.pos})
  BY <1>3, <1>7, PatchStep
<1> HIDE DEF low, skip, high, both, valid, keep
<1>9. Grown(code, code')
  <2>1. Grown(code, skip)
    BY <1>1, <1>4, <1>5, GrownTwice
  <2>2. Grown(code, high)
    BY <1>1, <1>6, <2>1, GrownTwice
  <2>3. Grown(code, both)
    BY <1>1, <1>7, <2>2, GrownTwice
  <2> QED BY <1>1, <1>8, <2>3, GrownTwice
<1>10. /\ low.pos \in Nat /\ high.pos \in Nat /\ code.pos \in Nat
       /\ code.pos < both.pos /\ low.pos # high.pos
  <2>1. code.pos \in Nat /\ low.pos \in Nat /\ high.pos \in Nat
    BY <1>1, <1>4, <1>6 DEF IsCode
  <2>2. n \in Nat \ {0} /\ low.pos = code.pos + n /\ high.pos = skip.pos + n
    BY <1>1, <1>4, <1>6
  <2>3. skip.pos = low.pos + 3 /\ both.pos = high.pos + 3
    BY <1>5, <1>7
  <2> QED BY <2>1, <2>2, <2>3
<1>11. f \in Frame /\ f.kind = "labels" /\ f.hole = -1
       /\ f.arms = Top.arms \cup {high.pos} /\ f.ends = Top.ends
  <2>1. \/ f = [Top EXCEPT !.arms = @ \cup {high.pos}]
        \/ f = Remember([Top EXCEPT !.arms = @ \cup {high.pos}], lo, hi)
    OBVIOUS
  <2>2. Top \in Frame /\ high.pos \in Nat /\ lo \in Int /\ hi \in Int
    BY <1>1, <1>2, <1>10
  <2>3. /\ f \in Frame /\ f.kind = Top.kind /\ f.hole = Top.hole
        /\ f.arms = Top.arms \cup {high.pos} /\ f.ends = Top.ends
    BY <2>1, <2>2, LabelFrame
  <2> QED BY <1>2, <2>3
<1>12. OtherTypes'
  <2>1. errors' \in BOOLEAN
    BY InductiveFacts DEF LabelRange, OtherTypes, Clashes
  <2> QED BY <1>1, <2>1, InductiveFacts, ConsumeType DEF LabelRange, OtherTypes
<1>13. InRange' => Lands(code', Holes \cup {high.pos})
  <2> SUFFICES ASSUME InRange' PROVE Lands(code', Holes \cup {high.pos})
    OBVIOUS
  <2>1. code.pos < ShortHalf /\ both.pos < ShortHalf
    BY <1>8, <1>10, ShortAssumption, <1>7 DEF InRange, IsCode
  <2>2. Lands(high, Holes \cup {low.pos})
    BY <1>4, <1>5, <1>6, <2>1, InductiveFacts
  <2>3. Lands(code', ((Holes \cup {low.pos}) \cup {high.pos}) \ {low.pos})
    BY <1>7, <1>8, <2>1, <2>2
  <2>4. ((Holes \cup {low.pos}) \cup {high.pos}) \ {low.pos} \subseteq Holes \cup {high.pos}
    OBVIOUS
  <2> QED BY <2>3, <2>4, LandsMono
<1> QED BY <1>3, <1>9, <1>10, <1>11, <1>12, <1>13, LabelsStay

(* Turning a label's own branch around keeps it where it lands.             *)
LEMMA TurnStep ==
  ASSUME NEW b, IsCode(b), NEW last, b.ins[last].op \in {"if_icmpeq", "ifeq"}
  PROVE  LET e == [b EXCEPT !.ins[last].op = Opposite(@)] IN
         /\ Grown(b, e) /\ IsCode(e) /\ e.pos = b.pos
         /\ \A H : Lands(b, H) => Lands(e, H)
<1> DEFINE op == Opposite(b.ins[last].op)
           e  == [b EXCEPT !.ins[last].op = Opposite(@)]
<1>1. op \in Branches /\ op \in Ops /\ op # "break"
  BY DEF Opposite, Branches, Ops
<1>2. /\ e.pos = b.pos /\ e.depth = b.depth /\ DOMAIN e.ins = DOMAIN b.ins
      /\ e = [ins |-> e.ins, pos |-> e.pos, depth |-> e.depth]
      /\ e.ins = [b.ins EXCEPT ![last].op = op]
  BY DEF IsCode
<1> HIDE DEF op, e
<1>3. ASSUME NEW a \in DOMAIN b.ins
      PROVE  /\ e.ins[a] \in Instr /\ e.ins[a].off = b.ins[a].off
             /\ \/ e.ins[a].op = b.ins[a].op
                \/ e.ins[a].op = op /\ b.ins[a].op \in Branches
  <2>1. b.ins[a] \in Instr
    BY DEF IsCode
  <2>2. CASE a = last
    <3>1. e.ins[a] = [b.ins[a] EXCEPT !.op = op] /\ b.ins[a].op \in Branches
      BY <1>2, <2>2 DEF IsCode, Branches
    <3> QED BY <1>1, <2>1, <3>1 DEF Instr
  <2>3. CASE a # last
    BY <1>2, <2>1, <2>3 DEF IsCode
  <2> QED BY <2>2, <2>3
<1>4. e.ins = [a \in DOMAIN e.ins |-> e.ins[a]]
  BY <1>2 DEF IsCode
<1>5. IsCode(e)
  <2>1. e.ins \in [DOMAIN e.ins -> Instr]
    BY <1>2, <1>3, <1>4
  <2> QED BY <1>2, <2>1 DEF IsCode
<1>6. Grown(b, e)
  <2>1. Grows(b, e)
    BY <1>2, <1>5 DEF Grows, IsCode
  <2>2. NoNewBreaks(b, e)
    BY <1>1, <1>2, <1>3 DEF NoNewBreaks
  <2> QED BY <2>1, <2>2 DEF Grown
<1>7. ASSUME NEW H, Lands(b, H) PROVE Lands(e, H)
  BY <1>1, <1>2, <1>3, <1>7 DEF Lands, Target
<1> QED BY <1>2, <1>5, <1>6, <1>7 DEF e

LEMMA ColonKeeps ==
  ASSUME Inductive, Colon
  PROVE  Inductive'
<1> DEFINE last   == code.pos - 3
           turned == last \in Top.arms /\ code.ins[last].op \in {"if_icmpeq", "ifeq"}
           next   == IF turned THEN last ELSE code.pos
           b      == IF turned
                     THEN [code EXCEPT !.ins[last].op = Opposite(@)]
                     ELSE EmitHole(code, "goto")
           p      == PatchHere(b, Top.arms \ {next})
<1> PICK f : f = [Top EXCEPT !.kind = "arm", !.hole = next, !.arms = {}]
  OBVIOUS
<1>1. /\ frames # <<>> /\ Top.kind = "labels" /\ Top \in Frame /\ Top.hole = -1
      /\ Top.kind \notin LoopKinds
      /\ IsCode(code) /\ prog \in Seq(Tokens) /\ code.pos \in Nat
      /\ "goto" \in Branches /\ "colon" \in Kinds
  BY InductiveFacts DEF Colon, TopIs, FrameShaped, LoopKinds, Branches, Kinds
<1>2. code' = EmitChunk(p, "pop", 1) /\ SetTop(f) /\ UNCHANGED insideLoop
  BY DEF Colon
<1>3. next \in Nat
  BY <1>1 DEF Frame
<1>4. /\ Grown(code, b) /\ IsCode(b) /\ b.pos >= code.pos
      /\ \A H : Lands(code, H) => Lands(b, H \cup {next})
  <2>1. CASE turned
    <3>1. b = [code EXCEPT !.ins[last].op = Opposite(@)]
      BY <2>1
    <3>2. code.ins[last].op \in {"if_icmpeq", "ifeq"} /\ IsCode(code)
      BY <1>1, <2>1
    <3> HIDE DEF last, b
    <3>3. /\ Grown(code, b) /\ IsCode(b) /\ b.pos = code.pos
          /\ \A H : Lands(code, H) => Lands(b, H)
      BY <3>1, <3>2, TurnStep
    <3> QED BY <1>1, <3>3, LandsMono
  <2>2. CASE ~turned
    <3>1. b = EmitHole(code, "goto") /\ next = code.pos
      BY <2>2
    <3> QED BY <1>1, <3>1, HoleStep
  <2> QED BY <2>1, <2>2
<1>5. /\ Grown(b, p) /\ IsCode(p) /\ p.pos = b.pos
      /\ \A H : b.pos < ShortHalf /\ Lands(b, H)
           => Lands(p, H \ (Top.arms \ {next}))
  BY <1>4, PatchStep
<1> HIDE DEF next, b, p
<1>6. /\ Grown(p, code') /\ code'.pos = p.pos + 1
      /\ \A H : Lands(p, H) => Lands(code', H)
  <2>1. 1 \in Nat \ {0} /\ "pop" \in Ops /\ "pop" \notin Branches /\ "pop" # "break"
    BY KindsAreOps
  <2> QED BY <1>1, <1>2, <1>5, <2>1, PlainStep
<1>7. Grown(code, code')
  <2>1. Grown(code, p)
    BY <1>1, <1>4, <1>5, GrownTwice
  <2> QED BY <1>1, <1>6, <2>1, GrownTwice
<1>8. /\ f \in Frame /\ f.kind = "arm" /\ f.kind \notin LoopKinds /\ f.hole = next
      /\ f.arms = {} /\ f.ends = Top.ends
  <2>1. Top \in Frame /\ next \in Int /\ "arm" \notin LoopKinds
    BY <1>1, <1>3 DEF LoopKinds
  <2> QED BY <2>1, ArmFrame
<1>9. FrameShaped(f)'
  BY <1>8 DEF FrameShaped, LoopKinds
<1>10. /\ FrameHoles(f) = {next} \cup Top.ends
       /\ FrameHoles(Top) \subseteq (Top.arms \ {next}) \cup FrameHoles(f)
  BY <1>1, <1>3, <1>8 DEF FrameHoles
<1>11. OtherTypes'
  BY <1>1, InductiveFacts, WordType DEF Colon, OtherTypes
<1>12. InRange' => Lands(code', (Holes \ (Top.arms \ {next})) \cup FrameHoles(f))
  <2> SUFFICES ASSUME InRange'
               PROVE  Lands(code', (Holes \ (Top.arms \ {next})) \cup FrameHoles(f))
    OBVIOUS
  <2>0. b.pos \in Nat
    BY <1>4 DEF IsCode
  <2>1. code.pos < ShortHalf /\ b.pos < ShortHalf
    BY <1>1, <1>4, <1>5, <1>6, <2>0, ShortAssumption DEF InRange
  <2>2. Lands(code', (Holes \cup {next}) \ (Top.arms \ {next}))
    BY <1>4, <1>5, <1>6, <2>1, InductiveFacts
  <2>3. (Holes \cup {next}) \ (Top.arms \ {next})
          \subseteq (Holes \ (Top.arms \ {next})) \cup FrameHoles(f)
    BY <1>10
  <2> QED BY <2>2, <2>3, LandsMono
<1> QED BY <1>1, <1>2, <1>7, <1>8, <1>9, <1>10, <1>11, <1>12, SetTopKept

LEMMA EndArmKeeps ==
  ASSUME Inductive, EndArm
  PROVE  Inductive'
<1> DEFINE b == EmitHole(code, "goto")
<1> PICK f : f = [Top EXCEPT !.kind = "labels", !.hole = -1,
                             !.ends = @ \cup {code.pos}]
  OBVIOUS
<1>1. /\ frames # <<>> /\ Top.kind = "arm" /\ Top \in Frame /\ Top.arms = {}
      /\ Top.kind \notin LoopKinds
      /\ IsCode(code) /\ prog \in Seq(Tokens) /\ code.pos \in Nat
      /\ "goto" \in Branches /\ "endarm" \in Kinds
  BY InductiveFacts DEF EndArm, TopIs, FrameShaped, LoopKinds, Branches, Kinds
<1>2. code' = PatchHere(b, {Top.hole}) /\ SetTop(f) /\ UNCHANGED insideLoop
  BY DEF EndArm
<1>3. /\ Grown(code, b) /\ IsCode(b) /\ b.pos = code.pos + 3
      /\ \A H : Lands(code, H) => Lands(b, H \cup {code.pos})
  BY <1>1, HoleStep
<1>4. /\ Grown(b, code') /\ code'.pos = b.pos
      /\ \A H : b.pos < ShortHalf /\ Lands(b, H) => Lands(code', H \ {Top.hole})
  BY <1>2, <1>3, PatchStep
<1> HIDE DEF b
<1>5. Grown(code, code')
  BY <1>1, <1>3, <1>4, GrownTwice
<1>6. /\ f \in Frame /\ f.kind = "labels" /\ f.kind \notin LoopKinds /\ f.hole = -1
      /\ f.arms = {} /\ f.ends = Top.ends \cup {code.pos}
  <2>1. "labels" \notin LoopKinds
    BY DEF LoopKinds
  <2> QED BY <1>1, <2>1, EndArmFrame
<1>7. FrameShaped(f)'
  BY <1>6 DEF FrameShaped, LoopKinds
<1>8. /\ FrameHoles(f) = Top.ends \cup {code.pos}
      /\ FrameHoles(Top) \subseteq {Top.hole} \cup FrameHoles(f)
  BY <1>1, <1>6 DEF FrameHoles
<1>9. OtherTypes'
  BY <1>1, InductiveFacts, WordType DEF EndArm, OtherTypes
<1>10. InRange' => Lands(code', (Holes \ {Top.hole}) \cup FrameHoles(f))
  <2> SUFFICES ASSUME InRange' PROVE Lands(code', (Holes \ {Top.hole}) \cup FrameHoles(f))
    OBVIOUS
  <2>1. code.pos < ShortHalf /\ b.pos < ShortHalf
    BY <1>1, <1>3, <1>4, ShortAssumption DEF InRange
  <2>2. Lands(code', (Holes \cup {code.pos}) \ {Top.hole})
    BY <1>3, <1>4, <2>1, InductiveFacts
  <2>3. (Holes \cup {code.pos}) \ {Top.hole} \subseteq (Holes \ {Top.hole}) \cup FrameHoles(f)
    BY <1>8
  <2> QED BY <2>2, <2>3, LandsMono
<1> QED BY <1>1, <1>2, <1>5, <1>6, <1>7, <1>8, <1>9, <1>10, SetTopKept

LEMMA CaseElseKeeps ==
  ASSUME Inductive, CaseElse
  PROVE  Inductive'
<1> PICK f : f = [Top EXCEPT !.kind = "caseelse"]
  OBVIOUS
<1>1. /\ frames # <<>> /\ Top.kind = "labels" /\ Top \in Frame /\ Top.arms = {}
      /\ Top.hole = -1 /\ Top.kind \notin LoopKinds
      /\ IsCode(code) /\ prog \in Seq(Tokens) /\ code.pos \in Nat
      /\ "caseelse" \in Kinds
  BY InductiveFacts DEF CaseElse, TopIs, FrameShaped, LoopKinds, Kinds
<1>2. /\ Grown(code, code') /\ code'.pos = code.pos + 1
      /\ \A H : Lands(code, H) => Lands(code', H)
  <2>1. 1 \in Nat \ {0} /\ "pop" \in Ops /\ "pop" \notin Branches /\ "pop" # "break"
    BY KindsAreOps
  <2> QED BY <1>1, <2>1, PlainStep DEF CaseElse
<1>3. /\ f \in Frame /\ f.kind = "caseelse" /\ f.kind \notin LoopKinds
      /\ f.hole = -1 /\ f.arms = {} /\ f.ends = Top.ends
  BY <1>1 DEF Frame, FrameKinds, LoopKinds
<1>4. FrameShaped(f)'
  BY <1>3 DEF FrameShaped, LoopKinds
<1>5. FrameHoles(Top) \subseteq {} \cup FrameHoles(f)
  BY <1>1, <1>3 DEF FrameHoles
<1>6. OtherTypes'
  BY <1>1, InductiveFacts, WordType DEF CaseElse, OtherTypes
<1>7. InRange' => Lands(code', Holes)
  BY <1>1, <1>2, InductiveFacts, ShortAssumption DEF InRange
<1>8. InRange' => Lands(code', (Holes \ {}) \cup FrameHoles(f))
  BY <1>7, LandsMono
<1>9. SetTop(f) /\ UNCHANGED insideLoop
  BY DEF CaseElse
<1> QED BY <1>1, <1>2, <1>3, <1>4, <1>5, <1>6, <1>8, <1>9, SetTopKept

LEMMA EndCaseKeeps ==
  ASSUME Inductive, EndCase
  PROVE  Inductive'
<1> DEFINE b == IF Top.kind = "labels" THEN EmitChunk(code, "pop", 1) ELSE code
<1>1. /\ frames # <<>> /\ Top.kind \in {"labels", "caseelse"} /\ Top \in Frame
      /\ Top.arms = {} /\ Top.hole = -1 /\ Top.kind \notin LoopKinds
      /\ IsCode(code) /\ prog \in Seq(Tokens) /\ code.pos \in Nat
      /\ "esac" \in Kinds
  BY InductiveFacts DEF EndCase, TopIs, FrameShaped, LoopKinds, Kinds
<1>2. code' = PatchHere(b, Top.ends) /\ Pop /\ insideLoop' = insideLoop
  BY DEF EndCase
<1>3. /\ Grown(code, b) /\ IsCode(b) /\ b.pos >= code.pos
      /\ \A H : Lands(code, H) => Lands(b, H)
  <2>1. CASE Top.kind = "labels"
    <3>1. 1 \in Nat \ {0} /\ "pop" \in Ops /\ "pop" \notin Branches /\ "pop" # "break"
      BY KindsAreOps
    <3>2. b = EmitChunk(code, "pop", 1)
      BY <2>1
    <3> QED BY <1>1, <3>1, <3>2, PlainStep
  <2>2. CASE Top.kind # "labels"
    <3>1. b = code
      BY <2>2
    <3> QED BY <1>1, <3>1 DEF Grown, Grows, NoNewBreaks, IsCode
  <2> QED BY <2>1, <2>2
<1> HIDE DEF b
<1>4. /\ Grown(b, code') /\ code'.pos = b.pos
      /\ \A H : b.pos < ShortHalf /\ Lands(b, H) => Lands(code', H \ Top.ends)
  BY <1>2, <1>3, PatchStep
<1>5. Grown(code, code')
  BY <1>1, <1>3, <1>4, GrownTwice
<1>6. FrameHoles(Top) \subseteq Top.ends
  BY <1>1 DEF FrameHoles
<1>7. OtherTypes'
  BY <1>1, InductiveFacts, WordType DEF EndCase, OtherTypes
<1>8. InRange' => Lands(code', Holes \ Top.ends)
  <2> SUFFICES ASSUME InRange' PROVE Lands(code', Holes \ Top.ends)
    OBVIOUS
  <2>1. code.pos < ShortHalf /\ b.pos < ShortHalf
    BY <1>1, <1>3, <1>4, ShortAssumption DEF InRange, IsCode
  <2> QED BY <1>3, <1>4, <2>1, InductiveFacts
<1> QED BY <1>1, <1>2, <1>5, <1>6, <1>7, <1>8, PopKept

LEMMA FinishKeeps ==
  ASSUME Inductive, NEW n \in ChunkSizes, Finish(n)
  PROVE  Inductive'
<1>1. n \in Nat \ {0}
  BY ChunkAssumption
<1>2. /\ Grown(code, code') /\ code'.pos = code.pos + n
      /\ \A H : Lands(code, H) => Lands(code', H)
  BY <1>1, InductiveFacts, KindsAreOps, PlainStep DEF Finish
<1>3. OtherTypes'
  BY InductiveFacts DEF Finish, OtherTypes
<1>4. Holes' = Holes
  BY DEF Finish, Holes
<1>5. InRange' => Lands(code, Holes)'
  BY <1>1, <1>2, <1>4, InductiveFacts, ShortAssumption DEF InRange
<1> QED BY <1>2, <1>3, <1>5, FramesKept DEF Finish

-----------------------------------------------------------------------------
(* The theorems.                                                            *)

LEMMA InitInductive == Init => Inductive
<1> SUFFICES ASSUME Init PROVE Inductive
  OBVIOUS
<1>1. /\ code = [ins |-> <<>>, pos |-> 0, depth |-> 0] /\ DOMAIN code.ins = {}
      /\ frames = <<>> /\ DOMAIN frames = {}
  BY DEF Init
<1>2. TypeOK
  <2>1. IsCode(code)
    BY <1>1 DEF IsCode
  <2>2. frames \in Seq(Frame) /\ prog \in Seq(Tokens)
    BY DEF Init
  <2>3. insideLoop \in Int
    BY DEF Init
  <2>4. inRoutine \in BOOLEAN /\ errors \in BOOLEAN /\ done \in BOOLEAN
    BY Zenon DEF Init
  <2> QED BY <2>1, <2>2, <2>3, <2>4 DEF TypeOK
<1>3. LoopsCounted
  <2>1. LoopFrames = {}
    BY <1>1 DEF LoopFrames
  <2> QED BY <2>1, FS_EmptySet DEF LoopsCounted, Init
<1>4. BreaksAwaitLoop /\ JumpsLand
  BY <1>1 DEF BreaksAwaitLoop, JumpsLand, Lands, Code
<1> QED BY <1>1, <1>2, <1>3, <1>4 DEF Inductive

LEMMA NextInductive == Inductive /\ [Next]_vars => Inductive'
<1> SUFFICES ASSUME Inductive, [Next]_vars PROVE Inductive'
  OBVIOUS
<1>1. CASE UNCHANGED vars
  BY <1>1 DEF vars, Inductive, TypeOK, FrameShaped, LoopsCounted, LoopFrames,
              BreaksAwaitLoop, JumpsLand, InRange, Code, Holes
<1>2. ASSUME NEW n \in ChunkSizes, Until(n) PROVE Inductive'
  BY <1>2, ChunkAssumption, CloseRepeatKeeps DEF Until
<1>3. CASE Forever
  BY <1>3, CloseRepeatKeeps DEF Forever
<1>4. CASE ParseStep
  BY <1>2, <1>3, <1>4, StmtKeeps, ExitKeeps, BreakKeeps, IfThenKeeps, ElseKeeps,
     EndIfKeeps, WhileDoKeeps, EndWhileKeeps, RepeatKeeps, ForDoKeeps, EndForKeeps,
     CaseOfKeeps, LabelKeeps, LabelRangeKeeps, ColonKeeps, EndArmKeeps,
     CaseElseKeeps, EndCaseKeeps, FinishKeeps DEF ParseStep
<1>5. CASE Closed
  BY <1>1, <1>5 DEF Closed
<1> QED BY <1>1, <1>4, <1>5 DEF Next

THEOREM InductiveInvariant == Spec => []Inductive
  BY InitInductive, NextInductive, PTL DEF Spec

(* The state stays well-formed: every instruction lies below bytecode_pos,  *)
(* and the stack of open statements holds what their functions need.        *)
THEOREM TypesHold == Spec => []TypeOK
<1>1. Inductive => TypeOK
  BY DEF Inductive
<1> QED BY <1>1, InductiveInvariant, PTL

(* As long as the code of a routine fits a short, every branch of it that   *)
(* parser.c has patched lands on an instruction or at the end of the code.  *)
THEOREM JumpsAlwaysLand == Spec => []JumpsLand
<1>1. Inductive => JumpsLand
  BY DEF Inductive
<1> QED BY <1>1, InductiveInvariant, PTL

(* No break mark outlives the loops around it, in code of any length: the   *)
(* scan of transform_break_stmts finds all of them.                         *)
THEOREM BreaksAreResolved == Spec => []BreaksAwaitLoop
<1>1. Inductive => BreaksAwaitLoop
  BY DEF Inductive
<1> QED BY <1>1, InductiveInvariant, PTL

(* inside_loop is the number of loops that are open.                        *)
THEOREM LoopsAreCounted == Spec => []LoopsCounted
<1>1. Inductive => LoopsCounted
  BY DEF Inductive
<1> QED BY <1>1, InductiveInvariant, PTL

LEMMA ClosedIsEmpty == Spec => [](done => frames = <<>>)
<1>1. Init => (done => frames = <<>>)
  BY DEF Init
<1>2. (done => frames = <<>>) /\ [Next]_vars => (done => frames = <<>>)'
  <2> SUFFICES ASSUME done => frames = <<>>, [Next]_vars
               PROVE  (done => frames = <<>>)'
    OBVIOUS
  <2>1. CASE UNCHANGED vars
    BY <2>1 DEF vars
  <2>2. ASSUME NEW n \in ChunkSizes, Finish(n) PROVE (done => frames = <<>>)'
    BY <2>2 DEF Finish
  <2>3. CASE ParseStep
    BY <2>2, <2>3 DEF ParseStep, Stmt, Exit, Break, IfThen, Else, EndIf, WhileDo, EndWhile,
       Repeat, Until, Forever, CloseRepeat, ForDo, EndFor, CaseOf, Label,
       LabelRange, Colon, EndArm, CaseElse, EndCase, StatementPoint
  <2>4. CASE Closed
    BY <2>1, <2>4 DEF Closed
  <2> QED BY <2>1, <2>3, <2>4 DEF Next
<1> QED BY <1>1, <1>2, PTL DEF Spec

(* The code of a closed routine holds no break mark: the internal opcode    *)
(* 250 never reaches a class file.                                          *)
THEOREM NoMarkIsWritten ==
  Spec => [](done => \A a \in Code : code.ins[a].op # "break")
<1>1. Inductive /\ (done => frames = <<>>)
        => (done => \A a \in Code : code.ins[a].op # "break")
  BY DEF Inductive, BreaksAwaitLoop, LoopFrames
<1> QED BY <1>1, ClosedIsEmpty, InductiveInvariant, PTL

-----------------------------------------------------------------------------
(* Which instructions a step may rewrite: from b to e, only break marks and *)
(* those at the addresses H.                                                *)
Leaves(b, e, H) ==
  /\ IsCode(e) /\ b.pos \in Nat /\ b.pos <= e.pos
  /\ \A a \in DOMAIN b.ins : a \notin H /\ b.ins[a].op # "break"
       => a \in DOMAIN e.ins /\ e.ins[a] = b.ins[a]

LEMMA SamePlace ==
  ASSUME NEW b, IsCode(b)
  PROVE  b.pos \in Nat /\ b.pos <= b.pos /\ \A n \in Nat : b.pos <= b.pos + n
  BY DEF IsCode

LEMMA LeavesTwice ==
  ASSUME NEW b, NEW c, NEW e, NEW H, Leaves(b, c, H), Leaves(c, e, H)
  PROVE  Leaves(b, e, H)
  BY DEF Leaves, IsCode

LEMMA EmitLeaves ==
  ASSUME NEW b, IsCode(b), NEW op \in Ops, NEW n \in Nat \ {0},
         NEW off \in Int, NEW val \in Int, prog \in Seq(Tokens), NEW H
  PROVE  Leaves(b, Emit(b, op, n, off, val), H)
<1> PICK e : e = Emit(b, op, n, off, val)
  OBVIOUS
<1>1. /\ IsCode(e) /\ e.pos = b.pos + n /\ DOMAIN e.ins = DOMAIN b.ins \cup {b.pos}
      /\ \A a \in DOMAIN b.ins : e.ins[a] = b.ins[a]
  BY EmitCode
<1>2. b.pos \in Nat /\ b.pos <= e.pos
  BY <1>1, SamePlace
<1> QED BY <1>1, <1>2 DEF Leaves

LEMMA ChunkLeaves ==
  ASSUME NEW b, IsCode(b), NEW op \in Ops, NEW n \in Nat \ {0},
         prog \in Seq(Tokens), NEW H
  PROVE  Leaves(b, EmitChunk(b, op, n), H)
<1>1. 0 \in Int
  OBVIOUS
<1> QED BY <1>1, EmitLeaves DEF EmitChunk

LEMMA HoleLeaves ==
  ASSUME NEW b, IsCode(b), NEW op \in Ops, prog \in Seq(Tokens), NEW H
  PROVE  Leaves(b, EmitHole(b, op), H)
<1>1. 0 \in Int /\ 3 \in Nat \ {0}
  OBVIOUS
<1> QED BY <1>1, EmitLeaves DEF EmitHole

LEMMA JumpLeaves ==
  ASSUME NEW b, IsCode(b), NEW op \in Ops, NEW to \in Nat, prog \in Seq(Tokens), NEW H
  PROVE  Leaves(b, EmitJump(b, op, to), H)
<1>1. 0 \in Int /\ 3 \in Nat \ {0} /\ Short(to - b.pos) \in Int
  BY ShortInt DEF IsCode
<1> QED BY <1>1, EmitLeaves DEF EmitJump

LEMMA PatchLeaves ==
  ASSUME NEW b, IsCode(b), NEW S, NEW to \in Int, NEW H, S \subseteq H
  PROVE  Leaves(b, Patch(b, S, to), H)
<1> PICK e : e = Patch(b, S, to)
  OBVIOUS
<1>1. /\ IsCode(e) /\ e.pos = b.pos /\ DOMAIN e.ins = DOMAIN b.ins
      /\ \A a \in DOMAIN b.ins : a \notin S => e.ins[a] = b.ins[a]
  BY PatchCode
<1> QED BY <1>1, SamePlace DEF Leaves

LEMMA PatchHereLeaves ==
  ASSUME NEW b, IsCode(b), NEW S, NEW H, S \subseteq H
  PROVE  Leaves(b, PatchHere(b, S), H)
<1>1. b.pos \in Int
  BY DEF IsCode
<1> QED BY <1>1, PatchLeaves DEF PatchHere

LEMMA TransformLeaves ==
  ASSUME NEW b, IsCode(b), NEW start, NEW end, NEW to \in Int, NEW H
  PROVE  Leaves(b, TransformBreaks(b, start, end, to), H)
<1> PICK e : e = TransformBreaks(b, start, end, to)
  OBVIOUS
<1>1. /\ IsCode(e) /\ e.pos = b.pos /\ DOMAIN e.ins = DOMAIN b.ins
      /\ \A a \in DOMAIN b.ins : b.ins[a].op # "break" => e.ins[a] = b.ins[a]
  BY TransformCode
<1> QED BY <1>1, SamePlace DEF Leaves

LEMMA TurnLeaves ==
  ASSUME NEW b, IsCode(b), NEW last, NEW H, last \in H,
         b.ins[last].op \in {"if_icmpeq", "ifeq"}
  PROVE  Leaves(b, [b EXCEPT !.ins[last].op = Opposite(@)], H)
<1> DEFINE e == [b EXCEPT !.ins[last].op = Opposite(@)]
<1>1. IsCode(e) /\ e.pos = b.pos
  BY TurnStep
<1>2. DOMAIN e.ins = DOMAIN b.ins /\ \A a \in DOMAIN b.ins : a # last => e.ins[a] = b.ins[a]
  BY DEF IsCode
<1> HIDE DEF e
<1>3. Leaves(b, e, H)
  BY <1>1, <1>2, SamePlace DEF Leaves
<1> QED BY <1>3 DEF e

(* What an action may rewrite: the branches its statement waits for and     *)
(* what it has just added.                                                  *)
MayRewrite(F) ==
  /\ Int \ Code \subseteq F
  /\ frames # <<>> => FrameHoles(Top) \subseteq F

LEMMA TopIsFree ==
  ASSUME Inductive, frames # <<>>, NEW F, MayRewrite(F)
  PROVE  /\ {Top.hole} \subseteq F /\ Top.arms \subseteq F /\ Top.ends \subseteq F
         /\ Top.head \in Nat /\ Top.arms \subseteq Int
<1>1. Top \in Frame /\ IsCode(code)
  BY TopFrame DEF Inductive, TypeOK
<1>2. FrameHoles(Top) \subseteq F
  BY DEF MayRewrite
<1>3. Top.hole \in Code => Top.hole >= 0
  BY <1>1 DEF IsCode, Code
<1>4. Top.arms \subseteq F /\ Top.ends \subseteq F
  BY <1>2 DEF FrameHoles
<1>5. Top.hole \in Int /\ Top.head \in Nat /\ Top.arms \subseteq Int
  BY <1>1 DEF Frame
<1>6. Top.hole \in Code => Top.hole \in F
  BY <1>2, <1>3 DEF FrameHoles
<1> QED BY <1>4, <1>5, <1>6 DEF MayRewrite

LEMMA LeavesResolved ==
  ASSUME Inductive, \A F : MayRewrite(F) => Leaves(code, code', F)
  PROVE  \A a \in Code : ~Pending(a) => code'.ins[a] = code.ins[a]
<1>1. frames # <<>> => FrameHoles(Top) \subseteq Holes
  BY TopFrame DEF Inductive, TypeOK, Holes, Top
<1>2. MayRewrite(Holes \cup (Int \ Code))
  BY <1>1 DEF MayRewrite
<1>3. Leaves(code, code', Holes \cup (Int \ Code))
  BY <1>2
<1> QED BY <1>3 DEF Leaves, Pending, Code

LEMMA OpenersLeave ==
  ASSUME Inductive, NEW F, NEW n \in Nat \ {0},
         \/ Stmt(n) \/ Exit(n) \/ Break \/ IfThen(n) \/ WhileDo(n) \/ Repeat
         \/ (\E str \in BOOLEAN : CaseOf(n, str)) \/ Finish(n) \/ CaseElse
  PROVE  Leaves(code, code', F)
<1>1. /\ IsCode(code) /\ prog \in Seq(Tokens) /\ n \in Nat \ {0} /\ 1 \in Nat \ {0}
      /\ {"stmt", "return", "halt", "break", "cond", "ifeq", "select", "pop"} \subseteq Ops
  BY InductiveFacts DEF Ops, Events, Silent, Branches
<1>2. Leaves(code, code, F)
  BY <1>1, SamePlace DEF Leaves
<1>3. \A op \in Ops, k \in Nat \ {0} : Leaves(code, EmitChunk(code, op, k), F)
  BY <1>1, ChunkLeaves
<1>4. Leaves(code, EmitHole(code, "break"), F)
  BY <1>1, HoleLeaves
<1>5. Leaves(code, EmitHole(EmitChunk(code, "cond", n), "ifeq"), F)
  <2> DEFINE test == EmitChunk(code, "cond", n)
  <2>1. Leaves(code, test, F)
    BY <1>1, <1>3
  <2>2. IsCode(test)
    BY <2>1 DEF Leaves
  <2> HIDE DEF test
  <2>3. Leaves(test, EmitHole(test, "ifeq"), F)
    BY <1>1, <2>2, HoleLeaves
  <2>4. Leaves(code, EmitHole(test, "ifeq"), F)
    BY <2>1, <2>3, LeavesTwice
  <2> QED BY <2>4 DEF test
<1> QED BY <1>1, <1>2, <1>3, <1>4, <1>5 DEF Stmt, Exit, Break, IfThen, WhileDo, Repeat,
        CaseOf, Finish, CaseElse

LEMMA ForDoLeaves ==
  ASSUME Inductive, NEW F, NEW n \in ChunkSizes, NEW dir \in Direction, ForDo(n, dir)
  PROVE  Leaves(code, code', F)
<1> DEFINE start == EmitChunk(code, "init", n)
           check == Emit(start, "limit", n, 0, dir)
           op    == IF dir = 1 THEN "if_icmplt" ELSE "if_icmpgt"
<1>1. /\ IsCode(code) /\ prog \in Seq(Tokens) /\ n \in Nat \ {0} /\ 0 \in Int
      /\ dir \in Int /\ op \in Ops /\ {"init", "limit"} \subseteq Ops
  BY InductiveFacts, ChunkAssumption DEF Ops, Events, Branches, Direction
<1>2. code' = EmitHole(check, op)
  BY DEF ForDo
<1> HIDE DEF op
<1>3. Leaves(code, start, F) /\ IsCode(start)
  BY <1>1, ChunkLeaves DEF Leaves
<1>4. Leaves(start, check, F) /\ IsCode(check)
  <2>1. Leaves(start, check, F)
    BY <1>1, <1>3, EmitLeaves
  <2> QED BY <2>1 DEF Leaves
<1>5. Leaves(check, code', F)
  BY <1>1, <1>2, <1>4, HoleLeaves
<1> QED BY <1>3, <1>4, <1>5, LeavesTwice

LEMMA IfPartsLeave ==
  ASSUME Inductive, NEW F, MayRewrite(F), Else \/ EndIf
  PROVE  Leaves(code, code', F)
<1> DEFINE p == Patch(code, {Top.hole}, code.pos + 3)
<1>1. /\ IsCode(code) /\ prog \in Seq(Tokens) /\ {Top.hole} \subseteq F
      /\ "goto" \in Ops /\ code.pos + 3 \in Int
  BY InductiveFacts, TopIsFree DEF Else, EndIf, TopIs, Ops, Branches, IsCode
<1>2. Leaves(code, p, F) /\ IsCode(p)
  <2>1. Leaves(code, p, F)
    BY <1>1, PatchLeaves
  <2> QED BY <2>1 DEF Leaves
<1> HIDE DEF p
<1>3. Leaves(p, EmitHole(p, "goto"), F)
  BY <1>1, <1>2, HoleLeaves
<1>4. Leaves(code, EmitHole(p, "goto"), F)
  BY <1>2, <1>3, LeavesTwice
<1>5. Leaves(code, PatchHere(code, {Top.hole}), F)
  BY <1>1, PatchHereLeaves
<1> QED BY <1>4, <1>5 DEF Else, EndIf, p

(* A loop is closed: its jump back, its exit branch, its break marks.       *)
LEMMA CloserLeaves ==
  ASSUME NEW F, NEW b, Leaves(code, b, F), NEW start, NEW end, NEW S,
         S \subseteq F
  PROVE  /\ Leaves(code, TransformBreaks(b, start, end, b.pos), F)
         /\ LET p == PatchHere(b, S)
            IN Leaves(code, TransformBreaks(p, start, end, p.pos), F)
<1>1. ASSUME NEW c, Leaves(code, c, F)
      PROVE  Leaves(code, TransformBreaks(c, start, end, c.pos), F)
  <2>1. IsCode(c) /\ c.pos \in Int
    BY <1>1 DEF Leaves, IsCode
  <2>2. Leaves(c, TransformBreaks(c, start, end, c.pos), F)
    BY <2>1, TransformLeaves
  <2> QED BY <1>1, <2>2, LeavesTwice
<1>2. IsCode(b)
  BY DEF Leaves
<1>3. Leaves(b, PatchHere(b, S), F)
  BY <1>2, PatchHereLeaves
<1>4. Leaves(code, PatchHere(b, S), F)
  BY <1>3, LeavesTwice
<1> QED BY <1>1, <1>4

LEMMA JumpBackLeaves ==
  ASSUME Inductive, NEW F, MayRewrite(F), frames # <<>>,
         NEW op \in Ops, NEW jop \in Ops, NEW n \in Nat \ {0}
  PROVE  /\ Leaves(code, EmitJump(code, jop, Top.head), F)
         /\ Leaves(code, EmitJump(EmitChunk(code, op, n), jop, Top.head), F)
<1>1. IsCode(code) /\ prog \in Seq(Tokens) /\ Top.head \in Nat
  BY InductiveFacts, TopIsFree
<1>2. Leaves(code, EmitChunk(code, op, n), F) /\ IsCode(EmitChunk(code, op, n))
  BY <1>1, ChunkLeaves DEF Leaves
<1>3. Leaves(EmitChunk(code, op, n), EmitJump(EmitChunk(code, op, n), jop, Top.head), F)
  BY <1>1, <1>2, JumpLeaves
<1> QED BY <1>1, <1>2, <1>3, JumpLeaves, LeavesTwice

LEMMA LoopEndsLeave ==
  ASSUME Inductive, NEW F, MayRewrite(F), NEW n \in Nat \ {0},
         EndWhile \/ EndFor(n) \/ CloseRepeat("until", "cond", n)
           \/ CloseRepeat("forever", "false", n)
  PROVE  Leaves(code, code', F)
<1>1. /\ frames # <<>> /\ {"incr", "cond", "false", "goto", "ifeq"} \subseteq Ops
  BY DEF EndWhile, EndFor, CloseRepeat, TopIs, Ops, Events, Silent, Branches
<1>2. {Top.hole} \subseteq F
  BY <1>1, TopIsFree
<1>3. CASE EndWhile
  BY <1>1, <1>2, <1>3, JumpBackLeaves, CloserLeaves DEF EndWhile
<1>4. CASE EndFor(n)
  BY <1>1, <1>2, <1>4, JumpBackLeaves, CloserLeaves DEF EndFor
<1>5. CASE CloseRepeat("until", "cond", n) \/ CloseRepeat("forever", "false", n)
  BY <1>1, <1>2, <1>5, JumpBackLeaves, CloserLeaves DEF CloseRepeat
<1> QED BY <1>3, <1>4, <1>5

LEMMA LabelsLeave ==
  ASSUME Inductive, NEW F, MayRewrite(F), NEW n \in ChunkSizes,
         NEW lo \in Values, NEW hi \in Values,
         Label(n, lo) \/ LabelRange(n, lo, hi)
  PROVE  Leaves(code, code', F)
<1>1. /\ IsCode(code) /\ prog \in Seq(Tokens) /\ n \in Nat \ {0} /\ 0 \in Int
      /\ lo \in Int /\ hi \in Int
      /\ {"label", "strlabel", "ifeq", "if_icmpeq", "if_icmplt", "if_icmple"} \subseteq Ops
  BY InductiveFacts, ChunkAssumption, ValuesAssumption DEF Ops, Silent, Branches
<1>2. ASSUME NEW b, IsCode(b), NEW op \in Ops, NEW v \in Int, NEW jop \in Ops
      PROVE  LET e == EmitHole(Emit(b, op, n, 0, v), jop)
             IN IsCode(e) /\ Leaves(b, e, F)
  <2> DEFINE t == Emit(b, op, n, 0, v)
  <2>1. Leaves(b, t, F)
    BY <1>1, <1>2, EmitLeaves
  <2>2. IsCode(t)
    BY <2>1 DEF Leaves
  <2> HIDE DEF t
  <2>3. Leaves(t, EmitHole(t, jop), F)
    BY <1>1, <2>2, HoleLeaves
  <2>4. Leaves(b, EmitHole(t, jop), F)
    BY <2>1, <2>3, LeavesTwice
  <2> QED BY <2>4 DEF t, Leaves
<1>3. CASE Label(n, lo)
  BY <1>1, <1>2, <1>3 DEF Label
<1>4. CASE LabelRange(n, lo, hi)
  <2> DEFINE low  == Emit(code, "label", n, 0, lo)
             skip == EmitHole(low, "if_icmplt")
             high == Emit(skip, "label", n, 0, hi)
             both == EmitHole(high, "if_icmple")
  <2>1. code' = PatchHere(both, {low.pos})
    BY <1>4 DEF LabelRange
  <2>2. {low.pos} \subseteq F
    <3>1. low.pos = code.pos + n /\ low.pos \in Int
      <4>0. "label" \in Ops /\ 0 \in Int /\ lo \in Int
        BY <1>1
      <4>1. low.pos = code.pos + n /\ IsCode(low)
        BY <1>1, <4>0, EmitCode
      <4> QED BY <4>1 DEF IsCode
    <3>2. low.pos \notin Code
      BY <1>1, <3>1 DEF IsCode, Code
    <3> QED BY <3>1, <3>2 DEF MayRewrite
  <2>3. IsCode(skip) /\ Leaves(code, skip, F)
    BY <1>1, <1>2
  <2> HIDE DEF skip
  <2>4. IsCode(both) /\ Leaves(skip, both, F)
    BY <1>1, <1>2, <2>3
  <2> HIDE DEF low, both
  <2>5. Leaves(both, code', F)
    BY <2>1, <2>2, <2>4, PatchHereLeaves
  <2> QED BY <2>3, <2>4, <2>5, LeavesTwice
<1> QED BY <1>3, <1>4

LEMMA ColonLeaves ==
  ASSUME Inductive, NEW F, MayRewrite(F), Colon
  PROVE  Leaves(code, code', F)
<1> DEFINE last   == code.pos - 3
           turned == last \in Top.arms /\ code.ins[last].op \in {"if_icmpeq", "ifeq"}
           next   == IF turned THEN last ELSE code.pos
           b      == IF turned
                     THEN [code EXCEPT !.ins[last].op = Opposite(@)]
                     ELSE EmitHole(code, "goto")
           p      == PatchHere(b, Top.arms \ {next})
<1>1. /\ frames # <<>> /\ IsCode(code) /\ prog \in Seq(Tokens) /\ 1 \in Nat \ {0}
      /\ "goto" \in Ops /\ "pop" \in Ops
  BY InductiveFacts DEF Colon, TopIs, Ops, Branches, Silent
<1>2. code' = EmitChunk(p, "pop", 1)
  BY DEF Colon
<1>3. Top.arms \subseteq F
  BY <1>1, TopIsFree
<1>4. Leaves(code, b, F)
  <2>1. CASE turned
    <3>1. b = [code EXCEPT !.ins[last].op = Opposite(@)]
      BY <2>1
    <3>2. code.ins[last].op \in {"if_icmpeq", "ifeq"} /\ last \in F
      BY <1>3, <2>1
    <3> HIDE DEF last, b
    <3> QED BY <1>1, <3>1, <3>2, TurnLeaves
  <2>2. CASE ~turned
    <3>1. b = EmitHole(code, "goto")
      BY <2>2
    <3> QED BY <1>1, <3>1, HoleLeaves
  <2> QED BY <2>1, <2>2
<1> HIDE DEF b, next
<1>5. Leaves(b, p, F)
  <2>1. IsCode(b) /\ Top.arms \ {next} \subseteq F
    BY <1>3, <1>4 DEF Leaves
  <2> QED BY <2>1, PatchHereLeaves
<1> HIDE DEF p
<1>6. Leaves(p, code', F)
  <2>1. IsCode(p)
    BY <1>5 DEF Leaves
  <2> QED BY <1>1, <1>2, <2>1, ChunkLeaves
<1> QED BY <1>4, <1>5, <1>6, LeavesTwice

LEMMA CaseEndsLeave ==
  ASSUME Inductive, NEW F, MayRewrite(F), EndArm \/ EndCase
  PROVE  Leaves(code, code', F)
<1>1. /\ frames # <<>> /\ IsCode(code) /\ prog \in Seq(Tokens) /\ 1 \in Nat \ {0}
      /\ "goto" \in Ops /\ "pop" \in Ops
  BY InductiveFacts DEF EndArm, EndCase, TopIs, Ops, Branches, Silent
<1>2. {Top.hole} \subseteq F /\ Top.ends \subseteq F
  BY <1>1, TopIsFree
<1>3. ASSUME NEW b, Leaves(code, b, F), NEW S, S \subseteq F
      PROVE  Leaves(code, PatchHere(b, S), F)
  <2>1. IsCode(b)
    BY <1>3 DEF Leaves
  <2>2. Leaves(b, PatchHere(b, S), F)
    BY <1>3, <2>1, PatchHereLeaves
  <2> QED BY <1>3, <2>2, LeavesTwice
<1>4. /\ Leaves(code, EmitHole(code, "goto"), F) /\ Leaves(code, code, F)
      /\ Leaves(code, EmitChunk(code, "pop", 1), F)
  BY <1>1, HoleLeaves, ChunkLeaves, SamePlace DEF Leaves
<1>5. CASE EndArm
  BY <1>2, <1>3, <1>4, <1>5 DEF EndArm
<1>6. CASE EndCase
  BY <1>2, <1>3, <1>4, <1>6 DEF EndCase
<1> QED BY <1>5, <1>6

LEMMA StepLeaves ==
  ASSUME Inductive, ParseStep, NEW F, MayRewrite(F)
  PROVE  Leaves(code, code', F)
<1>1. 1 \in Nat \ {0} /\ ChunkSizes \subseteq Nat \ {0}
  BY ChunkAssumption
<1>2. CASE Break \/ Repeat \/ CaseElse
  BY <1>1, <1>2, OpenersLeave
<1>3. ASSUME NEW n \in ChunkSizes,
             Stmt(n) \/ Exit(n) \/ IfThen(n) \/ WhileDo(n) \/ Finish(n)
      PROVE  Leaves(code, code', F)
  BY <1>1, <1>3, OpenersLeave
<1>4. ASSUME NEW n \in ChunkSizes, NEW str \in BOOLEAN, CaseOf(n, str)
      PROVE  Leaves(code, code', F)
  BY <1>1, <1>4, OpenersLeave
<1>5. ASSUME NEW n \in ChunkSizes, Until(n) \/ EndFor(n)
      PROVE  Leaves(code, code', F)
  BY <1>1, <1>5, LoopEndsLeave DEF Until
<1>6. CASE Forever \/ EndWhile
  BY <1>1, <1>6, LoopEndsLeave DEF Forever
<1>7. ASSUME NEW n \in ChunkSizes, NEW lo \in Values, NEW hi \in Values,
             Label(n, lo) \/ LabelRange(n, lo, hi)
      PROVE  Leaves(code, code', F)
  BY <1>7, LabelsLeave
<1> QED
  BY <1>2, <1>3, <1>4, <1>5, <1>6, <1>7, ForDoLeaves, IfPartsLeave,
     ColonLeaves, CaseEndsLeave DEF ParseStep

(* An instruction that has been resolved is never rewritten: the only ones  *)
(* that change are break marks and branches some open statement still holds *)
(* the address of.                                                          *)
THEOREM ResolvedStaysAlways == Spec => ResolvedStays
<1>1. Inductive /\ [Next]_vars
        => [\A a \in Code : ~Pending(a) => code'.ins[a] = code.ins[a]]_vars
  <2> SUFFICES ASSUME Inductive, Next
               PROVE  \/ \A a \in Code : ~Pending(a) => code'.ins[a] = code.ins[a]
                      \/ UNCHANGED vars
    OBVIOUS
  <2>1. CASE Closed
    BY <2>1 DEF Closed
  <2>2. CASE ParseStep
    BY <2>2, StepLeaves, LeavesResolved
  <2> QED BY <2>1, <2>2 DEF Next
<1> QED BY <1>1, InductiveInvariant, PTL DEF Spec, ResolvedStays

-----------------------------------------------------------------------------
(* The depths in a piece of code in which the branches in H are waiting.    *)

Points(b)     == DOMAIN b.ins \cup {b.pos}
DepthOf(b, x) == IF x = b.pos THEN DepthHere(b) ELSE b.ins[x].d

(* An instruction finds its operands.  Those that stand for whole           *)
(* statements find nothing, and a label finds the selector alone.           *)
Fitting(op, d) ==
  \/ d = Dead
  \/ /\ d \in Nat /\ d + Effect(op) \in Nat
     /\ op \in {"stmt", "init", "return", "halt", "break"} => d = 0
     /\ op \in {"label", "strlabel"} => d = 1

SoundAt(b, H, a) ==
  /\ Fitting(b.ins[a].op, b.ins[a].d)
  /\ a + b.ins[a].len \in Points(b)
  /\ IF a \in H THEN b.ins[a].op \in Branches /\ b.ins[a].off = 0
     ELSE b.ins[a].op \in Branches => Target(b, a) \in Points(b)
  /\ b.ins[a].d # Dead =>
       /\ b.ins[a].op \notin Transfers
            => DepthOf(b, a + b.ins[a].len) = DepthOut(b.ins[a])
       /\ b.ins[a].op \in Branches /\ a \notin H
            => DepthOf(b, Target(b, a)) = DepthOut(b.ins[a])

Sound(b, H) ==
  /\ H \subseteq DOMAIN b.ins
  /\ \A a \in DOMAIN b.ins : SoundAt(b, H, a)
  /\ 0 \in Points(b) /\ DepthOf(b, 0) = 0

(* The place x, to which a loop will go back, is reached with an empty      *)
(* stack, or nothing from there on is reached at all.                       *)
DeadFrom(b, x) ==
  /\ DepthHere(b) = Dead
  /\ \A a \in DOMAIN b.ins : a >= x => b.ins[a].d = Dead

HeadSound(b, x) ==
  /\ x \in Points(b)
  /\ \/ DepthOf(b, x) = 0
     \/ DepthOf(b, x) = Dead /\ DeadFrom(b, x)

(* With the branches in H waiting, and loops that go back to the places X.  *)
Coherent(b, H, X) == IsCode(b) /\ Sound(b, H) /\ \A x \in X : HeadSound(b, x)

-----------------------------------------------------------------------------
(* The depths with which open statements count.                             *)

Heads == {frames[i].head : i \in LoopFrames}

Waits(a, k) == DepthOut(code.ins[a]) \in {Dead, k}

FrameSound(f) ==
  /\ f.kind \in {"if", "else", "while", "for"} => f.hole >= 0 /\ Waits(f.hole, 0)
  /\ f.kind = "arm" => f.hole >= 0 /\ Waits(f.hole, 1)
  /\ \A h \in f.arms : Waits(h, 1)
  /\ \A h \in f.ends : Waits(h, 0)
  /\ f.hole \notin f.arms \cup f.ends /\ f.arms \cap f.ends = {}
  /\ f.kind \in LoopKinds => f.brk >= f.head /\ \A h \in FrameHoles(f) : h >= f.head

(* Of two open statements f is around g: they wait for different branches,  *)
(* and those of g are in the loop f.                                        *)
Around(f, g) ==
  /\ FrameHoles(f) \cap FrameHoles(g) = {}
  /\ f.kind # "labels"
  /\ f.kind \in LoopKinds =>
       /\ \A h \in FrameHoles(g) : h >= f.head
       /\ g.kind \in LoopKinds => g.brk >= f.head

(* The depth between two statements, and between two arms of a case.        *)
Rest == IF TopIs({"labels"}) THEN 1 ELSE 0

Depths ==
  /\ Coherent(code, Holes, Heads)
  /\ \A i \in DOMAIN frames : FrameSound(frames[i])
  /\ \A i, j \in DOMAIN frames : i < j => Around(frames[i], frames[j])
  /\ DepthHere(code) \in {Dead, Rest}
  /\ done => frames = <<>> /\ DepthHere(code) = Dead

DepthInductive == Inductive /\ (InRange => Depths)

-----------------------------------------------------------------------------
(* What is known of the depth behind a piece of code.                       *)

LEMMA FittingOut ==
  ASSUME NEW i \in Instr, Fitting(i.op, i.d)
  PROVE  /\ i.d \in Nat \cup {Dead}
         /\ i.d # Dead => DepthOut(i) \in Nat /\ DepthOut(i) # Dead
         /\ i.d = Dead => DepthOut(i) = Dead
  BY DEF Fitting, DepthOut, Dead

LEMMA CodeFacts ==
  ASSUME NEW b, IsCode(b)
  PROVE  /\ b.pos \in Nat /\ b.pos \notin DOMAIN b.ins
         /\ b.depth \in Int
         /\ \A a \in DOMAIN b.ins : a \in Nat /\ a < b.pos /\ b.ins[a] \in Instr
                                     /\ Target(b, a) = a + b.ins[a].off
  BY DEF IsCode, Target

(* Branches that arrive at the end arrive with the depth there; a waiting   *)
(* one still names itself.                                                  *)
LEMMA ArrivingHere ==
  ASSUME NEW b, NEW H, IsCode(b), Sound(b, H)
  PROVE  /\ Arriving(b) \subseteq {DepthHere(b)}
         /\ Dead \notin Arriving(b)
         /\ DepthHere(b) = Dead => Arriving(b) = {} /\ b.depth = Dead
         /\ b.depth # Dead => DepthHere(b) = b.depth
         /\ \A x \in Arriving(b) : x = DepthHere(b)
<1>1. ASSUME NEW x \in Arriving(b)
      PROVE  x = DepthHere(b) /\ x # Dead
  <2>1. PICK a \in DOMAIN b.ins : /\ x = DepthOut(b.ins[a])
                                  /\ b.ins[a].op \in Branches /\ b.ins[a].d # Dead
                                  /\ Target(b, a) = b.pos
    BY <1>1 DEF Arriving
  <2>2. a \in Nat /\ a < b.pos /\ b.pos \in Nat /\ Target(b, a) = a + b.ins[a].off
        /\ b.ins[a] \in Instr
    BY CodeFacts
  <2>3. SoundAt(b, H, a)
    BY DEF Sound
  <2>4. a \notin H
    BY <2>1, <2>2, <2>3 DEF SoundAt
  <2>5. DepthOf(b, b.pos) = DepthOut(b.ins[a])
    BY <2>1, <2>3, <2>4 DEF SoundAt
  <2>6. DepthOut(b.ins[a]) # Dead
    BY <2>1, <2>2, <2>3, FittingOut DEF SoundAt
  <2> QED BY <2>1, <2>5, <2>6 DEF DepthOf
<1>2. b.depth # Dead => DepthHere(b) = b.depth
  BY DEF DepthHere
<1>3. DepthHere(b) = Dead => b.depth = Dead
  BY <1>2
<1> QED BY <1>1, <1>2, <1>3

(* The depth at the end, where it is known with which depths one arrives.   *)
LEMMA HereKnown ==
  ASSUME NEW b, NEW k, Arriving(b) \subseteq {k}, b.depth \in {Dead, k}
  PROVE  /\ DepthHere(b) \in {Dead, k}
         /\ b.depth # Dead => DepthHere(b) = b.depth
         /\ k \in Arriving(b) => DepthHere(b) = k
         /\ b.depth = Dead /\ Arriving(b) = {} => DepthHere(b) = Dead
<1>1. CASE Arriving(b) = {}
  BY <1>1 DEF DepthHere
<1>2. CASE Arriving(b) # {}
  <2>1. Arriving(b) = {k}
    BY <1>2
  <2>2. (CHOOSE x \in Arriving(b) : TRUE) = k
    BY <2>1
  <2> QED BY <2>1, <2>2 DEF DepthHere
<1> QED BY <1>1, <1>2

-----------------------------------------------------------------------------
(* An instruction is appended.                                              *)

Appended(b, e, op, n, off) ==
  /\ IsCode(e) /\ e.pos = b.pos + n
  /\ DOMAIN e.ins = DOMAIN b.ins \cup {b.pos}
  /\ \A a \in DOMAIN b.ins : e.ins[a] = b.ins[a]
  /\ e.ins[b.pos].op = op /\ e.ins[b.pos].off = off
  /\ e.ins[b.pos].len = n /\ e.ins[b.pos].d = DepthHere(b)
  /\ op \in Transfers => e.depth = Dead
  /\ op \notin Transfers => e.depth = DepthOut(e.ins[b.pos])

LEMMA EmitFields ==
  ASSUME NEW b, IsCode(b), NEW op \in Ops, NEW n \in Nat \ {0},
         NEW off \in Int, NEW val \in Int, prog \in Seq(Tokens),
         NEW e, e = Emit(b, op, n, off, val)
  PROVE  Appended(b, e, op, n, off)
<1>1. /\ IsCode(e) /\ e.pos = b.pos + n
      /\ DOMAIN e.ins = DOMAIN b.ins \cup {b.pos}
      /\ \A a \in DOMAIN b.ins : e.ins[a] = b.ins[a]
  BY EmitCode
<1> DEFINE new == [op |-> op, len |-> n, off |-> off, val |-> val,
                   tok |-> Len(prog) + 1, d |-> DepthHere(b)]
<1>2. e = [ins   |-> [a \in DOMAIN b.ins \cup {b.pos} |->
                        IF a = b.pos THEN new ELSE b.ins[a]],
           pos   |-> b.pos + n,
           depth |-> IF op \in Transfers THEN Dead ELSE DepthOut(new)]
  BY DEF Emit
<1> HIDE DEF new
<1>3. e.ins[b.pos] = new /\ e.depth = (IF op \in Transfers THEN Dead ELSE DepthOut(new))
  BY <1>2
<1>4. new.op = op /\ new.len = n /\ new.off = off /\ new.d = DepthHere(b)
  BY DEF new
<1> QED BY <1>1, <1>3, <1>4 DEF Appended

(* The depths of the old places stay what they were; at the new end the     *)
(* depth is that behind the instruction, since no branch goes there yet.    *)
Extended(b, e) ==
  /\ \A x \in Points(b) : x \in DOMAIN e.ins /\ DepthOf(e, x) = DepthOf(b, x)
  /\ DepthHere(e) = e.depth
  /\ DepthOf(e, e.pos) = e.depth

LEMMA EmitDepths ==
  ASSUME NEW b, NEW H, IsCode(b), Sound(b, H), prog \in Seq(Tokens),
         NEW op \in Ops, NEW n \in Nat \ {0}, NEW off \in Int, NEW val \in Int,
         b.pos + off \in Points(b),
         NEW e, e = Emit(b, op, n, off, val)
  PROVE  Extended(b, e)
<1>1. /\ IsCode(e) /\ e.pos = b.pos + n
      /\ DOMAIN e.ins = DOMAIN b.ins \cup {b.pos}
      /\ \A a \in DOMAIN b.ins : e.ins[a] = b.ins[a]
      /\ e.ins[b.pos].off = off
      /\ e.ins[b.pos].d = DepthHere(b)
  BY EmitFields DEF Appended
<1>2. b.pos \in Nat /\ b.pos < e.pos
  BY <1>1, CodeFacts
<1>3. ASSUME NEW x \in Points(b)
      PROVE  x \in DOMAIN e.ins /\ DepthOf(e, x) = DepthOf(b, x)
  <2>1. x \in DOMAIN e.ins
    BY <1>1 DEF Points
  <2>2. x # e.pos
    BY <1>1, <2>1, CodeFacts
  <2>3. CASE x = b.pos
    BY <1>1, <2>2, <2>3 DEF DepthOf
  <2>4. CASE x # b.pos
    BY <1>1, <2>2, <2>4 DEF DepthOf, Points
  <2> QED BY <2>1, <2>3, <2>4
<1>4. ASSUME NEW a \in DOMAIN e.ins, e.ins[a].op \in Branches
      PROVE  Target(e, a) # e.pos
  <2>1. CASE a \in DOMAIN b.ins
    <3>1. SoundAt(b, H, a) /\ a \in Nat /\ a < b.pos
          /\ Target(b, a) = a + b.ins[a].off
      BY <2>1, CodeFacts DEF Sound
    <3>2. Target(e, a) = Target(b, a) /\ b.ins[a].op \in Branches
      BY <1>1, <1>4, <2>1 DEF Target
    <3>3. CASE a \in H
      BY <1>2, <3>1, <3>2, <3>3 DEF SoundAt
    <3>4. CASE a \notin H
      <4>1. Target(b, a) \in Points(b)
        BY <3>1, <3>2, <3>4 DEF SoundAt
      <4>2. \A x \in Points(b) : x # e.pos
        BY <1>2, CodeFacts DEF Points
      <4> QED BY <3>2, <4>1, <4>2
    <3> QED BY <3>3, <3>4
  <2>2. CASE a = b.pos
    <3>1. Target(e, a) \in DOMAIN b.ins \cup {b.pos}
      BY <1>1, <2>2 DEF Target, Points
    <3> QED BY <1>2, <3>1, CodeFacts
  <2> QED BY <1>1, <2>1, <2>2
<1>5. Arriving(e) = {}
  BY <1>4 DEF Arriving
<1>6. DepthHere(e) = e.depth
  BY <1>5 DEF DepthHere
<1> QED BY <1>3, <1>6 DEF DepthOf, Extended

(* The depth behind an instruction that finds the depth d.                  *)
Behind(op, d) == IF d = Dead \/ op \in Transfers THEN Dead ELSE d + Effect(op)

LEMMA EmitBehind ==
  ASSUME NEW b, NEW e, NEW op, NEW n, NEW off, Appended(b, e, op, n, off)
  PROVE  e.depth = Behind(op, DepthHere(b))
  BY DEF Appended, Behind, DepthOut

(* The branches in G wait when an instruction has been appended to code in  *)
(* which those in H wait: a branch with a placeholder waits, too; one with  *)
(* an offset goes to a place with the depth that it leaves.                 *)
NowWaiting(b, H, G, op, off) ==
  \/ op \notin Branches /\ G = H /\ off = 0
  \/ op \in Branches /\ G = H \cup {b.pos} /\ off = 0
  \/ /\ op \in Branches /\ G = H
     /\ b.pos + off \in Points(b)
     /\ DepthHere(b) # Dead => DepthOf(b, b.pos + off) = DepthHere(b) + Effect(op)

LEMMA EmitSound ==
  ASSUME NEW b, NEW H, NEW X, Coherent(b, H, X), prog \in Seq(Tokens),
         NEW op \in Ops, NEW n \in Nat \ {0}, NEW off \in Int, NEW val \in Int,
         Fitting(op, DepthHere(b)),
         NEW G, NowWaiting(b, H, G, op, off),
         NEW e, e = Emit(b, op, n, off, val)
  PROVE  /\ Coherent(e, G, X)
         /\ DepthHere(e) = Behind(op, DepthHere(b))
<1>0. /\ H = G \ {b.pos} /\ G \subseteq H \cup {b.pos}
      /\ b.pos \in G => op \in Branches /\ off = 0
      /\ b.pos + off \in Points(b)
      /\ b.pos \notin G /\ op \in Branches /\ DepthHere(b) # Dead
           => DepthOf(b, b.pos + off) = DepthHere(b) + Effect(op)
  <2>1. b.pos \in Nat /\ b.pos \notin H /\ b.pos \in Points(b)
    BY CodeFacts DEF Coherent, Sound, Points
  <2>2. off = 0 => b.pos + off = b.pos
    BY <2>1
  <2> QED BY <2>1, <2>2 DEF NowWaiting
<1>1. Appended(b, e, op, n, off)
  BY EmitFields DEF Coherent
<1>2. /\ IsCode(b) /\ Sound(b, H) /\ b.pos + off \in DOMAIN b.ins \cup {b.pos}
      /\ IsCode(e) /\ e.pos = b.pos + n
      /\ b.pos \in Nat /\ b.pos \notin DOMAIN b.ins /\ H \subseteq DOMAIN b.ins
      /\ \A a \in DOMAIN b.ins : e.ins[a] = b.ins[a]
      /\ DOMAIN e.ins = DOMAIN b.ins \cup {b.pos}
  BY <1>0, <1>1, CodeFacts DEF Coherent, Points, Appended, Sound
<1>3. /\ \A x \in Points(b) : x \in DOMAIN e.ins /\ DepthOf(e, x) = DepthOf(b, x)
      /\ DepthHere(e) = e.depth /\ DepthOf(e, e.pos) = e.depth
  <2>1. Extended(b, e)
    BY <1>0, <1>2, EmitDepths
  <2> QED BY <2>1 DEF Extended
<1>4. e.depth = Behind(op, DepthHere(b))
  BY <1>1, EmitBehind
<1>5. ASSUME NEW a \in DOMAIN b.ins PROVE SoundAt(e, G, a)
  <2>1. SoundAt(b, H, a) /\ e.ins[a] = b.ins[a] /\ (a \in G <=> a \in H)
    BY <1>0, <1>2 DEF Sound
  <2>2. Target(e, a) = Target(b, a)
    BY <2>1 DEF Target
  <2>3. Points(b) \subseteq Points(e)
    BY <1>3 DEF Points
  <2>4. a + b.ins[a].len \in Points(b)
    BY <2>1 DEF SoundAt
  <2> QED BY <1>3, <2>1, <2>2, <2>3, <2>4 DEF SoundAt
<1>6. SoundAt(e, G, b.pos)
  <2>1. /\ e.ins[b.pos].op = op /\ e.ins[b.pos].d = DepthHere(b)
        /\ e.ins[b.pos].off = off /\ e.ins[b.pos].len = n
    BY <1>1 DEF Appended
  <2>2. Fitting(e.ins[b.pos].op, e.ins[b.pos].d)
    BY <2>1
  <2>3. b.pos + e.ins[b.pos].len = e.pos /\ e.pos \in Points(e)
    BY <1>2, <2>1 DEF Points
  <2>4. Target(e, b.pos) = b.pos + off /\ Target(e, b.pos) \in Points(e)
        /\ DepthOf(e, Target(e, b.pos)) = DepthOf(b, b.pos + off)
    BY <1>0, <1>3, <2>1 DEF Target, Points
  <2>5. e.ins[b.pos].d # Dead =>
          /\ DepthOut(e.ins[b.pos]) = DepthHere(b) + Effect(op)
          /\ op \notin Transfers => DepthOut(e.ins[b.pos]) = e.depth
    BY <1>4, <2>1 DEF DepthOut, Behind
  <2>8. e.ins[b.pos].d # Dead /\ op \in Branches /\ b.pos \notin G
        => DepthOf(e, Target(e, b.pos)) = DepthOut(e.ins[b.pos])
    BY <1>0, <2>1, <2>4, <2>5
  <2>9. op \notin Transfers /\ e.ins[b.pos].d # Dead
        => DepthOf(e, b.pos + e.ins[b.pos].len) = DepthOut(e.ins[b.pos])
    BY <1>3, <2>3, <2>5
  <2> QED BY <1>0, <2>1, <2>2, <2>3, <2>4, <2>8, <2>9 DEF SoundAt
<1>7. 0 \in Points(e) /\ DepthOf(e, 0) = 0
  BY <1>2, <1>3 DEF Sound, Points
<1>8. Sound(e, G)
  BY <1>0, <1>2, <1>5, <1>6, <1>7 DEF Sound
<1>9. ASSUME NEW x \in X PROVE HeadSound(e, x)
  <2>1. HeadSound(b, x) /\ x \in Points(b)
    BY DEF Coherent, HeadSound
  <2>2. x \in Points(e) /\ DepthOf(e, x) = DepthOf(b, x)
    BY <1>3, <2>1 DEF Points
  <2>3. DeadFrom(b, x) => DeadFrom(e, x)
    BY <1>1, <1>2, <1>3, <1>4 DEF DeadFrom, Behind, Appended
  <2> QED BY <2>1, <2>2, <2>3 DEF HeadSound
<1> QED BY <1>2, <1>3, <1>4, <1>8, <1>9 DEF Coherent

(* What is waiting keeps its address while another branch is resolved:      *)
(* the branches and break marks in S are pointed at the end of the code.    *)
Resolved(b, e, S) ==
  /\ IsCode(e) /\ e.pos = b.pos /\ e.depth = b.depth
  /\ DOMAIN e.ins = DOMAIN b.ins
  /\ \A a \in DOMAIN b.ins \ S : e.ins[a] = b.ins[a]
  /\ \A a \in DOMAIN b.ins \cap S :
       /\ e.ins[a].d = b.ins[a].d /\ e.ins[a].len = b.ins[a].len
       /\ Target(e, a) = b.pos
       /\ e.ins[a].op \in Branches
       /\ \/ e.ins[a].op = b.ins[a].op
          \/ e.ins[a].op = "goto" /\ b.ins[a].op = "break"

(* What is resolved was waiting or is a mark, and leaves with the depth k;  *)
(* no loop goes back to a place behind it.                                  *)
Resolvable(b, H, X, S, k) ==
  /\ S \subseteq DOMAIN b.ins
  /\ \A a \in S \ H : b.ins[a].op = "break"
  /\ \A a \in S : DepthOut(b.ins[a]) \in {Dead, k}
  /\ DepthHere(b) \in {Dead, k}
  /\ \A x \in X, a \in S : a >= x

LEMMA ResolveSound ==
  ASSUME NEW b, NEW H, NEW X, Coherent(b, H, X), NEW S, NEW k \in Nat,
         Resolvable(b, H, X, S, k), NEW e, Resolved(b, e, S)
  PROVE  Coherent(e, H \ S, X) /\ DepthHere(e) \in {Dead, k}
<1>1. /\ IsCode(b) /\ Sound(b, H) /\ IsCode(e) /\ e.pos = b.pos /\ e.depth = b.depth
      /\ DOMAIN e.ins = DOMAIN b.ins /\ Points(e) = Points(b)
      /\ H \subseteq DOMAIN b.ins
  BY DEF Coherent, Resolved, Points, Sound
<1>r. /\ S \subseteq DOMAIN b.ins
      /\ \A a \in S \ H : b.ins[a].op = "break"
      /\ \A a \in S : DepthOut(b.ins[a]) \in {Dead, k}
      /\ DepthHere(b) \in {Dead, k}
      /\ \A x \in X, a \in S : a >= x
  BY DEF Resolvable
<1> USE <1>r
<1>2. /\ Arriving(b) \subseteq {DepthHere(b)} /\ Dead \notin Arriving(b)
      /\ DepthHere(b) = Dead => Arriving(b) = {} /\ b.depth = Dead
      /\ b.depth # Dead => DepthHere(b) = b.depth
  BY <1>1, ArrivingHere
<1>3. k # Dead
  BY DEF Dead
<1>4. ASSUME NEW a \in DOMAIN b.ins
      PROVE  /\ b.ins[a] \in Instr /\ e.ins[a] \in Instr /\ SoundAt(b, H, a)
             /\ e.ins[a].d = b.ins[a].d /\ e.ins[a].len = b.ins[a].len
             /\ DepthOut(e.ins[a]) = DepthOut(b.ins[a])
             /\ e.ins[a].op \in Transfers <=> b.ins[a].op \in Transfers
             /\ Fitting(e.ins[a].op, e.ins[a].d)
             /\ a \notin S => e.ins[a] = b.ins[a] /\ Target(e, a) = Target(b, a)
             /\ a \in S => e.ins[a].op \in Branches /\ Target(e, a) = b.pos
  <2>1. b.ins[a] \in Instr /\ e.ins[a] \in Instr /\ SoundAt(b, H, a)
    BY <1>1, CodeFacts DEF Sound
  <2>2. CASE a \notin S
    BY <2>1, <2>2 DEF Resolved, Target, SoundAt
  <2>3. CASE a \in S
    <3>1. /\ e.ins[a].d = b.ins[a].d /\ e.ins[a].len = b.ins[a].len
          /\ Target(e, a) = b.pos /\ e.ins[a].op \in Branches
          /\ \/ e.ins[a].op = b.ins[a].op
             \/ e.ins[a].op = "goto" /\ b.ins[a].op = "break"
      BY <2>3 DEF Resolved
    <3>2. Effect("goto") = 0 /\ Effect("break") = 0 /\ {"goto", "break"} \subseteq Transfers
      BY DEF Effect, Branches, Transfers
    <3>3. Effect(e.ins[a].op) = Effect(b.ins[a].op)
          /\ (e.ins[a].op \in Transfers <=> b.ins[a].op \in Transfers)
      BY <3>1, <3>2
    <3>4. Fitting(e.ins[a].op, e.ins[a].d)
      <4>1. Fitting(b.ins[a].op, b.ins[a].d)
        BY <2>1 DEF SoundAt
      <4> QED BY <3>1, <3>3, <4>1 DEF Fitting
    <3> QED BY <2>1, <2>3, <3>1, <3>3, <3>4 DEF DepthOut
  <2> QED BY <2>2, <2>3
<1>5. Arriving(e) = Arriving(b) \cup {DepthOut(b.ins[a]) : a \in {x \in S : b.ins[x].d # Dead}}
  <2>1. ASSUME NEW a \in DOMAIN b.ins, b.ins[a].op \in Branches, a \in S
        PROVE  Target(b, a) # b.pos
    <3>1. a \in H
      BY <2>1 DEF Branches
    <3>2. b.ins[a].off = 0
      BY <1>4, <3>1 DEF SoundAt
    <3> QED BY <1>1, <3>2, CodeFacts
  <2>2. ASSUME NEW a \in DOMAIN b.ins, a \notin S
        PROVE  (e.ins[a].op \in Branches /\ e.ins[a].d # Dead /\ Target(e, a) = e.pos)
               <=> (b.ins[a].op \in Branches /\ b.ins[a].d # Dead /\ Target(b, a) = b.pos)
    BY <1>1, <1>4, <2>2
  <2>3. ASSUME NEW a \in S
        PROVE  (e.ins[a].op \in Branches /\ e.ins[a].d # Dead /\ Target(e, a) = e.pos)
               <=> b.ins[a].d # Dead
    BY <1>1, <1>4
  <2> DEFINE A == {x \in DOMAIN e.ins : e.ins[x].op \in Branches /\ e.ins[x].d # Dead /\ Target(e, x) = e.pos}
             B == {x \in DOMAIN b.ins : b.ins[x].op \in Branches /\ b.ins[x].d # Dead /\ Target(b, x) = b.pos}
             C == {x \in S : b.ins[x].d # Dead}
  <2>4. A = B \cup C
    BY <1>1, <2>1, <2>2, <2>3
  <2>5. Arriving(e) = {DepthOut(e.ins[x]) : x \in A} /\ Arriving(b) = {DepthOut(b.ins[x]) : x \in B}
    BY DEF Arriving
  <2>6. \A x \in A : DepthOut(e.ins[x]) = DepthOut(b.ins[x])
    BY <1>1, <1>4
  <2> HIDE DEF A, B, C
  <2>7. Arriving(e) = {DepthOut(b.ins[x]) : x \in A}
    BY <2>5, <2>6
  <2>8. Arriving(e) = Arriving(b) \cup {DepthOut(b.ins[a]) : a \in C}
    BY <2>4, <2>5, <2>7
  <2> QED BY <2>8 DEF C
<1>6. \A a \in S : b.ins[a].d # Dead => DepthOut(b.ins[a]) = k
  BY <1>4, FittingOut DEF SoundAt
<1>7. Arriving(e) \subseteq {k}
  BY <1>2, <1>5, <1>6
<1>8. e.depth \in {Dead, k}
  BY <1>1, <1>2
<1>9. /\ DepthHere(e) \in {Dead, k}
      /\ e.depth # Dead => DepthHere(e) = e.depth
      /\ k \in Arriving(e) => DepthHere(e) = k
      /\ e.depth = Dead /\ Arriving(e) = {} => DepthHere(e) = Dead
  BY <1>7, <1>8, HereKnown
<1>10. DepthHere(b) # Dead => DepthHere(e) = DepthHere(b)
  <2> SUFFICES ASSUME DepthHere(b) # Dead PROVE DepthHere(e) = k
    OBVIOUS
  <2>1. CASE b.depth # Dead
    BY <1>1, <1>2, <1>9, <2>1
  <2>2. CASE b.depth = Dead
    <3>1. Arriving(b) # {}
      BY <2>2 DEF DepthHere
    <3>2. k \in Arriving(e)
      BY <1>2, <1>5, <3>1
    <3> QED BY <1>9, <3>2
  <2> QED BY <2>1, <2>2
<1>11. (\A a \in S : b.ins[a].d = Dead) => DepthHere(e) = DepthHere(b)
  <2> SUFFICES ASSUME \A a \in S : b.ins[a].d = Dead, DepthHere(b) = Dead
               PROVE  DepthHere(e) = Dead
    BY <1>10
  <2>1. Arriving(e) = {}
    BY <1>2, <1>5
  <2> QED BY <1>1, <1>2, <1>9, <2>1
<1>12. ASSUME NEW x \in Points(b), DepthOf(b, x) # Dead
       PROVE  DepthOf(e, x) = DepthOf(b, x)
  <2>1. CASE x = b.pos
    BY <1>1, <1>10, <1>12, <2>1 DEF DepthOf
  <2>2. CASE x # b.pos
    BY <1>1, <1>4, <2>2 DEF DepthOf, Points
  <2> QED BY <2>1, <2>2
<1>13. ASSUME NEW a \in DOMAIN e.ins PROVE SoundAt(e, H \ S, a)
  <2> USE <1>1
  <2>1. SoundAt(b, H, a) /\ a + b.ins[a].len \in Points(b)
    BY <1>4 DEF SoundAt
  <2>2. /\ e.ins[a].d = b.ins[a].d /\ e.ins[a].len = b.ins[a].len
        /\ DepthOut(e.ins[a]) = DepthOut(b.ins[a])
        /\ e.ins[a].op \in Transfers <=> b.ins[a].op \in Transfers
        /\ Fitting(e.ins[a].op, e.ins[a].d)
        /\ a \notin S => e.ins[a] = b.ins[a] /\ Target(e, a) = Target(b, a)
        /\ a \in S => e.ins[a].op \in Branches /\ Target(e, a) = b.pos
    BY <1>4
  <2>3. b.ins[a].d # Dead => DepthOut(b.ins[a]) # Dead
    BY <1>4, FittingOut DEF SoundAt
  <2>4. e.ins[a].d # Dead /\ e.ins[a].op \notin Transfers
          => DepthOf(e, a + e.ins[a].len) = DepthOut(e.ins[a])
    <3> SUFFICES ASSUME e.ins[a].d # Dead, e.ins[a].op \notin Transfers
                 PROVE  DepthOf(e, a + e.ins[a].len) = DepthOut(e.ins[a])
      OBVIOUS
    <3>1. DepthOf(b, a + b.ins[a].len) = DepthOut(b.ins[a])
      BY <2>1, <2>2 DEF SoundAt
    <3> QED BY <1>12, <2>1, <2>2, <2>3, <3>1
  <2>5. CASE a \in S
    <3>1. b.pos \in Points(e)
      BY DEF Points
    <3>2. e.ins[a].d # Dead => DepthOf(e, Target(e, a)) = DepthOut(e.ins[a])
      <4> SUFFICES ASSUME e.ins[a].d # Dead PROVE DepthHere(e) = k /\ DepthOut(e.ins[a]) = k
        BY <2>2, <2>5 DEF DepthOf
      <4>1. DepthOut(b.ins[a]) = k /\ k \in Arriving(e)
        BY <1>5, <1>6, <2>2, <2>5
      <4> QED BY <1>9, <2>2, <4>1
    <3> QED BY <2>1, <2>2, <2>4, <2>5, <3>1, <3>2 DEF SoundAt
  <2>6. CASE a \notin S
    <3>1. e.ins[a] = b.ins[a] /\ Target(e, a) = Target(b, a)
          /\ (a \in H \ S <=> a \in H)
      BY <2>2, <2>6
    <3>2. ASSUME e.ins[a].d # Dead, e.ins[a].op \in Branches, a \notin H
          PROVE  DepthOf(e, Target(e, a)) = DepthOut(e.ins[a])
      <4>1. DepthOf(b, Target(b, a)) = DepthOut(b.ins[a]) /\ Target(b, a) \in Points(b)
        BY <2>1, <3>1, <3>2 DEF SoundAt
      <4> QED BY <1>12, <2>3, <3>1, <3>2, <4>1
    <3> QED BY <2>1, <2>2, <2>4, <3>1, <3>2 DEF SoundAt
  <2> QED BY <2>5, <2>6
<1>14. 0 \in Points(e) /\ DepthOf(e, 0) = 0
  <2>1. 0 \in Points(b) /\ DepthOf(b, 0) = 0 /\ 0 # Dead
    BY <1>1 DEF Sound, Dead
  <2> QED BY <1>1, <1>12, <2>1
<1>15. Sound(e, H \ S)
  BY <1>1, <1>13, <1>14 DEF Sound
<1>16. ASSUME NEW x \in X PROVE HeadSound(e, x)
  <2>1. HeadSound(b, x) /\ x \in Points(b)
    BY DEF Coherent, HeadSound
  <2>2. CASE DepthOf(b, x) = 0
    BY <1>1, <1>12, <2>1, <2>2 DEF HeadSound, Dead
  <2>3. CASE DepthOf(b, x) # 0
    <3>1. DepthOf(b, x) = Dead /\ DeadFrom(b, x)
      BY <2>1, <2>3 DEF HeadSound
    <3>2. \A a \in S : b.ins[a].d = Dead
      BY <3>1 DEF DeadFrom
    <3>3. DepthHere(e) = Dead
      BY <1>11, <3>1, <3>2 DEF DeadFrom
    <3>4. DeadFrom(e, x)
      BY <1>1, <1>4, <3>1, <3>3 DEF DeadFrom
    <3>5. DepthOf(e, x) = Dead
      BY <1>1, <1>4, <2>1, <3>1, <3>3 DEF DepthOf, Points
    <3> QED BY <1>1, <2>1, <3>4, <3>5 DEF HeadSound
  <2> QED BY <2>2, <2>3
<1> QED BY <1>1, <1>9, <1>15, <1>16 DEF Coherent

-----------------------------------------------------------------------------
(* The steps that actions are made of.                                      *)

Out(op, d) == IF d = Dead THEN Dead ELSE d + Effect(op)

LEMMA PlainDepth ==
  ASSUME NEW b, NEW H, NEW X, Coherent(b, H, X), prog \in Seq(Tokens),
         NEW op \in Ops, op \notin Branches, NEW n \in Nat \ {0}, NEW val \in Int,
         Fitting(op, DepthHere(b)),
         NEW e, e = Emit(b, op, n, 0, val)
  PROVE  /\ Coherent(e, H, X) /\ e.pos = b.pos + n
         /\ DepthHere(e) = Behind(op, DepthHere(b))
         /\ b.pos \in DOMAIN e.ins /\ DepthOf(e, b.pos) = DepthHere(b)
<1>1. IsCode(b) /\ Sound(b, H) /\ H \subseteq DOMAIN b.ins /\ 0 \in Int
      /\ b.pos \notin H /\ b.pos + 0 = b.pos /\ b.pos \in Points(b)
  BY CodeFacts DEF Coherent, Sound, Points
<1>2. NowWaiting(b, H, H, op, 0)
  BY DEF NowWaiting
<1>3. Coherent(e, H, X) /\ DepthHere(e) = Behind(op, DepthHere(b))
  BY <1>1, <1>2, EmitSound
<1>4. Appended(b, e, op, n, 0)
  BY <1>1, EmitFields
<1>5. \A x \in Points(b) : x \in DOMAIN e.ins /\ DepthOf(e, x) = DepthOf(b, x)
  <2>1. b.pos + 0 \in Points(b)
    BY <1>1
  <2>2. Extended(b, e)
    BY <1>1, <2>1, EmitDepths
  <2> QED BY <2>2 DEF Extended
<1> QED BY <1>1, <1>3, <1>4, <1>5 DEF Appended, DepthOf

LEMMA ChunkDepth ==
  ASSUME NEW b, NEW H, NEW X, Coherent(b, H, X), prog \in Seq(Tokens),
         NEW op \in Ops, op \notin Branches, NEW n \in Nat \ {0},
         Fitting(op, DepthHere(b)),
         NEW e, e = EmitChunk(b, op, n)
  PROVE  /\ Coherent(e, H, X) /\ e.pos = b.pos + n
         /\ DepthHere(e) = Behind(op, DepthHere(b))
         /\ b.pos \in DOMAIN e.ins /\ DepthOf(e, b.pos) = DepthHere(b)
<1>1. 0 \in Int /\ e = Emit(b, op, n, 0, 0)
  BY DEF EmitChunk
<1> QED BY <1>1, PlainDepth

LEMMA HoleDepth ==
  ASSUME NEW b, NEW H, NEW X, Coherent(b, H, X), prog \in Seq(Tokens),
         NEW op \in Branches, Fitting(op, DepthHere(b)),
         NEW e, e = EmitHole(b, op)
  PROVE  /\ Coherent(e, H \cup {b.pos}, X) /\ e.pos = b.pos + 3
         /\ DepthHere(e) = Behind(op, DepthHere(b))
         /\ DepthOut(e.ins[b.pos]) = Out(op, DepthHere(b))
         /\ b.pos \in DOMAIN e.ins /\ e.ins[b.pos].op = op
<1> DEFINE G == H \cup {b.pos}
<1>1. IsCode(b) /\ H \subseteq DOMAIN b.ins /\ 0 \in Int /\ 3 \in Nat \ {0}
      /\ b.pos \notin H /\ b.pos + 0 = b.pos /\ b.pos \in Points(b)
      /\ op \in Ops /\ e = Emit(b, op, 3, 0, 0)
  BY CodeFacts DEF Coherent, Sound, Points, Ops, EmitHole
<1>2. NowWaiting(b, H, G, op, 0)
  BY DEF NowWaiting
<1> HIDE DEF G
<1>3. Coherent(e, G, X) /\ DepthHere(e) = Behind(op, DepthHere(b))
  BY <1>1, <1>2, EmitSound
<1>4. Appended(b, e, op, 3, 0)
  BY <1>1, EmitFields
<1> QED BY <1>3, <1>4 DEF G, Appended, DepthOut, Out

LEMMA JumpDepth ==
  ASSUME NEW b, NEW H, NEW X, Coherent(b, H, X), prog \in Seq(Tokens),
         NEW op \in Branches, Fitting(op, DepthHere(b)), b.pos < ShortHalf,
         NEW to \in DOMAIN b.ins,
         DepthHere(b) # Dead => DepthOf(b, to) = DepthHere(b) + Effect(op),
         NEW e, e = EmitJump(b, op, to)
  PROVE  /\ Coherent(e, H, X) /\ e.pos = b.pos + 3
         /\ DepthHere(e) = Behind(op, DepthHere(b))
<1> DEFINE off == to - b.pos
<1>1. IsCode(b) /\ H \subseteq DOMAIN b.ins /\ 0 \in Int /\ 3 \in Nat \ {0}
      /\ b.pos \notin H /\ op \in Ops /\ b.pos \in Nat
      /\ to \in Nat /\ to < b.pos
  BY CodeFacts DEF Coherent, Sound, Ops
<1>2. Short(off) = off /\ off \in Int /\ b.pos + off = to
  BY <1>1, ShortSame, ShortAssumption
<1>3. e = Emit(b, op, 3, off, 0)
  BY <1>2 DEF EmitJump
<1> HIDE DEF off
<1>4. NowWaiting(b, H, H, op, off)
  BY <1>2 DEF NowWaiting, Points
<1>5. Coherent(e, H, X) /\ DepthHere(e) = Behind(op, DepthHere(b))
  BY <1>1, <1>2, <1>3, <1>4, EmitSound
<1>6. Appended(b, e, op, 3, off)
  BY <1>1, <1>2, <1>3, EmitFields
<1> QED BY <1>5, <1>6 DEF Appended

LEMMA PatchResolves ==
  ASSUME NEW b, IsCode(b), b.pos < ShortHalf, NEW S,
         \A a \in S \cap DOMAIN b.ins : b.ins[a].op \in Branches
  PROVE  Resolved(b, PatchHere(b, S), S)
<1> DEFINE e == PatchHere(b, S)
<1>1. /\ e.ins = [a \in DOMAIN b.ins |->
                   IF a \in S THEN [b.ins[a] EXCEPT !.off = Short(b.pos - a)]
                   ELSE b.ins[a]]
      /\ e.pos = b.pos /\ e.depth = b.depth
  BY DEF PatchHere, Patch, IsCode
<1>2. IsCode(e)
  BY PatchStep
<1> HIDE DEF e
<1>3. ASSUME NEW a \in DOMAIN b.ins, a \in S
      PROVE  /\ e.ins[a].d = b.ins[a].d /\ e.ins[a].len = b.ins[a].len
             /\ Target(e, a) = b.pos /\ e.ins[a].op = b.ins[a].op
  <2>1. a \in Int /\ 0 <= a /\ a < b.pos /\ b.pos \in Nat /\ b.ins[a] \in Instr
    BY DEF IsCode
  <2>2. Short(b.pos - a) = b.pos - a
    BY <2>1, ShortSame, ShortAssumption
  <2>3. e.ins[a] = [b.ins[a] EXCEPT !.off = b.pos - a]
    BY <1>1, <1>3, <2>2
  <2>4. e.ins[a].off = b.pos - a /\ e.ins[a].op = b.ins[a].op
        /\ e.ins[a].d = b.ins[a].d /\ e.ins[a].len = b.ins[a].len
    BY <2>1, <2>3 DEF Instr
  <2> QED BY <2>1, <2>4 DEF Target
<1> QED BY <1>1, <1>2, <1>3 DEF Resolved, e

LEMMA PatchDepth ==
  ASSUME NEW b, NEW H, NEW X, Coherent(b, H, X), b.pos < ShortHalf,
         NEW S, S \subseteq H, NEW k \in Nat,
         \A a \in S : DepthOut(b.ins[a]) \in {Dead, k},
         DepthHere(b) \in {Dead, k}, \A x \in X, a \in S : a >= x
  PROVE  /\ Coherent(PatchHere(b, S), H \ S, X)
         /\ DepthHere(PatchHere(b, S)) \in {Dead, k}
<1>1. IsCode(b) /\ S \subseteq DOMAIN b.ins /\ \A a \in S : b.ins[a].op \in Branches
  BY DEF Coherent, Sound, SoundAt
<1>2. Resolved(b, PatchHere(b, S), S)
  BY <1>1, PatchResolves
<1>3. Resolvable(b, H, X, S, k)
  BY <1>1 DEF Resolvable
<1> QED BY <1>1, <1>2, <1>3, ResolveSound

LEMMA TransformDepth ==
  ASSUME NEW b, NEW H, NEW X, Coherent(b, H, X), b.pos < ShortHalf,
         NEW start \in Int, NEW end \in Int,
         DepthHere(b) \in {Dead, 0}, \A x \in X : x \in Int /\ start >= x
  PROVE  /\ Coherent(TransformBreaks(b, start, end, b.pos), H, X)
         /\ DepthHere(TransformBreaks(b, start, end, b.pos)) \in {Dead, 0}
<1> DEFINE e == TransformBreaks(b, start, end, b.pos)
           S == {a \in DOMAIN b.ins : a \in start .. end - 1 /\ b.ins[a].op = "break"}
           f == [a \in DOMAIN b.ins |->
                   IF a \in S THEN [b.ins[a] EXCEPT !.op = "goto", !.off = Short(b.pos - a)]
                   ELSE b.ins[a]]
<1>1. IsCode(b) /\ \A a \in DOMAIN b.ins : SoundAt(b, H, a)
  BY DEF Coherent, Sound
<1>2. IsCode(e)
  BY <1>1, TransformGrown, CodeFacts DEF Grown, Grows
<1>3. [a \in DOMAIN b.ins |->
         IF a \in start .. end - 1 /\ b.ins[a].op = "break"
         THEN [b.ins[a] EXCEPT !.op = "goto", !.off = Short(b.pos - a)]
         ELSE b.ins[a]] = f
  OBVIOUS
<1>4. e = [b EXCEPT !.ins = f]
  BY <1>3 DEF TransformBreaks
<1>s. /\ S \subseteq DOMAIN b.ins
      /\ \A a \in S : b.ins[a].op = "break" /\ a >= start
  OBVIOUS
<1> HIDE DEF f
<1>e. e.ins = f /\ e.pos = b.pos /\ e.depth = b.depth
  BY <1>1, <1>4 DEF IsCode
<1> USE DEF f
<1>5. /\ e.ins = f /\ e.pos = b.pos /\ e.depth = b.depth /\ S \subseteq DOMAIN b.ins
      /\ \A a \in S : b.ins[a].op = "break" /\ a >= start
  BY <1>s, <1>e
<1> HIDE DEF e, S
<1>6. ASSUME NEW a \in S
      PROVE  /\ e.ins[a].d = b.ins[a].d /\ e.ins[a].len = b.ins[a].len
             /\ Target(e, a) = b.pos /\ e.ins[a].op = "goto"
  <2>1. a \in Int /\ 0 <= a /\ a < b.pos /\ b.pos \in Nat /\ b.ins[a] \in Instr
    BY <1>1, <1>s, CodeFacts
  <2>2. Short(b.pos - a) = b.pos - a
    BY <2>1, ShortSame, ShortAssumption
  <2>3. e.ins[a] = [b.ins[a] EXCEPT !.op = "goto", !.off = b.pos - a]
    BY <1>5, <2>2
  <2>4. e.ins[a].off = b.pos - a /\ e.ins[a].op = "goto"
        /\ e.ins[a].d = b.ins[a].d /\ e.ins[a].len = b.ins[a].len
    BY <2>1, <2>3 DEF Instr
  <2> QED BY <2>1, <2>4 DEF Target
<1>7. "goto" \in Branches /\ "break" \notin Branches /\ Effect("break") = 0
  BY DEF Branches, Effect
<1>8. Resolved(b, e, S)
  BY <1>1, <1>2, <1>5, <1>6, <1>7 DEF Resolved
<1>9. \A a \in S : DepthOut(b.ins[a]) \in {Dead, 0}
  <2> SUFFICES ASSUME NEW a \in S PROVE DepthOut(b.ins[a]) \in {Dead, 0}
    OBVIOUS
  <2>1. Fitting("break", b.ins[a].d) /\ b.ins[a].op = "break"
    BY <1>1, <1>5 DEF SoundAt
  <2>2. b.ins[a].d \in {Dead, 0}
    BY <2>1 DEF Fitting
  <2> QED BY <1>7, <2>1, <2>2 DEF DepthOut
<1>10. \A x \in X, a \in S : a >= x
  <2> SUFFICES ASSUME NEW x \in X, NEW a \in S PROVE a >= x
    OBVIOUS
  <2>1. a \in Nat /\ x \in Int /\ a >= start /\ start >= x
    BY <1>1, <1>s, CodeFacts
  <2> QED BY <2>1
<1>11. H \ S = H
  BY <1>1, <1>5, <1>7 DEF Coherent, Sound, SoundAt
<1>12. Resolvable(b, H, X, S, 0)
  BY <1>5, <1>9, <1>10 DEF Resolvable
<1>13. Coherent(e, H \ S, X) /\ DepthHere(e) \in {Dead, 0}
  <2>1. 0 \in Nat
    OBVIOUS
  <2> QED BY <1>8, <1>12, <2>1, ResolveSound
<1> QED BY <1>11, <1>13 DEF e

(* RD_if_statement resolves the test before it appends the goto, and to the *)
(* place behind it; the outcome is that of the other order.                 *)
LEMMA ElseOrder ==
  ASSUME NEW b, NEW H, NEW X, Coherent(b, H, X), prog \in Seq(Tokens),
         b.pos + 3 < ShortHalf, NEW S, S \subseteq H
  PROVE  EmitHole(Patch(b, S, b.pos + 3), "goto") = PatchHere(EmitHole(b, "goto"), S)
<1> DEFINE to == b.pos + 3
           p == Patch(b, S, to)
           c == EmitHole(b, "goto")
           new == [op |-> "goto", len |-> 3, off |-> 0, val |-> 0,
                   tok |-> Len(prog) + 1, d |-> DepthHere(b)]
<1>1. /\ IsCode(b) /\ Sound(b, H) /\ b.pos \in Nat /\ to \in Nat /\ to # b.pos
      /\ b.pos \notin DOMAIN b.ins /\ S \subseteq DOMAIN b.ins /\ "goto" \in Transfers
  BY CodeFacts DEF Coherent, Sound, Transfers
<1>2. /\ p.ins = [a \in DOMAIN b.ins |->
                   IF a \in S THEN [b.ins[a] EXCEPT !.off = Short(to - a)]
                   ELSE b.ins[a]]
      /\ p.pos = b.pos /\ p.depth = b.depth
  BY <1>1 DEF Patch, IsCode
<1> HIDE DEF p, to
<1>3. ASSUME NEW a \in DOMAIN b.ins
      PROVE  (p.ins[a].op \in Branches /\ p.ins[a].d # Dead /\ Target(p, a) = p.pos)
               <=> (b.ins[a].op \in Branches /\ b.ins[a].d # Dead /\ Target(b, a) = b.pos)
  <2>0. a \in Nat /\ a < b.pos /\ Target(b, a) = a + b.ins[a].off /\ b.ins[a] \in Instr
        /\ SoundAt(b, H, a)
    BY <1>1, CodeFacts DEF Sound
  <2>1. CASE a \notin S
    BY <1>2, <2>1 DEF Target
  <2>2. CASE a \in S
    <3>1. Target(b, a) # b.pos
      BY <1>1, <2>0, <2>2 DEF SoundAt
    <3>2. Short(to - a) = to - a
      BY <1>1, <2>0, ShortSame, ShortAssumption DEF to
    <3>3. p.ins[a].off = to - a
      BY <1>2, <2>0, <2>2, <3>2 DEF Instr
    <3>4. Target(p, a) # p.pos
      BY <1>1, <1>2, <2>0, <3>3 DEF Target
    <3> QED BY <3>1, <3>4
  <2> QED BY <2>1, <2>2
<1>4. \A a \in DOMAIN b.ins : DepthOut(p.ins[a]) = DepthOut(b.ins[a])
  <2> SUFFICES ASSUME NEW a \in DOMAIN b.ins PROVE DepthOut(p.ins[a]) = DepthOut(b.ins[a])
    OBVIOUS
  <2>1. p.ins[a].d = b.ins[a].d /\ p.ins[a].op = b.ins[a].op
    BY <1>1, <1>2, CodeFacts DEF Instr
  <2> QED BY <2>1 DEF DepthOut
<1>5. Arriving(p) = Arriving(b)
  <2>1. DOMAIN p.ins = DOMAIN b.ins
    BY <1>2
  <2>2. {x \in DOMAIN p.ins : p.ins[x].op \in Branches /\ p.ins[x].d # Dead /\ Target(p, x) = p.pos}
         = {x \in DOMAIN b.ins : b.ins[x].op \in Branches /\ b.ins[x].d # Dead /\ Target(b, x) = b.pos}
    BY <1>3, <2>1
  <2> QED BY <1>4, <2>2 DEF Arriving
<1>6. DepthHere(p) = DepthHere(b)
  BY <1>2, <1>5 DEF DepthHere
<1>7. EmitHole(p, "goto") =
        [ins   |-> [a \in DOMAIN b.ins \cup {b.pos} |-> IF a = b.pos THEN new ELSE p.ins[a]],
         pos   |-> to,
         depth |-> Dead]
  <2>1. DOMAIN p.ins = DOMAIN b.ins
    BY <1>2
  <2> QED BY <1>1, <1>2, <1>6, <2>1 DEF EmitHole, Emit, to
<1>8. c = [ins   |-> [a \in DOMAIN b.ins \cup {b.pos} |-> IF a = b.pos THEN new ELSE b.ins[a]],
           pos   |-> to,
           depth |-> Dead]
  BY <1>1 DEF EmitHole, Emit, to
<1> HIDE DEF c, new
<1>9. /\ DOMAIN c.ins = DOMAIN b.ins \cup {b.pos} /\ c.pos = to
      /\ c.ins[b.pos] = new /\ \A a \in DOMAIN b.ins : c.ins[a] = b.ins[a]
  BY <1>1, <1>8
<1>10. [a \in DOMAIN c.ins |-> IF a \in S THEN [c.ins[a] EXCEPT !.off = Short(c.pos - a)]
                               ELSE c.ins[a]]
       = [a \in DOMAIN b.ins \cup {b.pos} |-> IF a = b.pos THEN new ELSE p.ins[a]]
  <2>1. ASSUME NEW a \in DOMAIN c.ins
        PROVE  (IF a \in S THEN [c.ins[a] EXCEPT !.off = Short(c.pos - a)] ELSE c.ins[a])
                 = (IF a = b.pos THEN new ELSE p.ins[a])
    <3>1. CASE a = b.pos
      BY <1>1, <1>9, <3>1
    <3>2. CASE a \in DOMAIN b.ins
      BY <1>1, <1>2, <1>9, <3>2
    <3> QED BY <1>9, <3>1, <3>2
  <2> QED BY <1>9, <2>1
<1>11. PatchHere(c, S) = [c EXCEPT !.ins =
          [a \in DOMAIN b.ins \cup {b.pos} |-> IF a = b.pos THEN new ELSE p.ins[a]]]
  BY <1>10 DEF PatchHere, Patch
<1>12. PatchHere(c, S) =
        [ins   |-> [a \in DOMAIN b.ins \cup {b.pos} |-> IF a = b.pos THEN new ELSE p.ins[a]],
         pos   |-> to,
         depth |-> Dead]
  BY <1>8, <1>11
<1> QED BY <1>7, <1>12 DEF p, c, to

-----------------------------------------------------------------------------
(* What a step does to the open statements.                                 *)

LEMMA Places ==
  ASSUME Depths
  PROVE  /\ IsCode(code) /\ Sound(code, Holes) /\ code.pos \in Nat
         /\ \A x \in Heads : x \in Nat /\ x <= code.pos
         /\ \A h \in Holes : h \in DOMAIN code.ins /\ h \in Nat /\ h < code.pos
                             /\ code.ins[h].op # "break"
<1>1. IsCode(code) /\ Sound(code, Holes) /\ \A x \in Heads : HeadSound(code, x)
  BY DEF Depths, Coherent
<1>2. code.pos \in Nat /\ \A a \in DOMAIN code.ins : a \in Nat /\ a < code.pos
  BY <1>1, CodeFacts
<1>3. \A h \in Holes : h \in DOMAIN code.ins /\ code.ins[h].op \in Branches
  BY <1>1 DEF Sound, SoundAt
<1>4. "break" \notin Branches
  BY DEF Branches
<1>5. \A x \in Heads : x \in Points(code)
  BY <1>1 DEF HeadSound
<1> QED BY <1>1, <1>2, <1>3, <1>4, <1>5 DEF Points

LEMMA StillSound ==
  ASSUME Depths, NEW f, FrameSound(f), FrameHoles(f) \subseteq Holes,
         NEW P, Leaves(code, code', P), FrameHoles(f) \cap P = {}
  PROVE  FrameSound(f)'
<1>1. \A h \in FrameHoles(f) : code'.ins[h] = code.ins[h]
  BY Places DEF Leaves
<1>2. \A h \in FrameHoles(f), k \in {0, 1} : Waits(h, k) => Waits(h, k)'
  BY <1>1 DEF Waits
<1> QED BY <1>2 DEF FrameSound, FrameHoles

LEMMA HolesOfFrames ==
  \A i \in DOMAIN frames : FrameHoles(frames[i]) \subseteq Holes
  BY DEF Holes

(* A statement in which nothing opens or closes.                            *)
LEMMA SameDepth ==
  ASSUME Inductive, Depths, UNCHANGED frames, Leaves(code, code', {}),
         ~done', Coherent(code', Holes, Heads), DepthHere(code') \in {Dead, Rest}
  PROVE  Depths'
<1>1. Holes' = Holes /\ Heads' = Heads /\ Rest' = Rest
  BY DEF Holes, Heads, LoopFrames, Rest, TopIs, Top
<1>2. \A i \in DOMAIN frames' : FrameSound(frames[i])'
  BY StillSound, HolesOfFrames DEF Depths
<1> QED BY <1>1, <1>2 DEF Depths

LEMMA PushDepth ==
  ASSUME Inductive, Depths, ~TopIs({"labels"}), ~done',
         NEW f \in Frame, Push(f), FrameSound(f)', Leaves(code, code', {}),
         \A h \in FrameHoles(f) : h \in Nat /\ h >= code.pos,
         f.kind \in LoopKinds => f.brk >= code.pos,
         NEW X, X = (IF f.kind \in LoopKinds THEN Heads \cup {f.head} ELSE Heads),
         Coherent(code', Holes \cup FrameHoles(f), X),
         DepthHere(code') \in {Dead, IF f.kind = "labels" THEN 1 ELSE 0}
  PROVE  Depths'
<1> DEFINE n == Len(frames) + 1
<1>1. /\ frames' \in Seq(Frame)
      /\ DOMAIN frames' = DOMAIN frames \cup {n}
      /\ n \notin DOMAIN frames
      /\ frames'[n] = f
      /\ \A i \in DOMAIN frames : frames'[i] = frames[i]
      /\ Holes' = Holes \cup FrameHoles(f)
  BY PushFrame DEF Inductive, TypeOK
<1>2. /\ frames \in Seq(Frame) /\ Len(frames) \in Nat /\ DOMAIN frames = 1 .. Len(frames)
      /\ Len(frames') = n /\ frames' # <<>>
  BY <1>1 DEF Inductive, TypeOK, Push
<1> HIDE DEF n
<1>3. \A i \in DOMAIN frames : FrameSound(frames[i])'
  <2> SUFFICES ASSUME NEW i \in DOMAIN frames PROVE FrameSound(frames[i])'
    OBVIOUS
  <2> PICK g : g = frames[i]
    OBVIOUS
  <2>1. FrameSound(g) /\ FrameHoles(g) \cap {} = {} /\ FrameHoles(g) \subseteq Holes
    BY HolesOfFrames DEF Depths
  <2>2. FrameSound(g)'
    BY <2>1, StillSound
  <2> QED BY <1>1, <2>2
<1>4. \A i \in DOMAIN frames' : FrameSound(frames[i])'
  BY <1>1, <1>3
<1>5. Heads' = X
  <2>1. LoopFrames' = IF f.kind \in LoopKinds THEN LoopFrames \cup {n} ELSE LoopFrames
    BY <1>1 DEF LoopFrames
  <2>2. LoopFrames \subseteq DOMAIN frames
    BY DEF LoopFrames
  <2> QED BY <1>1, <2>1, <2>2 DEF Heads
<1>6. ASSUME NEW i \in DOMAIN frames PROVE Around(frames[i], f)
  <2>1. FrameHoles(frames[i]) \cap FrameHoles(f) = {}
    BY Places, HolesOfFrames
  <2>2. frames[i].kind # "labels"
    <3>1. CASE i = Len(frames)
      BY <1>2, <3>1 DEF TopIs, Top
    <3>2. CASE i # Len(frames)
      <4>1. Len(frames) \in DOMAIN frames /\ i < Len(frames)
        BY <1>2, <3>2
      <4> QED BY <4>1 DEF Depths, Around
    <3> QED BY <3>1, <3>2
  <2>3. ASSUME frames[i].kind \in LoopKinds
        PROVE  /\ \A h \in FrameHoles(f) : h >= frames[i].head
               /\ f.kind \in LoopKinds => f.brk >= frames[i].head
    <3>1. frames[i].head \in Heads
      BY <2>3 DEF Heads, LoopFrames
    <3>2. frames[i].head \in Nat /\ frames[i].head <= code.pos /\ code.pos \in Nat
      BY <3>1, Places
    <3>3. f.brk \in Nat
      BY DEF Frame
    <3> QED BY <3>2, <3>3
  <2> QED BY <2>1, <2>2, <2>3 DEF Around
<1>7. \A i, j \in DOMAIN frames' : i < j => Around(frames'[i], frames'[j])
  <2> SUFFICES ASSUME NEW i \in DOMAIN frames', NEW j \in DOMAIN frames', i < j
               PROVE  Around(frames'[i], frames'[j])
    OBVIOUS
  <2>1. i \in DOMAIN frames
    BY <1>1, <1>2 DEF n
  <2>2. CASE j = n
    BY <1>1, <1>6, <2>1, <2>2
  <2>3. CASE j \in DOMAIN frames
    BY <1>1, <2>1, <2>3 DEF Depths
  <2> QED BY <1>1, <2>2, <2>3
<1>8. Rest' = IF f.kind = "labels" THEN 1 ELSE 0
  BY <1>1, <1>2 DEF Rest, TopIs, Top
<1> QED BY <1>1, <1>4, <1>5, <1>7, <1>8 DEF Depths

(* The top statement goes over to its next part; P are the branches that    *)
(* have been resolved.                                                      *)
LEMMA SetTopDepth ==
  ASSUME Inductive, Depths, frames # <<>>, ~done',
         NEW f \in Frame, SetTop(f), FrameSound(f)',
         Top.kind \notin LoopKinds, f.kind \notin LoopKinds,
         Leaves(code, code', FrameHoles(Top)),
         \A h \in FrameHoles(f) : h \in FrameHoles(Top) \/ (h \in Nat /\ h >= code.pos),
         Coherent(code', (Holes \ FrameHoles(Top)) \cup FrameHoles(f), Heads),
         DepthHere(code') \in {Dead, IF f.kind = "labels" THEN 1 ELSE 0}
  PROVE  Depths'
<1> DEFINE n == Len(frames)
<1>1. /\ frames' \in Seq(Frame)
      /\ DOMAIN frames' = DOMAIN frames
      /\ n \in DOMAIN frames
      /\ frames'[n] = f
      /\ \A i \in DOMAIN frames : i # n => frames'[i] = frames[i]
  BY SetTopFrame DEF Inductive, TypeOK
<1>2. /\ frames \in Seq(Frame) /\ n \in Nat /\ DOMAIN frames = 1 .. n
      /\ Len(frames') = n /\ frames' # <<>> /\ frames[n] = Top
  BY <1>1 DEF Inductive, TypeOK, SetTop, Top
<1> HIDE DEF n
<1>3. \A i \in DOMAIN frames : i # n => i < n /\ Around(frames[i], Top)
  BY <1>1, <1>2 DEF Depths
<1>4. \A i \in DOMAIN frames : i # n =>
         FrameHoles(frames[i]) \cap FrameHoles(Top) = {} /\ FrameHoles(frames[i]) \subseteq Holes
  BY <1>3, HolesOfFrames DEF Around
<1>5. \A i \in DOMAIN frames' : FrameSound(frames[i])'
  <2> SUFFICES ASSUME NEW i \in DOMAIN frames, i # n PROVE FrameSound(frames[i])'
    BY <1>1
  <2>1. FrameSound(frames[i])
    BY DEF Depths
  <2> QED BY <1>1, <1>4, <2>1, StillSound
<1>6. Heads' = Heads
  <2>1. LoopFrames' = LoopFrames /\ n \notin LoopFrames
    BY <1>1, <1>2 DEF LoopFrames
  <2>2. LoopFrames \subseteq DOMAIN frames
    BY DEF LoopFrames
  <2> QED BY <1>1, <2>1, <2>2 DEF Heads
<1>7. Holes' = (Holes \ FrameHoles(Top)) \cup FrameHoles(f)
  <2>1. Holes' \subseteq (Holes \ FrameHoles(Top)) \cup FrameHoles(f)
    BY <1>1, <1>4 DEF Holes
  <2>2. (Holes \ FrameHoles(Top)) \cup FrameHoles(f) \subseteq Holes'
    BY <1>1, <1>2 DEF Holes
  <2> QED BY <2>1, <2>2
<1>8. ASSUME NEW i \in DOMAIN frames, i # n PROVE Around(frames[i], f)
  <2>1. Around(frames[i], Top)
    BY <1>3, <1>8
  <2>2. FrameHoles(frames[i]) \cap FrameHoles(f) = {}
    BY <1>4, <1>8, Places
  <2>3. ASSUME frames[i].kind \in LoopKinds
        PROVE  \A h \in FrameHoles(f) : h >= frames[i].head
    <3>1. frames[i].head \in Heads
      BY <2>3 DEF Heads, LoopFrames
    <3>2. frames[i].head \in Nat /\ frames[i].head <= code.pos /\ code.pos \in Nat
      BY <3>1, Places
    <3>3. \A h \in FrameHoles(Top) : h >= frames[i].head
      BY <2>1, <2>3 DEF Around
    <3> QED BY <3>2, <3>3
  <2> QED BY <2>1, <2>2, <2>3 DEF Around
<1>9. \A i, j \in DOMAIN frames' : i < j => Around(frames'[i], frames'[j])
  <2> SUFFICES ASSUME NEW i \in DOMAIN frames', NEW j \in DOMAIN frames', i < j
               PROVE  Around(frames'[i], frames'[j])
    OBVIOUS
  <2>1. i \in DOMAIN frames /\ i # n
    BY <1>1, <1>2
  <2>2. CASE j = n
    BY <1>1, <1>8, <2>1, <2>2
  <2>3. CASE j # n
    BY <1>1, <2>1, <2>3 DEF Depths
  <2> QED BY <2>2, <2>3
<1>10. Rest' = IF f.kind = "labels" THEN 1 ELSE 0
  BY <1>1, <1>2 DEF Rest, TopIs, Top
<1> QED BY <1>5, <1>6, <1>7, <1>9, <1>10 DEF Depths

(* The top statement is complete.                                           *)
LEMMA PopDepth ==
  ASSUME Inductive, Depths, frames # <<>>, ~done', Pop,
         Leaves(code, code', FrameHoles(Top)),
         Coherent(code', Holes \ FrameHoles(Top), Heads),
         DepthHere(code') \in {Dead, 0}
  PROVE  Depths'
<1> DEFINE n == Len(frames)
<1>1. /\ frames' \in Seq(Frame)
      /\ DOMAIN frames' = DOMAIN frames \ {n}
      /\ n \in DOMAIN frames
      /\ \A i \in DOMAIN frames' : frames'[i] = frames[i]
  BY PopFrame DEF Inductive, TypeOK
<1>2. /\ frames \in Seq(Frame) /\ n \in Nat /\ DOMAIN frames = 1 .. n
      /\ Len(frames') = n - 1 /\ frames[n] = Top /\ frames' \in Seq(Frame)
      /\ frames' # <<>> => n - 1 \in DOMAIN frames' /\ n - 1 \in DOMAIN frames /\ n - 1 < n
  <2>1. frames \in Seq(Frame) /\ n \in Nat /\ DOMAIN frames = 1 .. n /\ frames[n] = Top /\ n >= 1
    BY <1>1 DEF Inductive, TypeOK, Top
  <2>2. Len(frames') = n - 1
    BY <2>1 DEF Pop
  <2> HIDE DEF n
  <2>3. frames' # <<>> => n - 1 >= 1
    BY <1>1, <2>1, <2>2
  <2>4. n - 1 \in Int /\ n - 1 < n /\ n - 1 # n
    BY <2>1
  <2>5. frames' # <<>> => n - 1 \in DOMAIN frames
    BY <2>1, <2>3, <2>4
  <2> QED BY <1>1, <2>1, <2>2, <2>4, <2>5
<1> HIDE DEF n
<1>3. \A i \in DOMAIN frames' : i \in DOMAIN frames /\ i < n /\ Around(frames[i], Top)
  BY <1>1, <1>2 DEF Depths
<1>4. \A i \in DOMAIN frames' :
         FrameHoles(frames[i]) \cap FrameHoles(Top) = {} /\ FrameHoles(frames[i]) \subseteq Holes
  BY <1>3, HolesOfFrames DEF Around
<1>5. \A i \in DOMAIN frames' : FrameSound(frames[i])'
  <2> SUFFICES ASSUME NEW i \in DOMAIN frames' PROVE FrameSound(frames[i])'
    BY <1>1
  <2>1. FrameSound(frames[i])
    BY <1>3 DEF Depths
  <2> QED BY <1>1, <1>4, <2>1, StillSound
<1>6. Heads' \subseteq Heads
  BY <1>1 DEF LoopFrames, Heads
<1>7. Holes' = Holes \ FrameHoles(Top)
  <2>1. Holes' \subseteq Holes \ FrameHoles(Top)
    BY <1>1, <1>4 DEF Holes
  <2>2. Holes \ FrameHoles(Top) \subseteq Holes'
    BY <1>1, <1>2 DEF Holes
  <2> QED BY <2>1, <2>2
<1>8. \A i, j \in DOMAIN frames' : i < j => Around(frames'[i], frames'[j])
  BY <1>1, <1>3 DEF Depths
<1>9. Rest' = 0
  <2>1. CASE frames' = <<>>
    BY <2>1 DEF Rest, TopIs
  <2>2. CASE frames' # <<>>
    <3>1. frames[n - 1].kind # "labels" /\ Top' = frames[n - 1]
      BY <1>1, <1>2, <1>3, <2>2 DEF Around, Top
    <3> QED BY <3>1 DEF Rest, TopIs
  <2> QED BY <2>1, <2>2
<1>10. Coherent(code', Holes', Heads')
  BY <1>6, <1>7 DEF Coherent
<1> QED BY <1>5, <1>8, <1>9, <1>10 DEF Depths

-----------------------------------------------------------------------------
(* The steps, for code that goes on with the depth k or is not reached.     *)

At(b, H, X, k) == Coherent(b, H, X) /\ DepthHere(b) \in {Dead, k}

(* From the depth k an instruction leads to the depth m.                    *)
Moves(op, k, m) ==
  \A d \in {Dead, k} :
    Fitting(op, d) /\ Out(op, d) \in {Dead, m} /\ Behind(op, d) \in {Dead, m}

LEMMA MovesTable ==
  /\ \A op \in {"stmt", "init", "incr", "break", "return", "halt"} :
       Moves(op, 0, 0) /\ op \in Ops \ Branches
  /\ \A op \in {"cond", "false", "select"} : Moves(op, 0, 1) /\ op \in Ops \ Branches
  /\ Moves("limit", 0, 2) /\ "limit" \in Ops \ Branches
  /\ Moves("label", 1, 3) /\ "label" \in Ops \ Branches
  /\ Moves("strlabel", 1, 2) /\ "strlabel" \in Ops \ Branches
  /\ Moves("pop", 1, 0) /\ "pop" \in Ops \ Branches
  /\ Moves("goto", 0, 0) /\ Moves("goto", 1, 1) /\ "goto" \in Branches
  /\ \A op \in {"ifeq", "ifne"} : Moves(op, 1, 0) /\ Moves(op, 2, 1) /\ op \in Branches
  /\ \A op \in {"if_icmpeq", "if_icmplt", "if_icmple", "if_icmpgt"} :
       Moves(op, 2, 0) /\ Moves(op, 3, 1) /\ op \in Branches
  BY DEF Moves, Fitting, Out, Behind, Effect, Ops, Events, Silent, Branches, Transfers, Dead

(* What the code e has become when n bytes were appended to b.              *)
Longer(b, e, n) ==
  /\ e.pos = b.pos + n /\ b.pos \in DOMAIN e.ins
  /\ DepthOf(e, b.pos) = DepthHere(b)

LEMMA PlainAt ==
  ASSUME NEW b, NEW H, NEW X, NEW k, At(b, H, X, k), prog \in Seq(Tokens),
         NEW op \in Ops \ Branches, NEW n \in Nat \ {0}, NEW val \in Int,
         NEW m, Moves(op, k, m), NEW e, e = Emit(b, op, n, 0, val)
  PROVE  At(e, H, X, m) /\ Longer(b, e, n)
<1>1. Fitting(op, DepthHere(b)) /\ Behind(op, DepthHere(b)) \in {Dead, m}
  BY DEF At, Moves
<1> QED BY <1>1, PlainDepth DEF At, Longer

LEMMA ChunkAt ==
  ASSUME NEW b, NEW H, NEW X, NEW k, At(b, H, X, k), prog \in Seq(Tokens),
         NEW op \in Ops \ Branches, NEW n \in Nat \ {0},
         NEW m, Moves(op, k, m), NEW e, e = EmitChunk(b, op, n)
  PROVE  At(e, H, X, m) /\ Longer(b, e, n)
<1>1. 0 \in Int /\ e = Emit(b, op, n, 0, 0)
  BY DEF EmitChunk
<1> QED BY <1>1, PlainAt

(* What it has become when a branch that leaves with the depth m waits.     *)
Waiting(b, e, m) ==
  /\ e.pos = b.pos + 3 /\ b.pos \in DOMAIN e.ins /\ b.pos \in Nat
  /\ DepthOut(e.ins[b.pos]) \in {Dead, m} /\ e.ins[b.pos].op # "break"

LEMMA HoleAt ==
  ASSUME NEW b, NEW H, NEW X, NEW k, At(b, H, X, k), prog \in Seq(Tokens),
         NEW op \in Branches, NEW m, Moves(op, k, m), NEW e, e = EmitHole(b, op)
  PROVE  /\ At(e, H \cup {b.pos}, X, m) /\ Waiting(b, e, m)
         /\ op = "goto" => DepthHere(e) = Dead
<1>1. /\ Fitting(op, DepthHere(b)) /\ Behind(op, DepthHere(b)) \in {Dead, m}
      /\ Out(op, DepthHere(b)) \in {Dead, m}
  BY DEF At, Moves
<1>2. op = "goto" => Behind(op, DepthHere(b)) = Dead
  BY DEF Behind, Transfers
<1>3. b.pos \in Nat /\ op # "break"
  BY CodeFacts DEF At, Coherent, Branches
<1> QED BY <1>1, <1>2, <1>3, HoleDepth DEF At, Waiting

LEMMA FittingNotDead ==
  ASSUME NEW op, NEW d, Fitting(op, d), d # Dead
  PROVE  d + Effect(op) # Dead
  BY DEF Fitting, Dead

LEMMA JumpAt ==
  ASSUME NEW b, NEW H, NEW X, NEW k, At(b, H, X, k), prog \in Seq(Tokens),
         NEW op \in Branches, NEW m \in Nat, Moves(op, k, m), b.pos < ShortHalf,
         NEW to \in DOMAIN b.ins, DepthHere(b) # Dead => DepthOf(b, to) = m,
         NEW e, e = EmitJump(b, op, to)
  PROVE  At(e, H, X, m) /\ e.pos = b.pos + 3
<1>1. /\ Fitting(op, DepthHere(b)) /\ Behind(op, DepthHere(b)) \in {Dead, m}
      /\ Out(op, DepthHere(b)) \in {Dead, m}
  BY DEF At, Moves
<1>2. DepthHere(b) # Dead => Out(op, DepthHere(b)) = DepthHere(b) + Effect(op)
                             /\ Out(op, DepthHere(b)) # Dead
  BY <1>1, FittingNotDead DEF Out
<1>3. DepthHere(b) # Dead => DepthOf(b, to) = DepthHere(b) + Effect(op)
  BY <1>1, <1>2
<1> QED BY <1>1, <1>3, JumpDepth DEF At

LEMMA PatchAt ==
  ASSUME NEW b, NEW H, NEW X, NEW k \in Nat, At(b, H, X, k), b.pos < ShortHalf,
         NEW S, S \subseteq H, \A a \in S : DepthOut(b.ins[a]) \in {Dead, k},
         \A x \in X, a \in S : a >= x, NEW e, e = PatchHere(b, S)
  PROVE  At(e, H \ S, X, k) /\ e.pos = b.pos
<1>1. IsCode(b) /\ e.pos = b.pos
  BY PatchHereGrown DEF At, Coherent
<1> QED BY <1>1, PatchDepth DEF At

LEMMA TransformAt ==
  ASSUME NEW b, NEW H, NEW X, At(b, H, X, 0), b.pos < ShortHalf,
         NEW start \in Int, NEW end \in Int, \A x \in X : x \in Int /\ start >= x,
         NEW e, e = TransformBreaks(b, start, end, b.pos)
  PROVE  At(e, H, X, 0)
  BY TransformDepth DEF At

(* The place where a loop will start.                                       *)
LEMMA NewHead ==
  ASSUME NEW b, NEW H, NEW X, At(b, H, X, 0)
  PROVE  At(b, H, X \cup {b.pos}, 0)
<1>1. IsCode(b) /\ b.pos \in Points(b) /\ DepthOf(b, b.pos) = DepthHere(b)
  BY DEF At, Coherent, Points, DepthOf
<1>2. DepthHere(b) = Dead => DeadFrom(b, b.pos)
  BY <1>1, CodeFacts DEF DeadFrom
<1>3. HeadSound(b, b.pos)
  BY <1>1, <1>2 DEF HeadSound, At
<1> QED BY <1>3 DEF At, Coherent

-----------------------------------------------------------------------------
(* Where a step starts from.                                                *)

LEMMA StartAt ==
  ASSUME Inductive, Depths, StatementPoint
  PROVE  /\ At(code, Holes, Heads, 0) /\ Rest = 0
         /\ ~TopIs({"labels"}) /\ ~done
  BY DEF StatementPoint, Depths, At, Rest

LEMMA TopAt ==
  ASSUME Inductive, Depths, NEW K, TopIs(K)
  PROVE  /\ frames # <<>> /\ Top \in Frame /\ FrameShaped(Top) /\ FrameSound(Top)
         /\ FrameHoles(Top) \subseteq Holes /\ Top.kind \in K
         /\ At(code, Holes, Heads, IF Top.kind = "labels" THEN 1 ELSE 0)
<1>1. frames # <<>> /\ Top \in Frame /\ FrameShaped(Top) /\ Top.kind \in K
  BY InductiveFacts DEF TopIs
<1>2. Len(frames) \in DOMAIN frames /\ Top = frames[Len(frames)]
  BY <1>1, TopFrame, InductiveFacts DEF Top
<1>3. FrameSound(Top) /\ FrameHoles(Top) \subseteq Holes
  BY <1>2, HolesOfFrames DEF Depths
<1>4. Rest = IF Top.kind = "labels" THEN 1 ELSE 0
  BY <1>1 DEF Rest, TopIs
<1> QED BY <1>1, <1>3, <1>4 DEF At, Depths

(* No loop goes back to a place behind a branch that the top statement      *)
(* waits for, or behind the body of a loop that is the top statement.       *)
LEMMA TopBeyond ==
  ASSUME Inductive, Depths, frames # <<>>
  PROVE  \A x \in Heads :
           /\ x \in Nat /\ \A h \in FrameHoles(Top) : h >= x
           /\ Top.kind \in LoopKinds => Top.brk >= x
<1> SUFFICES ASSUME NEW x \in Heads
             PROVE  /\ x \in Nat /\ \A h \in FrameHoles(Top) : h >= x
                    /\ Top.kind \in LoopKinds => Top.brk >= x
  OBVIOUS
<1>1. Len(frames) \in DOMAIN frames /\ Top = frames[Len(frames)] /\ frames \in Seq(Frame)
  BY TopFrame, InductiveFacts DEF Top
<1>2. PICK i \in LoopFrames : x = frames[i].head
  BY DEF Heads
<1>3. i \in DOMAIN frames /\ frames[i].kind \in LoopKinds
  BY DEF LoopFrames
<1>4. x \in Nat
  BY Places
<1>5. CASE i = Len(frames)
  BY <1>1, <1>2, <1>3, <1>4, <1>5 DEF Depths, FrameSound
<1>6. CASE i # Len(frames)
  <2>1. i < Len(frames)
    BY <1>1, <1>3, <1>6
  <2>2. Around(frames[i], Top)
    BY <1>1, <1>3, <2>1 DEF Depths
  <2> QED BY <1>2, <1>3, <1>4, <2>2 DEF Around
<1> QED BY <1>5, <1>6

(* The branches of other statements are left alone.                         *)
LEMMA TopLeaves ==
  ASSUME Inductive, ParseStep, frames # <<>>
  PROVE  Leaves(code, code', FrameHoles(Top))
<1>1. MayRewrite(FrameHoles(Top) \cup (Int \ Code))
  BY DEF MayRewrite
<1>2. Leaves(code, code', FrameHoles(Top) \cup (Int \ Code))
  BY <1>1, StepLeaves
<1> QED BY <1>2 DEF Leaves, Code

LEMMA Untouched ==
  ASSUME NEW b, NEW e, NEW P, Leaves(b, e, P), NEW a \in DOMAIN b.ins, a \notin P,
         b.ins[a].op # "break"
  PROVE  a \in DOMAIN e.ins /\ e.ins[a] = b.ins[a]
  BY DEF Leaves

(* Code that has been added may be patched without touching the rest.       *)
LEMMA LeavesRest ==
  ASSUME NEW b, NEW e, NEW P, Leaves(b, e, P), IsCode(b), \A a \in P : a \notin DOMAIN b.ins
  PROVE  Leaves(b, e, {})
  BY DEF Leaves

-----------------------------------------------------------------------------
(* Every action keeps the depths.                                           *)

LEMMA Sizes == {1, 3} \subseteq Nat \ {0} /\ ChunkSizes \subseteq Nat \ {0}
  BY ChunkAssumption

LEMMA StmtDepths ==
  ASSUME Inductive, Depths, NEW n \in Nat \ {0}, Stmt(n) \/ Exit(n) \/ Break
  PROVE  Depths'
<1>1. StatementPoint /\ UNCHANGED <<frames, done>>
  BY DEF Stmt, Exit, Break
<1>2. At(code, Holes, Heads, 0) /\ Rest = 0 /\ ~done' /\ prog \in Seq(Tokens)
  BY <1>1, StartAt, InductiveFacts
<1>3. Leaves(code, code', {})
  BY OpenersLeave
<1>4. \A op \in {"stmt", "return", "halt", "break"}, k \in Nat \ {0} :
        At(EmitChunk(code, op, k), Holes, Heads, 0)
  BY <1>2, ChunkAt, MovesTable
<1>5. EmitHole(code, "break") = EmitChunk(code, "break", 3)
  BY DEF EmitHole, EmitChunk
<1>6. At(code', Holes, Heads, 0)
  BY <1>2, <1>4, <1>5, Sizes DEF Stmt, Exit, Break
<1> QED BY <1>1, <1>2, <1>3, <1>6, SameDepth DEF At

(* A statement that opens waits for the branch that leaves it.              *)
LEMMA OpenedSound ==
  ASSUME NEW kind \in {"if", "while", "for"}, NEW head \in Nat, NEW hole \in Nat,
         NEW brk \in Nat, head <= hole, head <= brk, Waits(hole, 0)',
         NEW f, f = NewFrame(kind, head, hole, brk)
  PROVE  FrameSound(f)' /\ FrameHoles(f) = {hole} /\ f \in Frame
         /\ f.kind = kind /\ f.head = head /\ f.brk = brk
<1>1. /\ f \in Frame /\ f.kind = kind /\ f.head = head /\ f.hole = hole /\ f.brk = brk
      /\ f.arms = {} /\ f.ends = {} /\ FrameHoles(f) = {hole}
  <2>1. kind \in FrameKinds /\ hole \in Int /\ hole >= 0
    BY DEF FrameKinds, LoopKinds
  <2> QED BY <2>1 DEF NewFrame, Frame, FrameHoles
<1> QED BY <1>1 DEF FrameSound, LoopKinds

LEMMA IfThenDepths ==
  ASSUME Inductive, Depths, NEW n \in Nat \ {0}, IfThen(n)
  PROVE  Depths'
<1> PICK test : test = EmitChunk(code, "cond", n)
  OBVIOUS
<1> PICK f : f = NewFrame("if", 0, test.pos, 0)
  OBVIOUS
<1>1. StatementPoint /\ done' = done /\ Push(f) /\ code' = EmitHole(test, "ifeq")
  BY DEF IfThen
<1>2. At(code, Holes, Heads, 0) /\ ~TopIs({"labels"}) /\ ~done'
      /\ prog \in Seq(Tokens) /\ code.pos \in Nat
  BY <1>1, StartAt, InductiveFacts
<1>3. Leaves(code, code', {})
  BY OpenersLeave
<1>4. At(test, Holes, Heads, 1) /\ test.pos = code.pos + n
  BY <1>2, ChunkAt, MovesTable DEF Longer
<1>5. At(code', Holes \cup {test.pos}, Heads, 0)
      /\ DepthOut(code'.ins[test.pos]) \in {Dead, 0}
  BY <1>1, <1>2, <1>4, HoleAt, MovesTable DEF Waiting
<1>6. test.pos \in Nat /\ 0 <= test.pos /\ test.pos >= code.pos
  BY <1>2, <1>4
<1>7. FrameSound(f)' /\ FrameHoles(f) = {test.pos} /\ f \in Frame
      /\ f.kind = "if"
  BY <1>5, <1>6, OpenedSound DEF Waits
<1> QED BY <1>1, <1>2, <1>3, <1>5, <1>6, <1>7, PushDepth DEF At, LoopKinds

LEMMA WhileDoDepths ==
  ASSUME Inductive, Depths, NEW n \in Nat \ {0}, WhileDo(n)
  PROVE  Depths'
<1> PICK test : test = EmitChunk(code, "cond", n)
  OBVIOUS
<1> PICK f : f = NewFrame("while", code.pos, test.pos, code'.pos)
  OBVIOUS
<1> PICK X : X = Heads \cup {code.pos}
  OBVIOUS
<1>1. StatementPoint /\ done' = done /\ Push(f) /\ code' = EmitHole(test, "ifeq")
  BY DEF WhileDo
<1>2. At(code, Holes, X, 0) /\ ~TopIs({"labels"}) /\ ~done'
      /\ prog \in Seq(Tokens) /\ code.pos \in Nat
  BY <1>1, StartAt, InductiveFacts, NewHead
<1>3. Leaves(code, code', {})
  BY OpenersLeave
<1>4. At(test, Holes, X, 1) /\ test.pos = code.pos + n
  BY <1>2, ChunkAt, MovesTable DEF Longer
<1>5. At(code', Holes \cup {test.pos}, X, 0) /\ code'.pos = test.pos + 3
      /\ DepthOut(code'.ins[test.pos]) \in {Dead, 0}
  <2>1. "ifeq" \in Branches /\ Moves("ifeq", 1, 0)
    BY MovesTable
  <2>2. At(code', Holes \cup {test.pos}, X, 0) /\ Waiting(test, code', 0)
    BY <1>1, <1>2, <1>4, <2>1, HoleAt
  <2> QED BY <2>2 DEF Waiting
<1>6. test.pos \in Nat /\ code'.pos \in Nat /\ code.pos <= test.pos /\ code.pos <= code'.pos
  BY <1>2, <1>4, <1>5
<1>7. FrameSound(f)' /\ FrameHoles(f) = {test.pos} /\ f \in Frame
      /\ f.kind = "while" /\ f.head = code.pos /\ f.brk = code'.pos
  BY <1>2, <1>5, <1>6, OpenedSound DEF Waits
<1>8. test.pos >= code.pos /\ f.brk >= code.pos
  BY <1>2, <1>6, <1>7
<1> QED BY <1>1, <1>2, <1>3, <1>5, <1>6, <1>7, <1>8, PushDepth DEF At, LoopKinds

LEMMA RepeatDepths ==
  ASSUME Inductive, Depths, Repeat
  PROVE  Depths'
<1> PICK f : f = NewFrame("repeat", code.pos, -1, code.pos)
  OBVIOUS
<1> PICK X : X = Heads \cup {code.pos}
  OBVIOUS
<1>1. StatementPoint /\ done' = done /\ Push(f) /\ code' = code
  BY DEF Repeat
<1>2. At(code, Holes, X, 0) /\ ~TopIs({"labels"}) /\ ~done' /\ code.pos \in Nat
  BY <1>1, StartAt, InductiveFacts, NewHead
<1>3. Leaves(code, code', {})
  BY Sizes, OpenersLeave
<1>4. -1 \in Int /\ "repeat" \in FrameKinds /\ code.pos >= code.pos
  BY <1>2 DEF FrameKinds, LoopKinds
<1>5. f \in Frame /\ f.kind = "repeat" /\ f.head = code.pos /\ f.brk = code.pos
      /\ FrameHoles(f) = {} /\ f.arms = {} /\ f.ends = {}
  BY <1>2, <1>4 DEF NewFrame, Frame, FrameHoles
<1>6. FrameSound(f)'
  BY <1>4, <1>5 DEF FrameSound
<1>7. At(code', Holes \cup FrameHoles(f), X, 0)
  BY <1>1, <1>2, <1>5
<1> QED BY <1>1, <1>2, <1>3, <1>4, <1>5, <1>6, <1>7, PushDepth DEF At, LoopKinds

LEMMA ForDoDepths ==
  ASSUME Inductive, Depths, NEW n \in ChunkSizes, NEW dir \in Direction, ForDo(n, dir)
  PROVE  Depths'
<1> PICK start : start = EmitChunk(code, "init", n)
  OBVIOUS
<1> PICK check : check = Emit(start, "limit", n, 0, dir)
  OBVIOUS
<1> PICK op : op = IF dir = 1 THEN "if_icmplt" ELSE "if_icmpgt"
  OBVIOUS
<1> PICK f : f = NewFrame("for", start.pos, check.pos, code'.pos)
  OBVIOUS
<1> PICK X : X = Heads \cup {start.pos}
  OBVIOUS
<1>1. StatementPoint /\ done' = done /\ Push(f) /\ code' = EmitHole(check, op)
  BY DEF ForDo
<1>2. At(code, Holes, Heads, 0) /\ ~TopIs({"labels"}) /\ ~done'
      /\ prog \in Seq(Tokens) /\ code.pos \in Nat /\ n \in Nat \ {0} /\ dir \in Int
  BY <1>1, StartAt, InductiveFacts, Sizes DEF Direction
<1>3. Leaves(code, code', {})
  BY ForDoLeaves
<1>4. At(start, Holes, Heads, 0) /\ start.pos = code.pos + n
  BY <1>2, ChunkAt, MovesTable DEF Longer
<1>5. At(start, Holes, X, 0)
  BY <1>4, NewHead
<1>6. At(check, Holes, X, 2) /\ check.pos = start.pos + n
  <2>1. "limit" \in Ops \ Branches /\ Moves("limit", 0, 2)
    BY MovesTable
  <2>2. At(check, Holes, X, 2) /\ Longer(start, check, n)
    BY <1>2, <1>5, <2>1, PlainAt
  <2> QED BY <2>2 DEF Longer
<1>7. At(code', Holes \cup {check.pos}, X, 0) /\ code'.pos = check.pos + 3
      /\ DepthOut(code'.ins[check.pos]) \in {Dead, 0}
  <2>1. op \in Branches /\ Moves(op, 2, 0)
    BY MovesTable
  <2>2. At(code', Holes \cup {check.pos}, X, 0) /\ Waiting(check, code', 0)
    BY <1>1, <1>2, <1>6, <2>1, HoleAt
  <2> QED BY <2>2 DEF Waiting
<1>8. start.pos \in Nat /\ check.pos \in Nat /\ code'.pos \in Nat
      /\ start.pos <= check.pos /\ start.pos <= code'.pos
      /\ check.pos >= code.pos /\ code'.pos >= code.pos
  <2>1. code.pos \in Nat /\ n \in Nat
    BY <1>2
  <2>2. start.pos = code.pos + n
    BY <1>4
  <2>3. check.pos = start.pos + n
    BY <1>6
  <2>4. code'.pos = check.pos + 3
    BY <1>7
  <2> QED BY <2>1, <2>2, <2>3, <2>4
<1>9. FrameSound(f)' /\ FrameHoles(f) = {check.pos} /\ f \in Frame
      /\ f.kind = "for" /\ f.head = start.pos /\ f.brk = code'.pos
  BY <1>7, <1>8, OpenedSound DEF Waits
<1> QED BY <1>1, <1>2, <1>3, <1>7, <1>8, <1>9, PushDepth DEF At, LoopKinds

LEMMA CaseOfDepths ==
  ASSUME Inductive, Depths, NEW n \in Nat \ {0}, NEW str \in BOOLEAN, CaseOf(n, str)
  PROVE  Depths'
<1> PICK f : f = [NewFrame("labels", 0, -1, 0) EXCEPT !.str = str]
  OBVIOUS
<1>1. StatementPoint /\ done' = done /\ Push(f) /\ code' = EmitChunk(code, "select", n)
  BY DEF CaseOf
<1>2. At(code, Holes, Heads, 0) /\ ~TopIs({"labels"}) /\ ~done' /\ prog \in Seq(Tokens)
  BY <1>1, StartAt, InductiveFacts
<1>3. Leaves(code, code', {})
  BY OpenersLeave
<1>4. At(code', Holes, Heads, 1)
  BY <1>1, <1>2, ChunkAt, MovesTable
<1>5. f \in Frame /\ f.kind = "labels" /\ f.hole = -1 /\ f.arms = {} /\ f.ends = {}
  <2>1. -1 \in Int /\ "labels" \in FrameKinds /\ 0 \in Nat
    BY DEF FrameKinds
  <2>2. NewFrame("labels", 0, -1, 0) \in Frame
        /\ NewFrame("labels", 0, -1, 0).kind = "labels"
        /\ NewFrame("labels", 0, -1, 0).hole = -1
        /\ NewFrame("labels", 0, -1, 0).arms = {}
        /\ NewFrame("labels", 0, -1, 0).ends = {}
    BY <2>1, NewFrameType
  <2> QED BY <2>2 DEF Frame
<1>6. FrameHoles(f) = {} /\ FrameSound(f)'
  BY <1>5 DEF FrameHoles, FrameSound, LoopKinds
<1>7. At(code', Holes \cup FrameHoles(f), Heads, 1)
  BY <1>4, <1>6
<1> QED BY <1>1, <1>2, <1>3, <1>5, <1>6, <1>7, PushDepth DEF At, LoopKinds

-----------------------------------------------------------------------------
(* if                                                                       *)

LEMMA ElseDepths ==
  ASSUME Inductive, Depths, InRange', Else
  PROVE  Depths'
<1> PICK h : h = Top.hole
  OBVIOUS
<1> PICK c : c = EmitHole(code, "goto")
  OBVIOUS
<1> PICK f : f = [Top EXCEPT !.kind = "else", !.hole = code.pos]
  OBVIOUS
<1>1. /\ ~done' /\ SetTop(f) /\ TopIs({"if"})
      /\ code' = EmitHole(Patch(code, {h}, code.pos + 3), "goto")
  BY DEF Else
<1>2. /\ frames # <<>> /\ Top \in Frame /\ FrameShaped(Top) /\ FrameSound(Top)
      /\ FrameHoles(Top) \subseteq Holes /\ Top.kind = "if"
      /\ At(code, Holes, Heads, 0)
  BY <1>1, TopAt
<1>3. /\ IsCode(code) /\ prog \in Seq(Tokens) /\ code.pos \in Nat
  BY InductiveFacts
<1>4. h >= 0 /\ Waits(h, 0) /\ FrameHoles(Top) = {h} /\ h \in Holes
      /\ Top.arms = {} /\ Top.ends = {}
  BY <1>2 DEF FrameSound, FrameShaped, FrameHoles
<1>5. h \in DOMAIN code.ins /\ h < code.pos /\ code.ins[h].op # "break" /\ h # code.pos
  BY <1>4, Places
<1>6. At(c, Holes \cup {code.pos}, Heads, 0) /\ Waiting(code, c, 0)
  <2>1. "goto" \in Branches /\ Moves("goto", 0, 0)
    BY MovesTable
  <2> QED BY <1>2, <1>3, <2>1, HoleAt
<1>7. c.pos = code.pos + 3 /\ code.pos \in DOMAIN c.ins
      /\ DepthOut(c.ins[code.pos]) \in {Dead, 0} /\ c.ins[code.pos].op # "break"
  BY <1>6 DEF Waiting
<1>8. code.pos + 3 < ShortHalf /\ c.pos < ShortHalf
  <2>1. Patch(code, {h}, code.pos + 3).pos = code.pos
    BY <1>3 DEF Patch, IsCode
  <2>2. code'.pos = code.pos + 3
    BY <1>1, <2>1 DEF EmitHole, Emit
  <2> QED BY <1>7, <2>2 DEF InRange
<1>9. code' = PatchHere(c, {h})
  <2>1. {h} \subseteq Holes
    BY <1>4
  <2> QED BY <1>1, <1>2, <1>3, <1>8, <2>1, ElseOrder DEF At
<1>10. Leaves(code, c, {}) /\ IsCode(c)
  <2>1. "goto" \in Ops
    BY DEF Ops, Branches
  <2>2. Leaves(code, c, {})
    BY <1>3, <2>1, HoleLeaves
  <2> QED BY <2>2 DEF Leaves
<1>11. c.ins[h] = code.ins[h]
  BY <1>5, <1>10 DEF Leaves
<1>12. At(code', (Holes \cup {code.pos}) \ {h}, Heads, 0)
  <2>1. {h} \subseteq Holes \cup {code.pos} /\ 0 \in Nat
    BY <1>4
  <2>2. \A a \in {h} : DepthOut(c.ins[a]) \in {Dead, 0}
    BY <1>4, <1>11 DEF Waits
  <2>3. \A x \in Heads, a \in {h} : a >= x
    BY <1>2, <1>4, TopBeyond
  <2> QED BY <1>6, <1>8, <1>9, <2>1, <2>2, <2>3, PatchAt
<1>13. code'.ins[code.pos] = c.ins[code.pos]
  <2>1. Leaves(c, code', {h})
    BY <1>9, <1>10, PatchHereLeaves
  <2> QED BY <1>5, <1>7, <2>1 DEF Leaves
<1>14. f \in Frame /\ f.kind = "else" /\ f.hole = code.pos /\ f.arms = {} /\ f.ends = {}
  <2>1. "else" \in FrameKinds /\ code.pos \in Int
    BY <1>3 DEF FrameKinds
  <2> PICK g : g = Top
    OBVIOUS
  <2>2. g \in Frame /\ f = [g EXCEPT !.kind = "else", !.hole = code.pos]
        /\ g.arms = {} /\ g.ends = {}
    BY <1>2, <1>4
  <2> QED BY <2>1, <2>2 DEF Frame
<1>15. FrameSound(f)' /\ FrameHoles(f) = {code.pos}
  BY <1>3, <1>7, <1>13, <1>14 DEF FrameSound, FrameHoles, Waits, LoopKinds
<1>16. (Holes \cup {code.pos}) \ {h} = (Holes \ FrameHoles(Top)) \cup FrameHoles(f)
  BY <1>4, <1>5, <1>15
<1>17. Leaves(code, code', FrameHoles(Top))
  <2>1. ParseStep
    BY DEF ParseStep
  <2> QED BY <1>2, <2>1, TopLeaves
<1>18. \A x \in FrameHoles(f) : x \in Nat /\ x >= code.pos
  BY <1>3, <1>15
<1> QED BY <1>1, <1>2, <1>12, <1>14, <1>15, <1>16, <1>17, <1>18, SetTopDepth DEF At, LoopKinds

LEMMA EndIfDepths ==
  ASSUME Inductive, Depths, InRange', EndIf
  PROVE  Depths'
<1> PICK h : h = Top.hole
  OBVIOUS
<1>1. ~done' /\ Pop /\ TopIs({"if", "else"}) /\ code' = PatchHere(code, {h})
  BY DEF EndIf
<1>2. /\ frames # <<>> /\ Top \in Frame /\ FrameShaped(Top) /\ FrameSound(Top)
      /\ FrameHoles(Top) \subseteq Holes /\ Top.kind \in {"if", "else"}
      /\ At(code, Holes, Heads, 0)
  BY <1>1, TopAt
<1>3. Waits(h, 0) /\ FrameHoles(Top) = {h} /\ h \in Holes
  BY <1>2 DEF FrameSound, FrameShaped, FrameHoles
<1>4. code.pos < ShortHalf
  <2>1. code'.pos = code.pos
    BY <1>1, PatchHereGrown, InductiveFacts
  <2> QED BY <2>1 DEF InRange
<1>5. At(code', Holes \ {h}, Heads, 0)
  <2>1. {h} \subseteq Holes /\ 0 \in Nat
    BY <1>3
  <2>2. \A a \in {h} : DepthOut(code.ins[a]) \in {Dead, 0}
    BY <1>3 DEF Waits
  <2>3. \A x \in Heads, a \in {h} : a >= x
    BY <1>2, <1>3, TopBeyond
  <2> QED BY <1>1, <1>2, <1>4, <2>1, <2>2, <2>3, PatchAt
<1>6. Leaves(code, code', FrameHoles(Top))
  <2>1. ParseStep
    BY DEF ParseStep
  <2> QED BY <1>2, <2>1, TopLeaves
<1> QED BY <1>1, <1>2, <1>3, <1>5, <1>6, PopDepth DEF At

-----------------------------------------------------------------------------
(* case                                                                     *)

(* A comparison with the selector.                                          *)
Tested(b, t, e, n) ==
  Waiting(t, e, 1) /\ t.pos = b.pos + n /\ Leaves(b, e, {})

LEMMA TestAt ==
  ASSUME NEW b, NEW H, NEW X, At(b, H, X, 1), prog \in Seq(Tokens),
         NEW op \in Ops \ Branches, NEW n \in Nat \ {0}, NEW v \in Int,
         NEW jop \in Branches, NEW m, Moves(op, 1, m), Moves(jop, m, 1),
         NEW t, t = Emit(b, op, n, 0, v), NEW e, e = EmitHole(t, jop)
  PROVE  At(e, H \cup {t.pos}, X, 1) /\ Tested(b, t, e, n)
<1>1. At(t, H, X, m) /\ Longer(b, t, n)
  BY PlainAt
<1>2. At(e, H \cup {t.pos}, X, 1) /\ Waiting(t, e, 1)
  BY <1>1, HoleAt
<1>3. IsCode(b) /\ IsCode(t) /\ 0 \in Int /\ jop \in Ops
  BY <1>1 DEF At, Coherent, Ops
<1>4. Leaves(b, t, {})
  BY <1>3, EmitLeaves
<1>5. Leaves(t, e, {})
  BY <1>3, HoleLeaves
<1> QED BY <1>1, <1>2, <1>4, <1>5, LeavesTwice DEF Longer, Tested

(* A label holds the branch at x, which leaves with the selector.           *)
LEMMA LabelDepths ==
  ASSUME Inductive, Depths, TopIs({"labels"}), ~done', NEW x \in Nat, x >= code.pos,
         NEW f \in Frame, SetTop(f), f.kind = "labels", f.hole = Top.hole,
         f.arms = Top.arms \cup {x}, f.ends = Top.ends,
         At(code', Holes \cup {x}, Heads, 1), Leaves(code, code', {}), Waits(x, 1)'
  PROVE  Depths'
<1>1. /\ frames # <<>> /\ Top \in Frame /\ FrameShaped(Top) /\ FrameSound(Top)
      /\ FrameHoles(Top) \subseteq Holes /\ Top.kind = "labels"
  BY TopAt
<1>2. FrameHoles(Top) = Top.arms \cup Top.ends /\ FrameHoles(f) = FrameHoles(Top) \cup {x}
      /\ f.hole = -1
  BY <1>1 DEF FrameHoles, FrameShaped
<1>3. x \notin Holes /\ -1 \notin Holes
  BY Places
<1> PICK g : g = Top
  OBVIOUS
<1>4. FrameSound(g)'
  BY <1>1, StillSound
<1>5. FrameSound(f)'
  <2>1. x \notin Top.ends /\ f.hole \notin f.arms \cup f.ends /\ f.arms \cap f.ends = {}
    BY <1>1, <1>2, <1>3 DEF FrameSound
  <2>2. /\ \A h \in f.arms : Waits(h, 1)'
        /\ \A h \in f.ends : Waits(h, 0)'
    BY <1>4 DEF FrameSound
  <2> QED BY <2>1, <2>2 DEF FrameSound, LoopKinds
<1>6. Leaves(code, code', FrameHoles(Top))
  BY DEF Leaves
<1>7. (Holes \ FrameHoles(Top)) \cup FrameHoles(f) = Holes \cup {x}
  BY <1>1, <1>2
<1>8. \A h \in FrameHoles(f) : h \in FrameHoles(Top) \/ (h \in Nat /\ h >= code.pos)
  BY <1>2
<1> QED BY <1>1, <1>5, <1>6, <1>7, <1>8, SetTopDepth DEF At, LoopKinds

LEMMA OneLabelDepths ==
  ASSUME Inductive, Depths, NEW n \in Nat \ {0}, NEW v \in Int, Label(n, v)
  PROVE  Depths'
<1> PICK op : op = IF Top.str THEN "strlabel" ELSE "label"
  OBVIOUS
<1> PICK jop : jop = IF Top.str THEN "ifeq" ELSE "if_icmpeq"
  OBVIOUS
<1> PICK t : t = Emit(code, op, n, 0, v)
  OBVIOUS
<1> PICK f : f = IF Clashes(v, v) THEN [Top EXCEPT !.arms = @ \cup {t.pos}]
                 ELSE Remember([Top EXCEPT !.arms = @ \cup {t.pos}], v, v)
  OBVIOUS
<1>1. ~done' /\ TopIs({"labels"}) /\ SetTop(f) /\ code' = EmitHole(t, jop)
  BY DEF Label
<1>2. Top \in Frame /\ Top.kind = "labels" /\ At(code, Holes, Heads, 1)
      /\ prog \in Seq(Tokens) /\ code.pos \in Nat
  BY <1>1, TopAt, InductiveFacts
<1>3. PICK m : op \in Ops \ Branches /\ Moves(op, 1, m) /\ jop \in Branches /\ Moves(jop, m, 1)
  BY MovesTable
<1>4. At(code', Holes \cup {t.pos}, Heads, 1) /\ Waiting(t, code', 1)
      /\ t.pos = code.pos + n /\ Leaves(code, code', {})
  <2>1. At(code', Holes \cup {t.pos}, Heads, 1) /\ Tested(code, t, code', n)
    BY <1>1, <1>2, <1>3, TestAt
  <2> QED BY <2>1 DEF Tested
<1>5. t.pos \in Nat /\ t.pos >= code.pos /\ Waits(t.pos, 1)'
  BY <1>2, <1>4 DEF Waiting, Waits
<1>6. /\ f \in Frame /\ f.kind = Top.kind /\ f.hole = Top.hole
      /\ f.arms = Top.arms \cup {t.pos} /\ f.ends = Top.ends
  BY <1>2, <1>5, LabelFrame
<1> QED BY <1>1, <1>2, <1>4, <1>5, <1>6, LabelDepths

LEMMA LabelRangeDepths ==
  ASSUME Inductive, Depths, InRange', NEW n \in Nat \ {0}, NEW lo \in Int, NEW hi \in Int,
         LabelRange(n, lo, hi)
  PROVE  Depths'
<1> PICK low : low = Emit(code, "label", n, 0, lo)
  OBVIOUS
<1> PICK skip : skip = EmitHole(low, "if_icmplt")
  OBVIOUS
<1> PICK high : high = Emit(skip, "label", n, 0, hi)
  OBVIOUS
<1> PICK both : both = EmitHole(high, "if_icmple")
  OBVIOUS
<1> PICK f : f = IF (~Top.str /\ lo <= hi) /\ ~Clashes(lo, hi)
                 THEN Remember([Top EXCEPT !.arms = @ \cup {high.pos}], lo, hi)
                 ELSE [Top EXCEPT !.arms = @ \cup {high.pos}]
  OBVIOUS
<1>1. ~done' /\ TopIs({"labels"}) /\ SetTop(f) /\ code' = PatchHere(both, {low.pos})
  BY DEF LabelRange
<1>2. Top \in Frame /\ Top.kind = "labels" /\ At(code, Holes, Heads, 1)
      /\ prog \in Seq(Tokens) /\ code.pos \in Nat
  BY <1>1, TopAt, InductiveFacts
<1>3. "label" \in Ops \ Branches /\ Moves("label", 1, 3)
      /\ "if_icmplt" \in Branches /\ Moves("if_icmplt", 3, 1)
      /\ "if_icmple" \in Branches /\ Moves("if_icmple", 3, 1)
  BY MovesTable
<1>4. At(skip, Holes \cup {low.pos}, Heads, 1) /\ Waiting(low, skip, 1)
      /\ low.pos = code.pos + n /\ Leaves(code, skip, {})
  <2>1. At(skip, Holes \cup {low.pos}, Heads, 1) /\ Tested(code, low, skip, n)
    BY <1>2, <1>3, TestAt
  <2> QED BY <2>1 DEF Tested
<1>5. At(both, (Holes \cup {low.pos}) \cup {high.pos}, Heads, 1) /\ Waiting(high, both, 1)
      /\ high.pos = skip.pos + n /\ Leaves(skip, both, {})
  <2>1. /\ At(both, (Holes \cup {low.pos}) \cup {high.pos}, Heads, 1)
        /\ Tested(skip, high, both, n)
    BY <1>2, <1>3, <1>4, TestAt
  <2> QED BY <2>1 DEF Tested
<1>6. /\ low.pos \in Nat /\ low.pos >= code.pos /\ high.pos \in Nat /\ high.pos > low.pos
      /\ high.pos >= code.pos /\ both.pos \in Nat
      /\ low.pos \in DOMAIN skip.ins /\ skip.ins[low.pos].op # "break"
      /\ DepthOut(skip.ins[low.pos]) \in {Dead, 1}
      /\ high.pos \in DOMAIN both.ins /\ both.ins[high.pos].op # "break"
      /\ DepthOut(both.ins[high.pos]) \in {Dead, 1}
  <2>1. /\ low.pos \in Nat /\ low.pos \in DOMAIN skip.ins /\ skip.ins[low.pos].op # "break"
        /\ DepthOut(skip.ins[low.pos]) \in {Dead, 1} /\ skip.pos = low.pos + 3
        /\ high.pos \in Nat /\ high.pos \in DOMAIN both.ins /\ both.ins[high.pos].op # "break"
        /\ DepthOut(both.ins[high.pos]) \in {Dead, 1} /\ both.pos = high.pos + 3
    BY <1>4, <1>5 DEF Waiting
  <2>2. /\ low.pos >= code.pos /\ high.pos > low.pos /\ high.pos >= code.pos
        /\ both.pos \in Nat
    <3>1. low.pos = code.pos + n /\ high.pos = skip.pos + n
      BY <1>4, <1>5
    <3>2. code.pos \in Nat /\ skip.pos = low.pos + 3 /\ both.pos = high.pos + 3
      BY <1>2, <2>1
    <3>3. low.pos \in Nat /\ high.pos \in Nat
      BY <2>1
    <3>4. low.pos >= code.pos
      BY <3>1, <3>2
    <3>5. high.pos = low.pos + 3 + n
      BY <3>1, <3>2
    <3>6. high.pos > low.pos
      BY <3>3, <3>5
    <3>7. high.pos >= code.pos /\ both.pos \in Nat
      BY <3>2, <3>3, <3>4, <3>6
    <3> QED BY <3>4, <3>6, <3>7
  <2> QED BY <2>1, <2>2
<1>7. both.ins[low.pos] = skip.ins[low.pos]
  BY <1>5, <1>6 DEF Leaves
<1>8. IsCode(both) /\ both.pos < ShortHalf
  <2>1. IsCode(both)
    BY <1>5 DEF At, Coherent
  <2>2. code'.pos = both.pos
    BY <1>1, <2>1, PatchHereGrown
  <2> QED BY <2>1, <2>2 DEF InRange
<1>9. At(code', ((Holes \cup {low.pos}) \cup {high.pos}) \ {low.pos}, Heads, 1)
  <2>1. {low.pos} \subseteq (Holes \cup {low.pos}) \cup {high.pos} /\ 1 \in Nat
    OBVIOUS
  <2>2. \A a \in {low.pos} : DepthOut(both.ins[a]) \in {Dead, 1}
    BY <1>6, <1>7
  <2>3. \A x \in Heads, a \in {low.pos} : a >= x
    <3> SUFFICES ASSUME NEW x \in Heads PROVE low.pos >= x
      OBVIOUS
    <3>1. x \in Nat /\ x <= code.pos
      BY Places
    <3> QED BY <1>2, <1>6, <3>1
  <2> QED BY <1>1, <1>5, <1>8, <2>1, <2>2, <2>3, PatchAt
<1>10. ((Holes \cup {low.pos}) \cup {high.pos}) \ {low.pos} = Holes \cup {high.pos}
  <2>1. low.pos \notin Holes /\ low.pos # high.pos
    BY <1>2, <1>6, Places
  <2> QED BY <2>1
<1>11. Leaves(both, code', {low.pos})
  BY <1>1, <1>8, PatchHereLeaves
<1>12. Leaves(code, code', {})
  <2>1. Leaves(code, both, {})
    BY <1>4, <1>5, LeavesTwice
  <2>2. Leaves(code, both, {low.pos})
    BY <2>1 DEF Leaves
  <2>3. Leaves(code, code', {low.pos})
    BY <1>11, <2>2, LeavesTwice
  <2>4. low.pos \notin DOMAIN code.ins /\ IsCode(code)
    BY <1>2, <1>6, CodeFacts DEF At, Coherent
  <2> QED BY <2>3, <2>4, LeavesRest
<1>13. Waits(high.pos, 1)'
  <2>1. code'.ins[high.pos] = both.ins[high.pos]
    BY <1>6, <1>11 DEF Leaves
  <2> QED BY <1>6, <2>1 DEF Waits
<1>14. /\ f \in Frame /\ f.kind = Top.kind /\ f.hole = Top.hole
       /\ f.arms = Top.arms \cup {high.pos} /\ f.ends = Top.ends
  <2>1. \/ f = [Top EXCEPT !.arms = @ \cup {high.pos}]
        \/ f = Remember([Top EXCEPT !.arms = @ \cup {high.pos}], lo, hi)
    OBVIOUS
  <2> PICK x : x = high.pos
    OBVIOUS
  <2> PICK h : h = Top
    OBVIOUS
  <2>2. /\ h \in Frame /\ x \in Nat
        /\ \/ f = [h EXCEPT !.arms = @ \cup {x}]
           \/ f = Remember([h EXCEPT !.arms = @ \cup {x}], lo, hi)
    BY <1>2, <1>6, <2>1
  <2>3. /\ f \in Frame /\ f.kind = h.kind /\ f.hole = h.hole
        /\ f.arms = h.arms \cup {x} /\ f.ends = h.ends
    BY <2>2, LabelFrame
  <2> QED BY <2>3
<1>15. At(code', Holes \cup {high.pos}, Heads, 1)
  BY <1>9, <1>10
<1> QED BY <1>1, <1>2, <1>6, <1>12, <1>13, <1>14, <1>15, LabelDepths

LEMMA SameHere ==
  ASSUME NEW b, NEW e, e.depth = b.depth, Arriving(e) = Arriving(b)
  PROVE  DepthHere(e) = DepthHere(b)
<1> PICK S : S = Arriving(b)
  OBVIOUS
<1> QED BY DEF DepthHere

(* The branch of the last label is turned around: it leaves with the same   *)
(* depth, to be waited for further.                                         *)
Turned(b, e, last) ==
  /\ DOMAIN e.ins = DOMAIN b.ins
  /\ \A a \in DOMAIN b.ins : a # last => e.ins[a] = b.ins[a]
  /\ DepthOut(e.ins[last]) = DepthOut(b.ins[last])
  /\ e.ins[last].op # "break"

LEMMA TurnAt ==
  ASSUME NEW b, NEW H, NEW X, NEW k, At(b, H, X, k), NEW last \in H,
         b.ins[last].op \in {"if_icmpeq", "ifeq"},
         NEW e, e = [b EXCEPT !.ins[last].op = Opposite(@)]
  PROVE  At(e, H, X, k) /\ Turned(b, e, last)
<1> PICK op : op = Opposite(b.ins[last].op)
  OBVIOUS
<1>1. /\ IsCode(b) /\ last \in DOMAIN b.ins /\ H \subseteq DOMAIN b.ins
      /\ \A a \in DOMAIN b.ins : SoundAt(b, H, a)
      /\ 0 \in Points(b) /\ DepthOf(b, 0) = 0 /\ \A x \in X : HeadSound(b, x)
      /\ DepthHere(b) \in {Dead, k}
  BY DEF At, Coherent, Sound
<1>2. IsCode(e) /\ e.pos = b.pos
  BY <1>1, TurnStep
<1>3. /\ e.depth = b.depth /\ DOMAIN e.ins = DOMAIN b.ins
      /\ e.ins = [b.ins EXCEPT ![last].op = op]
  BY <1>1 DEF IsCode
<1>4. /\ op \in Branches /\ b.ins[last].op \in Branches
      /\ op \notin Transfers /\ b.ins[last].op \notin Transfers
      /\ Effect(op) = Effect(b.ins[last].op) /\ op # "break"
      /\ \A d : Fitting(b.ins[last].op, d) => Fitting(op, d)
  BY DEF Opposite, Branches, Transfers, Effect, Fitting
<1>5. ASSUME NEW a \in DOMAIN b.ins
      PROVE  /\ e.ins[a].d = b.ins[a].d /\ e.ins[a].len = b.ins[a].len
             /\ e.ins[a].off = b.ins[a].off /\ Target(e, a) = Target(b, a)
             /\ (e.ins[a].op \in Branches <=> b.ins[a].op \in Branches)
             /\ (e.ins[a].op \in Transfers <=> b.ins[a].op \in Transfers)
             /\ DepthOut(e.ins[a]) = DepthOut(b.ins[a])
             /\ (Fitting(b.ins[a].op, b.ins[a].d) => Fitting(e.ins[a].op, e.ins[a].d))
             /\ a # last => e.ins[a] = b.ins[a]
  <2>1. CASE a = last
    <3>1. b.ins[a] \in Instr /\ e.ins[a] = [b.ins[a] EXCEPT !.op = op]
      BY <1>1, <1>3, <2>1, CodeFacts
    <3>2. /\ e.ins[a].d = b.ins[a].d /\ e.ins[a].len = b.ins[a].len
          /\ e.ins[a].off = b.ins[a].off /\ e.ins[a].op = op
      BY <3>1 DEF Instr
    <3> QED BY <1>4, <2>1, <3>2 DEF Target, DepthOut
  <2>2. CASE a # last
    <3>1. e.ins[a] = b.ins[a]
      BY <1>1, <1>3, <2>2
    <3> QED BY <3>1, <2>2 DEF Target
  <2> QED BY <2>1, <2>2
<1>6. e.ins[last].op # "break"
  <2>1. b.ins[last] \in Instr /\ e.ins[last] = [b.ins[last] EXCEPT !.op = op]
    BY <1>1, <1>3, CodeFacts
  <2>2. e.ins[last].op = op
    BY <2>1 DEF Instr
  <2> QED BY <1>4, <2>2
<1>7. Arriving(e) = Arriving(b)
  <2>1. {x \in DOMAIN e.ins : e.ins[x].op \in Branches /\ e.ins[x].d # Dead /\ Target(e, x) = e.pos}
         = {x \in DOMAIN b.ins : b.ins[x].op \in Branches /\ b.ins[x].d # Dead /\ Target(b, x) = b.pos}
    BY <1>2, <1>3, <1>5
  <2> QED BY <1>5, <2>1 DEF Arriving
<1>8. DepthHere(e) = DepthHere(b) /\ Points(e) = Points(b)
  <2>1. DepthHere(e) = DepthHere(b)
    <3>1. e.depth = b.depth
      BY <1>3
    <3> QED BY <1>7, <3>1, SameHere
  <2>2. Points(e) = Points(b)
    BY <1>2, <1>3 DEF Points
  <2> QED BY <2>1, <2>2
<1>9. \A x \in Points(b) : DepthOf(e, x) = DepthOf(b, x)
  BY <1>2, <1>5, <1>8 DEF DepthOf, Points
<1>10. ASSUME NEW a \in DOMAIN e.ins PROVE SoundAt(e, H, a)
  <2>1. SoundAt(b, H, a) /\ a + b.ins[a].len \in Points(b)
    BY <1>1, <1>3 DEF SoundAt
  <2>2. CASE a \in H
    BY <1>3, <1>5, <1>8, <1>9, <2>1, <2>2 DEF SoundAt
  <2>3. CASE a \notin H
    BY <1>3, <1>5, <1>8, <1>9, <2>1, <2>3 DEF SoundAt
  <2> QED BY <2>2, <2>3
<1>11. Sound(e, H)
  BY <1>1, <1>3, <1>8, <1>9, <1>10 DEF Sound
<1>12. \A x \in X : HeadSound(e, x)
  BY <1>1, <1>3, <1>5, <1>8, <1>9 DEF HeadSound, DeadFrom
<1> QED BY <1>1, <1>2, <1>3, <1>5, <1>6, <1>8, <1>11, <1>12 DEF At, Coherent, Turned

(* The colon, where the branch at next waits for the next arm and those of  *)
(* the other labels come here.                                              *)
LEMMA ColonEnd ==
  ASSUME Inductive, Depths, InRange', Colon, NEW b, NEW next \in Nat,
         code' = EmitChunk(PatchHere(b, Top.arms \ {next}), "pop", 1),
         SetTop([Top EXCEPT !.kind = "arm", !.hole = next, !.arms = {}]),
         At(b, Holes \cup {next}, Heads, 1),
         next \in Top.arms \/ next = code.pos,
         next \in DOMAIN b.ins, DepthOut(b.ins[next]) \in {Dead, 1},
         b.ins[next].op # "break",
         \A h \in Holes \ {next} : h \in DOMAIN b.ins /\ b.ins[h] = code.ins[h]
  PROVE  Depths'
<1> PICK f : f = [Top EXCEPT !.kind = "arm", !.hole = next, !.arms = {}]
  OBVIOUS
<1> PICK S : S = Top.arms \ {next}
  OBVIOUS
<1> PICK p : p = PatchHere(b, S)
  OBVIOUS
<1>1. ~done' /\ TopIs({"labels"}) /\ SetTop(f) /\ code' = EmitChunk(p, "pop", 1)
  BY DEF Colon
<1>2. /\ frames # <<>> /\ Top \in Frame /\ FrameShaped(Top) /\ FrameSound(Top)
      /\ FrameHoles(Top) \subseteq Holes /\ Top.kind = "labels"
      /\ prog \in Seq(Tokens) /\ code.pos \in Nat
  BY <1>1, TopAt, InductiveFacts
<1>3. /\ FrameHoles(Top) = Top.arms \cup Top.ends /\ Top.arms \cap Top.ends = {}
      /\ \A h \in Top.arms : Waits(h, 1)
      /\ \A h \in Top.ends : Waits(h, 0)
  BY <1>2 DEF FrameHoles, FrameShaped, FrameSound
<1>4. \A h \in Holes : h \in DOMAIN code.ins /\ h # code.pos /\ code.ins[h].op # "break"
  BY <1>2, Places
<1>5. next \notin Top.ends
  BY <1>2, <1>3, <1>4
<1>6. IsCode(b) /\ p.pos = b.pos /\ IsCode(p)
  <2>1. IsCode(b)
    BY DEF At, Coherent
  <2> QED BY <2>1, PatchStep
<1>7. b.pos < ShortHalf
  <2>1. code'.pos = p.pos + 1
    <3>1. "pop" \in Ops /\ "pop" \notin Branches /\ "pop" # "break" /\ 1 \in Nat \ {0}
      BY DEF Ops, Silent, Branches
    <3>2. IsCode(p) /\ prog \in Seq(Tokens)
      BY <1>2, <1>6
    <3> QED BY <1>1, <3>1, <3>2, PlainStep
  <2>2. b.pos \in Nat
    BY <1>6, CodeFacts
  <2>3. b.pos + 1 < ShortHalf
    BY <1>6, <2>1 DEF InRange
  <2> QED BY <2>2, <2>3, ShortAssumption
<1>8. \A h \in S : h \in Holes \ {next} /\ b.ins[h] = code.ins[h] /\ h \in Top.arms
  BY <1>2, <1>3
<1>9. At(p, (Holes \cup {next}) \ S, Heads, 1)
  <2>1. S \subseteq Holes \cup {next} /\ 1 \in Nat
    BY <1>8
  <2>2. \A a \in S : DepthOut(b.ins[a]) \in {Dead, 1}
    BY <1>3, <1>8 DEF Waits
  <2>3. \A x \in Heads, a \in S : a >= x
    BY <1>2, <1>3, <1>8, TopBeyond
  <2> QED BY <1>7, <2>1, <2>2, <2>3, PatchAt
<1>10. At(code', (Holes \cup {next}) \ S, Heads, 0)
  <2>1. "pop" \in Ops \ Branches /\ Moves("pop", 1, 0)
    BY MovesTable
  <2> QED BY <1>1, <1>2, <1>9, <2>1, Sizes, ChunkAt
<1>11. /\ f \in Frame /\ f.kind = "arm" /\ f.hole = next /\ f.arms = {} /\ f.ends = Top.ends
  <2> PICK g : g = Top
    OBVIOUS
  <2>1. g \in Frame /\ f = [g EXCEPT !.kind = "arm", !.hole = next, !.arms = {}]
        /\ "arm" \in FrameKinds /\ next \in Int
    BY <1>2 DEF FrameKinds
  <2>2. /\ f \in Frame /\ f.kind = "arm" /\ f.hole = next /\ f.arms = {} /\ f.ends = g.ends
    BY <2>1 DEF Frame
  <2> QED BY <2>2
<1>12. FrameHoles(f) = {next} \cup Top.ends
  BY <1>11 DEF FrameHoles
<1>13. (Holes \cup {next}) \ S = (Holes \ FrameHoles(Top)) \cup FrameHoles(f)
  <2>1. Top.ends \subseteq Holes /\ S = Top.arms \ {next}
    BY <1>2, <1>3
  <2> HIDE DEF Holes
  <2> QED BY <1>3, <1>5, <1>12, <2>1
<1>14. \A h \in {next} \cup Top.ends : code'.ins[h] = b.ins[h]
  <2>1. Leaves(b, p, S)
    BY <1>6, PatchHereLeaves
  <2>2. Leaves(p, code', S)
    <3>1. "pop" \in Ops /\ 1 \in Nat \ {0}
      BY DEF Ops, Silent
    <3> QED BY <1>1, <1>2, <1>6, <3>1, ChunkLeaves
  <2>3. Leaves(b, code', S)
    BY <2>1, <2>2, LeavesTwice
  <2>4. next \notin S /\ \A h \in Top.ends : h \notin S /\ h \in Holes \ {next}
    BY <1>2, <1>3, <1>5
  <2>5. \A h \in {next} \cup Top.ends : h \in DOMAIN b.ins /\ b.ins[h].op # "break" /\ h \notin S
    BY <1>4, <2>4
  <2> QED BY <2>3, <2>5 DEF Leaves
<1>15. FrameSound(f)'
  <2>1. Waits(next, 1)'
    BY <1>14 DEF Waits
  <2>2. \A h \in Top.ends : Waits(h, 0)'
    <3> SUFFICES ASSUME NEW h \in Top.ends PROVE Waits(h, 0)'
      OBVIOUS
    <3>1. code'.ins[h] = code.ins[h] /\ Waits(h, 0)
      BY <1>2, <1>3, <1>5, <1>14
    <3> QED BY <3>1 DEF Waits
  <2>3. \A h \in f.ends : Waits(h, 0)'
    BY <1>11, <2>2
  <2> QED BY <1>5, <1>11, <2>1, <2>3 DEF FrameSound, LoopKinds
<1>16. Leaves(code, code', FrameHoles(Top))
  <2>1. ParseStep
    BY DEF ParseStep
  <2> QED BY <1>2, <2>1, TopLeaves
<1>17. \A h \in FrameHoles(f) : h \in FrameHoles(Top) \/ (h \in Nat /\ h >= code.pos)
  BY <1>2, <1>3, <1>12
<1>18. At(code', (Holes \ FrameHoles(Top)) \cup FrameHoles(f), Heads, 0)
  BY <1>10, <1>13
<1>19. f.kind # "labels" /\ f.kind \notin LoopKinds /\ Top.kind \notin LoopKinds
  BY <1>2, <1>11 DEF LoopKinds
<1> QED BY <1>1, <1>2, <1>11, <1>15, <1>16, <1>17, <1>18, <1>19, SetTopDepth DEF At

LEMMA ColonDepths ==
  ASSUME Inductive, Depths, InRange', Colon
  PROVE  Depths'
<1> PICK last : last = code.pos - 3
  OBVIOUS
<1> DEFINE turned == last \in Top.arms /\ code.ins[last].op \in {"if_icmpeq", "ifeq"}
<1>1. TopIs({"labels"})
  BY DEF Colon
<1>2. /\ frames # <<>> /\ FrameSound(Top) /\ FrameHoles(Top) \subseteq Holes
      /\ Top.kind = "labels" /\ At(code, Holes, Heads, 1)
      /\ prog \in Seq(Tokens) /\ IsCode(code) /\ code.pos \in Nat
  BY <1>1, TopAt, InductiveFacts
<1>3. CASE turned
  <2> PICK b : b = [code EXCEPT !.ins[last].op = Opposite(@)]
    OBVIOUS
  <2>1. /\ code' = EmitChunk(PatchHere(b, Top.arms \ {last}), "pop", 1)
        /\ SetTop([Top EXCEPT !.kind = "arm", !.hole = last, !.arms = {}])
    BY <1>3 DEF Colon
  <2>2. last \in Holes /\ last \in Top.arms /\ Waits(last, 1)
        /\ code.ins[last].op \in {"if_icmpeq", "ifeq"}
    BY <1>2, <1>3 DEF FrameSound, FrameHoles
  <2>3. last \in Nat /\ last \in DOMAIN code.ins
    BY <2>2, Places
  <2>4. /\ At(b, Holes, Heads, 1) /\ DOMAIN b.ins = DOMAIN code.ins
        /\ \A a \in DOMAIN code.ins : a # last => b.ins[a] = code.ins[a]
        /\ DepthOut(b.ins[last]) = DepthOut(code.ins[last]) /\ b.ins[last].op # "break"
    <3>1. At(b, Holes, Heads, 1) /\ Turned(code, b, last)
      BY <1>2, <2>2, TurnAt
    <3> QED BY <3>1 DEF Turned
  <2>5. At(b, Holes \cup {last}, Heads, 1)
    <3>1. Holes \cup {last} = Holes
      BY <2>2
    <3> QED BY <2>4, <3>1
  <2>6. \A h \in Holes \ {last} : h \in DOMAIN b.ins /\ b.ins[h] = code.ins[h]
    BY <2>4, Places
  <2>7. DepthOut(b.ins[last]) \in {Dead, 1}
    BY <2>2, <2>4 DEF Waits
  <2>8. last \in Top.arms /\ last \in DOMAIN b.ins /\ b.ins[last].op # "break"
    BY <2>2, <2>3, <2>4
  <2> HIDE DEF turned
  <2> QED BY <2>1, <2>3, <2>5, <2>6, <2>7, <2>8, ColonEnd
<1>4. CASE ~turned
  <2> PICK b : b = EmitHole(code, "goto")
    OBVIOUS
  <2>1. /\ code' = EmitChunk(PatchHere(b, Top.arms \ {code.pos}), "pop", 1)
        /\ SetTop([Top EXCEPT !.kind = "arm", !.hole = code.pos, !.arms = {}])
    BY <1>4 DEF Colon
  <2>2. At(b, Holes \cup {code.pos}, Heads, 1) /\ Waiting(code, b, 1)
    <3>1. "goto" \in Branches /\ Moves("goto", 1, 1)
      BY MovesTable
    <3> QED BY <1>2, <3>1, HoleAt
  <2>3. code.pos \in DOMAIN b.ins /\ DepthOut(b.ins[code.pos]) \in {Dead, 1}
        /\ b.ins[code.pos].op # "break"
    BY <2>2 DEF Waiting
  <2>4. \A h \in Holes \ {code.pos} : h \in DOMAIN b.ins /\ b.ins[h] = code.ins[h]
    <3>1. "goto" \in Ops
      BY DEF Ops, Branches
    <3>2. Leaves(code, b, {})
      BY <1>2, <3>1, HoleLeaves
    <3> QED BY <3>2, Places DEF Leaves
  <2> QED BY <1>2, <2>1, <2>2, <2>3, <2>4, ColonEnd
<1> QED BY <1>3, <1>4

LEMMA EndArmDepths ==
  ASSUME Inductive, Depths, InRange', EndArm
  PROVE  Depths'
<1> PICK h : h = Top.hole
  OBVIOUS
<1> PICK c : c = EmitHole(code, "goto")
  OBVIOUS
<1> PICK f : f = [Top EXCEPT !.kind = "labels", !.hole = -1, !.ends = @ \cup {code.pos}]
  OBVIOUS
<1>1. ~done' /\ TopIs({"arm"}) /\ SetTop(f) /\ code' = PatchHere(c, {h})
  BY DEF EndArm
<1>2. /\ frames # <<>> /\ Top \in Frame /\ FrameShaped(Top) /\ FrameSound(Top)
      /\ FrameHoles(Top) \subseteq Holes /\ Top.kind = "arm"
      /\ At(code, Holes, Heads, 0)
      /\ prog \in Seq(Tokens) /\ code.pos \in Nat /\ IsCode(code)
  BY <1>1, TopAt, InductiveFacts
<1>3. /\ h >= 0 /\ Waits(h, 1) /\ Top.arms = {} /\ FrameHoles(Top) = {h} \cup Top.ends
      /\ h \notin Top.ends /\ h \in Holes /\ Top.ends \subseteq Holes
      /\ \A a \in Top.ends : Waits(a, 0)
  BY <1>2 DEF FrameSound, FrameShaped, FrameHoles
<1>4. \A a \in Holes : a \in DOMAIN code.ins /\ a # code.pos /\ code.ins[a].op # "break"
  BY <1>2, Places
<1>5. At(c, Holes \cup {code.pos}, Heads, 0) /\ Waiting(code, c, 0) /\ DepthHere(c) = Dead
  <2>1. "goto" \in Branches /\ Moves("goto", 0, 0)
    BY MovesTable
  <2> QED BY <1>2, <2>1, HoleAt
<1>6. /\ At(c, Holes \cup {code.pos}, Heads, 1) /\ c.pos = code.pos + 3
      /\ code.pos \in DOMAIN c.ins /\ DepthOut(c.ins[code.pos]) \in {Dead, 0}
      /\ c.ins[code.pos].op # "break" /\ IsCode(c)
  BY <1>5 DEF At, Waiting, Coherent
<1>7. \A a \in Holes : a \in DOMAIN c.ins /\ c.ins[a] = code.ins[a]
  <2>1. "goto" \in Ops
    BY DEF Ops, Branches
  <2>2. Leaves(code, c, {})
    BY <1>2, <2>1, HoleLeaves
  <2> QED BY <1>4, <2>2 DEF Leaves
<1>8. c.pos < ShortHalf
  <2>1. code'.pos = c.pos
    BY <1>1, <1>6, PatchHereGrown
  <2> QED BY <2>1 DEF InRange
<1>9. At(code', (Holes \cup {code.pos}) \ {h}, Heads, 1)
  <2>1. {h} \subseteq Holes \cup {code.pos} /\ 1 \in Nat
    BY <1>3
  <2>2. \A a \in {h} : DepthOut(c.ins[a]) \in {Dead, 1}
    BY <1>3, <1>7 DEF Waits
  <2>3. \A x \in Heads, a \in {h} : a >= x
    BY <1>2, <1>3, TopBeyond
  <2> QED BY <1>1, <1>6, <1>8, <2>1, <2>2, <2>3, PatchAt
<1>10. /\ f \in Frame /\ f.kind = "labels" /\ f.hole = -1 /\ f.arms = {}
       /\ f.ends = Top.ends \cup {code.pos}
  <2> PICK g : g = Top
    OBVIOUS
  <2>1. /\ g \in Frame /\ g.arms = {}
        /\ f = [g EXCEPT !.kind = "labels", !.hole = -1, !.ends = @ \cup {code.pos}]
    BY <1>2, <1>3
  <2>2. -1 \in Int /\ "labels" \in FrameKinds /\ g.ends \cup {code.pos} \in SUBSET Nat
    BY <1>2, <2>1 DEF Frame, FrameKinds
  <2>3. /\ f \in Frame /\ f.kind = "labels" /\ f.hole = -1 /\ f.arms = g.arms
        /\ f.ends = g.ends \cup {code.pos}
    BY <2>1, <2>2 DEF Frame
  <2> QED BY <2>1, <2>3
<1>11. FrameHoles(f) = Top.ends \cup {code.pos}
  BY <1>10 DEF FrameHoles
<1>12. (Holes \cup {code.pos}) \ {h} = (Holes \ FrameHoles(Top)) \cup FrameHoles(f)
  <2>1. h # code.pos
    BY <1>3, <1>4
  <2> HIDE DEF Holes
  <2> QED BY <1>3, <1>11, <2>1
<1>13. \A a \in Top.ends \cup {code.pos} : code'.ins[a] = c.ins[a]
  <2>1. Leaves(c, code', {h})
    BY <1>1, <1>6, PatchHereLeaves
  <2>2. \A a \in Top.ends \cup {code.pos} : a \in DOMAIN c.ins /\ a # h /\ c.ins[a].op # "break"
    BY <1>3, <1>4, <1>6, <1>7
  <2> QED BY <2>1, <2>2 DEF Leaves
<1>14. FrameSound(f)'
  <2>1. \A a \in Top.ends \cup {code.pos} : Waits(a, 0)'
    <3> SUFFICES ASSUME NEW a \in Top.ends \cup {code.pos} PROVE Waits(a, 0)'
      OBVIOUS
    <3>1. DepthOut(c.ins[a]) \in {Dead, 0}
      BY <1>3, <1>6, <1>7 DEF Waits
    <3> QED BY <1>13, <3>1 DEF Waits
  <2>2. \A a \in f.ends : Waits(a, 0)' /\ a \in DOMAIN c.ins
    BY <1>3, <1>6, <1>7, <1>10, <2>1
  <2>3. f.hole \notin f.arms \cup f.ends
    <3>1. -1 \notin Holes /\ code.pos # -1
      BY <1>2, Places
    <3> QED BY <1>3, <1>10, <3>1
  <2> QED BY <1>10, <2>2, <2>3 DEF FrameSound, LoopKinds
<1>15. Leaves(code, code', FrameHoles(Top))
  <2>1. ParseStep
    BY DEF ParseStep
  <2> QED BY <1>2, <2>1, TopLeaves
<1>16. \A a \in FrameHoles(f) : a \in FrameHoles(Top) \/ (a \in Nat /\ a >= code.pos)
  <2>1. code.pos >= code.pos
    BY <1>2
  <2> QED BY <1>2, <1>3, <1>11, <2>1
<1>17. At(code', (Holes \ FrameHoles(Top)) \cup FrameHoles(f), Heads, 1)
  BY <1>9, <1>12
<1>18. f.kind \notin LoopKinds /\ Top.kind \notin LoopKinds
  BY <1>2, <1>10 DEF LoopKinds
<1> QED BY <1>1, <1>2, <1>10, <1>14, <1>15, <1>16, <1>17, <1>18, SetTopDepth DEF At

LEMMA CaseElseDepths ==
  ASSUME Inductive, Depths, CaseElse
  PROVE  Depths'
<1> PICK f : f = [Top EXCEPT !.kind = "caseelse"]
  OBVIOUS
<1>1. /\ ~done' /\ TopIs({"labels"}) /\ Top.arms = {} /\ SetTop(f)
      /\ code' = EmitChunk(code, "pop", 1)
  BY DEF CaseElse
<1>2. /\ frames # <<>> /\ Top \in Frame /\ FrameShaped(Top) /\ FrameSound(Top)
      /\ FrameHoles(Top) \subseteq Holes /\ Top.kind = "labels"
      /\ At(code, Holes, Heads, 1) /\ prog \in Seq(Tokens)
  BY <1>1, TopAt, InductiveFacts
<1>3. At(code', Holes, Heads, 0)
  <2>1. "pop" \in Ops \ Branches /\ Moves("pop", 1, 0)
    BY MovesTable
  <2> QED BY <1>1, <1>2, <2>1, Sizes, ChunkAt
<1>4. Leaves(code, code', {})
  BY Sizes, OpenersLeave
<1> PICK g : g = Top
  OBVIOUS
<1>5. FrameSound(g)'
  BY <1>2, <1>4, StillSound
<1>6. /\ f \in Frame /\ f.kind = "caseelse" /\ f.hole = g.hole /\ f.arms = g.arms
      /\ f.ends = g.ends
  <2>1. g \in Frame /\ "caseelse" \in FrameKinds /\ f = [g EXCEPT !.kind = "caseelse"]
    BY <1>2 DEF FrameKinds
  <2> QED BY <2>1 DEF Frame
<1>7. FrameHoles(f) = FrameHoles(Top)
  BY <1>6 DEF FrameHoles
<1>8. FrameSound(f)'
  BY <1>5, <1>6 DEF FrameSound, LoopKinds
<1>9. Leaves(code, code', FrameHoles(Top))
  BY <1>4 DEF Leaves
<1>10. At(code', (Holes \ FrameHoles(Top)) \cup FrameHoles(f), Heads, 0)
  <2>1. (Holes \ FrameHoles(Top)) \cup FrameHoles(f) = Holes
    BY <1>2, <1>7
  <2> QED BY <1>3, <2>1
<1>11. f.kind \notin LoopKinds /\ Top.kind \notin LoopKinds /\ f.kind # "labels"
  BY <1>2, <1>6 DEF LoopKinds
<1> QED BY <1>1, <1>2, <1>6, <1>7, <1>8, <1>9, <1>10, <1>11, SetTopDepth DEF At

LEMMA EndCaseDepths ==
  ASSUME Inductive, Depths, InRange', EndCase
  PROVE  Depths'
<1> PICK b : b = IF Top.kind = "labels" THEN EmitChunk(code, "pop", 1) ELSE code
  OBVIOUS
<1>1. /\ ~done' /\ Pop /\ code' = PatchHere(b, Top.ends)
      /\ TopIs({"caseelse", "labels"})
      /\ Top.kind = "labels" => Top.arms = {}
  BY DEF EndCase, TopIs
<1>2. /\ frames # <<>> /\ Top \in Frame /\ FrameShaped(Top) /\ FrameSound(Top)
      /\ FrameHoles(Top) \subseteq Holes /\ Top.kind \in {"caseelse", "labels"}
      /\ At(code, Holes, Heads, IF Top.kind = "labels" THEN 1 ELSE 0)
      /\ prog \in Seq(Tokens) /\ IsCode(code) /\ code.pos \in Nat
  BY <1>1, TopAt, InductiveFacts
<1>3. FrameHoles(Top) = Top.ends /\ \A h \in Top.ends : h \in Holes /\ Waits(h, 0)
  BY <1>1, <1>2 DEF FrameHoles, FrameShaped, FrameSound
<1>4. At(b, Holes, Heads, 0)
  <2>1. CASE Top.kind = "labels"
    <3>1. "pop" \in Ops \ Branches /\ Moves("pop", 1, 0)
      BY MovesTable
    <3>2. At(code, Holes, Heads, 1) /\ b = EmitChunk(code, "pop", 1)
      BY <1>2, <2>1
    <3> QED BY <1>2, <3>1, <3>2, Sizes, ChunkAt
  <2>2. CASE Top.kind # "labels"
    BY <1>2, <2>2
  <2> QED BY <2>1, <2>2
<1>5. Leaves(code, b, {})
  <2>1. "pop" \in Ops /\ 1 \in Nat \ {0}
    BY DEF Ops, Silent
  <2>2. Leaves(code, EmitChunk(code, "pop", 1), {})
    BY <1>2, <2>1, ChunkLeaves
  <2>3. Leaves(code, code, {})
    BY <1>2, SamePlace DEF Leaves
  <2> QED BY <2>2, <2>3
<1>6. b.pos < ShortHalf
  <2>1. code'.pos = b.pos
    BY <1>1, <1>4, PatchHereGrown DEF At, Coherent
  <2> QED BY <2>1 DEF InRange
<1>7. At(code', Holes \ Top.ends, Heads, 0)
  <2>1. Top.ends \subseteq Holes /\ 0 \in Nat
    BY <1>3
  <2>2. \A a \in Top.ends : DepthOut(b.ins[a]) \in {Dead, 0}
    <3> SUFFICES ASSUME NEW a \in Top.ends PROVE DepthOut(b.ins[a]) \in {Dead, 0}
      OBVIOUS
    <3>1. b.ins[a] = code.ins[a] /\ Waits(a, 0)
      BY <1>3, <1>5, Places DEF Leaves
    <3> QED BY <3>1 DEF Waits
  <2>3. \A x \in Heads, a \in Top.ends : a >= x
    BY <1>2, <1>3, TopBeyond
  <2> QED BY <1>1, <1>4, <1>6, <2>1, <2>2, <2>3, PatchAt
<1>8. Leaves(code, code', FrameHoles(Top))
  <2>1. ParseStep
    BY DEF ParseStep
  <2> QED BY <1>2, <2>1, TopLeaves
<1> QED BY <1>1, <1>2, <1>3, <1>7, <1>8, PopDepth DEF At

-----------------------------------------------------------------------------
(* The ends of loops                                                        *)

(* What is left when the jump back is in place: the break marks.            *)
LEMMA CloseDepth ==
  ASSUME Inductive, Depths, InRange', TopIs(LoopKinds), ParseStep, ~done', Pop,
         NEW b, At(b, Holes \ FrameHoles(Top), Heads, 0),
         code' = TransformBreaks(b, Top.brk, code.pos, b.pos)
  PROVE  Depths'
<1>1. /\ frames # <<>> /\ Top \in Frame /\ Top.kind \in LoopKinds /\ code.pos \in Nat
  BY TopAt, InductiveFacts
<1>2. Top.brk \in Int /\ code.pos \in Int /\ b.pos \in Int /\ IsCode(b)
  BY <1>1, CodeFacts DEF Frame, At, Coherent
<1>3. b.pos < ShortHalf
  <2>1. code'.pos = b.pos
    BY <1>2, TransformGrown
  <2> QED BY <2>1 DEF InRange
<1>4. \A x \in Heads : x \in Int /\ Top.brk >= x
  BY <1>1, TopBeyond
<1>5. At(code', Holes \ FrameHoles(Top), Heads, 0)
  BY <1>2, <1>3, <1>4, TransformAt
<1>6. Leaves(code, code', FrameHoles(Top))
  BY <1>1, TopLeaves
<1> QED BY <1>1, <1>5, <1>6, PopDepth DEF At

(* The jump back itself.                                                    *)
LEMMA BackAt ==
  ASSUME NEW c, NEW k, At(c, Holes, Heads, k), prog \in Seq(Tokens),
         NEW head \in Heads, head < c.pos, c.pos < ShortHalf,
         NEW op \in Branches, Moves(op, k, 0), NEW e, e = EmitJump(c, op, head)
  PROVE  At(e, Holes, Heads, 0) /\ e.pos = c.pos + 3
<1>1. IsCode(c) /\ HeadSound(c, head)
  BY DEF At, Coherent
<1>2. head \in DOMAIN c.ins
  <2>1. head # c.pos
    BY <1>1, CodeFacts
  <2> QED BY <1>1, <2>1 DEF HeadSound, Points
<1>3. DepthHere(c) # Dead => DepthOf(c, head) = 0
  BY <1>1 DEF HeadSound, DeadFrom
<1>4. 0 \in Nat
  OBVIOUS
<1> QED BY <1>2, <1>3, <1>4, JumpAt

LEMMA TopHead ==
  ASSUME Inductive, Depths, TopIs(LoopKinds)
  PROVE  Top.head \in Heads /\ Top.head \in Nat /\ Top.head <= code.pos
<1>1. frames # <<>> /\ Top.kind \in LoopKinds /\ Len(frames) \in DOMAIN frames
  BY TopAt, TopFrame, InductiveFacts
<1>2. Top.head \in Heads
  BY <1>1 DEF Heads, LoopFrames, Top
<1> QED BY <1>2, Places

(* while and for: c is the code in front of the jump.                       *)
LEMMA BackPatched ==
  ASSUME Inductive, Depths, InRange', TopIs({"while", "for"}), ParseStep, ~done', Pop,
         NEW c, At(c, Holes, Heads, 0), Leaves(code, c, {}),
         NEW b, b = PatchHere(EmitJump(c, "goto", Top.head), {Top.hole}),
         code' = TransformBreaks(b, Top.brk, code.pos, b.pos)
  PROVE  Depths'
<1> PICK h : h = Top.hole
  OBVIOUS
<1> PICK j : j = EmitJump(c, "goto", Top.head)
  OBVIOUS
<1>1. /\ frames # <<>> /\ Top \in Frame /\ FrameShaped(Top) /\ FrameSound(Top)
      /\ FrameHoles(Top) \subseteq Holes /\ Top.kind \in {"while", "for"}
      /\ prog \in Seq(Tokens) /\ code.pos \in Nat /\ TopIs(LoopKinds)
  BY TopAt, InductiveFacts DEF TopIs, LoopKinds
<1>2. /\ Waits(h, 0) /\ FrameHoles(Top) = {h} /\ h \in Holes /\ h >= Top.head
  BY <1>1 DEF FrameSound, FrameShaped, FrameHoles, LoopKinds
<1>3. h \in DOMAIN code.ins /\ h \in Nat /\ h < code.pos /\ code.ins[h].op # "break"
  BY <1>2, Places
<1>4. IsCode(c) /\ c.pos \in Nat /\ code.pos <= c.pos
  BY CodeFacts DEF At, Coherent, Leaves
<1>5. Top.head \in Heads /\ Top.head \in Nat /\ Top.head < c.pos
  <2>1. Top.head \in Heads /\ Top.head \in Nat
    BY <1>1, TopHead
  <2>2. Top.head < c.pos
    BY <1>1, <1>2, <1>3, <1>4, <2>1
  <2> QED BY <2>1, <2>2
<1>6. IsCode(j) /\ j.pos = c.pos + 3 /\ Leaves(c, j, {})
  <2>1. HeadSound(c, Top.head)
    BY <1>5 DEF At, Coherent
  <2>2. Top.head \in DOMAIN c.ins \cup {c.pos} /\ "goto" \in Branches /\ "goto" \in Ops
    BY <2>1 DEF HeadSound, Points, Ops, Branches
  <2>3. IsCode(j) /\ j.pos = c.pos + 3
    BY <1>1, <1>4, <2>2, JumpStep
  <2> QED BY <1>1, <1>4, <1>5, <2>2, <2>3, JumpLeaves
<1>7. IsCode(b) /\ b.pos = j.pos /\ code'.pos = b.pos
  <2>1. IsCode(b) /\ b.pos = j.pos
    BY <1>6, PatchStep
  <2> QED BY <2>1, CodeFacts, TransformGrown
<1>8. j.pos < ShortHalf /\ c.pos < ShortHalf
  <2>1. c.pos + 3 < ShortHalf
    BY <1>6, <1>7 DEF InRange
  <2> QED BY <1>4, <1>6, <2>1, ShortAssumption
<1>9. At(j, Holes, Heads, 0)
  <2>1. "goto" \in Branches /\ Moves("goto", 0, 0)
    BY MovesTable
  <2> QED BY <1>1, <1>5, <1>8, <2>1, BackAt
<1>10. At(b, Holes \ {h}, Heads, 0)
  <2>1. {h} \subseteq Holes /\ 0 \in Nat
    BY <1>2
  <2>2. \A a \in {h} : DepthOut(j.ins[a]) \in {Dead, 0}
    <3>1. h \in DOMAIN c.ins /\ c.ins[h] = code.ins[h]
      BY <1>3, Untouched
    <3>2. j.ins[h] = c.ins[h]
      BY <1>3, <1>6, <3>1, Untouched
    <3> QED BY <1>2, <3>1, <3>2 DEF Waits
  <2>3. \A x \in Heads, a \in {h} : a >= x
    BY <1>1, <1>2, TopBeyond
  <2> QED BY <1>8, <1>9, <2>1, <2>2, <2>3, PatchAt
<1> QED BY <1>1, <1>2, <1>10, CloseDepth

LEMMA EndWhileDepths ==
  ASSUME Inductive, Depths, InRange', EndWhile
  PROVE  Depths'
<1> PICK b : b = PatchHere(EmitJump(code, "goto", Top.head), {Top.hole})
  OBVIOUS
<1>1. /\ ~done' /\ TopIs({"while"}) /\ Pop /\ ParseStep
      /\ code' = TransformBreaks(b, Top.brk, code.pos, b.pos)
  BY DEF EndWhile, ParseStep
<1>2. TopIs({"while", "for"}) /\ Top.kind = "while"
  BY <1>1 DEF TopIs
<1>3. At(code, Holes, Heads, 0)
  BY <1>2, TopAt
<1>4. Leaves(code, code, {})
  BY SamePlace, InductiveFacts DEF Leaves
<1> QED BY <1>1, <1>2, <1>3, <1>4, BackPatched

LEMMA EndForDepths ==
  ASSUME Inductive, Depths, InRange', NEW n \in ChunkSizes, EndFor(n)
  PROVE  Depths'
<1> PICK step : step = EmitChunk(code, "incr", n)
  OBVIOUS
<1> PICK b : b = PatchHere(EmitJump(step, "goto", Top.head), {Top.hole})
  OBVIOUS
<1>1. /\ ~done' /\ TopIs({"for"}) /\ Pop /\ ParseStep
      /\ code' = TransformBreaks(b, Top.brk, code.pos, b.pos)
  BY DEF EndFor, ParseStep
<1>2. TopIs({"while", "for"}) /\ Top.kind = "for"
  BY <1>1 DEF TopIs
<1>3. At(code, Holes, Heads, 0) /\ IsCode(code) /\ prog \in Seq(Tokens) /\ n \in Nat \ {0}
  BY <1>2, TopAt, InductiveFacts, Sizes
<1>4. "incr" \in Ops \ Branches /\ Moves("incr", 0, 0)
  BY MovesTable
<1>5. At(step, Holes, Heads, 0)
  BY <1>3, <1>4, ChunkAt
<1>6. Leaves(code, step, {})
  BY <1>3, <1>4, ChunkLeaves
<1> QED BY <1>1, <1>2, <1>5, <1>6, BackPatched

LEMMA CloseRepeatDepths ==
  ASSUME Inductive, Depths, InRange', ParseStep, NEW n \in Nat \ {0},
         NEW word, NEW op \in {"cond", "false"}, CloseRepeat(word, op, n)
  PROVE  Depths'
<1> PICK c : c = EmitChunk(code, op, n)
  OBVIOUS
<1> PICK b : b = EmitJump(c, "ifeq", Top.head)
  OBVIOUS
<1>1. /\ ~done' /\ TopIs({"repeat"}) /\ Pop
      /\ code' = TransformBreaks(b, Top.brk, code.pos, b.pos)
  BY DEF CloseRepeat
<1>2. /\ TopIs(LoopKinds) /\ At(code, Holes, Heads, 0) /\ prog \in Seq(Tokens)
      /\ code.pos \in Nat /\ FrameShaped(Top) /\ FrameSound(Top) /\ Top.kind = "repeat"
  <2>1. Top.kind = "repeat" /\ TopIs(LoopKinds)
    BY <1>1 DEF TopIs, LoopKinds
  <2> QED BY <1>1, <2>1, TopAt, InductiveFacts
<1>3. FrameHoles(Top) = {}
  BY <1>2 DEF FrameShaped, FrameHoles, LoopKinds
<1>4. At(c, Holes, Heads, 1) /\ c.pos = code.pos + n
  <2>1. op \in Ops \ Branches /\ Moves(op, 0, 1)
    BY MovesTable
  <2>2. At(c, Holes, Heads, 1) /\ Longer(code, c, n)
    BY <1>2, <2>1, ChunkAt
  <2> QED BY <2>2 DEF Longer
<1>5. Top.head \in Heads /\ Top.head \in Nat /\ Top.head < c.pos
  <2>1. Top.head \in Heads /\ Top.head \in Nat /\ Top.head <= code.pos
    BY <1>2, TopHead
  <2>2. code.pos < c.pos /\ c.pos \in Nat
    BY <1>2, <1>4
  <2> QED BY <1>2, <2>1, <2>2
<1>6. b.pos = c.pos + 3 /\ code'.pos = b.pos
  <2>1. IsCode(c) /\ HeadSound(c, Top.head)
    BY <1>4, <1>5 DEF At, Coherent
  <2>2. Top.head \in DOMAIN c.ins \cup {c.pos} /\ "ifeq" \in Branches
    BY <2>1 DEF HeadSound, Points, Branches
  <2>3. IsCode(b) /\ b.pos = c.pos + 3
    BY <1>2, <2>1, <2>2, JumpStep
  <2> QED BY <1>1, <2>3, CodeFacts, TransformGrown
<1>7. c.pos < ShortHalf
  <2>1. c.pos + 3 < ShortHalf
    BY <1>6 DEF InRange
  <2>2. c.pos \in Nat
    BY <1>2, <1>4
  <2> QED BY <2>1, <2>2, ShortAssumption
<1>8. At(b, Holes, Heads, 0)
  <2>1. "ifeq" \in Branches /\ Moves("ifeq", 1, 0)
    BY MovesTable
  <2> QED BY <1>2, <1>4, <1>5, <1>7, <2>1, BackAt
<1>9. At(b, Holes \ FrameHoles(Top), Heads, 0)
  <2>1. Holes \ FrameHoles(Top) = Holes
    BY <1>3
  <2> QED BY <1>8, <2>1
<1> QED BY <1>1, <1>2, <1>9, CloseDepth

-----------------------------------------------------------------------------
(* The whole routine                                                        *)

LEMMA FinishDepths ==
  ASSUME Inductive, Depths, NEW n \in Nat \ {0}, Finish(n)
  PROVE  Depths'
<1>1. /\ ~done /\ frames = <<>> /\ frames' = frames /\ code' = EmitChunk(code, "return", n)
  BY DEF Finish
<1>2. At(code, Holes, Heads, 0) /\ prog \in Seq(Tokens)
  BY <1>1, StartAt, InductiveFacts DEF StatementPoint, TopIs
<1>3. "return" \in Ops \ Branches /\ Moves("return", 0, 0)
  BY MovesTable
<1>4. At(code', Holes, Heads, 0) /\ DepthHere(code') = Dead
  <2>1. Fitting("return", DepthHere(code)) /\ Behind("return", DepthHere(code)) = Dead
    BY <1>2, <1>3 DEF At, Moves, Behind, Transfers
  <2> QED BY <1>1, <1>2, <1>3, <2>1, ChunkAt, ChunkDepth DEF At
<1>5. Holes' = Holes /\ Heads' = Heads /\ DOMAIN frames' = {}
  BY <1>1 DEF Holes, Heads, LoopFrames
<1> QED BY <1>1, <1>4, <1>5 DEF Depths, At

LEMMA InitDepths == Init => Depths
<1> SUFFICES ASSUME Init PROVE Depths
  OBVIOUS
<1>1. /\ code.ins = <<>> /\ code.pos = 0 /\ code.depth = 0 /\ frames = <<>> /\ ~done
      /\ DOMAIN code.ins = {} /\ DOMAIN frames = {}
  BY DEF Init
<1>2. Holes = {} /\ Heads = {} /\ Rest = 0
  BY <1>1 DEF Holes, Heads, LoopFrames, Rest, TopIs
<1>3. DepthHere(code) = 0
  BY <1>1 DEF DepthHere, Dead
<1>4. IsCode(code)
  BY InitInductive, InductiveFacts
<1>5. Sound(code, Holes)
  BY <1>1, <1>2, <1>3 DEF Sound, Points, DepthOf
<1> QED BY <1>1, <1>2, <1>3, <1>4, <1>5 DEF Depths, Coherent

LEMMA StepDepths ==
  ASSUME Inductive, Depths, InRange', ParseStep
  PROVE  Depths'
<1>1. ChunkSizes \subseteq Nat \ {0} /\ 1 \in Nat \ {0} /\ Values \subseteq Int
  BY Sizes, ValuesAssumption
<1>2. ASSUME NEW n \in ChunkSizes, \/ Stmt(n) \/ Exit(n) \/ IfThen(n) \/ WhileDo(n) \/ Finish(n)
                                   \/ Until(n) \/ EndFor(n)
      PROVE  Depths'
  BY <1>1, <1>2, StmtDepths, IfThenDepths, WhileDoDepths, FinishDepths, CloseRepeatDepths,
     EndForDepths DEF Until
<1>3. ASSUME NEW n \in ChunkSizes, NEW str \in BOOLEAN, CaseOf(n, str)
      PROVE  Depths'
  BY <1>1, <1>3, CaseOfDepths
<1>4. ASSUME NEW n \in ChunkSizes, NEW v \in Values, Label(n, v)
      PROVE  Depths'
  BY <1>1, <1>4, OneLabelDepths
<1>5. ASSUME NEW n \in ChunkSizes, NEW lo \in Values, NEW hi \in Values, LabelRange(n, lo, hi)
      PROVE  Depths'
  BY <1>1, <1>5, LabelRangeDepths
<1>6. CASE Break \/ Repeat \/ Forever \/ CaseElse
  BY <1>1, <1>6, StmtDepths, RepeatDepths, CloseRepeatDepths, CaseElseDepths DEF Forever
<1>7. CASE Else \/ EndIf \/ EndWhile \/ Colon \/ EndArm \/ EndCase
  BY <1>7, ElseDepths, EndIfDepths, EndWhileDepths, ColonDepths, EndArmDepths, EndCaseDepths
<1> QED BY <1>2, <1>3, <1>4, <1>5, <1>6, <1>7, ForDoDepths DEF ParseStep

LEMMA NextDepths == DepthInductive /\ [Next]_vars => DepthInductive'
<1> SUFFICES ASSUME DepthInductive, [Next]_vars PROVE DepthInductive'
  OBVIOUS
<1>1. Inductive /\ Inductive'
  BY NextInductive DEF DepthInductive
<1>2. ASSUME InRange', ParseStep PROVE Depths'
  <2>1. Leaves(code, code', Int \cup FrameHoles(Top))
    <3>1. MayRewrite(Int \cup FrameHoles(Top))
      BY DEF MayRewrite
    <3> QED BY <1>1, <1>2, <3>1, StepLeaves
  <2>2. code.pos \in Nat /\ code.pos <= code'.pos /\ code'.pos \in Nat
    BY <2>1, CodeFacts DEF Leaves
  <2>3. InRange
    BY <1>2, <2>2, ShortAssumption DEF InRange
  <2> QED BY <1>1, <1>2, <2>3, StepDepths DEF DepthInductive
<1>3. ASSUME UNCHANGED vars, InRange' PROVE Depths'
  <2>1. InRange /\ Depths
    BY <1>3 DEF vars, InRange, DepthInductive
  <2>2. /\ Holes' = Holes /\ Heads' = Heads /\ Rest' = Rest
        /\ UNCHANGED <<code, frames, done>>
    BY <1>3 DEF vars, Holes, Heads, LoopFrames, Rest, TopIs, Top
  <2>3. \A i \in DOMAIN frames : FrameSound(frames[i])'
    <3> SUFFICES ASSUME NEW i \in DOMAIN frames PROVE FrameSound(frames[i])'
      OBVIOUS
    <3> PICK g : g = frames[i]
      OBVIOUS
    <3>1. FrameSound(g)
      BY <2>1 DEF Depths
    <3>2. FrameSound(g)'
      BY <2>2, <3>1 DEF FrameSound, Waits
    <3> QED BY <2>2, <3>2
  <2> QED BY <2>1, <2>2, <2>3 DEF Depths
<1> QED BY <1>1, <1>2, <1>3 DEF Next, Closed, DepthInductive

(* Whatever statements a routine consists of and however they are nested,   *)
(* as long as no offset has left the range of a short: the code is coherent *)
(* about the depth of the operand stack, each open statement waits for      *)
(* branches that leave with the depth it counts with, and loops go back to  *)
(* places that are reached with an empty stack or not at all.               *)
THEOREM DepthsHold == Spec => []DepthInductive
<1>1. Init => DepthInductive
  BY InitInductive, InitDepths DEF DepthInductive
<1> QED BY <1>1, NextDepths, PTL DEF Spec

(* RD_case_statement: the selector is off the stack wherever a statement    *)
(* may start, and so is all that if, while, repeat, for, break and exit     *)
(* leave behind.                                                            *)
THEOREM StatementsAlwaysStartEmpty == Spec => []StatementsStartEmpty
<1>1. DepthInductive => StatementsStartEmpty
  BY DEF DepthInductive, Depths, StatementsStartEmpty, StatementPoint, Rest
<1> QED BY <1>1, DepthsHold, PTL

(* What the verifier of a device asks of the code of parser.c: control      *)
(* comes to an instruction with one depth from wherever it comes, and       *)
(* nothing is taken from an empty stack.                                    *)
THEOREM DepthsAlwaysAgree == Spec => []DepthsAgree
<1>1. DepthInductive => DepthsAgree
  <2> SUFFICES ASSUME DepthInductive, InRange,
                      NEW a \in {x \in Code \ Holes : code.ins[x].d # Dead}
               PROVE  /\ DepthOut(code.ins[a]) >= 0
                      /\ code.ins[a].op \in Branches
                           => DepthAt(Target(code, a)) = DepthOut(code.ins[a])
                      /\ code.ins[a].op \notin Transfers
                           => DepthAt(a + code.ins[a].len) = DepthOut(code.ins[a])
    BY DEF DepthsAgree
  <2>1. /\ IsCode(code) /\ SoundAt(code, Holes, a) /\ code.ins[a].d # Dead /\ a \notin Holes
        /\ a \in DOMAIN code.ins
    BY DEF DepthInductive, Depths, Coherent, Sound, Code
  <2>2. \A x : DepthAt(x) = DepthOf(code, x)
    BY DEF DepthAt, DepthOf
  <2>3. DepthOut(code.ins[a]) \in Nat
    BY <2>1, CodeFacts, FittingOut DEF SoundAt
  <2> QED BY <2>1, <2>2, <2>3 DEF SoundAt
<1> QED BY <1>1, DepthsHold, PTL

-----------------------------------------------------------------------------
(* The machine that runs the code.                                          *)

(* The machine stands at an instruction that is reached, with the depth     *)
(* with which it is reached.                                                *)
Deep ==
  pc \in Code /\ code.ins[pc].d # Dead /\ stack \in Seq(Int) /\ Len(stack) = code.ins[pc].d

Machine ==
  /\ ~done => pc = 0 /\ stack = <<>>
  /\ done /\ InRange => pc = -1 \/ Deep

(* The code of a routine that has been closed.                              *)
LEMMA ClosedCode ==
  ASSUME Depths, done
  PROVE  /\ IsCode(code) /\ Sound(code, {}) /\ DepthHere(code) = Dead
         /\ \A a \in Code : SoundAt(code, {}, a) /\ code.ins[a] \in Instr
<1>1. frames = <<>> /\ DOMAIN frames = {} /\ DepthHere(code) = Dead
  BY DEF Depths
<1>2. Holes = {}
  BY <1>1 DEF Holes
<1>3. IsCode(code) /\ Sound(code, {})
  BY <1>2 DEF Depths, Coherent
<1> QED BY <1>1, <1>3, CodeFacts DEF Sound, Code

(* What is reached with some depth is an instruction, not the end.          *)
LEMMA Arrives ==
  ASSUME Depths, done, NEW a \in Points(code), DepthOf(code, a) \in Nat
  PROVE  a \in Code /\ code.ins[a].d = DepthOf(code, a) /\ code.ins[a].d # Dead
<1>1. Dead \notin Nat
  BY DEF Dead
<1>2. a # code.pos
  BY <1>1, ClosedCode DEF DepthOf
<1> QED BY <1>1, <1>2 DEF DepthOf, Points, Code

(* ... which is where the machine starts.                                   *)
LEMMA FirstReached ==
  Depths /\ done => 0 \in Code /\ code.ins[0].d = 0 /\ code.ins[0].d # Dead
<1> SUFFICES ASSUME Depths, done PROVE 0 \in Code /\ code.ins[0].d = 0 /\ code.ins[0].d # Dead
  OBVIOUS
<1>1. 0 \in Points(code) /\ DepthOf(code, 0) = 0 /\ 0 \in Nat
  BY ClosedCode DEF Sound
<1> QED BY <1>1, Arrives

LEMMA StartsDeep ==
  Depths /\ done /\ pc = 0 /\ stack = <<>> => Deep
BY FirstReached DEF Deep

-----------------------------------------------------------------------------
(* What one instruction does to the stack.                                  *)

LEMMA Dropped ==
  ASSUME stack \in Seq(Int), NEW n \in Nat, n <= Len(stack)
  PROVE  Drop(n) \in Seq(Int) /\ Len(Drop(n)) = Len(stack) - n
<1>1. Len(stack) \in Nat /\ Len(stack) - n \in Nat /\ Len(stack) - n <= Len(stack)
  OBVIOUS
<1>2. SubSeq(stack, 1, Len(stack) - n) \in Seq(Int)
      /\ Len(SubSeq(stack, 1, Len(stack) - n)) = Len(stack) - n
  BY <1>1
<1> QED BY <1>2 DEF Drop

LEMMA Pushed ==
  ASSUME stack \in Seq(Int), NEW x \in Int, NEW y \in Int
  PROVE  /\ Append(stack, x) \in Seq(Int) /\ Len(Append(stack, x)) = Len(stack) + 1
         /\ stack \o <<x, y>> \in Seq(Int) /\ Len(stack \o <<x, y>>) = Len(stack) + 2
<1>1. Append(stack, x) \in Seq(Int) /\ Len(Append(stack, x)) = Len(stack) + 1
  OBVIOUS
<1>2. <<x, y>> \in Seq(Int) /\ Len(<<x, y>>) = 2
  OBVIOUS
<1>3. stack \o <<x, y>> \in Seq(Int) /\ Len(stack \o <<x, y>>) = Len(stack) + 2
  BY <1>2
<1> QED BY <1>1, <1>3

(* The next instruction is one that control reaches from this one.          *)
Successor ==
  \/ pc' = pc + I.len /\ I.op \notin Transfers
  \/ pc' = Target(code, pc) /\ I.op \in Branches

(* An instruction other than a return leaves as many values as it says.     *)
Advanced ==
  /\ Successor
  /\ stack' \in Seq(Int) /\ Len(stack') = DepthOut(I)

LEMMA AdvancedDeep ==
  ASSUME Depths, done, Deep, UNCHANGED vars, Advanced
  PROVE  Deep'
<1>1. /\ SoundAt(code, {}, pc) /\ I \in Instr /\ code.ins[pc].d # Dead /\ code' = code
  BY ClosedCode DEF Deep, I, vars
<1>2. DepthOut(I) \in Nat
  BY <1>1, FittingOut DEF SoundAt, I
<1>3. pc' \in Points(code) /\ DepthOf(code, pc') = DepthOut(I)
  BY <1>1 DEF SoundAt, Advanced, Successor, I
<1>4. pc' \in Code /\ code.ins[pc'].d = DepthOut(I) /\ code.ins[pc'].d # Dead
  BY <1>2, <1>3, Arrives
<1> QED BY <1>1, <1>4 DEF Deep, Advanced, Code

LEMMA DeepFacts ==
  ASSUME Depths, done, Deep
  PROVE  /\ stack \in Seq(Int) /\ Len(stack) = I.d /\ I \in Instr
         /\ DepthOut(I) = I.d + Effect(I.op) /\ DepthOut(I) \in Nat
         /\ I.op \in {"label", "strlabel"} => Len(stack) = 1
         /\ I.op \in {"stmt", "init", "return", "halt", "break"} => stack = <<>>
<1>1. SoundAt(code, {}, pc) /\ I \in Instr /\ I.d # Dead
      /\ stack \in Seq(Int) /\ Len(stack) = I.d
  BY ClosedCode DEF Deep, I
<1>2. Fitting(I.op, I.d)
  BY <1>1 DEF SoundAt, I
<1>3. DepthOut(I) = I.d + Effect(I.op) /\ DepthOut(I) \in Nat
  BY <1>1, <1>2, FittingOut DEF DepthOut
<1>4. Len(stack) = 0 => stack = <<>>
  BY <1>1
<1> QED BY <1>1, <1>2, <1>3, <1>4 DEF Fitting

LEMMA PerformAdvances ==
  ASSUME Depths, done, Deep, Perform
  PROVE  Advanced
<1>1. I.op \in {"stmt", "init", "incr"} /\ pc' = pc + I.len /\ stack' = stack
  BY DEF Perform, FallThrough, Goto
<1>2. Effect(I.op) = 0 /\ I.op \notin Transfers
  BY <1>1 DEF Effect, Transfers, Branches
<1> QED BY <1>1, <1>2, DeepFacts DEF Advanced, Successor, Instr

LEMMA EvaluateAdvances ==
  ASSUME Depths, done, Deep, Evaluate
  PROVE  Advanced
<1>1. pc' = pc + I.len /\ I.op \in {"cond", "select", "limit"} /\ I.op \notin Transfers
  BY DEF Evaluate, FallThrough, Goto, Transfers
<1>2. stack \in Seq(Int) /\ Len(stack) = I.d /\ I.val \in Int /\ DepthOut(I) = I.d + Effect(I.op)
  BY DeepFacts DEF Instr
<1>3. CASE I.op \in {"cond", "select"}
  <2>1. PICK x \in Int : stack' = Append(stack, x)
    BY <1>3, ValuesAssumption DEF Evaluate
  <2>2. Effect(I.op) = 1
    BY <1>3 DEF Effect, Branches
  <2>3. stack' \in Seq(Int) /\ Len(stack') = Len(stack) + 1
    BY <1>2, <2>1, Pushed
  <2> QED BY <1>1, <1>2, <2>2, <2>3 DEF Advanced, Successor
<1>4. CASE I.op = "limit"
  <2>1. PICK y \in Int : stack' = stack \o <<5, y>>
    <3>1. PICK b \in {0, 1} : stack' = stack \o (IF b = 0 THEN <<5, 5>> ELSE <<5, 5 + I.val>>)
      BY <1>4 DEF Evaluate
    <3> DEFINE y == IF b = 0 THEN 5 ELSE 5 + I.val
    <3>2. stack' = stack \o <<5, y>>
      BY <3>1
    <3>3. y \in Int
      BY <1>2
    <3> HIDE DEF y
    <3> QED BY <3>2, <3>3
  <2>2. Effect(I.op) = 2
    BY <1>4 DEF Effect, Branches
  <2>3. stack' \in Seq(Int) /\ Len(stack') = Len(stack) + 2
    BY <1>2, <2>1, Pushed
  <2> QED BY <1>1, <1>2, <2>2, <2>3 DEF Advanced, Successor
<1> QED BY <1>1, <1>3, <1>4

LEMMA LoadAdvances ==
  ASSUME Depths, done, Deep, LoadConstant
  PROVE  Advanced
<1>1. pc' = pc + I.len /\ I.op \in {"false", "label", "strlabel", "pop"}
      /\ I.op \notin Transfers
  BY DEF LoadConstant, FallThrough, Goto, Transfers
<1>2. /\ stack \in Seq(Int) /\ Len(stack) = I.d /\ I.val \in Int
      /\ DepthOut(I) = I.d + Effect(I.op) /\ DepthOut(I) \in Nat
      /\ I.op \in {"label", "strlabel"} => Len(stack) = 1
  BY DeepFacts DEF Instr
<1>3. CASE I.op = "false"
  <2>1. stack' = Append(stack, 0) /\ Effect(I.op) = 1
    BY <1>3 DEF LoadConstant, Effect, Branches
  <2> QED BY <1>1, <1>2, <2>1, Pushed DEF Advanced, Successor
<1>4. CASE I.op \in {"label", "strlabel"}
  <2>1. Arg(0) \in Int
    <3>1. Len(stack) = 1
      BY <1>2, <1>4
    <3>2. stack[1] \in Int
      BY <1>2, <3>1
    <3> QED BY <3>1, <3>2 DEF Arg
  <2>2. CASE I.op = "label"
    <3>1. stack' = stack \o <<Arg(0), I.val>> /\ Effect(I.op) = 2
      BY <2>2 DEF LoadConstant, Effect, Branches
    <3>2. stack' \in Seq(Int) /\ Len(stack') = Len(stack) + 2
      BY <1>2, <2>1, <3>1, Pushed
    <3> QED BY <1>1, <1>2, <3>1, <3>2 DEF Advanced, Successor
  <2>3. CASE I.op = "strlabel"
    <3>1. stack' = Append(stack, Arg(0) - I.val) /\ Effect(I.op) = 1
      BY <2>3 DEF LoadConstant, Effect, Branches
    <3>2. Arg(0) - I.val \in Int
      BY <1>2, <2>1
    <3>3. stack' \in Seq(Int) /\ Len(stack') = Len(stack) + 1
      BY <1>2, <3>1, <3>2, Pushed
    <3> QED BY <1>1, <1>2, <3>1, <3>3 DEF Advanced, Successor
  <2> QED BY <1>4, <2>2, <2>3
<1>5. CASE I.op = "pop"
  <2>1. stack' = Drop(1) /\ Effect(I.op) = -1
    BY <1>5 DEF LoadConstant, Effect, Branches
  <2>2. 1 <= Len(stack)
    BY <1>2, <2>1
  <2>3. stack' \in Seq(Int) /\ Len(stack') = Len(stack) - 1
    BY <1>2, <2>1, <2>2, Dropped
  <2> QED BY <1>1, <1>2, <2>1, <2>3 DEF Advanced, Successor
<1> QED BY <1>1, <1>3, <1>4, <1>5

LEMMA JumpAdvances ==
  ASSUME Depths, done, Deep, Jump
  PROVE  Advanced
<1>1. /\ stack \in Seq(Int) /\ Len(stack) = I.d
      /\ DepthOut(I) = I.d + Effect(I.op) /\ DepthOut(I) \in Nat
  BY DeepFacts
<1>2. CASE I.op = "goto"
  <2>1. pc' = Target(code, pc) /\ stack' = stack /\ Effect(I.op) = 0 /\ I.op \in Branches
    BY <1>2 DEF Jump, Goto, Effect, Branches
  <2> QED BY <1>1, <2>1, DeepFacts DEF Advanced, Successor, Instr
<1>3. ASSUME NEW n \in {1, 2}, stack' = Drop(n), Effect(I.op) = 0 - n, Successor
      PROVE  Advanced
  <2>1. n \in Nat /\ n <= Len(stack)
    BY <1>1, <1>3
  <2>2. stack' \in Seq(Int) /\ Len(stack') = Len(stack) - n
    BY <1>1, <1>3, <2>1, Dropped
  <2> QED BY <1>1, <1>3, <2>1, <2>2 DEF Advanced
<1>4. CASE I.op \in {"ifeq", "ifne"}
  <2>1. stack' = Drop(1) /\ Effect(I.op) = -1 /\ Successor
    BY <1>4 DEF Jump, BranchIf, Goto, Effect, Successor, Branches, Transfers
  <2> QED BY <1>3, <2>1
<1>5. CASE I.op \in {"if_icmpeq", "if_icmpne", "if_icmplt", "if_icmple", "if_icmpgt"}
  <2>1. stack' = Drop(2) /\ Effect(I.op) = -2
    BY <1>5 DEF Jump, Effect, Branches
  <2>2. Successor
    BY <1>5 DEF Jump, BranchIf, Goto, Successor, Branches, Transfers
  <2> QED BY <1>3, <2>1, <2>2
<1> QED BY <1>2, <1>4, <1>5 DEF Jump

-----------------------------------------------------------------------------
LEMMA ExecIsSpec == ExecSpec => Spec
<1>1. ExecInit => Init
  BY DEF ExecInit
<1>2. [ExecNext]_evars => [Next]_vars
  BY DEF ExecNext, evars, vars, Next, Compile, Run, Stopped
<1> QED BY <1>1, <1>2, PTL DEF ExecSpec, Spec

LEMMA MachineKept ==
  DepthInductive /\ DepthInductive' /\ Machine /\ [ExecNext]_evars => Machine'
<1> SUFFICES ASSUME DepthInductive, DepthInductive', Machine, [ExecNext]_evars
             PROVE  Machine'
  OBVIOUS
<1>1. CASE Compile
  <2>1. ParseStep /\ UNCHANGED <<pc, stack>>
    BY <1>1 DEF Compile
  <2>2. ~done
    BY <2>1 DEF ParseStep, Stmt, Exit, Break, IfThen, Else, EndIf, WhileDo, EndWhile, Repeat,
       Until, Forever, CloseRepeat, ForDo, EndFor, CaseOf, Label, LabelRange, Colon, EndArm,
       CaseElse, EndCase, Finish, StatementPoint
  <2>3. pc' = 0 /\ stack' = <<>>
    BY <2>1, <2>2 DEF Machine
  <2>4. ASSUME done', InRange' PROVE Deep'
    <3>1. Depths'
      BY <2>4 DEF DepthInductive
    <3>2. (Depths /\ done /\ pc = 0 /\ stack = <<>> => Deep)'
      BY StartsDeep, PTL
    <3> QED BY <2>3, <2>4, <3>1, <3>2
  <2> QED BY <2>3, <2>4 DEF Machine
<1>2. CASE Run
  <2>1. done /\ UNCHANGED vars /\ Running
    BY <1>2 DEF Run, Running, Loaded
  <2>2. ASSUME InRange PROVE pc' = -1 \/ Deep'
    <3>1. Depths
      BY <2>2 DEF DepthInductive
    <3>2. Deep
      <4>1. pc \in Code /\ IsCode(code)
        BY <2>1, <3>1, ClosedCode DEF Running, Code
      <4>2. pc # -1
        BY <4>1, CodeFacts DEF Code
      <4> QED BY <2>1, <2>2, <4>2 DEF Machine
    <3>3. CASE Leave
      BY <3>3 DEF Leave, Goto
    <3>4. CASE Perform \/ Evaluate \/ LoadConstant \/ Jump
      <4>1. Advanced
        BY <2>1, <3>1, <3>2, <3>4, PerformAdvances, EvaluateAdvances, LoadAdvances, JumpAdvances
      <4> QED BY <2>1, <3>1, <3>2, <4>1, AdvancedDeep
    <3> QED BY <1>2, <3>3, <3>4 DEF Run
  <2> QED BY <2>1, <2>2 DEF Machine, vars, InRange
<1>3. CASE UNCHANGED evars
  BY <1>3 DEF evars, Machine, Deep, InRange, Code
<1> QED BY <1>1, <1>2, <1>3 DEF ExecNext, Stopped

(* As long as no offset has left the range of a short the machine stands    *)
(* at an instruction of the routine with just the values on its stack that  *)
(* the compiler counted with, or has returned.                              *)
THEOREM MachineFollows == ExecSpec => []Machine
<1>1. ExecInit => Machine
  BY DEF ExecInit, Init, Machine
<1>2. ExecSpec => []DepthInductive
  BY ExecIsSpec, DepthsHold, PTL
<1> QED BY <1>1, <1>2, MachineKept, PTL DEF ExecSpec

(* The code parser.c writes never runs out of the routine, and the operand  *)
(* stack is empty where a statement runs and where the routine returns.     *)
THEOREM StackAlwaysClean == ExecSpec => [](InRange => StackClean)
<1>1. DepthInductive /\ Machine => (InRange => StackClean)
  <2> SUFFICES ASSUME DepthInductive, Machine, InRange PROVE StackClean
    OBVIOUS
  <2>1. Depths
    BY DEF DepthInductive
  <2>2. Loaded => pc \in DOMAIN code.ins \cup {-1}
    BY DEF Loaded, Machine, Deep, Code
  <2>3. ASSUME Running, I.op \in {"stmt", "init", "return", "halt"} PROVE stack = <<>>
    <3>1. done /\ pc \in Code /\ IsCode(code)
      BY <2>1, <2>3, ClosedCode DEF Running, Loaded, Code
    <3>2. pc # -1
      BY <3>1, CodeFacts DEF Code
    <3>3. Deep
      BY <3>1, <3>2 DEF Machine
    <3> QED BY <2>1, <2>3, <3>1, <3>3, DeepFacts
  <2> QED BY <2>2, <2>3 DEF StackClean
<1>2. ExecSpec => []DepthInductive
  BY ExecIsSpec, DepthsHold, PTL
<1> QED BY <1>1, <1>2, MachineFollows, PTL
=============================================================================
