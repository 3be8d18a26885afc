------------------------------ MODULE CodeGen ------------------------------
(***************************************************************************)
(* The statement code generator of parser.c: RD_statement and the          *)
(* RD_*_statement functions below it, with the back-patching helpers of    *)
(* the case statement and transform_break_stmts of block.c.                *)
(*                                                                         *)
(* The parser is a recursive descent over the tokens of one routine; the   *)
(* C call stack is the sequence "frames", one record per statement that is *)
(* still open, holding the locals of its RD_*_statement function.  An      *)
(* action consumes the tokens up to the next point where another           *)
(* RD_statement may start, and appends the code the C function emits on    *)
(* the way.  What an expression, an assignment or a call compiles to is    *)
(* one instruction of an arbitrary size: only its place and its effect on  *)
(* the operand stack matter here.                                          *)
(***************************************************************************)
EXTENDS Integers, Sequences, FiniteSets

CONSTANTS
  ChunkSizes,   \* sizes, in bytes, that straight-line code may have
  Values,       \* values of case selectors and labels
  ShortHalf,    \* a jump offset is a short: -ShortHalf .. ShortHalf-1
  MaxTokens     \* bound on the statements and labels of the routine

ASSUME ChunkAssumption  == ChunkSizes \subseteq Nat \ {0}
ASSUME ValuesAssumption == Values \subseteq Int
ASSUME ShortAssumption  == ShortHalf \in Nat \ {0}
ASSUME TokensAssumption == MaxTokens \in Nat

VARIABLES
  code,         \* block->code: the instructions by address, and bytecode_pos
  frames,       \* the statements being parsed, innermost last
  insideLoop,   \* inside_loop
  inRoutine,    \* inside_routine: FALSE in the main block
  errors,       \* error_count # 0
  prog,         \* the tokens of the routine consumed so far
  done          \* the routine is closed

vars == <<code, frames, insideLoop, inRoutine, errors, prog, done>>

-----------------------------------------------------------------------------
(* Instructions.  Straight-line code: "stmt" a simple statement, "cond" a   *)
(* boolean expression, "false" the iconst_0 of forever, "select" a case     *)
(* selector, "label" dup and a constant, "strlabel" dup, a constant and     *)
(* compareTo, "init" "limit" "incr" the parts of a for loop.                *)

Events   == {"stmt", "cond", "select", "init", "limit", "incr"}
Silent   == {"false", "label", "strlabel", "pop"}
Branches == {"goto", "ifeq", "ifne", "if_icmpeq", "if_icmpne",
             "if_icmplt", "if_icmple", "if_icmpgt"}
Ops      == Events \cup Silent \cup Branches \cup {"break", "return", "halt"}

Instr == [op : Ops, len : Nat \ {0}, off : Int, val : Int, tok : Nat, d : Int]

(* What an instruction adds to the operand stack. *)
Effect(op) ==
  CASE op \in {"limit", "label"}                                  -> 2
    [] op \in {"cond", "false", "select", "strlabel"}             -> 1
    [] op \in {"pop", "ifeq", "ifne"}                             -> -1
    [] op \in Branches \ {"goto", "ifeq", "ifne"}                 -> -2
    [] OTHER                                                      -> 0

(* Control does not run on past these.  After the code of Halt it does, as  *)
(* far as a verifier can tell.                                              *)
Transfers == {"goto", "break", "return"}

Dead == -1      \* the depth of code that nothing reaches

DepthOut(i) == IF i.d = Dead THEN Dead ELSE i.d + Effect(i.op)

(* (short) x, and the two bytes every patch stores. *)
Short(x) == IF x \in -ShortHalf .. ShortHalf - 1
            THEN x
            ELSE ((x + ShortHalf) % (2 * ShortHalf)) - ShortHalf

Target(b, a) == a + b.ins[a].off

(* Depths with which branches already resolved arrive at the end of b. *)
Arriving(b) ==
  {DepthOut(b.ins[a]) : a \in {x \in DOMAIN b.ins :
      b.ins[x].op \in Branches /\ b.ins[x].d # Dead /\ Target(b, x) = b.pos}}

DepthHere(b) ==
  IF b.depth # Dead \/ Arriving(b) = {}
  THEN b.depth
  ELSE CHOOSE x \in Arriving(b) : TRUE

-----------------------------------------------------------------------------
(* bytecode_append and its uses. *)

(* Mutant: the instruction is stored but not counted. *)
EmitUncounted(b, op, len, off, val) ==
  [b EXCEPT !.ins = [a \in DOMAIN b.ins \cup {b.pos} |->
     IF a \in DOMAIN b.ins THEN b.ins[a]
     ELSE [op |-> op, len |-> len, off |-> off, val |-> val,
           tok |-> Len(prog) + 1, d |-> DepthHere(b)]]]

Emit(b, op, len, off, val) ==
  LET new == [op |-> op, len |-> len, off |-> off, val |-> val,
              tok |-> Len(prog) + 1, d |-> DepthHere(b)]
  IN [ins   |-> [a \in DOMAIN b.ins \cup {b.pos} |->
                   IF a = b.pos THEN new ELSE b.ins[a]],
      pos   |-> b.pos + len,
      depth |-> IF op \in Transfers THEN Dead ELSE DepthOut(new)]

EmitChunk(b, op, len) == Emit(b, op, len, 0, 0)

(* A branch to the address "to", or with a placeholder for its offset. *)
EmitJump(b, op, to) == Emit(b, op, 3, Short(to - b.pos), 0)
EmitHole(b, op)     == Emit(b, op, 3, 0, 0)

(* The branches at the addresses S are pointed at address "to". *)
Patch(b, S, to) ==
  [b EXCEPT !.ins = [a \in DOMAIN b.ins |->
     IF a \in S THEN [b.ins[a] EXCEPT !.off = Short(to - a)] ELSE b.ins[a]]]

(* Mutant: patched to the place behind the next byte. *)
PatchPast(b, S) == Patch(b, S, b.pos + 1)

PatchHere(b, S) == Patch(b, S, b.pos)

(* Mutant: the scan starts behind the first byte of the body. *)
TransformLate(b, start, end, to) ==
  [b EXCEPT !.ins = [a \in DOMAIN b.ins |->
     IF a \in start + 1 .. end - 1 /\ b.ins[a].op = "break"
     THEN [b.ins[a] EXCEPT !.op = "goto", !.off = Short(to - a)]
     ELSE b.ins[a]]]

(* Mutant: the scan takes every goto for a break mark. *)
TransformGotos(b, start, end, to) ==
  [b EXCEPT !.ins = [a \in DOMAIN b.ins |->
     IF a \in start .. end - 1 /\ b.ins[a].op \in {"break", "goto"}
     THEN [b.ins[a] EXCEPT !.op = "goto", !.off = Short(to - a)]
     ELSE b.ins[a]]]

(* transform_break_stmts: the break marks in start..end-1 become gotos. *)
TransformBreaks(b, start, end, to) ==
  [b EXCEPT !.ins = [a \in DOMAIN b.ins |->
     IF a \in start .. end - 1 /\ b.ins[a].op = "break"
     THEN [b.ins[a] EXCEPT !.op = "goto", !.off = Short(to - a)]
     ELSE b.ins[a]]]

-----------------------------------------------------------------------------
(* Tokens and frames. *)

Kinds == {"stmt", "exit", "break", "if", "else", "fi", "while", "od",
          "repeat", "until", "forever", "for", "rof",
          "case", "label", "colon", "endarm", "caseelse", "esac"}

Tokens == [k : Kinds, lo : Int, hi : Int]

Consume(k, lo, hi) == prog' = Append(prog, [k |-> k, lo |-> lo, hi |-> hi])
ConsumeWord(k)     == Consume(k, 0, 0)

LoopKinds  == {"while", "repeat", "for"}
FrameKinds == LoopKinds \cup {"if", "else", "labels", "arm", "caseelse"}

(* head: where the loop jumps back to; hole: the branch waiting for its     *)
(* target, or -1; brk: break_pos1; arms, ends: arm_jumps and end_jumps;     *)
(* seen: the labels of the case; str: the selector is a string.             *)
Frame == [kind : FrameKinds, head : Nat, hole : Int, brk : Nat,
          arms : SUBSET Nat, ends : SUBSET Nat,
          seen : SUBSET (Int \X Int), str : BOOLEAN]

NewFrame(kind, head, hole, brk) ==
  [kind |-> kind, head |-> head, hole |-> hole, brk |-> brk,
   arms |-> {}, ends |-> {}, seen |-> {}, str |-> FALSE]

Push(f)   == frames' = Append(frames, f)
Pop       == frames' = SubSeq(frames, 1, Len(frames) - 1)
Top       == frames[Len(frames)]
SetTop(f) == frames' = [frames EXCEPT ![Len(frames)] = f]

TopIs(K) == frames # <<>> /\ Top.kind \in K

(* RD_statement is called: anywhere but among the labels of a case. *)
StatementPoint == ~done /\ ~TopIs({"labels"})

(* Bound: no new statement or label once the routine has MaxTokens tokens. *)
Room == Len(prog) < MaxTokens

LoopFrames == {i \in DOMAIN frames : frames[i].kind \in LoopKinds}

-----------------------------------------------------------------------------
Init ==
  /\ code = [ins |-> <<>>, pos |-> 0, depth |-> 0]
  /\ frames = <<>>
  /\ insideLoop = 0
  /\ inRoutine \in BOOLEAN
  /\ errors = FALSE
  /\ prog = <<>>
  /\ done = FALSE

(* An assignment, a call or a bytecode block. *)
Stmt(n) ==
  /\ StatementPoint /\ Room
  /\ code' = EmitChunk(code, "stmt", n)
  /\ ConsumeWord("stmt")
  /\ UNCHANGED <<frames, insideLoop, inRoutine, errors, done>>

(* exit leaves a routine; in the main block it compiles to Halt. *)
Exit(n) ==
  /\ StatementPoint /\ Room
  /\ code' = EmitChunk(code, IF inRoutine THEN "return" ELSE "halt", n)
  /\ ConsumeWord("exit")
  /\ UNCHANGED <<frames, insideLoop, inRoutine, errors, done>>

Break ==
  /\ StatementPoint /\ Room
  /\ IF insideLoop <= 0
     THEN errors' = TRUE /\ UNCHANGED code          \* E219
     ELSE code' = EmitHole(code, "break") /\ UNCHANGED errors
  /\ ConsumeWord("break")
  /\ UNCHANGED <<frames, insideLoop, inRoutine, done>>

-----------------------------------------------------------------------------
(* RD_if_statement *)

IfThen(n) ==
  /\ StatementPoint /\ Room
  /\ LET test == EmitChunk(code, "cond", n)
     IN /\ code' = EmitHole(test, "ifeq")
        /\ Push(NewFrame("if", 0, test.pos, 0))
  /\ ConsumeWord("if")
  /\ UNCHANGED <<insideLoop, inRoutine, errors, done>>

(* Mutant: the test is pointed at the goto, not behind it. *)
ElseAtGoto ==
  /\ ~done /\ TopIs({"if"})
  /\ code' = EmitHole(PatchHere(code, {Top.hole}), "goto")
  /\ SetTop([Top EXCEPT !.kind = "else", !.hole = code.pos])
  /\ ConsumeWord("else")
  /\ UNCHANGED <<insideLoop, inRoutine, errors, done>>

(* Mutant: jump_offset_position still names the test. *)
ElseForgets ==
  /\ ~done /\ TopIs({"if"})
  /\ code' = EmitHole(Patch(code, {Top.hole}, code.pos + 3), "goto")
  /\ SetTop([Top EXCEPT !.kind = "else"])
  /\ ConsumeWord("else")
  /\ UNCHANGED <<insideLoop, inRoutine, errors, done>>

(* The test is pointed behind the goto that is appended next. *)
Else ==
  /\ ~done /\ TopIs({"if"})
  /\ code' = EmitHole(Patch(code, {Top.hole}, code.pos + 3), "goto")
  /\ SetTop([Top EXCEPT !.kind = "else", !.hole = code.pos])
  /\ ConsumeWord("else")
  /\ UNCHANGED <<insideLoop, inRoutine, errors, done>>

EndIf ==
  /\ ~done /\ TopIs({"if", "else"})
  /\ code' = PatchHere(code, {Top.hole})
  /\ Pop
  /\ ConsumeWord("fi")
  /\ UNCHANGED <<insideLoop, inRoutine, errors, done>>

-----------------------------------------------------------------------------
(* RD_while_statement *)

WhileDo(n) ==
  /\ StatementPoint /\ Room
  /\ LET test == EmitChunk(code, "cond", n)
         b    == EmitHole(test, "ifeq")
     IN /\ code' = b
        /\ Push(NewFrame("while", code.pos, test.pos, b.pos))
  /\ insideLoop' = insideLoop + 1
  /\ ConsumeWord("while")
  /\ UNCHANGED <<inRoutine, errors, done>>

EndWhile ==
  /\ ~done /\ TopIs({"while"})
  /\ LET b == PatchHere(EmitJump(code, "goto", Top.head), {Top.hole})
     IN code' = TransformBreaks(b, Top.brk, code.pos, b.pos)
  /\ Pop
  /\ insideLoop' = insideLoop - 1
  /\ ConsumeWord("od")
  /\ UNCHANGED <<inRoutine, errors, done>>

-----------------------------------------------------------------------------
(* RD_repeat_statement: "until" an expression, or "forever", which          *)
(* RD_forever compiles as until false.                                      *)

Repeat ==
  /\ StatementPoint /\ Room
  /\ Push(NewFrame("repeat", code.pos, -1, code.pos))
  /\ insideLoop' = insideLoop + 1
  /\ ConsumeWord("repeat")
  /\ UNCHANGED <<code, inRoutine, errors, done>>

(* Mutant: inside_loop is left as it was. *)
CloseRepeatInside(word, op, n) ==
  /\ ~done /\ TopIs({"repeat"})
  /\ LET b == EmitJump(EmitChunk(code, op, n), "ifeq", Top.head)
     IN code' = TransformBreaks(b, Top.brk, code.pos, b.pos)
  /\ Pop
  /\ ConsumeWord(word)
  /\ UNCHANGED <<insideLoop, inRoutine, errors, done>>

CloseRepeat(word, op, n) ==
  /\ ~done /\ TopIs({"repeat"})
  /\ LET b == EmitJump(EmitChunk(code, op, n), "ifeq", Top.head)
     IN code' = TransformBreaks(b, Top.brk, code.pos, b.pos)
  /\ Pop
  /\ insideLoop' = insideLoop - 1
  /\ ConsumeWord(word)
  /\ UNCHANGED <<inRoutine, errors, done>>

Until(n) == CloseRepeat("until", "cond", n)
Forever  == CloseRepeat("forever", "false", 1)

-----------------------------------------------------------------------------
(* RD_for_statement: the limit is evaluated again before every round. *)

Direction == {1, -1}

ForDo(n, dir) ==
  /\ StatementPoint /\ Room
  /\ LET start == EmitChunk(code, "init", n)
         check == Emit(start, "limit", n, 0, dir)
         b     == EmitHole(check, IF dir = 1 THEN "if_icmplt" ELSE "if_icmpgt")
     IN /\ code' = b
        /\ Push(NewFrame("for", start.pos, check.pos, b.pos))
  /\ insideLoop' = insideLoop + 1
  /\ Consume("for", dir, 0)
  /\ UNCHANGED <<inRoutine, errors, done>>

EndFor(n) ==
  /\ ~done /\ TopIs({"for"})
  /\ LET step == EmitChunk(code, "incr", n)
         b    == PatchHere(EmitJump(step, "goto", Top.head), {Top.hole})
     IN code' = TransformBreaks(b, Top.brk, code.pos, b.pos)
  /\ Pop
  /\ insideLoop' = insideLoop - 1
  /\ ConsumeWord("rof")
  /\ UNCHANGED <<inRoutine, errors, done>>

-----------------------------------------------------------------------------
(* RD_case_statement and RD_case_list.  The selector stays on the stack     *)
(* while the labels are compared with it.                                   *)

CaseOf(n, str) ==
  /\ StatementPoint /\ Room
  /\ code' = EmitChunk(code, "select", n)
  /\ Push([NewFrame("labels", 0, -1, 0) EXCEPT !.str = str])
  /\ Consume("case", IF str THEN 1 ELSE 0, 0)
  /\ UNCHANGED <<insideLoop, inRoutine, errors, done>>

(* case_labels_add refuses a label that repeats or overlaps an earlier one. *)
Clashes(lo, hi) == \E s \in Top.seen : lo <= s[2] /\ s[1] <= hi

Remember(f, lo, hi) == [f EXCEPT !.seen = @ \cup {<<lo, hi>>}]

Label(n, v) ==
  /\ ~done /\ Room /\ TopIs({"labels"})
  /\ LET test == Emit(code, IF Top.str THEN "strlabel" ELSE "label", n, 0, v)
         f    == [Top EXCEPT !.arms = @ \cup {test.pos}]
     IN /\ code' = EmitHole(test, IF Top.str THEN "ifeq" ELSE "if_icmpeq")
        /\ SetTop(IF Clashes(v, v) THEN f ELSE Remember(f, v, v))
  /\ errors' = (errors \/ Clashes(v, v))            \* E465
  /\ Consume("label", v, v)
  /\ UNCHANGED <<insideLoop, inRoutine, done>>

(* lo..hi: below lo on to the next label, up to hi to the arm. *)
LabelRange(n, lo, hi) ==
  /\ ~done /\ Room /\ TopIs({"labels"})
  /\ LET low   == Emit(code, "label", n, 0, lo)
         high  == Emit(EmitHole(low, "if_icmplt"), "label", n, 0, hi)
         f     == [Top EXCEPT !.arms = @ \cup {high.pos}]
         valid == ~Top.str /\ lo <= hi              \* E411, E437
     IN /\ code' = PatchHere(EmitHole(high, "if_icmple"), {low.pos})
        /\ SetTop(IF valid /\ ~Clashes(lo, hi) THEN Remember(f, lo, hi) ELSE f)
        /\ errors' = (errors \/ ~valid \/ Clashes(lo, hi))
  /\ Consume("label", lo, hi)
  /\ UNCHANGED <<insideLoop, inRoutine, done>>

(* The colon.  No label matched: on to the next arm.  A plain label at the  *)
(* end of the list has its own branch turned around for that, a range needs *)
(* a goto of its own.  Then the arm pops the selector.                      *)
Opposite(op) == IF op = "ifeq" THEN "ifne" ELSE "if_icmpne"

Colon ==
  /\ ~done /\ TopIs({"labels"}) /\ Top.arms # {}
  /\ LET last   == code.pos - 3
         turned == /\ last \in Top.arms
                   /\ code.ins[last].op \in {"if_icmpeq", "ifeq"}
         next   == IF turned THEN last ELSE code.pos
         b      == IF turned
                   THEN [code EXCEPT !.ins[last].op = Opposite(@)]
                   ELSE EmitHole(code, "goto")
     IN /\ code' = EmitChunk(PatchHere(b, Top.arms \ {next}), "pop", 1)
        /\ SetTop([Top EXCEPT !.kind = "arm", !.hole = next, !.arms = {}])
  /\ ConsumeWord("colon")
  /\ UNCHANGED <<insideLoop, inRoutine, errors, done>>

EndArm ==
  /\ ~done /\ TopIs({"arm"})
  /\ code' = PatchHere(EmitHole(code, "goto"), {Top.hole})
  /\ SetTop([Top EXCEPT !.kind = "labels", !.hole = -1,
                        !.ends = @ \cup {code.pos}])
  /\ ConsumeWord("endarm")
  /\ UNCHANGED <<insideLoop, inRoutine, errors, done>>

(* Mutant: the else part starts with the selector on the stack. *)
CaseElseUnpopped ==
  /\ ~done /\ TopIs({"labels"}) /\ Top.arms = {}
  /\ SetTop([Top EXCEPT !.kind = "caseelse"])
  /\ ConsumeWord("caseelse")
  /\ UNCHANGED <<code, insideLoop, inRoutine, errors, done>>

CaseElse ==
  /\ ~done /\ TopIs({"labels"}) /\ Top.arms = {}
  /\ code' = EmitChunk(code, "pop", 1)
  /\ SetTop([Top EXCEPT !.kind = "caseelse"])
  /\ ConsumeWord("caseelse")
  /\ UNCHANGED <<insideLoop, inRoutine, errors, done>>

(* Mutant: no pop when no arm was taken. *)
EndCaseUnpopped ==
  /\ ~done
  /\ \/ TopIs({"caseelse"})
     \/ TopIs({"labels"}) /\ Top.arms = {}
  /\ code' = PatchHere(code, Top.ends)
  /\ Pop
  /\ ConsumeWord("esac")
  /\ UNCHANGED <<insideLoop, inRoutine, errors, done>>

(* Without an else part the pop of "no arm was taken" comes here. *)
EndCase ==
  /\ ~done
  /\ \/ TopIs({"caseelse"})
     \/ TopIs({"labels"}) /\ Top.arms = {}
  /\ LET b == IF Top.kind = "labels" THEN EmitChunk(code, "pop", 1) ELSE code
     IN code' = PatchHere(b, Top.ends)
  /\ Pop
  /\ ConsumeWord("esac")
  /\ UNCHANGED <<insideLoop, inRoutine, errors, done>>

-----------------------------------------------------------------------------
(* RD_proc_block and parser_start close the code of the block. *)
Finish(n) ==
  /\ ~done /\ frames = <<>>
  /\ code' = EmitChunk(code, "return", n)
  /\ done' = TRUE
  /\ UNCHANGED <<frames, insideLoop, inRoutine, errors, prog>>

ParseStep ==
  \/ \E n \in ChunkSizes : Stmt(n)
  \/ \E n \in ChunkSizes : Exit(n)
  \/ Break
  \/ \E n \in ChunkSizes : IfThen(n)
  \/ Else
  \/ EndIf
  \/ \E n \in ChunkSizes : WhileDo(n)
  \/ EndWhile
  \/ Repeat
  \/ \E n \in ChunkSizes : Until(n)
  \/ Forever
  \/ \E n \in ChunkSizes, dir \in Direction : ForDo(n, dir)
  \/ \E n \in ChunkSizes : EndFor(n)
  \/ \E n \in ChunkSizes, str \in BOOLEAN : CaseOf(n, str)
  \/ \E n \in ChunkSizes, v \in Values : Label(n, v)
  \/ \E n \in ChunkSizes, lo, hi \in Values : LabelRange(n, lo, hi)
  \/ Colon
  \/ EndArm
  \/ CaseElse
  \/ EndCase
  \/ \E n \in ChunkSizes : Finish(n)

(* The compiler has left the routine; nothing more happens to its code. *)
Closed == done /\ UNCHANGED vars

Next == ParseStep \/ Closed

Spec == Init /\ [][Next]_vars

-----------------------------------------------------------------------------
(* Properties. *)

Code == DOMAIN code.ins

(* Branches whose address the C functions still hold in a local variable. *)
FrameHoles(f) ==
  (IF f.hole >= 0 THEN {f.hole} ELSE {}) \cup f.arms \cup f.ends

Holes == UNION {FrameHoles(frames[i]) : i \in DOMAIN frames}

(* No offset has left the range of a short yet. *)
InRange == code.pos < ShortHalf

(* Types of the state; instructions lie below bytecode_pos. *)
IsCode(b) ==
  /\ b = [ins |-> b.ins, pos |-> b.pos, depth |-> b.depth]
  /\ b.ins \in [DOMAIN b.ins -> Instr]
  /\ DOMAIN b.ins \subseteq 0 .. b.pos - 1
  /\ b.pos \in Nat
  /\ b.depth \in Int

TypeOK ==
  /\ IsCode(code)
  /\ frames \in Seq(Frame)
  /\ insideLoop \in Int
  /\ inRoutine \in BOOLEAN
  /\ errors \in BOOLEAN
  /\ prog \in Seq(Tokens)
  /\ done \in BOOLEAN

(* Every branch that is not waiting for its target jumps to the start of an *)
(* instruction or to the end of the code so far: no patch in parser.c is    *)
(* off by a byte, goes to the wrong branch or is forgotten.                 *)
Lands(b, H) ==
  \A a \in DOMAIN b.ins :
    b.ins[a].op \in Branches /\ a \notin H
      => Target(b, a) \in DOMAIN b.ins \cup {b.pos}

JumpsLand == InRange => Lands(code, Holes)

(* A break mark stays in the code only while a loop is being parsed that    *)
(* will scan it: the internal opcode 250 never reaches a class file.        *)
BreaksAwaitLoop ==
  \A a \in Code : code.ins[a].op = "break"
     => \E i \in LoopFrames : frames[i].brk <= a

(* "which leaves the stack empty for the statements inside" (comment above  *)
(* RD_case_statement): wherever a statement may start the operand stack is  *)
(* empty, also behind a break, an exit or a nested case.                    *)
StatementsStartEmpty ==
  InRange /\ StatementPoint => DepthHere(code) \in {Dead, 0}

(* What a class-file verifier demands: control arrives at an address with   *)
(* the same stack depth along every branch and from above, and nothing is   *)
(* taken from an empty stack.                                               *)
DepthAt(a) == IF a = code.pos THEN DepthHere(code) ELSE code.ins[a].d

DepthsAgree ==
  InRange =>
    \A a \in {x \in Code \ Holes : code.ins[x].d # Dead} :
      LET i == code.ins[a] IN
      /\ DepthOut(i) >= 0
      /\ i.op \in Branches => DepthAt(Target(code, a)) = DepthOut(i)
      /\ i.op \notin Transfers => DepthAt(a + i.len) = DepthOut(i)

(* inside_loop counts the loops that are open: "break" is accepted exactly  *)
(* where there is a loop to leave.                                          *)
LoopsCounted == insideLoop = Cardinality(LoopFrames)

(* What every frame is known to hold, for the inductive invariant: which    *)
(* branches it waits for, and that a loop head is a place in the code.      *)
FrameShaped(f) ==
  /\ f.kind \in {"if", "else"} \cup LoopKinds => f.arms = {} /\ f.ends = {}
  /\ f.kind \in {"arm", "caseelse"} => f.arms = {}
  /\ f.kind \in {"repeat", "labels", "caseelse"} => f.hole = -1
  /\ f.kind \in LoopKinds =>
       f.head \in DOMAIN code.ins \cup {code.pos} /\ f.brk <= code.pos

(* The inductive invariant behind the three above.                          *)
Inductive ==
  /\ TypeOK
  /\ \A i \in DOMAIN frames : FrameShaped(frames[i])
  /\ LoopsCounted
  /\ BreaksAwaitLoop
  /\ JumpsLand

(* An instruction is rewritten only while its branch is held by an open     *)
(* statement or is a break mark: what has been resolved stays.              *)
Pending(a) == a \in Holes \/ code.ins[a].op = "break"

ResolvedStays ==
  [][\A a \in Code : ~Pending(a) => code'.ins[a] = code.ins[a]]_vars

=============================================================================
