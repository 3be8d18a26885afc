----------------------------- MODULE Execution -----------------------------
(***************************************************************************)
(* The code that CodeGen has produced, run by a Java virtual machine: the  *)
(* part of the machine the generated branches rely on (program counter and *)
(* operand stack).  Conditions, limits and selectors yield any value.      *)
(* The machine shows through "obs" what the routine does, so that the code *)
(* can be compared with the meaning of the statements it was made from.    *)
(***************************************************************************)
EXTENDS CodeGen

VARIABLES
  pc,       \* address of the next instruction
  stack,    \* operand stack, top last
  obs       \* the last observation, as in Structured

evars == <<code, frames, insideLoop, inRoutine, errors, prog, done, pc, stack, obs>>

Meaning == INSTANCE Structured WITH ready <- done /\ ~errors

Loaded == done /\ ~errors      \* parser_start writes a class for no other code
I      == code.ins[pc]

Running == Loaded /\ pc \in DOMAIN code.ins

Drop(n)  == SubSeq(stack, 1, Len(stack) - n)
Arg(n)   == stack[Len(stack) - n]        \* Arg(0) is the top

Observed(ev, out) ==
  obs' = [tok |-> I.tok, ev |-> ev, out |-> out, beat |-> ~obs.beat]

Goto(a)   == pc' = a
FallThrough == Goto(pc + I.len)
BranchIf(c) == Goto(IF c THEN Target(code, pc) ELSE pc + I.len)

ExecInit == Init /\ pc = 0 /\ stack = <<>> /\ obs = Meaning!Start

Compile == ParseStep /\ UNCHANGED <<pc, stack, obs>>

(* stmt, init, incr: something visible happens. *)
Perform ==
  /\ I.op \in {"stmt", "init", "incr"}
  /\ Observed(I.op, 0)
  /\ FallThrough
  /\ UNCHANGED stack

(* An expression leaves its value on the stack. *)
Evaluate ==
  /\ \/ /\ I.op = "cond"
        /\ \E b \in {0, 1} : stack' = Append(stack, b) /\ Observed("cond", b)
     \/ /\ I.op = "select"
        /\ \E v \in Values : stack' = Append(stack, v) /\ Observed("select", v)
     \/ /\ I.op = "limit"       \* the limit and the iterator; 1: it has passed
        /\ \E b \in {0, 1} :
             /\ stack' = stack \o (IF b = 0 THEN <<5, 5>> ELSE <<5, 5 + I.val>>)
             /\ Observed("limit", b)
  /\ FallThrough

LoadConstant ==
  /\ \/ I.op = "false"    /\ stack' = Append(stack, 0)
     \/ I.op = "label"    /\ stack' = stack \o <<Arg(0), I.val>>
     \/ I.op = "strlabel" /\ stack' = Append(stack, Arg(0) - I.val)
     \/ I.op = "pop"      /\ stack' = Drop(1)
  /\ FallThrough
  /\ UNCHANGED obs

Jump ==
  /\ \/ I.op = "goto"      /\ Goto(Target(code, pc))      /\ UNCHANGED stack
     \/ I.op = "ifeq"      /\ BranchIf(Arg(0) = 0)        /\ stack' = Drop(1)
     \/ I.op = "ifne"      /\ BranchIf(Arg(0) # 0)        /\ stack' = Drop(1)
     \/ I.op = "if_icmpeq" /\ BranchIf(Arg(1) = Arg(0))   /\ stack' = Drop(2)
     \/ I.op = "if_icmpne" /\ BranchIf(Arg(1) # Arg(0))   /\ stack' = Drop(2)
     \/ I.op = "if_icmplt" /\ BranchIf(Arg(1) < Arg(0))   /\ stack' = Drop(2)
     \/ I.op = "if_icmple" /\ BranchIf(Arg(1) <= Arg(0))  /\ stack' = Drop(2)
     \/ I.op = "if_icmpgt" /\ BranchIf(Arg(1) > Arg(0))   /\ stack' = Drop(2)
  /\ UNCHANGED obs

(* exit, in a routine or in the main block, and the end of the block. *)
Leave ==
  /\ I.op \in {"return", "halt"}
  /\ Observed(IF I.tok > Len(prog) THEN "return" ELSE "exit", 0)
  /\ Goto(-1)
  /\ UNCHANGED stack

Run ==
  /\ Running
  /\ Perform \/ Evaluate \/ LoadConstant \/ Jump \/ Leave
  /\ UNCHANGED vars

Stopped == done /\ ~Running /\ UNCHANGED evars

ExecNext == Compile \/ Run \/ Stopped

ExecSpec == ExecInit /\ [][ExecNext]_evars
FairExec == ExecSpec /\ WF_evars(Run)

-----------------------------------------------------------------------------
(* The generated code does what the statements mean: every run of the code  *)
(* makes observations that the structured routine may make, in that order.  *)
Implements == Meaning!Spec

(* ... and goes on making them for as long as the routine does: the code    *)
(* never spins or stops where the source has something left to do.          *)
KeepsGoing ==
  \A b \in BOOLEAN :
    (Loaded /\ obs.beat = b /\ Meaning!After(obs) # {}) ~> (obs.beat # b)

(* The machine is never left outside the code, nor with values on the       *)
(* stack when the routine returns or a statement runs.                      *)
StackClean ==
  /\ Loaded => pc \in DOMAIN code.ins \cup {-1}
  /\ Running /\ I.op \in {"stmt", "init", "return", "halt"} => stack = <<>>

=============================================================================
