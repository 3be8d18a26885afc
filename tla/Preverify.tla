----------------------------- MODULE Preverify -----------------------------
(***************************************************************************)
(* The verifier that every class passes before the device may load it:     *)
(* verify_method finds by iteration what the stack and the registers hold  *)
(* at each instruction, removes the instructions that are not reached and  *)
(* the subroutines (rewriteCode), starts again on what is left, and writes *)
(* down the state at each target of a branch for the linear check of the   *)
(* device.  A long is two words wherever a value is kept.                  *)
(***************************************************************************)
EXTENDS Integers, Sequences, FiniteSets, SequencesExt, FiniteSetsExt

CONSTANTS
    Methods,        \* the methods to verify: [code, handlers, args, locals]
    MaxSteps        \* bound: steps of the machine that runs the code

ASSUME StepsAssumption == MaxSteps \in Nat

VARIABLES
    original,       \* the method as it is compiled
    code, handlers, \* the method as it is now
    origin,         \* the instruction of the original that each one was
    info,           \* instruction_data
    inumber,        \* the position of run_dataflow in the code
    redoJsr,
    maps,           \* stack_maps
    phase           \* "flow", "done" or "crash"

method == <<code, handlers, origin>>
vars   == <<original, method, info, inumber, redoJsr, maps, phase>>
-----------------------------------------------------------------------------
(* The types of values (fullinfo_type).                                    *)

Made(item, dim, class, at) == [item |-> item, dim |-> dim, class |-> class, at |-> at]

Type(item)  == Made(item, 0, "", 0)
Bogus       == Type("bogus")
Integer     == Type("int")
Long        == <<Type("long"), Type("long2")>>
Object(c)   == Made("object", 0, c, 0)
Array(t, d) == Made(t.item, d, t.class, t.at)
Null        == Object("null")
Root        == Object("Object")
New(n)      == Made("new", 0, "", n)
ReturnTo(n) == Made("return", 0, "", n)

IsReference(t) == t.dim > 0 \/ t.item = "object"

\* An array of elements is an array of one dimension less of objects.
Promoted(t) == IF t.item = "object" THEN t ELSE Array(Root, t.dim - 1)

\* Classes that are not the same come to nothing: only those whose file lies
\* in the output directory are found, and a method never mixes two of them.
MergeClasses(v, t) ==
    IF v = t THEN v
    ELSE IF v = Null THEN t
    ELSE IF t = Null THEN v
    ELSE IF Root \in {v, t} THEN Root
    ELSE Bogus

\* A mutant of Merge: null has a type of its own.
MergeNull(v, t) ==
    IF v = t THEN v
    ELSE IF ~ (IsReference(v) /\ IsReference(t)) THEN Bogus
    ELSE IF Root \in {v, t} THEN Root
    ELSE Bogus

\* merge_fullinfo_types.
Merge(v, t) ==
    IF v = t THEN v
    ELSE IF ~ (IsReference(v) /\ IsReference(t)) THEN Bogus
    ELSE IF v = Null THEN t
    ELSE IF t = Null THEN v
    ELSE IF Root \in {v, t} THEN Root
    ELSE LET a == Promoted(v)
             b == Promoted(t)
             base == MergeClasses(Array(a, 0), Array(b, 0))
         IN IF a.dim # b.dim THEN Array(Root, Min({a.dim, b.dim}))
            ELSE IF base = Bogus THEN Bogus
            ELSE Array(base, a.dim)

Assignable(from, to) == Merge(from, to) = to

\* decrement_indirection: the element that aaload finds.
Element(t) == IF t = Null THEN Null ELSE Array(t, t.dim - 1)
-----------------------------------------------------------------------------
(* Instructions: what they do, what they take from the stack and give to   *)
(* it, the variable and the instruction that they name.                    *)

Instr(op, takes, gives, var, to) ==
    [op |-> op, takes |-> takes, gives |-> gives, var |-> var, to |-> to, copy |-> <<>>]

Do(takes, gives)      == Instr("do", takes, gives, 0, 0)
Load(t, v)            == Instr("load", <<>>, t, v, 0)
ALoad(t, v)           == Instr("aload", <<>>, <<t>>, v, 0)
Store(t, v)           == Instr("store", t, <<>>, v, 0)
AStore(v)             == Instr("astore", <<Root>>, <<>>, v, 0)
IInc(v)               == Instr("iinc", <<>>, <<>>, v, 0)
NewObject(c)          == Instr("new", <<>>, <<Object(c)>>, 0, 0)
InvokeInit(c, takes)  == Instr("invokeinit", <<Object(c)>> \o takes, <<>>, 0, 0)
AALoad(t)             == Instr("aaload", <<t, Integer>>, <<>>, 0, 0)
If(takes, n)          == Instr("if", takes, <<>>, 0, n)
Goto(n)               == Instr("goto", <<>>, <<>>, 0, n)
Jsr(n)                == Instr("jsr", <<>>, <<>>, 0, n)
Ret(v)                == Instr("ret", <<>>, <<>>, v, 0)
Return(takes)         == Instr("return", takes, <<>>, 0, 0)
\* dup, swap and their like: the words that are taken, copied in this order.
Shuffle(n, order)     == [Instr("shuffle", [k \in 1..n |-> Bogus], <<>>, 0, 0)
                              EXCEPT !.copy = order]


At(s, k) == IF k \in DOMAIN s THEN s[k] ELSE Bogus

\* Below the bottom of the stack there is nothing of a type.
Top(s, n)  == [k \in 1..n |-> At(s, Len(s) - n + k)]
Drop(s, n) == SubSeq(s, 1, Len(s) - n)
\* The places of a sequence of which something holds, in order.
InOrder(places, n) ==
    LET first[k \in 0..n] == IF k = 0 THEN <<>>
                             ELSE IF k \in places THEN Append(first[k - 1], k) ELSE first[k - 1]
    IN first[n]
Where(s, Test(_)) == InOrder({k \in DOMAIN s : Test(k)}, Len(s))

\* The words of the registers that an instruction names.
Words(i) ==
    CASE i.op \in {"load", "aload"}   -> i.var..(i.var + Len(i.gives) - 1)
      [] i.op \in {"store", "astore"} -> i.var..(i.var + Len(i.takes) - 1)
      [] i.op \in {"iinc", "ret"}     -> {i.var}
      [] OTHER                        -> {}

Swap(s, from, to) == [k \in DOMAIN s |-> IF s[k] = from THEN to ELSE s[k]]

\* Registers with words put at a variable, longer when it lies beyond them.
Put(registers, var, words) ==
    [k \in 1..Max({Len(registers), var + Len(words) - 1}) |->
        IF k \in var..(var + Len(words) - 1) THEN words[k - var + 1] ELSE At(registers, k)]
-----------------------------------------------------------------------------
(* The data flow.                                                          *)

Unknown == [known |-> FALSE, stack |-> <<>>, registers |-> <<>>, masks |-> <<>>,
            changed |-> FALSE, target |-> FALSE, ret |-> 0, successors |-> <<>>]

\* instruction_data and the entry of the method, as initialize_dataflow
\* leaves them.
Fresh(c, args) ==
    [[n \in DOMAIN c |-> Unknown] EXCEPT ![1] =
        [@ EXCEPT !.known = TRUE, !.registers = args, !.changed = TRUE]]

MergeStack(old, new) ==
    IF Len(old) # Len(new) THEN old ELSE [k \in DOMAIN old |-> Merge(new[k], old[k])]

WithoutBogus(s) == SubSeq(s, 1, Max({0} \cup {k \in DOMAIN s : s[k] # Bogus}))

\* A mutant of MergeRegisters: the first path to an instruction decides.
MergeNoRegisters(old, new) == SubSeq(old, 1, Min({Len(old), Len(new)}))
MergeRegisters(old, new) ==
    LET kept == SubSeq(old, 1, Min({Len(old), Len(new)}))
    IN IF \A k \in DOMAIN kept : Assignable(new[k], kept[k]) THEN kept
       ELSE WithoutBogus([k \in DOMAIN kept |-> Merge(new[k], kept[k])])

\* The subroutines that both are in, outermost first, with the registers that
\* either has touched.
MergeMasks(old, new) ==
    LET Match(common, mask) ==
            LET rest == {k \in DOMAIN new : k > common.last /\ new[k].entry = mask.entry}
            IN IF rest = {} THEN common
               ELSE [masks |-> Append(common.masks,
                                  [mask EXCEPT !.modifies = @ \cup new[Min(rest)].modifies]),
                     last  |-> Min(rest)]
        matched[k \in 0..Len(old)] == IF k = 0 THEN [masks |-> <<>>, last |-> 0]
                                      ELSE Match(matched[k - 1], old[k])
    IN matched[Len(old)].masks

\* A mutant of MergeInto: an instruction is visited again whatever it learns.
MergeAlways(old, new) ==
    [old EXCEPT !.known = TRUE, !.stack = new.stack, !.registers = new.registers,
                !.masks = new.masks, !.changed = TRUE]

\* merge_stack, merge_registers and merge_flags: an instruction that learns
\* something is visited again.
MergeInto(old, new) ==
    LET merged == IF old.known
                  THEN [old EXCEPT !.stack     = MergeStack(@, new.stack),
                                   !.registers = MergeRegisters(@, new.registers),
                                   !.masks     = MergeMasks(@, new.masks)]
                  ELSE [old EXCEPT !.known = TRUE, !.stack = new.stack,
                                   !.registers = new.registers, !.masks = new.masks]
    IN [merged EXCEPT !.changed = @ \/ merged # old]

\* pop_stack and push_stack.
StackAfter(n) ==
    LET i     == code[n]
        taken == Top(info[n].stack, Len(i.takes))
        left  == Drop(info[n].stack, Len(i.takes))
    IN CASE i.op = "aload"      -> Append(left, At(info[n].registers, i.var))
         [] i.op = "shuffle"    -> left \o [k \in DOMAIN i.copy |-> taken[i.copy[k]]]
         [] i.op = "new"        -> Append(left, New(n))
         [] i.op = "invokeinit" -> Swap(left, taken[1], i.takes[1])
         [] i.op = "aaload"     -> Append(left, Element(taken[1]))
         [] i.op = "jsr"        -> Append(left, ReturnTo(i.to))
         [] i.op \in {"do", "load"} -> left \o i.gives
         [] OTHER               -> left

\* What an instruction makes of an object that is not initialised yet.
Swapped(n) ==
    LET i == code[n]
    IN IF i.op = "new" THEN [from |-> New(n), to |-> Bogus]
       ELSE [from |-> Top(info[n].stack, Len(i.takes))[1], to |-> i.takes[1]]

RegistersAfter(n) ==
    LET i == code[n]
        r == info[n].registers
    IN CASE i.op \in {"store", "astore"}   -> Put(r, i.var, Top(info[n].stack, Len(i.takes)))
         [] i.op \in {"new", "invokeinit"} -> Swap(r, Swapped(n).from, Swapped(n).to)
         [] OTHER -> r

\* Every subroutine that the instruction is in touches the registers that it
\* names; a jsr enters one more, unless it has been found not to return.
MasksAfter(n) ==
    LET i == code[n]
        r == info[n].registers
        touched == IF i.op \in {"new", "invokeinit"}
                   THEN {k \in DOMAIN r : r[k] = Swapped(n).from} ELSE Words(i)
        masks == [k \in DOMAIN info[n].masks |->
                     [info[n].masks[k] EXCEPT !.modifies = @ \cup touched]]
    IN IF i.op = "jsr" /\ ~ (redoJsr /\ info[n].ret = 0)
       THEN Append(masks, [entry |-> i.to, modifies |-> {}]) ELSE masks

\* No object that is not initialised passes a jsr or a ret.
WithoutNew(s) == [k \in DOMAIN s |-> IF s[k].item = "new" THEN Bogus ELSE s[k]]

\* What is known behind a ret, in the caller: the registers that the subroutine
\* has not touched are those of the jsr.
Returned(e, jsr) ==
    LET entry == Max({k \in DOMAIN e.masks : e.masks[k].entry = e.called})
    IN [e EXCEPT !.masks = SubSeq(@, 1, entry - 1),
                 !.registers =
                     [k \in 1..Max({Len(e.registers), Len(jsr.registers)}) |->
                         At(IF k \in e.masks[entry].modifies THEN e.registers
                            ELSE jsr.registers, k)]]

\* merge_into_one_successor.
Flow(data, e) ==
    IF e.called = 0 THEN [data EXCEPT ![e.to] = MergeInto(@, e)]
    ELSE LET jsr  == data[e.to - 1]
             told == [data EXCEPT ![e.to - 1].ret = e.from]
         IN IF jsr.known THEN [told EXCEPT ![e.to] = MergeInto(@, Returned(e, jsr))]
            ELSE told

\* The instructions behind the calls of a subroutine, from the last.
Behind(entry) ==
    LET calls == Reverse(Where(code, LAMBDA k : code[k] = Jsr(entry)))
    IN [k \in DOMAIN calls |-> calls[k] + 1]

Successors(n) ==
    LET i == code[n]
    IN CASE i.op = "if"             -> <<n + 1, i.to>>
         [] i.op \in {"goto", "jsr"} -> <<i.to>>
         [] i.op = "return"         -> <<>>
         [] i.op = "ret" -> IF info[n].successors # <<>> THEN info[n].successors
                            ELSE Behind(info[n].registers[i.var].at)
         [] OTHER -> <<n + 1>>

\* The handlers that are asked for what instruction n throws.
Catching(hs, n) == {k \in DOMAIN hs : n \in hs[k].from..(hs[k].end - 1)}

Targets(n) ==
    {handlers[k].at : k \in Catching(handlers, n)} \cup
    (CASE code[n].op \in {"if", "goto", "jsr"} -> {code[n].to}
       [] code[n].op = "ret" -> Range(Successors(n))
       [] OTHER -> {})

\* What instruction n passes on: no object that is not initialised by a jsr or
\* a ret.
Edge(n, to, stack, registers, masks, called) ==
    LET Clean(s) == IF code[n].op \in {"jsr", "ret"} THEN WithoutNew(s) ELSE s
    IN [from |-> n, to |-> to, stack |-> Clean(stack), registers |-> Clean(registers),
        masks |-> masks, called |-> called]

Passed(n, to) ==
    Edge(n, to, StackAfter(n), RegistersAfter(n), MasksAfter(n),
         IF code[n].op = "ret" THEN info[n].registers[code[n].var].at ELSE 0)

\* To a handler the state before the instruction, and for invokeinit also the
\* one after it.
Caught(n, h)      == Edge(n, h.at, <<Object(h.class)>>, info[n].registers, info[n].masks, 0)
CaughtAfter(n, h) == Edge(n, h.at, <<Object(h.class)>>, RegistersAfter(n), MasksAfter(n), 0)

\* merge_into_successors: first the handlers, then the successors.
PassOn(data, n, k) ==
    IF k > Len(handlers)
    THEN Flow(data, Passed(n, Successors(n)[k - Len(handlers)]))
    ELSE IF k \notin Catching(handlers, n) THEN data
    ELSE IF code[n].op # "invokeinit" THEN Flow(data, Caught(n, handlers[k]))
    ELSE Flow(Flow(data, Caught(n, handlers[k])), CaughtAfter(n, handlers[k]))

PassedOn(data, n) ==
    LET last == Len(handlers) + Len(Successors(n))
        passed[k \in 0..last] == IF k = 0 THEN data ELSE PassOn(passed[k - 1], n, k)
    IN passed[last]

\* Both words of every long are there.
Paired(s) == \A k \in DOMAIN s : /\ s[k] = Long[1] => k < Len(s) /\ s[k + 1] = Long[2]
                                 /\ s[k] = Long[2] => k > 1 /\ s[k - 1] = Long[1]

\* What check_register_values, pop_stack, merge_into_successors and merge_stack
\* look at, and would report if CCerror did anything.
Sensible(n) ==
    LET i     == code[n]
        taken == Top(info[n].stack, Len(i.takes))
        Register(k) == At(info[n].registers, k)
        OfNew(t) == \E m \in DOMAIN code : t = New(m) /\ code[m].gives = <<i.takes[1]>>
        Fitting(from) == \A k \in from..Len(i.takes) : Assignable(taken[k], i.takes[k])
        Fed(e) == e.to \in DOMAIN code /\ Len(e.stack) = Len(info[e.to].stack)
    IN /\ Len(i.takes) <= Len(info[n].stack)
       /\ CASE i.op = "load"    -> \A k \in Words(i) : Register(k) = i.gives[k - i.var + 1]
            [] i.op = "aload"   -> \/ IsReference(Register(i.var))
                                   \/ Register(i.var).item \in {"new", "init"}
            [] i.op = "iinc"    -> Register(i.var) = Integer
            [] i.op = "ret"     -> Register(i.var).item = "return"
            [] i.op = "astore"  -> \/ IsReference(taken[1])
                                   \/ taken[1].item \in {"new", "init", "return"}
            [] i.op = "shuffle" -> /\ Paired(Drop(info[n].stack, Len(i.takes)))
                                   /\ Paired([k \in DOMAIN i.copy |-> taken[i.copy[k]]])
            [] i.op = "new"     -> New(n) \notin Range(info[n].stack)
            [] i.op = "aaload"  -> /\ \/ taken[1] = Null \/ taken[1].dim > 1
                                      \/ taken[1].dim = 1 /\ taken[1].item = "object"
                                   /\ taken[2] = Integer
            [] i.op = "invokeinit" -> (taken[1] = Type("init") \/ OfNew(taken[1])) /\ Fitting(2)
            [] OTHER            -> Fitting(1)
       /\ \A k \in Catching(handlers, n) : Fed(Caught(n, handlers[k]))
       /\ \A k \in DOMAIN Successors(n)  : Fed(Passed(n, Successors(n)[k]))

NothingToReport == \A n \in DOMAIN info : info[n].known => Sensible(n)

Changed == {n \in DOMAIN info : info[n].changed}
Next1 == IF \E n \in Changed : n >= inumber THEN Min({n \in Changed : n >= inumber})
         ELSE Min(Changed)

\* A visited instruction is no longer marked; a jsr whose ret is known has it
\* visited.
Marked(n) ==
    LET i       == code[n]
        targets == Targets(n)
    IN [k \in DOMAIN info |->
           [info[k] EXCEPT !.changed = (@ /\ k # n) \/ (i.op = "jsr" /\ k = info[n].ret),
                           !.target  = @ \/ k \in targets,
                           !.successors = IF i.op = "ret" /\ k = n THEN Successors(n) ELSE @]]

\* One instruction of run_dataflow.
Visit(n) ==
    /\ info' = PassedOn(Marked(n), n)
    /\ inumber' = n + 1
    /\ UNCHANGED <<original, method, redoJsr, maps, phase>>

Flowing == phase = "flow" /\ Changed # {} /\ Visit(Next1)

\* The first visit of a ret looks at a pointer of which only the lower half has
\* been set, in memory that the heap of the verifier does not clear: when the
\* upper half is not zero it is followed as it is.
FollowJunk ==
    /\ phase = "flow" /\ Changed # {}
    /\ code[Next1].op = "ret" /\ info[Next1].successors = <<>>
    /\ phase' = "crash"
    /\ UNCHANGED <<original, method, info, inumber, redoJsr, maps>>

Settled == phase = "flow" /\ Changed = {}
Calls   == {n \in DOMAIN code : info[n].known /\ code[n].op = "jsr"}
Stray   == {n \in Calls : info[n].ret = 0}

\* A jsr whose subroutine has not been found to return is looked at again, as
\* a goto.
RedoJsr ==
    /\ Settled /\ ~ redoJsr /\ Stray # {}
    /\ info' = [n \in DOMAIN info |-> [info[n] EXCEPT !.changed = n \in Stray]]
    /\ redoJsr' = TRUE /\ inumber' = 1
    /\ UNCHANGED <<original, method, maps, phase>>
-----------------------------------------------------------------------------
(* Dead code and subroutines.  A subroutine is named by the jsrs that lead *)
(* to it, and every call gets a copy of its own.                           *)

Entries(sub) == [k \in DOMAIN sub |-> code[sub[k]].to]

\* The instructions of a subroutine by themselves.
OwnCopies(sub) ==
    LET own == Where(code, LAMBDA n :
                   info[n].known /\ [k \in DOMAIN info[n].masks |-> info[n].masks[k].entry]
                                       = Entries(sub))
    IN [k \in DOMAIN own |-> [n |-> own[k], sub |-> sub]]

\* The instructions that are left, those of a subroutine behind the jsr that
\* calls it (rewriteOneSubroutine, matchSubroutine), one nesting after another.
Inlined ==
    LET Copy(r, depth) ==
            <<r>> \o (IF Len(r.sub) = depth /\ code[r.n].op = "jsr" /\ info[r.n].ret # 0
                      THEN OwnCopies(Append(r.sub, r.n)) ELSE <<>>)
        level[d \in 0..Cardinality(Calls)] ==
            IF d = 0 THEN OwnCopies(<<>>)
            ELSE LET outer == level[d - 1]
                 IN FlattenSeq([k \in DOMAIN outer |-> Copy(outer[k], d - 1)])
    IN level[Cardinality(Calls)]

\* subroutineGoto: out of a subroutine, but not into one.
MayGo(from, to) == IsPrefix(to, from)

\* A mutant of Place: a copy for whichever call.
PlaceAnywhere(refs, n, sub) == Max({k \in DOMAIN refs : refs[k].n = n})
\* The last copy of an instruction that can be reached (updateTarget).
Place(refs, n, sub) == Max({k \in DOMAIN refs : refs[k].n = n /\ MayGo(sub, refs[k].sub)})

\* Past the copies of a subroutine (nextInstruction).
NextInstruction(refs, sub) == Max({k \in DOMAIN refs : IsPrefix(sub, refs[k].sub)}) + 1

\* A jsr whose subroutine begins elsewhere than at its first instruction.
IsTargeted(refs, k) ==
    /\ k < Len(refs) /\ refs[k + 1].sub = Append(refs[k].sub, refs[k].n)
    /\ refs[k + 1].n # code[refs[k].n].to

\* CRF_SKIP: what only served the subroutines.
Skipped(refs, k) ==
    LET i == code[refs[k].n]
    IN CASE i.op = "jsr"    -> info[refs[k].n].ret # 0 /\ ~ IsTargeted(refs, k)
         [] i.op = "ret"    -> NextInstruction(refs, refs[k].sub) = k + 1
         [] i.op = "astore" -> Top(info[refs[k].n].stack, 1)[1].item = "return"
         [] OTHER           -> FALSE

Kept(refs) == Where(refs, LAMBDA k : ~ Skipped(refs, k))

\* The offset that a copy gets; one that is skipped has that of the next.
Offset(refs, k) == 1 + Cardinality({j \in 1..(k - 1) : ~ Skipped(refs, j)})

\* fixupCode.
Fixed(refs, k) ==
    LET i == code[refs[k].n]
        Target(sub) == Offset(refs, Place(refs, i.to, sub))
    IN CASE i.op \in {"if", "goto"} -> [i EXCEPT !.to = Target(refs[k].sub)]
         [] i.op = "jsr" -> IF info[refs[k].n].ret = 0 THEN Goto(Target(refs[k].sub))
                            ELSE Goto(Target(refs[k + 1].sub))
         [] i.op = "ret" -> Goto(Offset(refs, NextInstruction(refs, refs[k].sub)))
         [] OTHER -> i

\* fixupExceptionHandlers: a handler for each copy of its code, from the last,
\* and for each run of instructions that may go to it.
CopiesOf(refs, h) ==
    LET kept == Kept(refs)
        Own(c, j) == /\ j \in DOMAIN kept
                     /\ refs[kept[j]].n \in h.from..(h.end - 1)
                     /\ MayGo(refs[kept[j]].sub, refs[c].sub)
        Run(c, first) ==
            [h EXCEPT !.at = Offset(refs, c), !.from = first,
                      !.end = Min({j \in (first + 1)..(Len(kept) + 1) : ~ Own(c, j)})]
        Runs(c) ==
            LET firsts == Where(kept, LAMBDA j : Own(c, j) /\ ~ Own(c, j - 1))
            IN [j \in DOMAIN firsts |-> Run(c, firsts[j])]
        copies == Reverse(Where(refs, LAMBDA c : refs[c].n = h.at))
    IN FlattenSeq([c \in DOMAIN copies |-> Runs(copies[c])])

\* A mutant of Rewrite: the analysis goes on where it was.
RewriteOnly ==
    /\ Settled /\ (redoJsr \/ Stray = {})
    /\ Calls # {} \/ \E n \in DOMAIN info : ~ info[n].known
    /\ LET refs == Inlined
           kept == Kept(refs)
       IN /\ code' = [j \in DOMAIN kept |-> Fixed(refs, kept[j])]
          /\ handlers' = FlattenSeq([h \in DOMAIN handlers |-> CopiesOf(refs, handlers[h])])
          /\ origin' = [j \in DOMAIN kept |-> origin[refs[kept[j]].n]]
    /\ redoJsr' = FALSE
    /\ UNCHANGED <<original, info, inumber, maps, phase>>

\* rewriteCode, and verify_method from the beginning.
Rewrite ==
    /\ Settled /\ (redoJsr \/ Stray = {})
    /\ Calls # {} \/ \E n \in DOMAIN info : ~ info[n].known
    /\ LET refs == Inlined
           kept == Kept(refs)
       IN /\ code' = [j \in DOMAIN kept |-> Fixed(refs, kept[j])]
          /\ handlers' = FlattenSeq([h \in DOMAIN handlers |-> CopiesOf(refs, handlers[h])])
          /\ origin' = [j \in DOMAIN kept |-> origin[refs[kept[j]].n]]
    /\ info' = Fresh(code', original.args)
    /\ inumber' = 1 /\ redoJsr' = FALSE
    /\ UNCHANGED <<original, maps, phase>>
-----------------------------------------------------------------------------
(* The maps.                                                               *)

\* get_type_code, and the two words of a long taken together.
Coded(s) ==
    [k \in DOMAIN s |->
        IF \/ s[k].item = "return" /\ s[k].dim = 0
           \/ s[k] = Long[1] /\ (k = Len(s) \/ s[k + 1] # Long[2])
           \/ s[k] = Long[2] /\ (k = 1 \/ s[k - 1] # Long[1])
        THEN Bogus ELSE s[k]]

WriteMaps ==
    /\ Settled /\ (redoJsr \/ Stray = {})
    /\ Calls = {} /\ \A n \in DOMAIN info : info[n].known
    /\ LET targets == Where(info, LAMBDA n : info[n].target)
       IN maps' = [k \in DOMAIN targets |->
                      [at |-> targets[k], stack |-> Coded(info[targets[k]].stack),
                       locals |-> Coded(info[targets[k]].registers)]]
    /\ phase' = "done"
    /\ UNCHANGED <<original, method, info, inumber, redoJsr>>

Finished == phase \in {"done", "crash"} /\ UNCHANGED vars

Init ==
    /\ original \in Methods
    /\ code = original.code /\ handlers = original.handlers
    /\ origin = [n \in DOMAIN code |-> n]
    /\ info = Fresh(code, original.args)
    /\ inumber = 1 /\ redoJsr = FALSE /\ maps = <<>> /\ phase = "flow"

Next == Flowing \/ FollowJunk \/ RedoJsr \/ Rewrite \/ WriteMaps \/ Finished

Spec == Init /\ [][Next]_vars
-----------------------------------------------------------------------------
(* The machine that runs the code: frames [pc, stack, registers] of values *)
(* with their types.  A return address is the instruction behind the jsr,  *)
(* and every instruction that may throw does so for every handler.         *)

\* A value can be used where another type is asked for.
Fits(t, need) ==
    \/ t = need
    \/ IsReference(need) /\ t = Null
    \/ IsReference(need) /\ IsReference(t) /\ Array(need, 0) = Root /\ need.dim <= t.dim
                         /\ (t.item = "object" \/ need.dim < t.dim)

AllFit(s, needs) == Len(s) = Len(needs) /\ \A k \in DOMAIN s : Fits(s[k], needs[k])

\* The operands of an instruction are there and of their types.
Able(i, f) ==
    LET n == Len(i.takes)
        taken == Top(f.stack, n)
        held == {k \in Words(i) : k \in DOMAIN f.registers}
        value == f.registers[i.var]
    IN /\ Len(f.stack) >= n
       /\ held = Words(i)
       /\ CASE i.op = "load"       -> \A k \in Words(i) : f.registers[k] = i.gives[k - i.var + 1]
            [] i.op = "aload"      -> Fits(value, i.gives[1]) \/ value.item \in {"new", "init"}
            [] i.op = "iinc"       -> value = Integer
            [] i.op = "ret"        -> value.item = "return"
            [] i.op = "astore"     -> IsReference(taken[1])
                                      \/ taken[1].item \in {"new", "init", "return"}
            [] i.op = "shuffle"    -> Paired(Drop(f.stack, n))
                                      /\ Paired([k \in DOMAIN i.copy |-> taken[i.copy[k]]])
            [] i.op = "aaload"     -> Fits(taken[1], i.takes[1]) /\ taken[2] = Integer
            [] i.op = "invokeinit" -> /\ taken[1].item \in {"new", "init"}
                                      /\ AllFit(Tail(taken), Tail(i.takes))
            [] OTHER               -> AllFit(taken, i.takes)

\* A store into one word of a long spoils the other.
Stored(registers, var, words) ==
    LET put == Put(registers, var, words)
    IN [k \in DOMAIN put |->
           IF \/ put[k] = Long[1] /\ (k = Len(put) \/ put[k + 1] # Long[2])
              \/ put[k] = Long[2] /\ (k = 1 \/ put[k - 1] # Long[1])
           THEN Bogus ELSE put[k]]

Executed(i, f) ==
    LET taken == Top(f.stack, Len(i.takes))
        left  == Drop(f.stack, Len(i.takes))
        With(stack) == [f EXCEPT !.stack = stack]
    IN CASE i.op \in {"do", "load"} -> With(left \o i.gives)
         [] i.op = "aload"      -> With(Append(left, f.registers[i.var]))
         [] i.op = "shuffle"    -> With(left \o [k \in DOMAIN i.copy |-> taken[i.copy[k]]])
         [] i.op = "aaload"     -> With(Append(left, Element(taken[1])))
         [] i.op = "jsr"        -> With(Append(left, ReturnTo(f.pc + 1)))
         [] i.op = "new"        -> [f EXCEPT !.stack = Append(left, New(f.pc)),
                                             !.registers = Swap(@, New(f.pc), Bogus)]
         [] i.op = "invokeinit" -> [f EXCEPT !.stack = Swap(left, taken[1], i.takes[1]),
                                             !.registers = Swap(@, taken[1], i.takes[1])]
         [] i.op \in {"store", "astore"} -> [f EXCEPT !.stack = left,
                                                      !.registers = Stored(@, i.var, taken)]
         [] OTHER -> With(left)

\* Errors of the machine itself may come anywhere; the instructions that the
\* rewriting removes are left out.
MayThrow(i) == i.op \notin {"goto", "jsr", "ret", "astore"}

Exits(i, f) ==
    CASE i.op = "if"             -> {f.pc + 1, i.to}
      [] i.op \in {"goto", "jsr"} -> {i.to}
      [] i.op = "ret"            -> {f.registers[i.var].at}
      [] i.op = "return"         -> {}
      [] OTHER                   -> {f.pc + 1}

\* Where a frame goes on, with what tells the ways apart.
Moves(c, hs, f) ==
    LET i == c[f.pc]
        caught == Catching(hs, f.pc)
        Thrown(h) == [by |-> "throw", class |-> h.class,
                      frame |-> [f EXCEPT !.pc = h.at, !.stack = <<Object(h.class)>>]]
        Gone(to) == [by |-> IF i.op = "if" /\ to = i.to THEN "branch" ELSE "next", class |-> "",
                     frame |-> [Executed(i, f) EXCEPT !.pc = to]]
    IN {Gone(to) : to \in Exits(i, f)} \cup
       (IF MayThrow(i)
        THEN {Thrown(hs[k]) : k \in {j \in caught :
                             \A l \in caught : l < j => hs[l].class # hs[j].class}}
        ELSE {})

Entry == [pc |-> 1, stack |-> <<>>, registers |-> Put(original.args, original.locals + 1, <<>>)]

\* The frames that the machine comes to; those that are new at each step.
Reached(c, hs) ==
    LET run[k \in 0..MaxSteps] ==
            IF k = 0 THEN [found |-> {Entry}, new |-> {Entry}]
            ELSE LET before == run[k - 1]
                     next == UNION {{m.frame : m \in Moves(c, hs, f)} : f \in before.new}
                 IN [found |-> before.found \cup next, new |-> next \ before.found]
    IN run[MaxSteps].found
-----------------------------------------------------------------------------
(* What the verifier is for.                                               *)

\* A value is of the type that the verifier has written down.
Is(value, t) ==
    \/ t = Bogus \/ Fits(value, t)
    \/ value.item = "return" /\ t.item = "return" /\ code[value.at - 1] = Jsr(t.at)

Holds(values, types) ==
    \A k \in DOMAIN types :
        Is(values[k], IF types[k].item = "return" THEN types[k] ELSE Coded(types)[k])

TypeOK ==
    /\ phase \in {"flow", "done", "crash"} /\ redoJsr \in BOOLEAN
    /\ inumber \in 1..(Len(code) + 1)
    /\ DOMAIN info = DOMAIN code /\ DOMAIN origin = DOMAIN code
    /\ \A n \in DOMAIN info : /\ info[n].ret \in 0..Len(code)
                              /\ Len(info[n].registers) <= original.locals

\* When nothing is left to visit, the state written down at an instruction
\* covers every state in which the code can come to it, in subroutines too.
Described ==
    Settled => \A f \in Reached(code, handlers) :
        /\ info[f.pc].known
        /\ Len(f.stack) = Len(info[f.pc].stack)
        /\ Holds(f.stack, info[f.pc].stack)
        /\ Holds(f.registers, info[f.pc].registers)

\* What is known of an instruction only ever shrinks: types become more general
\* and subroutines fewer, while the registers that they touch become more.
Shrinks(old, new) ==
    /\ old.known => new.known
    /\ old.known =>
         /\ Len(old.stack) = Len(new.stack) /\ Len(old.registers) >= Len(new.registers)
         /\ \A k \in DOMAIN new.stack     : Assignable(old.stack[k], new.stack[k])
         /\ \A k \in DOMAIN new.registers : Assignable(old.registers[k], new.registers[k])
         /\ Len(old.masks) >= Len(new.masks)
         /\ Len(old.masks) = Len(new.masks) =>
               \A k \in DOMAIN new.masks : /\ old.masks[k].entry = new.masks[k].entry
                                           /\ old.masks[k].modifies \subseteq new.masks[k].modifies
Content(x) == <<x.known, x.stack, x.registers, x.masks>>

\* Verifying comes to an end.  A visit of run_dataflow is the last of its
\* instruction unless one that it passes to learns something, or it is of a jsr
\* that has its ret looked at again, and what can be learned is bounded; and the
\* code that a rewriting makes is never rewritten.
Learning ==
    code' = code /\ redoJsr' = redoJsr =>
        \A n \in DOMAIN code :
            /\ Shrinks(info[n], info'[n])
            /\ info'[n].changed =>
                  \/ info[n].changed /\ n # inumber' - 1
                  \/ Content(info'[n]) # Content(info[n])
                  \/ code[inumber' - 1].op = "jsr" /\ info[inumber' - 1].ret = n
ComesToAnEnd == [][Learning /\ (code' # code => code = original.code)]_vars

\* The compiler reports what is wrong with a module by the number of errors
\* (docs/compiler-output.md); the verifier never ends it otherwise.
NoCrash == phase # "crash"
=============================================================================
