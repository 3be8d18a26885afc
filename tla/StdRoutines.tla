---------------------------- MODULE StdRoutines ----------------------------
(***************************************************************************)
(* A statement that calls standard routines: a call is compiled in three   *)
(* parts, with other calls between the first and the last (RD_statement,   *)
(* RD_value), and each records the helper classes that have to be put into *)
(* the JAR, which main() reports at the end.  The code is then run by a    *)
(* machine that checks the types of what it takes from the stack.          *)
(***************************************************************************)
EXTENDS StdTable, FiniteSets, SequencesExt

CONSTANTS
    Routines,       \* names that the statement may call
    Canvases,       \* canvasType
    MaxCalls        \* bound: calls in the statement

Types == {"integer", "real", "boolean", "char", "string", "image", "command", "alert",
          "http", "resource", "recordstore"}

ASSUME RoutinesDeclared ==
    \A n \in Routines :
        /\ n \in DOMAIN Declared
        /\ Declared[n].params \in Seq(Types)
        /\ Declared[n].result \in Types \cup {"void"}
ASSUME CallsAssumption == MaxCalls \in Nat

Flags   == {"FS", "S", "Float", "RS", "H", "P", "SM"}
Helpers == (Flags \ {"Float"}) \cup {"F", "Real"}

\* The helper classes whose methods a piece of code names.
NamedIn(piece) ==
    {piece[k].class : k \in {j \in DOMAIN piece : piece[j].op \in {"static", "virtual", "special"}}}
    \cap Helpers

\* A sequence of instructions, whose operands are of a sequence of types.
IsCode(piece) ==
    /\ piece \in Seq(Range(piece))
    /\ \A k \in DOMAIN piece :
          piece[k].op \in {"static", "virtual", "special", "compute", "if", "goto"} =>
              piece[k].params \in Seq(Range(piece[k].params))

\* The classes that the flags usesX stand for.
Classes(flags, fix) ==
    (flags \ {"Float"}) \cup
    (IF "Float" \notin flags THEN {}
     ELSE IF fix THEN {"F"} ELSE {"Real", "Real$NumberFormat"})

\* The classes that were asked for when a value of the type was made: a
\* resource comes from S, and an http from H.
Brings(t) == CASE t = "resource" -> {"S"} [] t = "http" -> {"H"} [] OTHER -> {}

\* Each routine by itself asks for the helper classes that it names or that
\* made its result, but for those that made its arguments.
ASSUME TableAssumption ==
    \A fix \in BOOLEAN, canv \in Canvases :
        LET table == Emitted(fix, canv)
        IN \A n \in Routines :
              /\ table[n].uses \subseteq Flags
              /\ NamedIn(Prefix(n, fix)) = {}
              /\ NamedIn(table[n].code) \cup Brings(Declared[n].result) \subseteq
                     Classes(table[n].uses, fix) \cup UNION {Brings(t) : t \in Range(Declared[n].params)}
              /\ IsCode(Prefix(n, fix)) /\ IsCode(table[n].code)

VARIABLES
    fixed,          \* mathType = 1
    canvas,         \* canvasType
    called,         \* the routines called in the statement, in order
    open,           \* those of them whose arguments are being read
    code,           \* current_block->code
    uses,           \* the usesX flags that are set
    reported,       \* the classes that main() prints with ^2
    printed,        \* the last line that main() prints
    phase,          \* "compile", "report" or "run"
    pc, stack,      \* the machine: stack of [type, from, object]
    objects         \* Raw, Given, Made or Spoilt, and what they are made from

vars == <<fixed, canvas, called, open, code, uses, reported, printed, phase, pc,
          stack, objects>>
settings == <<fixed, canvas>>
report   == <<reported, printed>>
machine  == <<pc, stack, objects>>

Table == [f \in BOOLEAN |-> [d \in Canvases |-> Emitted(f, d)]]

Params(n) == Declared[n].params
Result(n) == Declared[n].result
Current   == Last(open)
Waiting   == open # <<>> /\ Current.given < Len(Params(Current.name))
Formal    == Params(Current.name)[Current.given + 1]
-----------------------------------------------------------------------------
(* Compiling.                                                              *)

\* The type of the machine that stands for a type of the language.
Cell(t) ==
    CASE t \in {"integer", "boolean", "char"} -> "I"
      [] t = "real"        -> IF fixed THEN "I" ELSE "Real"
      [] t = "string"      -> "String"
      [] t = "image"       -> "Image"
      [] t = "command"     -> "Command"
      [] t = "alert"       -> "AlertType"
      [] t = "http"        -> "H"
      [] t = "resource"    -> "InputStream"
      [] t = "recordstore" -> "RecordStore"

\* Where it answers 1 or 2 for a formal type: the others are errors.
type_equal_cast(formal) ==
    {formal} \cup CASE formal = "real"   -> {"integer"}
                    [] formal = "string" -> {"char"}
                    [] OTHER             -> {}

\* RD_expression_list_cast, after an argument.
Converted(actual, formal) ==
    IF actual = formal THEN Plain(<<>>)
    ELSE CASE formal = "string" -> Plain(<< Static("String", "valueOf", <<"I">>, "String") >>)
           [] formal = "real"   -> With("Float", IF fixed
                                                 THEN << Static("F", "fI", <<"I">>, "I") >>
                                                 ELSE Made("Real", "I"))

Emit(entry) == /\ code' = code \o entry.code
               /\ uses' = uses \cup entry.uses

Then(first, second) == [uses |-> first.uses \cup second.uses,
                        code |-> first.code \o second.code]

\* A mutant of Given: the conversion of an argument counts it again.
GivenTwice(calls) == IF calls = <<>> THEN <<>>
                     ELSE Front(calls) \o << [Last(calls) EXCEPT !.given = @ + 2] >>

\* The next argument of the current call has been read.
Given(calls) == IF calls = <<>> THEN <<>>
                ELSE Front(calls) \o << [Last(calls) EXCEPT !.given = @ + 1] >>

\* A variable, or another expression that calls nothing.
Load(t) == [op |-> "load", type |-> Cell(t),
            arg |-> 1 + Cardinality({k \in DOMAIN code : code[k].op = "load"})]

Argument(actual) ==
    /\ phase = "compile" /\ Waiting
    /\ actual \in type_equal_cast(Formal)
    /\ Emit(Then(Plain(<< Load(actual) >>), Converted(actual, Formal)))
    /\ open' = Given(open)
    /\ UNCHANGED <<settings, called, report, phase, machine>>

\* The name of a routine.
Begin(n) ==
    /\ phase = "compile" /\ Len(called) < MaxCalls
    /\ IF Waiting THEN Result(n) \in type_equal_cast(Formal) ELSE called = <<>>
    /\ Emit(Plain(Prefix(n, fixed)))
    /\ called' = Append(called, n)
    /\ open' = Append(open, [name |-> n, given |-> 0])
    /\ UNCHANGED <<settings, report, phase, machine>>

\* The closing bracket: the code of the routine, whose result is an
\* argument of the call around it.
End ==
    /\ phase = "compile" /\ open # <<>> /\ ~Waiting
    /\ LET n == Current.name
           outer == Front(open)
           body  == Table[fixed][canvas][n]
       IN /\ open' = Given(outer)
          /\ Emit(IF outer = <<>> THEN body
                  ELSE LET call == Last(outer)
                       IN Then(body, Converted(Result(n), Params(call.name)[call.given + 1])))
          /\ phase' = IF outer = <<>> THEN "report" ELSE phase
    /\ UNCHANGED <<settings, called, report, machine>>
-----------------------------------------------------------------------------
(* The end of main(), after a compilation without errors.                  *)

\* A mutant of PrintFinalMessage: mathType is forgotten.
PrintFinalMessageFixed == (uses \ {"Float"}) \cup
                          (IF "Float" \in uses THEN {"F"} ELSE {})

PrintFinalMessage == Classes(uses, fixed)

\* What the final switch leaves in msgstr: the case of no errors formats the
\* summary and falls through to the default.
FinalSwitch(errors) == Last((IF errors = 0 THEN <<"Done">> ELSE <<>>) \o <<"">>)

Report ==
    /\ phase = "report"
    /\ reported' = PrintFinalMessage
    /\ printed' = FinalSwitch(0)
    /\ phase' = "run"
    /\ UNCHANGED <<settings, called, open, code, uses, machine>>
-----------------------------------------------------------------------------
(* The machine.  An object is Raw until it has been constructed; one that  *)
(* is Given belongs to a variable, and is Spoilt when it is changed.       *)

Widening ==     \* the classes of the platform, and those of the framework
    {"Form", "TextBox", "List", "Alert", "M"} \X {"Displayable"}
    \cup {<<"Spacer", "Item">>, <<"FW", "MIDlet">>, <<"FW", "CommandListener">>}

Item(t, from)   == [type |-> t, from |-> from, object |-> 0]
Object(t, k)    == [type |-> t, from |-> <<>>, object |-> k]
Is(state, from) == [state |-> state, from |-> from]

Usable(x) == x.object # 0 => objects[x.object].state # "Raw"
From(x)   == IF x.object = 0 THEN x.from ELSE objects[x.object].from
FromAll(xs) == FlattenSeq([k \in DOMAIN xs |-> From(xs[k])])

IsA(x, t) ==
    /\ Usable(x)
    /\ \/ x.type = t
       \/ <<x.type, t>> \in Widening
       \/ t \notin {"I", "J"} /\ x.type = "null"
       \/ t = "Object" /\ x.type \notin {"I", "J"}

I == code[pc]
Running == phase = "run" /\ pc <= Len(code)

Top(n)   == SubSeq(stack, Len(stack) - n + 1, Len(stack))
Below(n) == SubSeq(stack, 1, Len(stack) - n)
Fits(ts) == /\ Len(stack) >= Len(ts)
            /\ \A k \in DOMAIN ts : IsA(Top(Len(ts))[k], ts[k])
Words(n) == Len(stack) >= n /\ \A k \in 1..n : Top(n)[k].type # "J"

Operands == IF I.op = "virtual" THEN <<I.class>> \o I.params ELSE I.params

\* The instructions that the branch may continue with.
At(k) == FoldLeft(LAMBDA sum, x : sum + Size(x), 0, SubSeq(code, 1, k - 1))
Targets == {k \in 1..(Len(code) + 1) : At(k) = At(pc) + I.by}

\* The receiver of a constructor, which may be on the stack more than once.
Receiver == Top(Len(I.params) + 1)[1]

Executable ==
    CASE I.op \in {"new", "const", "load", "get"} -> TRUE
      [] I.op \in {"dup", "pop"}           -> Words(1)
      [] I.op \in {"dup_x1", "swap", "pop2"} -> Words(2)
      [] I.op = "put"                      -> Fits(<<I.type>>)
      [] I.op \in {"static", "virtual", "compute"} -> Fits(Operands)
      [] I.op = "special"                  -> /\ Fits(I.params)
                                              /\ Len(stack) > Len(I.params)
                                              /\ Receiver.type = I.class
                                              /\ ~Usable(Receiver)
      [] I.op \in {"if", "goto"}           -> Fits(I.params) /\ Targets # {}

Step(newStack, newObjects) ==
    /\ Running /\ Executable
    /\ stack' = newStack /\ objects' = newObjects
    /\ pc' = pc + 1
    /\ UNCHANGED <<settings, called, open, code, uses, report, phase>>

\* A Real that is not made here is an object that somebody else has.
PushOf(t, from, state) ==
    IF t = "Real" THEN Step(Append(stack, Object(t, Len(objects) + 1)),
                            Append(objects, Is(state, from)))
                  ELSE Step(Append(stack, Item(t, from)), objects)

Push ==
    /\ Running
    /\ \/ I.op = "new" /\ Step(Append(stack, Object(I.class, Len(objects) + 1)),
                               Append(objects, Is("Raw", <<>>)))
       \/ I.op \in {"const", "get"} /\ PushOf(I.type, <<>>, "Given")
       \/ I.op = "load" /\ PushOf(I.type, << I.arg >>, "Given")

Rearrange ==
    /\ Running /\ I.op \in {"dup", "dup_x1", "swap", "pop", "pop2", "put"}
    /\ Executable
    /\ LET x == Last(stack)
           y == Top(2)[1]
       IN Step(CASE I.op = "dup"    -> Append(stack, x)
                 [] I.op = "dup_x1" -> Below(2) \o <<x, y, x>>
                 [] I.op = "swap"   -> Below(2) \o <<x, y>>
                 [] I.op = "pop2"   -> Below(2)
                 [] OTHER           -> Below(1), objects)

\* A method without a result changes the Real that it is called of.
Invoke ==
    /\ Running /\ I.op \in {"static", "virtual", "compute"}
    /\ Executable
    /\ LET n    == Len(Operands)
           args == Top(n)
           from == FromAll(args)
           changes == I.op = "virtual" /\ I.class = "Real" /\ I.result = "V"
           k    == args[1].object
       IN IF changes
          THEN Step(Below(n), [objects EXCEPT ![k] =
                    Is(IF @.state = "Given" THEN "Spoilt" ELSE @.state, from)])
          ELSE IF I.result = "V" THEN Step(Below(n), objects)
          ELSE Step(Append(Below(n), Item(I.result, from)), objects)

Initialise ==
    /\ Running /\ I.op = "special" /\ Executable
    /\ LET n == Len(I.params)
       IN Step(Below(n + 1), [objects EXCEPT ![Receiver.object] = Is("Made", FromAll(Top(n)))])

Branch ==
    /\ Running /\ I.op \in {"if", "goto"} /\ Executable
    /\ stack' = Below(Len(I.params))
    /\ pc' \in Targets \cup (IF I.op = "if" THEN {pc + 1} ELSE {})
    /\ UNCHANGED <<settings, called, open, code, uses, report, phase, objects>>
-----------------------------------------------------------------------------
Init ==
    /\ fixed \in BOOLEAN /\ canvas \in Canvases
    /\ called = <<>> /\ open = <<>> /\ code = <<>> /\ uses = {}
    /\ reported = {} /\ printed = "" /\ phase = "compile"
    /\ pc = 1 /\ stack = <<>> /\ objects = <<>>

Next ==
    \/ \E n \in Routines : Begin(n)
    \/ \E t \in Types : Argument(t)
    \/ End \/ Report
    \/ Push \/ Rearrange \/ Invoke \/ Initialise \/ Branch

Spec == Init /\ [][Next]_vars
-----------------------------------------------------------------------------
\* The call being compiled never has more arguments than its signature, and
\* every variable keeps its type.
TypeOK ==
    /\ fixed \in BOOLEAN /\ canvas \in Canvases
    /\ called \in Seq(Routines) /\ Len(called) <= MaxCalls
    /\ \A k \in DOMAIN open : open[k].name \in Routines
                              /\ open[k].given \in 0..Len(Params(open[k].name))
    /\ uses \subseteq Flags
    /\ reported \subseteq Helpers \cup {"Real$NumberFormat"}
    /\ printed \in {"", "Done"}
    /\ phase \in {"compile", "report", "run"}
    /\ pc \in 1..(Len(code) + 1)
    /\ \A k \in DOMAIN stack : stack[k].object \in 0..Len(objects)
    /\ \A k \in DOMAIN objects : objects[k].state \in {"Raw", "Given", "Made", "Spoilt"}

\* The code of a routine finds on the stack what it takes: what its prefix has
\* left there and the arguments, converted, of the types it was declared with;
\* nothing is used that has not been constructed, and every branch leads to the
\* start of an instruction (create_std_function_code counts the bytes itself).
NeverStuck == Running => Executable

\* A call leaves its result and nothing else: the caller of a procedure goes on
\* with an empty stack, and that of a function finds a value of its type.
LeavesResult ==
    phase = "run" /\ pc > Len(code) =>
        LET result == Result(called[1])
        IN IF result = "void" THEN stack = <<>>
           ELSE Len(stack) = 1 /\ IsA(stack[1], Cell(result))

\* Methods change the Real they are called of; the routines only ever change
\* copies, never a variable of the program or the constant PI.
ArgumentsKept == \A k \in DOMAIN objects : objects[k].state # "Spoilt"

\* The arguments reach the method that stands for the routine in the order in
\* which the program gives them, for all the swapping of both representations.
ArgumentsInOrder ==
    LET inOrder(from) == \A j, k \in DOMAIN from : j <= k => from[j] <= from[k]
    IN /\ Running /\ I.op \in {"static", "virtual"} => inOrder(FromAll(Top(Len(Operands))))
       /\ Running /\ I.op = "special" => inOrder(FromAll(Top(Len(I.params))))

\* A helper class that the code names is reported for the JAR, but one that the
\* routine reaches through a value that another call has had to be made for.
CarriedBy(t) == CASE t = "InputStream" -> {"S"} [] t = "H" -> {"H"} [] OTHER -> {}
Announced ==
    phase = "run" =>
        NamedIn(code) \subseteq reported \cup
            UNION {CarriedBy(code[k].type) : k \in {j \in DOMAIN code : code[j].op = "load"}}
=============================================================================
