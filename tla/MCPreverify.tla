---------------------------- MODULE MCPreverify ----------------------------
(* Methods put together from statements: conditions, loops, handlers and   *)
(* the subroutines that compilers of the time and hand-written code make.  *)
(* Registers: 1 integer, 2 object, 3-4 long, 5 array, 6-8 for subroutines. *)
EXTENDS Device

A      == Object("A")
As     == Array(A, 1)
Locals == 8

Moved(b, n) == [code |-> [k \in DOMAIN b.code |->
                             [b.code[k] EXCEPT !.to = IF b.code[k].op \in {"if", "goto", "jsr"} THEN @ + n ELSE @]],
                handlers |-> [k \in DOMAIN b.handlers |->
                             [b.handlers[k] EXCEPT !.from = @ + n, !.end = @ + n, !.at = @ + n]]]
Then(a, b) ==
    LET c == Moved(b, Len(a.code))
    IN [code |-> a.code \o c.code, handlers |-> a.handlers \o c.handlers]
Block(is) == [code |-> is, handlers |-> <<>>]
Size(b) == Len(b.code)
RECURSIVE All(_)
All(bs) == IF Len(bs) = 1 THEN bs[1] ELSE Then(bs[1], All(Tail(bs)))

\* Jumps are given by how far they lead from the start of their block.
One(i)   == Block(<<i>>)
Count    == One(IInc(1))
Clear    == Block(<<Do(<<>>, <<Null>>), AStore(2)>>)
Use      == Block(<<ALoad(A, 2), Do(<<A>>, <<>>)>>)
Make     == Block(<<NewObject("A"), Shuffle(1, <<1, 1>>), InvokeInit("A", <<>>), AStore(2)>>)
Other    == Block(<<NewObject("B"), Shuffle(1, <<1, 1>>), InvokeInit("B", <<>>), AStore(2)>>)
Longs    == Block(<<Load(Long, 3), Do(<<>>, <<Integer>>), Shuffle(3, <<3, 1, 2, 3>>),
                    Store(<<Integer>>, 1), Store(Long, 3), Do(<<Integer>>, <<>>)>>)
Spoil    == Block(<<Load(<<Integer>>, 1), Store(<<Integer>>, 4)>>)
Fetch    == Block(<<ALoad(As, 5), Load(<<Integer>>, 1), AALoad(As), AStore(2)>>)
NoArray  == Block(<<Do(<<>>, <<Null>>), AStore(5)>>)
Pick     == Block(<<Load(<<Integer>>, 1), If(<<Integer>>, 5), ALoad(A, 2), Goto(6),
                    Do(<<>>, <<Null>>), AStore(2)>>)
Build    == Block(<<NewObject("A"), Shuffle(1, <<1, 1>>), Load(<<Integer>>, 1), If(<<Integer>>, 7),
                    ALoad(A, 2), Goto(8), Do(<<>>, <<Null>>), InvokeInit("A", <<A>>), AStore(2)>>)
Late     == Block(<<NewObject("A"), AStore(2), ALoad(A, 2), InvokeInit("A", <<>>)>>)
Ints     == Block(<<Do(<<>>, <<Array(Integer, 1)>>), AStore(5)>>)
Deep     == Block(<<Do(<<>>, <<Array(A, 2)>>), AStore(5)>>)
Anything == Block(<<ALoad(Root, 5), Do(<<Root>>, <<>>)>>)
AnyArray == Block(<<ALoad(Array(Root, 1), 5), Do(<<Array(Root, 1)>>, <<>>)>>)
Atoms    == {Count, Clear, Use, Make, Other, Longs, Spoil, Fetch, NoArray, Pick, Build, Late}

Test(to)     == Block(<<Load(<<Integer>>, 1), If(<<Integer>>, to)>>)
IfThen(b)    == Then(Test(Size(b) + 3), b)
IfElse(b, c) == All(<<Test(Size(b) + 4), b, One(Goto(Size(c) + 2)), c>>)
While(b)     == All(<<Test(Size(b) + 4), b, One(Goto(-Size(b) - 1))>>)
Leave        == One(Return(<<>>))
Try(b, c)    == LET end == Size(b) + Size(c) + 3
                IN [All(<<b, One(Goto(Size(c) + 3)), One(Do(<<Object("E")>>, <<>>)), c>>)
                    EXCEPT !.handlers = Append(@, [from |-> 1, end |-> Size(b) + 1, at |-> Size(b) + 2,
                                           class |-> "E"])]
Forever(b) == Then(b, One(Goto(-Size(b) + 1)))
Dead(b)    == Then(Leave, b)

\* Subroutines: called twice; in one another; left for good; in front; with the
\* return in the middle; entered behind its first instruction; for finally;
\* left by a jump out of it, also out of two; called in a loop.
Twice(b, c) ==
    All(<<One(Jsr(Size(c) + 4)), c, One(Jsr(3)), Leave, One(AStore(6)), b, One(Ret(6))>>)
Nested(b, c) ==
    All(<<One(Jsr(4)), One(Jsr(3)), Leave, One(AStore(6)), One(Jsr(Size(c) + 3)), c,
          One(Ret(6)), One(AStore(7)), b, One(Ret(7))>>)
NoReturn(b, c) ==
    All(<<One(Jsr(Size(c) + 3)), c, Leave, One(AStore(6)), b, Leave>>)
InFront(b, c) ==
    All(<<One(Goto(Size(b) + 4)), One(AStore(6)), b, One(Ret(6)), One(Jsr(-Size(b) - 1)), c,
          One(Jsr(-Size(b) - Size(c) - 2)), Leave>>)
RetInside(b, c) ==
    All(<<One(Jsr(Size(c) + 3)), c, Leave, One(AStore(6)), Test(4), One(Ret(6)), b,
          One(Goto(-Size(b)))>>)
LateEntry(b, c) ==
    All(<<One(Goto(Size(b) + 5)), b, One(Ret(6)), One(AStore(6)), One(Goto(-Size(b) - 1)),
          One(Jsr(-1)), c, Leave>>)
Finally(b, c) ==
    [All(<<b, One(Jsr(7)), One(Goto(Size(c) + 8)), One(AStore(8)), One(Jsr(4)),
           One(ALoad(Object("E"), 8)), One(Return(<<Object("E")>>)), One(AStore(6)), c, One(Ret(6)),
           Leave>>)
        EXCEPT !.handlers = Append(@, [from |-> 1, end |-> Size(b) + 1, at |-> Size(b) + 3,
                                       class |-> "E"])]
JumpOut(b, c) ==
    All(<<One(Jsr(Size(b) + 3)), b, One(Goto(-Size(b))), One(AStore(6)), Test(Size(c) + 4), c,
          One(Ret(6)), Leave>>)
JumpFar(b, c) ==
    All(<<One(Jsr(Size(c) + 3)), c, Leave, One(AStore(6)), One(Jsr(3)), One(Ret(6)),
          One(AStore(7)), Test(-4), b, One(Ret(7))>>)
InLoop(b, c) ==
    All(<<Test(5), One(Jsr(Size(c) + 4)), One(Goto(-2)), c, Leave, One(AStore(6)), b, One(Ret(6))>>)

Few     == {Clear, Make, Other, Pick}
Simple  == Atoms \cup {IfThen(Leave), Dead(Count)}
Control == {IfThen(b) : b \in Atoms \cup {Ints, Deep}} \cup {IfElse(b, c) : b, c \in Few}
           \cup {While(b) : b \in Atoms} \cup {Try(b, c) : b \in Simple, c \in Few}
Nests   == {While(b) : b \in Control} \cup {Forever(Then(IfThen(Leave), b)) : b \in Control}
Whole(b)   == Then(b, Leave)
Statements == {Whole(Then(b, c)) : b \in Control, c \in Simple \cup {IfThen(Use), Anything, AnyArray}}
              \cup {Whole(Then(b, c)) : b \in Atoms, c \in Nests}
Bodies  == Simple \cup {IfThen(Make), While(Clear), Try(Make, Clear), Try(Use, Make), Leave}
Subroutines ==
    UNION {{Twice(b, c), Nested(b, c), NoReturn(b, c), InFront(b, c), RetInside(b, c),
            LateEntry(b, c), Finally(b, c), JumpOut(b, c), JumpFar(b, c), InLoop(b, c)}
              : b \in Bodies, c \in Simple \cup {Try(Use, Clear)}}
Arguments == <<Integer, A>> \o Long \o <<As>>
Given(b) == [code |-> b.code, handlers |-> b.handlers, args |-> Arguments, locals |-> Locals]

\* The methods that make sense: whatever comes to an instruction has what it
\* needs, and words of the same kinds as anything else that comes there.
Kinds(s) == [k \in DOMAIN s |-> CASE IsReference(s[k])       -> Root
                                   [] s[k].item = "return" -> ReturnTo(0)
                                   [] OTHER                -> s[k]]
RECURSIVE Sound(_, _, _)
Sound(m, found, new) ==
    IF new = {}
    THEN \A f, g \in found :
            f.pc = g.pc => /\ Kinds(f.stack) = Kinds(g.stack)
                           /\ m.code[f.pc].op = "aload" =>
                                 LET v == m.code[f.pc].var
                                 IN Kinds(<<f.registers[v]>>) = Kinds(<<g.registers[v]>>)
    ELSE /\ \A f \in new : f.pc \in DOMAIN m.code /\ Able(m.code[f.pc], f)
         /\ LET next == UNION {{x.frame : x \in Moves(m.code, m.handlers, f)} \cup
                              {[f EXCEPT !.pc = m.handlers[k].at,
                                         !.stack = <<Object(m.handlers[k].class)>>] :
                                  k \in {j \in DOMAIN m.handlers :
                                      f.pc \in m.handlers[j].from..(m.handlers[j].end - 1)}}
                              : f \in new}
            IN Sound(m, found \cup new, next \ (found \cup new))
\* A constructor, whose own object is not initialised at first.
This == Object("M")
Constructors ==
    {[code |-> <<ALoad(This, 1), Do(<<>>, <<Integer>>), If(<<Integer>>, 4)>> \o s \o
               <<InvokeInit("M", <<>>), ALoad(This, 1), Do(<<This>>, <<>>), Return(<<>>)>>,
      handlers |-> <<>>, args |-> <<Type("init")>>, locals |-> 2] :
        s \in {<<>>, <<AStore(2), ALoad(This, 1)>>, <<AStore(2), ALoad(This, 2)>>}}

MCMethods ==
    {m \in {Given(b) : b \in Statements \cup Subroutines} \cup Constructors :
        Sound(m, {}, {[pc |-> 1, stack |-> <<>>, registers |-> Put(m.args, m.locals + 1, <<>>)]})}
=============================================================================
