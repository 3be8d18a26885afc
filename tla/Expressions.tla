---------------------------- MODULE Expressions ----------------------------
(***************************************************************************)
(* An assignment to a variable or to an element of an array: RD_expression *)
(* and the functions below it, which return the type of what they have     *)
(* read and leave its value on the operand stack, with the conversions     *)
(* from integer to real and from char to string that are found necessary   *)
(* after both operands have been compiled.  The C call stack is `frames';  *)
(* the code is straight-line and is given its meaning by Run.              *)
(*                                                                         *)
(* What is read after an error only serves to find more errors: there is   *)
(* no class file then, and the model stops.                                *)
(***************************************************************************)
EXTENDS Integers, FiniteSets, TLC, SequencesExt

CONSTANTS
    Kinds,          \* types of variables
    Targets,        \* types of the variable that is assigned to
    Operators,      \* a subset of MultOps \cup SumOps \cup RelOps
    Unused,         \* <<type, operator>>: left operands that are left out
    Functions,      \* [name, params, result]: at least one parameter
    Arrays,         \* [name, dims, elem]: dims is a sequence of [base, first]
    MaxOperands,    \* bound: operands and opening brackets on each side, of
                    \* which the right-hand side has one after indices
    Signed          \* bound: numbers of those that may have signs

ASSUME KindsAssumption ==       \* "none" and "nothing" are no types of the language
    {"boolean", "string"} \subseteq Kinds /\ Kinds \cap {"none", "nothing"} = {}
ASSUME TargetsAssumption   == Targets \subseteq Kinds
ASSUME FunctionsAssumption ==
    \A f \in Functions : f.params \in Seq(Kinds) \ {<<>>} /\ f.result \in Kinds
ASSUME ArraysAssumption    == \A a \in Arrays : a.dims \in Seq([base : Kinds, first : Int]) /\ a.elem \in Kinds
ASSUME BoundAssumption     == MaxOperands \in Nat \ {0}

VARIABLES
    fixed,          \* mathType = 1: a real is an int
    frames,         \* the RD_* functions that wait for an operand
    value,          \* what the last of them to return has read, or Nothing
    token,          \* current_token, after a value
    code,           \* current_block->code
    put,            \* put_bytecode of the left-hand side
    count,          \* variables read
    status          \* "reading", "error", "crash", "done", or "left out"

vars == <<fixed, frames, value, token, code, put, count, status>>

MultOps == {"*", "/", "div", "and"}     \* div stands for mod and the shifts, too
SumOps  == {"+", "-", "or"}             \* or, for xor
RelOps  == {"=", "<"}                   \* for all six

ASSUME OperatorsAssumption == Operators \subseteq MultOps \cup SumOps \cup RelOps

Numeric == {"integer", "real"}
Nothing == [class |-> "nothing", want |-> <<>>]
-----------------------------------------------------------------------------
(* The virtual machine.  A cell of the operand stack is [t, v], where v is *)
(* a term, but of a Real the name of an object in the heap; objects that   *)
(* variables hold are named by the term that reads them.                   *)

Cell(k) ==
    CASE k \in {"integer", "boolean", "char"} -> "int"
      [] k = "real"   -> IF fixed THEN "int" ELSE "real"
      [] k = "string" -> "string"
      [] OTHER        -> "ref"

Machine == [ok |-> TRUE, stack |-> <<>>, heap |-> <<>>, stored |-> <<>>]

Depth(m)   == Len(m.stack)
Deep(m, n) == m.stack[Depth(m) - n]
Term(m, c) == IF c.t = "real" THEN m.heap[c.v] ELSE c.v
TermAt(m, n) == Term(m, Deep(m, n))

Replace(m, n, cells) == [m EXCEPT !.stack = SubSeq(@, 1, Depth(m) - n) \o cells]

\* The name of the next object that is created.
Fresh(m) == <<"new", Cardinality({id \in DOMAIN m.heap : id[1] = "new"})>>

\* Pops n cells and pushes a value that a method returns, or that is loaded.
Result(m, n, t, v) ==
    IF t = "real"
    THEN [Replace(m, n, << [t |-> t, v |-> Fresh(m)] >>) EXCEPT !.heap = (Fresh(m) :> v) @@ @]
    ELSE Replace(m, n, << [t |-> t, v |-> v] >>)

Loaded(m, n, t, v) ==
    [Replace(m, n, << [t |-> t, v |-> v] >>) EXCEPT
        !.heap = IF t = "real" THEN @ @@ (v :> v) ELSE @]

Changed(m, n, object, v) == [Replace(m, n, <<>>) EXCEPT !.heap = (object :> v) @@ @]

\* The cells that an instruction takes, as far as their types matter.
Takes(i) ==
    CASE i[1] \in {"load", "const", "new"} -> <<>>
      [] i[1] = "dup"               -> << "any" >>
      [] i[1] \in {"swap", "dup_x1", "pop2"} -> << "any", "any" >>
      [] i[1] = "dup2_x1"           -> << "any", "any", "any" >>
      [] i[1] = "init"              -> << "real", i[2] >>
      [] i[1] = "change"            -> << "real", "real" >>
      [] i[1] = "neg"               -> << "real" >>
      [] i[1] = "invoke"            -> i[2]
      [] i[1] = "aload"             -> << "ref", "int" >>
      [] i[1] = "store"             -> << i[2] >>
      [] i[1] = "astore"            -> << "ref", "int", i[2] >>

Fits(m, types) ==
    /\ Depth(m) >= Len(types)
    /\ \A n \in DOMAIN types :
          types[n] \in {"any", Deep(m, Len(types) - n).t}

Do(m, i) ==
    CASE i[1] = "load"   -> Loaded(m, 0, i[2], i[3])
      [] i[1] = "const"  -> Result(m, 0, "int", <<"const", i[2]>>)
      [] i[1] = "new"    -> Result(m, 0, "real", <<"unset">>)
      [] i[1] = "dup"    -> Replace(m, 1, << Deep(m, 0), Deep(m, 0) >>)
      [] i[1] = "swap"   -> Replace(m, 2, << Deep(m, 0), Deep(m, 1) >>)
      [] i[1] = "dup_x1" -> Replace(m, 2, << Deep(m, 0), Deep(m, 1), Deep(m, 0) >>)
      [] i[1] = "pop2"   -> Replace(m, 2, <<>>)
      [] i[1] = "dup2_x1" ->
            Replace(m, 3, << Deep(m, 1), Deep(m, 0), Deep(m, 2), Deep(m, 1), Deep(m, 0) >>)
      [] i[1] = "init"   ->
            Changed(m, 2, Deep(m, 1).v,
                    IF i[2] = "int" THEN <<"toReal", TermAt(m, 0)>> ELSE TermAt(m, 0))
      [] i[1] = "change" ->
            Changed(m, 2, Deep(m, 1).v, <<i[2], TermAt(m, 1), TermAt(m, 0)>>)
      [] i[1] = "neg"    -> Changed(m, 1, Deep(m, 0).v, <<"neg", TermAt(m, 0)>>)
      [] i[1] = "invoke" ->
            Result(m, Len(i[2]), i[3],
                   <<i[4]>> \o [n \in DOMAIN i[2] |-> TermAt(m, Len(i[2]) - n)])
      [] i[1] = "aload"  -> Loaded(m, 2, i[2], <<"at", TermAt(m, 1), TermAt(m, 0)>>)
      [] i[1] = "store"  -> [Replace(m, 1, <<>>) EXCEPT !.stored = <<i[3], TermAt(m, 0)>>]
      [] i[1] = "astore" ->
            [Replace(m, 3, <<>>) EXCEPT
                !.stored = << <<"at", TermAt(m, 2), TermAt(m, 1)>>, TermAt(m, 0) >>]

Step(m, i) ==
    IF m.ok /\ Fits(m, Takes(i)) THEN Do(m, i) ELSE [m EXCEPT !.ok = FALSE]

Run(instructions) == FoldLeft(Step, Machine, instructions)
-----------------------------------------------------------------------------
(* Pieces of code.  Branches over a constant, that make a boolean of a     *)
(* comparison, are one instruction with it.                                *)

Swap == << <<"swap">> >>
Invoke(types, result, name) == << <<"invoke", types, result, name>> >>

\* The top of the stack, a Real, is replaced by another one of the same value.
Copy == << <<"new">>, <<"dup_x1">>, <<"swap">>, <<"init", "real">> >>

\* The top of the stack, an integer, becomes a real.
ToReal ==
    IF fixed THEN Invoke(<<"int">>, "int", "toReal")
    ELSE << <<"new">>, <<"dup_x1">>, <<"swap">>, <<"init", "int">> >>

\* The top of the stack, a char, becomes a string: String.valueOf.
CharToString == Invoke(<<"int">>, "string", "toString")

Beneath(piece) == Swap \o piece \o Swap

\* Mutant: the left operand of an operation is changed instead of a copy.
RealOpOnce(op) ==
    Copy \o Swap \o << <<"dup_x1">>, <<"swap">>, <<"change", op>> >>

RealOp(op) ==
    Copy \o Swap \o Copy \o << <<"dup_x1">>, <<"swap">>, <<"change", op>> >>

\* Both operands are k, and so is the result.
Operation(k, op) ==
    IF Cell(k) = "real" THEN RealOp(op) ELSE Invoke(<<"int", "int">>, "int", op)

\* A StringBuffer is made of both operands.
Concatenate(right) ==
    LET text == right \in {"string", "real"}
    IN  (IF right = "real" THEN Invoke(<<Cell("real")>>, "string", "decimal") ELSE <<>>)
        \o Swap \o Invoke(<<>>, "buffer", "empty")
        \o Swap \o Invoke(<<"buffer", "string">>, "buffer", "append")
        \o Swap \o Invoke(<<"buffer", IF text THEN "string" ELSE "int">>, "buffer",
                          IF text THEN "append" ELSE right)
        \o Invoke(<<"buffer">>, "string", "text")

\* Mutant: the left operand is converted, but the right one lies on it.
ConvertTop(cast, piece) == IF cast \in {2, 3} THEN piece ELSE <<>>

\* cast is a result of TypeCast; the piece converts the top of the stack.
Convert(cast, piece) ==
    CASE cast = 2 -> piece [] cast = 3 -> Beneath(piece) [] OTHER -> <<>>

\* A first element as it comes out of one byte, or of two.
Encoded(n) ==
    CASE n \in -1 .. 5 -> n
      [] n < 128       -> ((n + 128) % 256) - 128
      [] OTHER         -> ((n + 32768) % 65536) - 32768

AdjustIndices(first) ==
    IF first = 0 THEN <<>>
    ELSE << <<"const", Encoded(first)>> >> \o Invoke(<<"int", "int">>, "int", "-")

LoadElement(cell)  == << <<"aload", cell>> >>
LoadArray(a)       == << <<"load", "ref", <<a.name>> >> >>
StoreElement(cell) == << <<"dup2_x1">>, <<"pop2">>, <<"astore", cell>> >>
-----------------------------------------------------------------------------
(* What an operation means: [kind, term], of kind "none" when it has no    *)
(* meaning.                                                                *)

Meaningless == [kind |-> "none", term |-> <<>>]
Mean(k, t) == [kind |-> k, term |-> t]

\* The value w, used as a k.
As(k, w) ==
    CASE w.kind = k -> w.term
      [] w.kind = "integer" /\ k = "real"   -> <<"toReal", w.term>>
      [] w.kind = "char"    /\ k = "string" -> <<"toString", w.term>>
Serves(k, w) == w.kind = k \/ <<k, w.kind>> \in {<<"real", "integer">>, <<"string", "char">>}

\* A type that both operands serve as.
Common(a, b) == {k \in {a.kind, b.kind} : Serves(k, a) /\ Serves(k, b)} \ {"none"}

Appended(b, w) ==
    CASE w.kind = "string" -> <<"append", b, w.term>>
      [] w.kind = "real"   -> <<"append", b, <<"decimal", w.term>>>>
      [] OTHER             -> <<w.kind, b, w.term>>

Binary(op, a, b) ==
    LET both(k, t) == Mean(t, <<op, As(k, a), As(k, b)>>)
        among(S)   == Common(a, b) \cap S
        common     == CHOOSE k \in Common(a, b) : TRUE
    IN CASE /\ op = "+" /\ a.kind \in {"string", "char"}
            /\ b.kind \in {"string", "char", "integer", "real", "boolean"} ->
               Mean("string", <<"text", Appended(<<"append", <<"empty">>, As("string", a)>>, b)>>)
         [] op \in {"+", "-", "*"} /\ among(Numeric) # {} -> both(common, common)
         [] op = "/" /\ among({"real"}) # {}              -> both("real", "real")
         [] op \in {"/", "div"} /\ among({"integer"}) # {} ->
               Mean("integer", <<"div", a.term, b.term>>)
         [] op \in {"and", "or"} /\ among({"integer", "boolean"}) # {} -> both(common, common)
         [] op \in RelOps /\ among(Numeric \cup {"boolean", "char", "string"}) # {} ->
               both(common, "boolean")
         [] op = "=" /\ among({"command"}) # {} -> both(common, "boolean")
         [] OTHER -> Meaningless

Unary(op, a) ==
    IF a.kind \in (IF op = "not" THEN {"integer", "boolean"} ELSE Numeric)
    THEN Mean(a.kind, <<op, a.term>>) ELSE Meaningless

Element(a, at) ==
    IF /\ Len(at) = Len(a.dims)
       /\ \A n \in DOMAIN at : at[n].kind = a.dims[n].base
    THEN Mean(a.elem,
              FoldLeftDomain(LAMBDA t, n :
                  <<"at", t, IF a.dims[n].first = 0 THEN at[n].term
                             ELSE <<"-", at[n].term, <<"const", a.dims[n].first>> >> >>,
                  <<a.name>>, at))
    ELSE Meaningless

Called(f, args) ==
    IF Len(args) = Len(f.params) /\ \A n \in DOMAIN args : Serves(f.params[n], args[n])
    THEN Mean(f.result, <<f.name>> \o [n \in DOMAIN args |-> As(f.params[n], args[n])])
    ELSE Meaningless
-----------------------------------------------------------------------------
(* The compiler.                                                           *)

\* Mutant: a char and a string do not match.
TypeCastNumbers(k1, k2) ==
    CASE k1 = k2 -> 1
      [] k1 = "real" /\ k2 = "integer" -> 2
      [] k1 = "integer" /\ k2 = "real" -> 3
      [] OTHER                         -> 0

\* type_equal_cast: 1 equal, 2 the second becomes the first, 3 the other way.
TypeCast(k1, k2) ==
    CASE k1 = k2                                          -> 1
      [] <<k1, k2>> \in {<<"real", "integer">>, <<"string", "char">>} -> 2
      [] <<k2, k1>> \in {<<"real", "integer">>, <<"string", "char">>} -> 3
      [] OTHER                                            -> 0

\* Mutant: the types are not exchanged when the left operand was converted.
WiderLeft(k1, k2) == k1

\* Mutant: operands that do not match give error_type.
WiderError(k1, k2) ==
    CASE TypeCast(k1, k2) = 0 -> "error" [] TypeCast(k1, k2) = 3 -> k2 [] OTHER -> k1

\* The type that both operands have after a conversion.
Wider(k1, k2) == IF TypeCast(k1, k2) = 3 THEN k2 ELSE k1

Top   == Last(frames)
Below == Front(frames)
Replaced(frame) == Append(Below, frame)

Brackets == {"paren", "call", "index", "lvalue", "assign"}
Innermost(fs) == Max({n \in DOMAIN fs : fs[n].fn \in Brackets})

\* What may follow a value: RD_expression reads one comparison.
Follow(fs, n) ==
    LET compared == \E i \in DOMAIN fs : i > Innermost(fs) /\ fs[i].fn = "compare"
        end == CASE fs[Innermost(fs)].fn = "assign" -> {"end"}
                 [] fs[Innermost(fs)].fn = "paren"  -> {"close"}
                 [] OTHER                           -> {"close", "comma"}
    IN  IF n < MaxOperands THEN end \cup (IF compared THEN Operators \ RelOps ELSE Operators)
        ELSE end \ {"comma"}

Reading   == status = "reading" /\ value = Nothing
Ready(fn) == status = "reading" /\ value # Nothing /\ Top.fn = fn

\* A function returns the type k of a value that means w, or reports an error.
Return(fs, k, w, added, refused) ==
    /\ frames' = fs
    /\ value' = [class |-> k, want |-> w]
    /\ code' = code \o added
    /\ status' = IF refused THEN "error" ELSE status
    /\ UNCHANGED <<fixed, put>>

Init ==
    /\ fixed \in BOOLEAN
    /\ \/ \E k \in Targets :
            /\ frames = << [fn |-> "assign", class |-> k, dest |-> <<"target">>] >>
            /\ put = << <<"store", Cell(k), <<"target">> >> >>
       \/ \E a \in Arrays :
            /\ frames = << [fn |-> "lvalue", array |-> a, at |-> <<>>] >>
            /\ put = <<>>
    /\ value = Nothing
    /\ token = "start"
    /\ code = <<>>
    /\ count = 0
    /\ status = "reading"

\* RD_value of a variable, a parameter or a constant.
Variable(k) ==
    /\ Reading
    /\ count' = count + 1
    /\ token' \in Follow(frames, count')
    /\ Return(frames, k, Mean(k, <<k, count>>), << <<"load", Cell(k), <<k, count>> >> >>, FALSE)

Open(frame, added) ==
    /\ Reading
    /\ frames' = Append(frames, frame)
    /\ code' = code \o added
    /\ UNCHANGED <<fixed, value, token, put, status>>

\* RD_not and RD_neg, before the operand.
ReadNot ==
    /\ Top.fn \notin {"not", "neg"} /\ count \in Signed
    /\ Open([fn |-> "not"], <<>>)
    /\ UNCHANGED count

ReadMinus ==
    /\ Top.fn # "neg" /\ count \in Signed
    /\ Open([fn |-> "neg"], <<>>)
    /\ UNCHANGED count

\* RD_value, before the first expression in brackets.
Enter(frame, added) ==
    /\ count + 1 < MaxOperands
    /\ count' = count + 1
    /\ Open(frame, added)

OpenBracket     == Enter([fn |-> "paren"], <<>>)
CallFunction(f) == Enter([fn |-> "call", f |-> f, args |-> <<>>], <<>>)
IndexArray(a)   == Enter([fn |-> "index", array |-> a, at |-> <<>>], LoadArray(a))

\* RD_neg, after its operand.
Negate ==
    /\ Ready("neg")
    /\ Return(Below, value.class, Unary("neg", value.want),
              IF Cell(value.class) = "real" THEN Copy \o << <<"dup">>, <<"neg">> >>
              ELSE IF value.class \in Numeric THEN Invoke(<<"int">>, "int", "neg")
              ELSE <<>>,
              value.class \notin Numeric)
    /\ UNCHANGED <<token, count>>

\* RD_not, after its operand: an exclusive or with -1.
Invert ==
    /\ Ready("not")
    /\ Return(Below, value.class, Unary("not", value.want), Invoke(<<"int">>, "int", "not"),
              value.class \notin {"integer", "boolean"})
    /\ UNCHANGED <<token, count>>

\* The loop of RD_mult, after the right operand.
Multiply ==
    LET left == Top.left.class   right == value.class   op == Top.op
        k == Wider(left, right)
    IN  /\ Ready("mult")
        /\ Return(Below, k, Binary(op, Top.left.want, value.want),
                  Convert(TypeCast(left, right), ToReal)
                  \o Operation(k, IF k = "integer" /\ op = "/" THEN "div" ELSE op),
                  \/ right \notin Numeric \cup {"boolean"}
                  \/ TypeCast(left, right) = 0
                  \/ k = "real" /\ op \notin {"*", "/"}
                  \/ k = "boolean" /\ op # "and")
        /\ UNCHANGED <<token, count>>

\* The loop of RD_sum, after the right operand.
Sum ==
    LET char == Top.left.class = "char"
        left == IF char THEN "string" ELSE Top.left.class
        right == value.class   op == Top.op
        k == IF left = "string" THEN left ELSE Wider(left, right)
    IN  /\ Ready("sum")
        /\ token \notin MultOps
        /\ Return(Below, k, Binary(op, Top.left.want, value.want),
                  (IF char THEN Beneath(CharToString) ELSE <<>>)
                  \o (IF left = "string" THEN <<>> ELSE Convert(TypeCast(left, right), ToReal))
                  \o CASE k \in Numeric \cup {"boolean"} -> Operation(k, op)
                       [] k = "string" /\ op = "+"       -> Concatenate(right)
                       [] OTHER                          -> <<>>,
                  \/ right \notin Numeric \cup {"char", "string", "boolean"}
                  \/ Top.left.class = "string" /\ op # "+"
                  \/ TypeCast(left, right) = 0 /\ left # "string"
                  \/ k \notin {"integer", "boolean"} /\ op = "or")
        /\ UNCHANGED <<token, count>>

\* RD_expression, after the right operand.
Compare ==
    LET left == Top.left.class   right == value.class   op == Top.op
        k == Wider(left, right)
    IN  /\ Ready("compare")
        /\ token \notin MultOps \cup SumOps
        /\ Return(Below, "boolean", Binary(op, Top.left.want, value.want),
                  Convert(TypeCast(left, right),
                          IF "integer" \in {left, right} THEN ToReal ELSE CharToString)
                  \o Invoke(<<Cell(k), Cell(k)>>, "int", op),
                  \/ right \notin Numeric \cup {"char", "string", "boolean", "command"}
                  \/ TypeCast(left, right) = 0
                  \/ k = "command" /\ op # "=")
        /\ UNCHANGED <<token, count>>

Level(op) == CASE op \in MultOps -> "mult" [] op \in SumOps -> "sum" [] OTHER -> "compare"
Before(op) ==
    {"neg", "not", "mult"} \cup CASE op \in MultOps -> {}
                                  [] op \in SumOps  -> {"sum"}
                                  [] OTHER          -> {"sum", "compare"}

\* The value becomes a left operand.
NextOperator ==
    /\ status = "reading" /\ value # Nothing
    /\ token \in Operators
    /\ Top.fn \notin Before(token)
    /\ IF <<value.class, token>> \in Unused
       THEN status' = "left out" /\ UNCHANGED <<frames, value>>
       ELSE /\ frames' = Append(frames, [fn |-> Level(token), op |-> token, left |-> value])
            /\ value' = Nothing
            /\ UNCHANGED status
    /\ UNCHANGED <<fixed, token, code, put, count>>

\* RD_value, at the bracket that closes an expression.
CloseBracket ==
    /\ Ready("paren") /\ token = "close"
    /\ token' \in Follow(Below, count)
    /\ Return(Below, value.class, value.want, <<>>, FALSE)
    /\ UNCHANGED count

\* RD_expression_list_cast, after an expression.
Parameter(f, n) ==
    IF n > Len(f.params) \/ TypeCast(f.params[n], value.class) # 2 THEN <<>>
    ELSE IF f.params[n] = "string" THEN CharToString ELSE ToReal

Argument ==
    /\ Ready("call") /\ token = "comma"
    /\ frames' = Replaced([Top EXCEPT !.args = Append(@, value)])
    /\ code' = code \o Parameter(Top.f, Len(Top.args) + 1)
    /\ value' = Nothing
    /\ UNCHANGED <<fixed, token, put, count, status>>

\* type_list_different_parameter_cast
WrongArguments(f, args) ==
    \/ Len(args) # Len(f.params)
    \/ \E n \in DOMAIN args : TypeCast(args[n].class, f.params[n]) \in {0, 2}

\* RD_value, at the bracket after the arguments.
Call ==
    LET f == Top.f
        args == Append(Top.args, value)
    IN  /\ Ready("call") /\ token = "close"
        /\ token' \in Follow(Below, count)
        /\ Return(Below, f.result, Called(f, [n \in DOMAIN args |-> args[n].want]),
                  Parameter(f, Len(args))
                  \o Invoke([n \in DOMAIN f.params |-> Cell(f.params[n])], Cell(f.result), f.name),
                  WrongArguments(f, args))
        /\ UNCHANGED count

\* RD_expression_list_array, after an expression.
Indexing(a, at, cell) == AdjustIndices(a.dims[Len(at) + 1].first) \o LoadElement(cell)
IndexWanted == Top.fn \in {"index", "lvalue"} /\ Len(Top.at) < Len(Top.array.dims)

Index ==
    /\ Ready(Top.fn) /\ token = "comma" /\ IndexWanted
    /\ frames' = Replaced([Top EXCEPT !.at = Append(@, value)])
    /\ code' = code \o Indexing(Top.array, Top.at, "ref")
    /\ value' = Nothing
    /\ UNCHANGED <<fixed, token, put, count, status>>

\* The expression is one index too many: adjust_indices(code, it->data), it = NULL.
IndexTooMany ==
    /\ Ready(Top.fn) /\ token \in {"comma", "close"}
    /\ Top.fn \in {"index", "lvalue"} /\ ~IndexWanted
    /\ status' = "crash"
    /\ UNCHANGED <<fixed, frames, value, token, code, put, count>>

\* type_list_different_parameter_array
WrongIndices(a, at) ==
    \/ Len(at) # Len(a.dims)
    \/ \E n \in DOMAIN at : at[n].class # a.dims[n].base

Wants(at) == [n \in DOMAIN at |-> at[n].want]

\* RD_value, at the bracket after the indices.
Load ==
    LET a == Top.array
        at == Append(Top.at, value)
    IN  /\ Ready("index") /\ token = "close" /\ IndexWanted
        /\ token' \in Follow(Below, count)
        /\ Return(Below, a.elem, Element(a, Wants(at)),
                  Indexing(a, Top.at, Cell(a.elem)), WrongIndices(a, at))
        /\ UNCHANGED count

\* RD_assignment_or_procedure_call, at the bracket after the indices.
Target ==
    LET a == Top.array
        at == Append(Top.at, value)
        element == Element(a, Wants(at))
    IN  /\ Ready("lvalue") /\ token = "close" /\ IndexWanted
        /\ put' = Front(LoadArray(a) \o code \o Indexing(a, Top.at, "ref"))
                  \o StoreElement(Cell(a.elem))
        /\ code' = <<>>
        /\ count' = MaxOperands - 1
        /\ IF WrongIndices(a, at)
           THEN /\ status' = "error"
                /\ value' = [class |-> a.elem, want |-> element]
                /\ UNCHANGED frames
           ELSE /\ frames' = << [fn |-> "assign", class |-> a.elem, dest |-> element.term] >>
                /\ value' = Nothing
                /\ UNCHANGED status
        /\ UNCHANGED <<fixed, token>>

\* RD_assignment_or_procedure_call, after the expression.
Assign ==
    LET k == Top.class
        cast == TypeCast(k, value.class)
    IN  /\ Ready("assign") /\ token = "end"
        /\ value' = [class |-> k,
                     want |-> IF Serves(k, value.want) THEN Mean(k, As(k, value.want))
                              ELSE Meaningless]
        /\ code' = code
                   \o (CASE cast # 1 /\ k = "real"   -> ToReal
                         [] cast = 2 /\ k = "string" -> CharToString
                         [] OTHER                    -> <<>>)
                   \o put
        /\ status' = IF cast \in {1, 2} THEN "done" ELSE "error"
        /\ UNCHANGED <<fixed, frames, token, put, count>>

\* The statement was read to its end, or to an error.
Finished == status # "reading" /\ UNCHANGED vars

Next ==
    \/ \E k \in Kinds : Variable(k)
    \/ ReadNot \/ ReadMinus \/ OpenBracket
    \/ \E f \in Functions : CallFunction(f)
    \/ \E a \in Arrays : IndexArray(a)
    \/ Negate \/ Invert \/ Multiply \/ Sum \/ Compare \/ NextOperator
    \/ CloseBracket \/ Argument \/ Call
    \/ Index \/ IndexTooMany \/ Load \/ Target \/ Assign
    \/ Finished

Spec == Init /\ [][Next]_vars
-----------------------------------------------------------------------------
TypeOK ==
    /\ frames # <<>> /\ frames[1].fn \in {"assign", "lvalue"}
    /\ \A n \in 2 .. Len(frames) :
          frames[n].fn \in {"neg", "not", "mult", "sum", "compare", "paren", "call", "index"}
    /\ value = Nothing \/ value.class \in Kinds
    /\ token \in Operators \cup {"start", "close", "comma", "end"}
    /\ count \in 0 .. MaxOperands
    /\ status \in {"reading", "error", "crash", "done", "left out"}

(* Once a statement was accepted, its code, in which conversions were put    *)
(* under values and indices before references after the fact, runs with      *)
(* operands of the right types, leaves nothing on the operand stack, and     *)
(* stores what the statement says where it says (RD_expression ... Assign).  *)
AssignmentMeans ==
    status = "done" =>
        LET m == Run(code)
        IN  m.ok /\ m.stack = <<>> /\ m.stored = <<Top.dest, value.want.term>>

(* A Real that a variable or an element of an array holds is never changed   *)
(* by an operation: RD_mult, RD_sum and RD_neg copy before they calculate,   *)
(* since assignments share the object.                                       *)
OperandsKept ==
    status = "done" =>
        LET heap == Run(code).heap IN \A id \in DOMAIN heap : id[1] # "new" => heap[id] = id

(* What RD_expression and the functions below it return without an error has *)
(* a meaning, and is of the type that they return: each operand that is of   *)
(* the wrong type is reported (E417, E421, E422, E423, E427).                *)
Accepted ==
    value # Nothing /\ status # "error" => value.class = value.want.kind

(* And nothing else is reported: an operation, a call, an element or an      *)
(* assignment that is refused has no meaning.                                *)
NothingRefused == status = "error" => value.want.kind = "none"
=============================================================================
