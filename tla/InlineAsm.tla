----------------------------- MODULE InlineAsm -----------------------------
(***************************************************************************)
(* Inline bytecode: RD_inline_body assembles instructions in one pass.  An *)
(* offset to a label that is set already is known; one to a label that is  *)
(* not is left as the address of its instruction and put right when the    *)
(* body ends.  The bodies lie among other code, in loops too, whose end    *)
(* looks for the marks of breaks in their bytes.                           *)
(***************************************************************************)
EXTENDS Integers, Sequences, SequencesExt, FiniteSetsExt

CONSTANTS
    Instructions,   \* what a body may hold: [op, parts]
    Numbers,        \* what a body may hold as a number by itself
    Names,          \* names of labels
    Before,         \* lengths of the code in front of the first statement
    MaxContents,    \* bound: instructions, numbers and labels of the text
    MaxBodies,      \* bound: bodies
    MaxBreaks       \* bound: breaks

VARIABLES
    text,           \* what was read: instructions, numbers, labels, statements
    code,           \* block->code, a sequence of bytes; address 0 comes first
    labels,         \* nam, lab and len up to labcount
    loop,           \* pos1 of the loop that is open, or Nowhere
    status          \* "statement", "body", "refused"

vars == <<text, code, labels, loop, status>>

Nowhere == -1
Item(form, value) == [form |-> form, value |-> value]
-----------------------------------------------------------------------------
(* Instructions: an opcode and the operands RD_inline_body wants behind it. *)

\* What RD_opcodes knows by a name; 255 for anything else.
Opcodes == 0..185 \cup 187..202 \cup {209, 255}

ByteOps     == {16, 188, 169} \cup 21..25 \cup 54..58
JumpOps     == 153..168 \cup {198, 199, 209}
WideJumpOps == {200, 201}
PoolOps     == {19, 20, 187, 189, 192, 193} \cup 178..184

\* A constant is numbered by cp_index_body, or -1 when it is not understood.
Indices == -1..65535

Offsets(size) == IF size = 2 THEN {"to2", "by2"} ELSE {"to4", "by4"}

\* tableswitch and lookupswitch.
IsSwitch(forms) ==
    /\ Len(forms) >= 3 /\ forms[1] = "align" /\ forms[2] \in Offsets(4) /\ forms[3] = "long"

IsTable(forms, parts) ==
    /\ IsSwitch(forms) /\ Len(forms) >= 4 /\ forms[4] = "long"
    /\ Len(forms) = Max({4, 4 + parts[4].value - parts[3].value + 1})
    /\ \A k \in 5..Len(forms) : forms[k] \in Offsets(4)

IsLookup(forms, parts) ==
    /\ IsSwitch(forms) /\ Len(forms) = 3 + 2 * parts[3].value
    /\ \A k \in 4..Len(forms) : IF k % 2 = 0 THEN forms[k] = "long" ELSE forms[k] \in Offsets(4)

Shaped(op, parts) ==
    LET forms == [k \in DOMAIN parts |-> parts[k].form]
        IsOffset(size) == Len(forms) = 1 /\ forms[1] \in Offsets(size)
    IN CASE op \in ByteOps     -> forms = <<"byte">>
         [] op = 132           -> forms = <<"byte", "byte">>
         [] op = 17            -> forms = <<"short">>
         [] op = 18            -> forms = <<"byte">>
         [] op \in JumpOps     -> IsOffset(2)
         [] op \in WideJumpOps -> IsOffset(4)
         [] op \in PoolOps     -> forms = <<"pool">>
         [] op = 197           -> forms = <<"pool", "byte">>
         [] op = 185           -> forms = <<"pool", "byte", "byte">>
         [] op = 170           -> IsTable(forms, parts)
         [] op = 171           -> IsLookup(forms, parts)
         [] OTHER              -> forms = <<>>

ASSUME InstructionsAssumption ==
    \A i \in Instructions :
        /\ i.op \in Opcodes /\ Shaped(i.op, i.parts)
        /\ \A k \in DOMAIN i.parts : i.parts[k].form = "pool" => i.parts[k].value \in Indices
-----------------------------------------------------------------------------
(* Bytes.                                                                  *)

iconst_1 == 4
ifeq     == 153
goto     == 167
break_   == 250

Here == Len(code)

\* Bounds: how much of a kind the text still may hold.
HowMany(forms) == Cardinality({k \in DOMAIN text : text[k].form \in forms})
HasRoom == HowMany({"instruction", "number", "label"}) < MaxContents

\* bytecode_append_short_int and bytecode_append_long_int.
Bytes(n, size) == [k \in 1..size |-> (n \div 256^(size - k)) % 256]

Value(bytes) == FoldLeft(LAMBDA n, b : 256 * n + b, 0, bytes)

Short(n) == IF n % 65536 < 32768 THEN n % 65536 ELSE (n % 65536) - 65536

Write(c, address, bytes) ==
    [k \in DOMAIN c |-> IF k - address \in DOMAIN bytes THEN bytes[k - address] ELSE c[k]]

\* The bytes of a number that stands by itself.
Size(n) == IF n <= 255 THEN 1 ELSE IF n <= 65535 THEN 2 ELSE 4
-----------------------------------------------------------------------------
(* Labels: an entry of size 0 is a label, another one an offset that waits *)
(* for its label.                                                          *)

IsSet(table, name) == {k \in DOMAIN table : table[k].name = name /\ table[k].size = 0}

\* RD_inline_offs with a label.
Refer(s, name, size, from) ==
    IF IsSet(s.labels, name) # {}
    THEN [s EXCEPT !.offs = s.labels[Max(IsSet(s.labels, name))].at - from]
    ELSE [s EXCEPT !.offs = from,
                   !.labels = Append(@, [name |-> name, at |-> Len(s.code), size |-> size])]

\* The labels that the offset k waits for.
After(k) == {j \in IsSet(labels, labels[k].name) : j > k}

\* A mutant of Patched: the offset counts from where it stands.
PatchedFromOffset(c, k) ==
    Write(c, labels[k].at,
          Bytes(labels[Max(After(k))].at - labels[k].at, labels[k].size))

\* A waiting offset holds the address of its instruction.
Patched(c, k) ==
    LET at   == labels[k].at
        from == Value(SubSeq(c, at + 1, at + labels[k].size))
    IN Write(c, at, Bytes(labels[Max(After(k))].at - from, labels[k].size))

\* The offsets that wait are put right, from the last.
Resolved ==
    FoldRight(LAMBDA k, c : IF labels[k].size > 0 THEN Patched(c, k) ELSE c,
              [k \in DOMAIN labels |-> k], code)

\* One operand of the instruction at `from`; an offset of 0 is an error.
Operand(from, s, part) ==
    LET Put(bytes) == [s EXCEPT !.code = @ \o bytes]
        PutIf(fits, size) == IF fits THEN Put(Bytes(part.value, size)) ELSE [s EXCEPT !.err = TRUE]
        Offset(r, size) ==
            IF r.offs = 0 \/ (size = 2 /\ r.offs \notin -32768..32767)
            THEN [r EXCEPT !.err = TRUE]
            ELSE [r EXCEPT !.code = @ \o Bytes(r.offs, size)]
    IN IF s.err THEN s ELSE
       CASE part.form = "align" -> Put([k \in 1..((-Len(s.code)) % 4) |-> 0])
         [] part.form = "byte"  -> PutIf(part.value \in 0..255, 1)
         [] part.form = "short" -> PutIf(part.value \in 0..65535, 2)
         [] part.form = "pool"  -> PutIf(part.value >= 0, 2)
         [] part.form = "long"  -> Put(Bytes(part.value, 4))
         [] part.form = "by2"   -> Offset([s EXCEPT !.offs = Short(part.value)], 2)
         [] part.form = "by4"   -> Offset([s EXCEPT !.offs = Short(part.value)], 4)
         [] part.form = "to2"   -> Offset(Refer(s, part.value, 2, from), 2)
         [] part.form = "to4"   -> Offset(Refer(s, part.value, 4, from), 4)

Instruction(i) ==
    LET start == [code |-> Append(code, i.op), labels |-> labels, offs |-> 0, err |-> FALSE]
        s == FoldLeft(LAMBDA r, p : Operand(Here, r, p), start, i.parts)
    IN /\ status = "body" /\ HasRoom
       /\ code' = s.code /\ labels' = s.labels
       /\ status' = IF s.err \/ i.op = 255 THEN "refused" ELSE "body"
       /\ text' = Append(text, Item("instruction", i))
       /\ UNCHANGED loop

Number(n) ==
    /\ status = "body" /\ HasRoom
    /\ code' = code \o Bytes(n, Size(n))
    /\ text' = Append(text, Item("number", n))
    /\ UNCHANGED <<labels, loop, status>>

Label(name) ==
    /\ status = "body" /\ HasRoom
    /\ IF IsSet(labels, name) = {}
       THEN /\ labels' = Append(labels, [name |-> name, at |-> Here, size |-> 0])
            /\ UNCHANGED status
       ELSE /\ labels' = <<>>
            /\ status' = "refused"
    /\ text' = Append(text, Item("label", name))
    /\ UNCHANGED <<code, loop>>

Begin ==
    /\ status = "statement" /\ HowMany({"begin"}) < MaxBodies
    /\ status' = "body" /\ labels' = <<>>
    /\ text' = Append(text, Item("begin", 0))
    /\ UNCHANGED <<code, loop>>

End ==
    /\ status = "body"
    /\ IF \E k \in DOMAIN labels : labels[k].size > 0 /\ After(k) = {}
       THEN status' = "refused" /\ UNCHANGED code
       ELSE status' = "statement" /\ code' = Resolved
    /\ text' = Append(text, Item("end", 0))
    /\ UNCHANGED <<labels, loop>>
-----------------------------------------------------------------------------
(* The statements around a body.                                           *)

\* A while statement up to its body: a condition, a branch without offset.
Loop ==
    /\ status = "statement" /\ loop = Nowhere /\ HowMany({"loop"}) = 0
    /\ loop' = Here
    /\ code' = code \o <<iconst_1, ifeq, 0, 0>>
    /\ text' = Append(text, Item("loop", 0))
    /\ UNCHANGED <<labels, status>>

Break ==
    /\ status = "statement" /\ loop # Nowhere /\ HowMany({"break"}) < MaxBreaks
    /\ code' = code \o <<break_, 0, 0>>
    /\ text' = Append(text, Item("break", 0))
    /\ UNCHANGED <<labels, loop, status>>

\* transform_break_stmts over the bytes from `first` up to `last`.
TransformBreaks(c, first, last, target) ==
    LET One(d, pos) ==
            IF pos + 2 < last /\ d[pos + 1] = break_ /\ d[pos + 2] = 0 /\ d[pos + 3] = 0
            THEN Write(d, pos, <<goto>> \o Bytes(target - pos, 2)) ELSE d
    IN FoldLeft(One, c, [k \in 1..(last - first) |-> first + k - 1])

\* The end of a while statement: the branch back, the one out, the breaks.
Close ==
    /\ status = "statement" /\ loop # Nowhere
    /\ LET end == Here + 3
           branched == Write(code \o <<goto>> \o Bytes(loop - Here, 2),
                             loop + 2, Bytes(end - (loop + 1), 2))
       IN code' = TransformBreaks(branched, loop + 4, Here, end)
    /\ loop' = Nowhere
    /\ text' = Append(text, Item("close", 0))
    /\ UNCHANGED <<labels, status>>
-----------------------------------------------------------------------------
Init ==
    /\ labels = <<>> /\ loop = Nowhere /\ status = "statement"
    /\ \E n \in Before : /\ text = <<Item("front", n)>>
                         /\ code = [k \in 1..n |-> iconst_1]

Next ==
    \/ \E i \in Instructions : Instruction(i)
    \/ \E n \in Numbers : Number(n)
    \/ \E name \in Names : Label(name)
    \/ Begin
    \/ End
    \/ Loop
    \/ Break
    \/ Close

Spec == Init /\ [][Next]_vars
-----------------------------------------------------------------------------
(* What the text stands for, by two passes: first where each item begins,  *)
(* then its bytes.                                                         *)

Widths(part, at) ==
    CASE part.form = "byte" -> 1
      [] part.form \in {"short", "pool", "to2", "by2"} -> 2
      [] part.form \in {"long", "to4", "by4"} -> 4
      [] part.form = "align" -> (-at) % 4

EndOf(item, at) ==
    CASE item.form = "front"  -> at + item.value
      [] item.form = "number" -> at + Size(item.value)
      [] item.form = "loop"   -> at + 4
      [] item.form \in {"break", "close"} -> at + 3
      [] item.form = "instruction" ->
             FoldLeft(LAMBDA p, part : p + Widths(part, p), at + 1, item.value.parts)
      [] OTHER -> at

\* Where each item begins; behind them, where the text ends.
Starts == FoldLeft(LAMBDA s, item : Append(s, EndOf(item, Last(s))), <<0>>, text)

Between(j, k) == IF j < k THEN j..k ELSE k..j
Inside(j, k)  == \A i \in Between(j, k) : text[i].form \notin {"begin", "end"}

\* The labels of that name in the body that holds item k.
Meant(k, name) ==
    {j \in DOMAIN text : text[j] = Item("label", name) /\ Inside(j, k)}

LoopOf(k)  == Max({j \in 1..k : text[j].form = "loop"})
CloseOf(k) == Min({j \in k..Len(text) : text[j].form = "close"})

Encoded(k, starts) ==
    LET here == starts[k]
        Away(j) == Bytes(starts[j] - here, 2)
        Part1(bytes, part) ==
            bytes \o
            CASE part.form = "align" -> [x \in 1..((-(here + Len(bytes))) % 4) |-> 0]
              [] part.form \in {"to2", "to4"} ->
                     Bytes(starts[CHOOSE j \in Meant(k, part.value) : TRUE] - here,
                           Widths(part, 0))
              [] OTHER -> Bytes(part.value, Widths(part, 0))
    IN CASE text[k].form = "front"  -> [x \in 1..text[k].value |-> iconst_1]
         [] text[k].form = "number" -> Bytes(text[k].value, Size(text[k].value))
         [] text[k].form = "loop"   ->
                <<iconst_1, ifeq>> \o Bytes(starts[CloseOf(k) + 1] - here - 1, 2)
         [] text[k].form = "break"  -> <<goto>> \o Away(CloseOf(k) + 1)
         [] text[k].form = "close"  -> <<goto>> \o Away(LoopOf(k))
         [] text[k].form = "instruction" ->
                FoldLeft(Part1, <<text[k].value.op>>, text[k].value.parts)
         [] OTHER -> <<>>

\* Why item k cannot be assembled: a label set twice, an operand out of its
\* range, a jump to itself; at an end, a label that is nowhere.
Names2(k) == {text[k].value.parts[p].value :
                 p \in {q \in DOMAIN text[k].value.parts :
                           text[k].value.parts[q].form \in {"to2", "to4"}}}

OutOfRange(part) ==
    \/ part.form = "byte" /\ part.value \notin 0..255
    \/ part.form = "short" /\ part.value \notin 0..65535
    \/ part.form = "pool" /\ part.value < 0
    \/ part.form \in {"by2", "by4"} /\ part.value % 65536 = 0

Senseless(k, starts) ==
    \/ text[k].form = "label" /\ Cardinality(Meant(k, text[k].value)) > 1
    \/ /\ text[k].form = "instruction"
       /\ \/ text[k].value.op = 255
          \/ \E p \in DOMAIN text[k].value.parts : OutOfRange(text[k].value.parts[p])
          \/ \E name \in Names2(k), j \in DOMAIN text :
                 j \in Meant(k, name) /\ starts[j] = starts[k]
    \/ /\ text[k].form = "end"
       /\ \E j \in 1..(k - 1) : /\ text[j].form = "instruction" /\ Inside(j, k - 1)
                                /\ \E name \in Names2(j) : Meant(j, name) = {}

\* A jump that stands at address 0 is refused unless its label is set.
FirstOfAll(k, starts) ==
    text[k].form = "instruction" /\ starts[k] = 0 /\ Names2(k) # {}

\* The bytes of a mark in the body of a loop, by their meaning.
Marked(starts) ==
    \E b \in DOMAIN text :
        /\ text[b].form = "close"
        /\ LET body == FlattenSeq([k \in 1..(b - LoopOf(b) - 1) |-> Encoded(LoopOf(b) + k, starts)])
           IN \E p \in 1..(Len(body) - 2) :
                  body[p] = break_ /\ body[p + 1] = 0 /\ body[p + 2] = 0

(* RD_inline_body refuses only what cannot be assembled; and when the       *)
(* bodies and the loop around them are complete, the code is what their     *)
(* text stands for: every offset leads from its instruction to the label    *)
(* of its own body or to the end of its loop, and nothing else was changed. *)
(* Left out: a jump forward at address 0, and a loop in whose bytes the     *)
(* mark of a break occurs by itself, which transform_break_stmts rewrites.  *)
Assembled ==
    LET starts == Starts
    IN /\ status = "refused" =>
              Senseless(Len(text), starts) \/ FirstOfAll(Len(text), starts)
       /\ status = "statement" /\ loop = Nowhere /\ ~Marked(starts) =>
              /\ \A k \in DOMAIN text : ~Senseless(k, starts)
              /\ code = FlattenSeq([k \in DOMAIN text |-> Encoded(k, starts)])
=============================================================================
