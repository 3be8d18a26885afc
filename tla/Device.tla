------------------------------- MODULE Device -------------------------------
(***************************************************************************)
(* What becomes of verified code on the device: its own check, which reads *)
(* the code once with the help of the maps, and how the code that was      *)
(* written behaves beside the method that was compiled.                    *)
(***************************************************************************)
EXTENDS Preverify

\* The device checks the code in one pass, with nothing but the maps: it must
\* find one behind every jump and at every target, each map must cover what
\* comes to it, and every instruction its operands.
MapsAt(n) == {m \in Range(maps) : m.at = n}
Accepts(n, f) ==    \* f: what the check knows as it comes to n
    \A m \in MapsAt(n) :
        /\ AllFit(f.stack, m.stack)
        /\ \A k \in DOMAIN m.locals : m.locals[k] = Bogus \/ Fits(f.registers[k], m.locals[k])
FromMap(m) == [pc |-> m.at, stack |-> m.stack,
               registers |-> Put(m.locals, original.locals + 1, <<>>)]

RECURSIVE LinearCheck(_, _)
LinearCheck(n, live) ==     \* live: {} behind a jump, and otherwise the frame
    LET frames == IF MapsAt(n) = {} THEN live ELSE {FromMap(m) : m \in MapsAt(n)}
        f == CHOOSE g \in frames : TRUE
        i == code[n]
        after == Executed(i, f)
        Target(to) == MapsAt(to) # {} /\ Accepts(to, after)
        Handled(h) == MapsAt(h.at) # {} /\ Accepts(h.at, [f EXCEPT !.stack = <<Object(h.class)>>])
    IN IF n > Len(code) THEN live = {}
       ELSE /\ \A g \in live : Accepts(n, g)
            /\ Cardinality(frames) = 1
            /\ i.op \notin {"jsr", "ret"} /\ Able(i, f)
            /\ i.op \in {"if", "goto"} => Target(i.to)
            /\ \A k \in Catching(handlers, n) : Handled(handlers[k])
            /\ LinearCheck(n + 1, IF i.op \in {"goto", "return"} THEN {}
                                  ELSE {[after EXCEPT !.pc = n + 1]})

\* The verifier has nothing to report of what it has found out, and the device
\* accepts what it writes.
DeviceAccepts ==
    /\ Settled => NothingToReport
    /\ phase = "done" => LinearCheck(1, {Entry})

\* What is left out when the original and the new code are compared: jumps,
\* calls, returns from them and the stores of return addresses.
Silent(i, f) ==
    \/ i.op \in {"goto", "jsr", "ret"}
    \/ i.op = "astore" /\ Last(f.stack).item = "return"

Nowhere == [pc |-> 0, stack |-> <<>>, registers |-> <<>>]

RECURSIVE Quiet(_, _, _)
Quiet(c, f, fuel) ==
    IF ~ Silent(c[f.pc], f) THEN f
    ELSE IF fuel = 0 THEN Nowhere
    ELSE Quiet(c, [Executed(c[f.pc], f) EXCEPT !.pc = CHOOSE n \in Exits(c[f.pc], f) : TRUE],
               fuel - 1)

\* An object that is not initialised is of the same instruction, and the
\* registers hold the same but for the return addresses.
Renamed(s) == [k \in DOMAIN s |-> IF s[k].item = "new" THEN New(origin[s[k].at]) ELSE s[k]]
Alike(f, g) ==
    \/ f.pc = 0 /\ g.pc = 0
    \/ /\ f.pc # 0 /\ g.pc # 0
       /\ f.pc = origin[g.pc]
       /\ f.stack = Renamed(g.stack)
       /\ \A k \in DOMAIN f.registers :
             f.registers[k] \in {ReturnTo(f.registers[k].at), Renamed(g.registers)[k]}

Pair(f, g) == <<Quiet(original.code, f, 2 * Len(original.code)), Quiet(code, g, 2 * Len(code))>>

RECURSIVE Together(_, _)
Together(found, new) ==
    IF new = {} THEN found
    ELSE LET From(p) ==
                 IF p[1].pc = 0 THEN {} ELSE IF ~ Alike(p[1], p[2]) THEN {}
                 ELSE LET a == Moves(original.code, original.handlers, p[1])
                          b == Moves(code, handlers, p[2])
                      IN {Pair(x.frame, y.frame) : <<x, y>> \in
                              {xy \in a \X b : xy[1].by = xy[2].by /\ xy[1].class = xy[2].class}}
                         \cup (IF {<<x.by, x.class>> : x \in a} = {<<x.by, x.class>> : x \in b}
                               THEN {} ELSE {<<p[1], Nowhere>>})
         next == UNION {From(p) : p \in new}
         IN Together(found \cup new, next \ (found \cup new))

\* The code that is written behaves as the method did: it comes to the same
\* instructions with the same values, throws from them to the same handlers
\* and returns where it did, whatever was inlined, moved and removed.
SameBehaviour ==
    phase = "done" => \A p \in Together({}, {Pair(Entry, Entry)}) : Alike(p[1], p[2])
=============================================================================
