------------------------- MODULE ExpressionsProofs -------------------------
(***************************************************************************)
(* The type checker of expressions is right about every expression: what   *)
(* it accepts has a meaning, of the type that it computes, and what it     *)
(* refuses has none, however deep operators, brackets, calls and indices   *)
(* are nested and whatever functions and arrays there are.                 *)
(***************************************************************************)
EXTENDS Expressions, TLAPS, SequenceTheorems

-----------------------------------------------------------------------------
(* The inductive invariant.                                                *)

Inner == {"neg", "not", "mult", "sum", "compare", "paren", "call", "index"}

(* The type of a value that has been read is that of its meaning.           *)
Typed(v) == v.class \in Kinds /\ v.want.kind = v.class

Sequence(s) == \E S : s \in Seq(S)
AllTyped(s) == Sequence(s) /\ \A n \in DOMAIN s : Typed(s[n])

(* A function that waits for an operand has only kept values of the right   *)
(* kind, and no left operand that the model leaves out.                     *)
Kept(f) ==
  /\ f.fn \in {"mult", "sum", "compare"} =>
        Typed(f.left) /\ f.op \in Operators /\ f.fn = Level(f.op)
        /\ <<f.left.class, f.op>> \notin Unused
  /\ f.fn = "call" => f.f \in Functions /\ AllTyped(f.args)
  /\ f.fn \in {"index", "lvalue"} => f.array \in Arrays /\ AllTyped(f.at)
  /\ f.fn = "assign" => f.class \in Kinds

Stacked(fs) ==
  /\ Sequence(fs) /\ Len(fs) >= 1
  /\ fs[1].fn \in {"assign", "lvalue"}
  /\ \A n \in 2 .. Len(fs) : fs[n].fn \in Inner
  /\ \A n \in 1 .. Len(fs) : Kept(fs[n])

(* A value that was read, and judged.                                       *)
Judged(v, s) ==
  /\ v.class \in Kinds
  /\ IF s = "error" THEN v.want.kind = "none" ELSE v.want.kind = v.class

Inductive ==
  /\ Stacked(frames)
  /\ value = Nothing \/ Judged(value, status)
  /\ status = "error" => value # Nothing
  /\ token \in Operators \cup {"start", "close", "comma", "end"}
  /\ count \in 0 .. MaxOperands
  /\ token \in Operators \cup {"comma"} => count < MaxOperands
  /\ value = Nothing => count < MaxOperands
  /\ status \in {"reading", "error", "crash", "done", "left out"}

(* The left operands for which the compiler and the meaning disagree, which *)
(* have to be left out: booleans are added as integers are, and nothing is  *)
(* generated for a difference with a char on the left.                      *)
Disputed == {<<"boolean", "+">>, <<"boolean", "-">>, <<"char", "-">>}
DisputedLeftOut == Disputed \subseteq Unused

-----------------------------------------------------------------------------
(* Types.                                                                  *)

LEMMA CommonIs ==
  ASSUME NEW a, NEW b, a.kind # "none", b.kind # "none"
  PROVE  Common(a, b) = IF TypeCast(a.kind, b.kind) = 0 THEN {}
                        ELSE {Wider(a.kind, b.kind)}
BY DEF Common, Serves, TypeCast, Wider

LEMMA CommonChosen ==
  ASSUME NEW a, NEW b, a.kind # "none", b.kind # "none", TypeCast(a.kind, b.kind) # 0
  PROVE  (CHOOSE k \in Common(a, b) : TRUE) = Wider(a.kind, b.kind)
<1>1. Common(a, b) = {Wider(a.kind, b.kind)}
  BY CommonIs
<1> QED BY <1>1

LEMMA CastRange ==
  ASSUME NEW k, NEW j
  PROVE  TypeCast(k, j) \in 0 .. 3 /\ Wider(k, j) \in {k, j}
BY DEF TypeCast, Wider

LEMMA CastServes ==
  ASSUME NEW k, NEW w
  PROVE  Serves(k, w) <=> TypeCast(k, w.kind) \in {1, 2}
BY DEF TypeCast, Serves

LEMMA CastServesBack ==
  ASSUME NEW k, NEW w
  PROVE  Serves(k, w) <=> TypeCast(w.kind, k) \in {1, 3}
BY DEF TypeCast, Serves

(* RD_mult: what is refused has no meaning, and the rest is of type Wider.  *)
MultRefused(left, right, op) ==
  \/ right \notin Numeric \cup {"boolean"}
  \/ TypeCast(left, right) = 0
  \/ Wider(left, right) = "real" /\ op \notin {"*", "/"}
  \/ Wider(left, right) = "boolean" /\ op # "and"

LEMMA MultMeans ==
  ASSUME NEW a, NEW b, a.kind # "none", b.kind # "none", NEW op \in MultOps
  PROVE  Binary(op, a, b).kind = IF MultRefused(a.kind, b.kind, op) THEN "none"
                                 ELSE Wider(a.kind, b.kind)
<1>1. Common(a, b) = IF TypeCast(a.kind, b.kind) = 0 THEN {} ELSE {Wider(a.kind, b.kind)}
  BY CommonIs
<1>2. TypeCast(a.kind, b.kind) # 0 => (CHOOSE k \in Common(a, b) : TRUE) = Wider(a.kind, b.kind)
  BY CommonChosen
<1>3. op \in {"*", "/", "div", "and"}
  BY DEF MultOps
<1>4. CASE TypeCast(a.kind, b.kind) = 0
  BY <1>1, <1>3, <1>4 DEF Binary, MultRefused, Meaningless, RelOps
<1>5. CASE TypeCast(a.kind, b.kind) # 0
  BY <1>1, <1>2, <1>3, <1>5
  DEF Binary, MultRefused, Meaningless, Mean, RelOps, Numeric, TypeCast, Wider
<1> QED BY <1>4, <1>5

(* RD_sum: a char on the left counts as a string, to which the basic types  *)
(* are appended.                                                            *)
SumLeft(k) == IF k = "char" THEN "string" ELSE k
SumType(k, right) ==
  IF SumLeft(k) = "string" THEN "string" ELSE Wider(SumLeft(k), right)
SumRefused(k, right, op) ==
  \/ right \notin Numeric \cup {"char", "string", "boolean"}
  \/ k = "string" /\ op # "+"
  \/ TypeCast(SumLeft(k), right) = 0 /\ SumLeft(k) # "string"
  \/ SumType(k, right) \notin {"integer", "boolean"} /\ op = "or"

LEMMA SumMeans ==
  ASSUME NEW a, NEW b, a.kind # "none", b.kind # "none", NEW op \in SumOps,
         <<a.kind, op>> \notin Disputed
  PROVE  Binary(op, a, b).kind = IF SumRefused(a.kind, b.kind, op) THEN "none"
                                 ELSE SumType(a.kind, b.kind)
<1>1. Common(a, b) = IF TypeCast(a.kind, b.kind) = 0 THEN {} ELSE {Wider(a.kind, b.kind)}
  BY CommonIs
<1>2. TypeCast(a.kind, b.kind) # 0 => (CHOOSE k \in Common(a, b) : TRUE) = Wider(a.kind, b.kind)
  BY CommonChosen
<1>3. op \in {"+", "-", "or"}
  BY DEF SumOps
<1>4. CASE a.kind \in {"string", "char"}
  <2>1. Common(a, b) \cap Numeric = {} /\ Common(a, b) \cap {"integer", "boolean"} = {}
    BY <1>1, <1>4 DEF Numeric, TypeCast, Wider
  <2>2. a.kind = "char" => op # "-"
    BY DEF Disputed
  <2> QED BY <1>3, <1>4, <2>1, <2>2
      DEF Binary, SumRefused, SumType, SumLeft, Meaningless, Mean, RelOps, Numeric
<1>5. CASE a.kind \notin {"string", "char"} /\ TypeCast(a.kind, b.kind) = 0
  BY <1>1, <1>3, <1>5 DEF Binary, SumRefused, SumLeft, Meaningless, RelOps
<1>6. CASE a.kind \notin {"string", "char"} /\ TypeCast(a.kind, b.kind) # 0
  <2>1. a.kind = "boolean" => op = "or"
    BY <1>3 DEF Disputed
  <2> QED BY <1>1, <1>2, <1>3, <1>6, <2>1
      DEF Binary, SumRefused, SumType, SumLeft, Meaningless, Mean, RelOps, Numeric, TypeCast, Wider
<1> QED BY <1>4, <1>5, <1>6

(* RD_expression.                                                           *)
CompareRefused(left, right, op) ==
  \/ right \notin Numeric \cup {"char", "string", "boolean", "command"}
  \/ TypeCast(left, right) = 0
  \/ Wider(left, right) = "command" /\ op # "="

LEMMA CompareMeans ==
  ASSUME NEW a, NEW b, a.kind # "none", b.kind # "none", NEW op \in RelOps
  PROVE  Binary(op, a, b).kind = IF CompareRefused(a.kind, b.kind, op) THEN "none"
                                 ELSE "boolean"
<1>1. Common(a, b) = IF TypeCast(a.kind, b.kind) = 0 THEN {} ELSE {Wider(a.kind, b.kind)}
  BY CommonIs
<1>2. op \in {"=", "<"}
  BY DEF RelOps
<1>3. CASE TypeCast(a.kind, b.kind) = 0
  BY <1>1, <1>2, <1>3 DEF Binary, CompareRefused, Meaningless, RelOps
<1>4. CASE TypeCast(a.kind, b.kind) # 0
  BY <1>1, <1>2, <1>4
  DEF Binary, CompareRefused, Meaningless, Mean, RelOps, Numeric, TypeCast, Wider
<1> QED BY <1>3, <1>4

LEMMA LevelOps ==
  ASSUME NEW op \in Operators
  PROVE  /\ Level(op) = "mult" => op \in MultOps
         /\ Level(op) = "sum" => op \in SumOps
         /\ Level(op) = "compare" => op \in RelOps
         /\ Level(op) \in {"mult", "sum", "compare"}
BY OperatorsAssumption DEF Level

-----------------------------------------------------------------------------
(* Sequences whose elements have no common type.                            *)

LEMMA SequenceFacts ==
  ASSUME NEW s, Sequence(s)
  PROVE  /\ Len(s) \in Nat /\ DOMAIN s = 1 .. Len(s)
         /\ \A x : /\ Sequence(Append(s, x)) /\ Len(Append(s, x)) = Len(s) + 1
                   /\ Append(s, x)[Len(s) + 1] = x
                   /\ \A n \in 1 .. Len(s) : Append(s, x)[n] = s[n]
         /\ Len(s) >= 1 => /\ Sequence(Front(s)) /\ Len(Front(s)) = Len(s) - 1
                           /\ \A n \in 1 .. Len(s) - 1 : Front(s)[n] = s[n]
<1>1. PICK S : s \in Seq(S)
  BY DEF Sequence
<1>2. Len(s) \in Nat /\ DOMAIN s = 1 .. Len(s)
  BY <1>1
<1>3. ASSUME NEW x
      PROVE  /\ Sequence(Append(s, x)) /\ Len(Append(s, x)) = Len(s) + 1
             /\ Append(s, x)[Len(s) + 1] = x
             /\ \A n \in 1 .. Len(s) : Append(s, x)[n] = s[n]
  <2>1. s \in Seq(S \cup {x}) /\ x \in S \cup {x}
    BY <1>1
  <2>2. Append(s, x) \in Seq(S \cup {x})
    BY <2>1
  <2> QED BY <2>1, <2>2, AppendProperties DEF Sequence
<1>4. ASSUME Len(s) >= 1
      PROVE  /\ Sequence(Front(s)) /\ Len(Front(s)) = Len(s) - 1
             /\ \A n \in 1 .. Len(s) - 1 : Front(s)[n] = s[n]
  <2>1. Len(s) - 1 \in Nat /\ Len(s) - 1 <= Len(s)
    BY <1>2, <1>4
  <2>2. \A n \in 1 .. Len(s) - 1 : s[n] \in S
    BY <1>1, <1>2
  <2>3. /\ SubSeq(s, 1, Len(s) - 1) \in Seq(S)
        /\ Len(SubSeq(s, 1, Len(s) - 1)) = IF 1 <= Len(s) - 1 THEN Len(s) - 1 - 1 + 1 ELSE 0
        /\ \A n \in 1 .. Len(s) - 1 - 1 + 1 : SubSeq(s, 1, Len(s) - 1)[n] = s[1 + n - 1]
    BY <2>1, <2>2, SubSeqProperties
  <2>4. Len(SubSeq(s, 1, Len(s) - 1)) = Len(s) - 1
    BY <1>2, <1>4, <2>3
  <2>5. ASSUME NEW n \in 1 .. Len(s) - 1 PROVE SubSeq(s, 1, Len(s) - 1)[n] = s[n]
    BY <1>2, <1>4, <2>3
  <2> QED BY <2>3, <2>4, <2>5 DEF Front, Sequence
<1> QED BY <1>2, <1>3, <1>4

LEMMA TypedAppend ==
  ASSUME NEW s, NEW v, AllTyped(s), Typed(v)
  PROVE  AllTyped(Append(s, v))
<1>1. Sequence(s)
  BY DEF AllTyped
<1>2. Sequence(Append(s, v)) /\ DOMAIN Append(s, v) = 1 .. Len(s) + 1 /\ DOMAIN s = 1 .. Len(s)
      /\ Len(s) \in Nat
  BY <1>1, SequenceFacts
<1>3. ASSUME NEW n \in DOMAIN Append(s, v) PROVE Typed(Append(s, v)[n])
  <2>1. CASE n = Len(s) + 1
    BY <1>1, <2>1, SequenceFacts
  <2>2. CASE n \in 1 .. Len(s)
    BY <1>1, <1>2, <2>2, SequenceFacts DEF AllTyped
  <2> QED BY <1>2, <2>1, <2>2
<1> QED BY <1>2, <1>3 DEF AllTyped

(* The meanings of a list of values.                                        *)
LEMMA WantsFacts ==
  ASSUME NEW s, AllTyped(s)
  PROVE  /\ Len(Wants(s)) = Len(s) /\ DOMAIN Wants(s) = DOMAIN s
         /\ \A n \in DOMAIN s : Wants(s)[n].kind = s[n].class
<1>1. Len(s) \in Nat /\ DOMAIN s = 1 .. Len(s)
  BY SequenceFacts DEF AllTyped
<1>2. Wants(s) \in [1 .. Len(s) -> {s[n].want : n \in 1 .. Len(s)}]
  BY <1>1 DEF Wants
<1>3. Wants(s) \in Seq({s[n].want : n \in 1 .. Len(s)})
  BY <1>1, <1>2, SeqDef
<1>4. Len(Wants(s)) = Len(s)
  BY <1>1, <1>2, <1>3
<1> QED BY <1>1, <1>4 DEF Wants, AllTyped, Typed

(* type_list_different_parameter_cast: what is refused is not a call.       *)
LEMMA CallMeans ==
  ASSUME NEW f \in Functions, NEW s, AllTyped(s)
  PROVE  Called(f, Wants(s)).kind = IF WrongArguments(f, s) THEN "none" ELSE f.result
<1>1. /\ Len(Wants(s)) = Len(s) /\ DOMAIN Wants(s) = DOMAIN s
      /\ \A n \in DOMAIN s : Wants(s)[n].kind = s[n].class
  BY WantsFacts
<1>2. ASSUME NEW n \in DOMAIN s
      PROVE  Serves(f.params[n], Wants(s)[n]) <=> TypeCast(s[n].class, f.params[n]) \notin {0, 2}
  BY <1>1, CastServesBack, CastRange
<1>3. WrongArguments(f, s) <=>
        ~(Len(Wants(s)) = Len(f.params) /\ \A n \in DOMAIN Wants(s) : Serves(f.params[n], Wants(s)[n]))
  BY <1>1, <1>2 DEF WrongArguments
<1> QED BY <1>3 DEF Called, Mean, Meaningless

(* type_list_different_parameter_array: the same for indices.               *)
LEMMA ElementMeans ==
  ASSUME NEW a \in Arrays, NEW s, AllTyped(s)
  PROVE  Element(a, Wants(s)).kind = IF WrongIndices(a, s) THEN "none" ELSE a.elem
<1>1. /\ Len(Wants(s)) = Len(s) /\ DOMAIN Wants(s) = DOMAIN s
      /\ \A n \in DOMAIN s : Wants(s)[n].kind = s[n].class
  BY WantsFacts
<1>2. WrongIndices(a, s) <=>
        ~(Len(Wants(s)) = Len(a.dims) /\ \A n \in DOMAIN Wants(s) : Wants(s)[n].kind = a.dims[n].base)
  BY <1>1 DEF WrongIndices
<1> QED BY <1>2 DEF Element, Mean, Meaningless

-----------------------------------------------------------------------------
(* The functions that wait.                                                *)

LEMMA StackedFacts ==
  ASSUME NEW fs, Stacked(fs)
  PROVE  /\ Len(fs) \in Nat \ {0} /\ Sequence(fs)
         /\ Kept(Last(fs))
         /\ Last(fs).fn \in Inner => Len(fs) >= 2
<1>1. Sequence(fs) /\ Len(fs) >= 1
  BY DEF Stacked
<1>2. Len(fs) \in Nat \ {0}
  BY <1>1, SequenceFacts
<1>3. Kept(Last(fs))
  BY <1>2 DEF Stacked, Last
<1>4. Last(fs).fn \in Inner => Len(fs) # 1
  BY DEF Stacked, Last, Inner
<1>5. Len(fs) # 1 => Len(fs) >= 2
  BY <1>2
<1>6. Last(fs).fn \in Inner => Len(fs) >= 2
  BY <1>4, <1>5
<1> QED BY <1>1, <1>2, <1>3, <1>6

LEMMA StackedPush ==
  ASSUME NEW fs, NEW f, Stacked(fs), f.fn \in Inner, Kept(f)
  PROVE  Stacked(Append(fs, f))
<1>1. Len(fs) \in Nat \ {0} /\ Sequence(fs)
  BY StackedFacts
<1>2. /\ Sequence(Append(fs, f)) /\ Len(Append(fs, f)) = Len(fs) + 1
      /\ Append(fs, f)[Len(fs) + 1] = f
      /\ \A n \in 1 .. Len(fs) : Append(fs, f)[n] = fs[n]
  BY <1>1, SequenceFacts
<1>3. Append(fs, f)[1].fn \in {"assign", "lvalue"}
  BY <1>1, <1>2 DEF Stacked
<1>4. ASSUME NEW n \in 1 .. Len(fs) + 1
      PROVE  Kept(Append(fs, f)[n]) /\ (n # 1 => Append(fs, f)[n].fn \in Inner)
  <2>1. CASE n = Len(fs) + 1
    BY <1>2, <2>1
  <2>2. CASE n \in 1 .. Len(fs)
    BY <1>1, <1>2, <2>2 DEF Stacked
  <2> QED BY <1>1, <2>1, <2>2
<1>5. Len(Append(fs, f)) >= 1
  BY <1>1, <1>2
<1> QED BY <1>1, <1>2, <1>3, <1>4, <1>5 DEF Stacked

LEMMA StackedPop ==
  ASSUME NEW fs, Stacked(fs), Last(fs).fn \in Inner
  PROVE  Stacked(Front(fs))
<1>1. Len(fs) \in Nat /\ Sequence(fs) /\ Len(fs) >= 2
  BY StackedFacts
<1>2. /\ Sequence(Front(fs)) /\ Len(Front(fs)) = Len(fs) - 1
      /\ \A n \in 1 .. Len(fs) - 1 : Front(fs)[n] = fs[n]
  BY <1>1, SequenceFacts
<1>3. Len(Front(fs)) >= 1 /\ Front(fs)[1].fn \in {"assign", "lvalue"}
  BY <1>1, <1>2 DEF Stacked
<1>4. ASSUME NEW n \in 1 .. Len(fs) - 1
      PROVE  Kept(Front(fs)[n]) /\ (n # 1 => Front(fs)[n].fn \in Inner)
  BY <1>1, <1>2 DEF Stacked
<1> QED BY <1>1, <1>2, <1>3, <1>4 DEF Stacked

LEMMA StackedReplace ==
  ASSUME NEW fs, NEW f, Stacked(fs), f.fn = Last(fs).fn, Kept(f)
  PROVE  Stacked(Append(Front(fs), f))
<1> DEFINE gs == Append(Front(fs), f)
<1>1. Len(fs) \in Nat \ {0} /\ Sequence(fs) /\ Len(fs) >= 1
  BY StackedFacts
<1>2. /\ Sequence(Front(fs)) /\ Len(Front(fs)) = Len(fs) - 1
      /\ \A n \in 1 .. Len(fs) - 1 : Front(fs)[n] = fs[n]
  BY <1>1, SequenceFacts
<1>3. /\ Sequence(gs) /\ Len(gs) = Len(fs) - 1 + 1
      /\ gs[Len(fs) - 1 + 1] = f
      /\ \A n \in 1 .. Len(fs) - 1 : gs[n] = Front(fs)[n]
  BY <1>2, SequenceFacts
<1> HIDE DEF gs
<1>4. Len(gs) = Len(fs) /\ gs[Len(fs)] = f
  BY <1>1, <1>3
<1>5. ASSUME NEW n \in 1 .. Len(fs)
      PROVE  Kept(gs[n]) /\ gs[n].fn = fs[n].fn
  <2>1. CASE n = Len(fs)
    BY <1>4, <2>1 DEF Last
  <2>2. CASE n \in 1 .. Len(fs) - 1
    <3>1. gs[n] = fs[n]
      BY <1>2, <1>3, <2>2
    <3> QED BY <3>1 DEF Stacked
  <2> QED BY <1>1, <2>1, <2>2
<1>6. Stacked(gs)
  BY <1>1, <1>3, <1>4, <1>5 DEF Stacked
<1> QED BY <1>6 DEF gs

-----------------------------------------------------------------------------
(* What may be read.                                                       *)

Counted(t, n) ==
  /\ t \in Operators \cup {"start", "close", "comma", "end"}
  /\ n \in 0 .. MaxOperands
  /\ t \in Operators \cup {"comma"} => n < MaxOperands

LEMMA FollowFacts ==
  ASSUME NEW fs, NEW n \in 0 .. MaxOperands, NEW t \in Follow(fs, n)
  PROVE  Counted(t, n)
<1>1. /\ \A op \in Operators : op \notin {"start", "close", "comma", "end"}
      /\ MaxOperands \in Nat
  BY OperatorsAssumption, BoundAssumption DEF MultOps, SumOps, RelOps
<1>2. PICK end \in {{"end"}, {"close"}, {"close", "comma"}} :
        t \in IF n < MaxOperands THEN end \cup Operators ELSE end \ {"comma"}
  BY DEF Follow
<1> QED BY <1>1, <1>2 DEF Counted

LEMMA NothingUntyped ==
  ASSUME NEW v, v.class \in Kinds
  PROVE  v # Nothing
BY KindsAssumption DEF Nothing

(* What an action leaves behind, by its parts.                              *)
LEMMA Concluded ==
  ASSUME Stacked(frames'), Counted(token', count'),
         \/ value' = Nothing /\ count' < MaxOperands /\ status' \in {"reading"}
         \/ Judged(value', status') /\ status' \in {"reading", "error", "crash", "done", "left out"}
  PROVE  Inductive'
<1>1. Judged(value', status') => value' # Nothing
  BY NothingUntyped DEF Judged
<1> QED BY <1>1 DEF Inductive, Counted

(* A value that was read in time.                                           *)
LEMMA ReadyFacts ==
  ASSUME Inductive, status = "reading", value # Nothing
  PROVE  /\ Typed(value) /\ Counted(token, count) /\ Stacked(frames)
         /\ value.class # "none" /\ value.want.kind # "none"
BY KindsAssumption DEF Inductive, Judged, Typed, Counted

LEMMA ReadingFacts ==
  ASSUME Inductive, Reading
  PROVE  /\ Counted(token, count) /\ Stacked(frames) /\ status = "reading"
         /\ count \in Nat /\ MaxOperands \in Nat /\ count < MaxOperands
BY BoundAssumption DEF Inductive, Counted, Reading

-----------------------------------------------------------------------------
(* One lemma for each action.                                              *)

LEMMA StackedOne ==
  ASSUME NEW f, f.fn \in {"assign", "lvalue"}, Kept(f)
  PROVE  Stacked(<<f>>)
<1>1. <<f>> \in Seq({f}) /\ Len(<<f>>) = 1 /\ <<f>>[1] = f
  OBVIOUS
<1>2. Sequence(<<f>>)
  BY <1>1 DEF Sequence
<1> QED BY <1>1, <1>2 DEF Stacked

LEMMA InitInductive == Init => Inductive
<1> SUFFICES ASSUME Init PROVE Inductive
  OBVIOUS
<1>1. PICK f : frames = <<f>> /\ f.fn \in {"assign", "lvalue"} /\ Kept(f)
  <2>1. CASE \E k \in Targets : frames = << [fn |-> "assign", class |-> k, dest |-> <<"target">>] >>
    <3>1. PICK k \in Targets : frames = << [fn |-> "assign", class |-> k, dest |-> <<"target">>] >>
      BY <2>1
    <3> DEFINE g == [fn |-> "assign", class |-> k, dest |-> <<"target">>]
    <3>2. g.fn = "assign" /\ Kept(g)
      BY TargetsAssumption DEF Kept
    <3> QED BY <3>1, <3>2
  <2>2. CASE \E a \in Arrays : frames = << [fn |-> "lvalue", array |-> a, at |-> <<>>] >>
    <3>1. AllTyped(<<>>)
      BY DEF AllTyped, Sequence
    <3>2. PICK a \in Arrays : frames = << [fn |-> "lvalue", array |-> a, at |-> <<>>] >>
      BY <2>2
    <3> DEFINE g == [fn |-> "lvalue", array |-> a, at |-> <<>>]
    <3>3. g.fn = "lvalue" /\ Kept(g)
      BY <3>1 DEF Kept
    <3> QED BY <3>2, <3>3
  <2> QED BY <2>1, <2>2 DEF Init
<1>2. Stacked(frames)
  BY <1>1, StackedOne
<1>3. value = Nothing /\ token = "start" /\ count = 0 /\ status = "reading"
  BY DEF Init
<1> QED BY <1>2, <1>3, BoundAssumption DEF Inductive

LEMMA VariableInductive ==
  ASSUME Inductive, NEW k \in Kinds, Variable(k)
  PROVE  Inductive'
<1>1. Reading /\ count' = count + 1 /\ token' \in Follow(frames, count') /\ frames' = frames
      /\ value' = [class |-> k, want |-> Mean(k, <<k, count>>)] /\ status' = status
  BY DEF Variable, Return
<1>2. count' \in 0 .. MaxOperands
  BY <1>1, ReadingFacts
<1>3. Counted(token', count')
  BY <1>1, <1>2, FollowFacts
<1>4. Stacked(frames') /\ status' = "reading"
  BY <1>1, ReadingFacts
<1>5. Judged(value', status')
  BY <1>1, <1>4 DEF Judged, Mean
<1> QED BY <1>3, <1>4, <1>5, Concluded

LEMMA OpenInductive ==
  ASSUME Inductive, NEW f, NEW c, Open(f, c), f.fn \in Inner, Kept(f),
         count' \in Nat, count <= count', count' < MaxOperands
  PROVE  Inductive'
<1>1. Reading /\ frames' = Append(frames, f) /\ token' = token /\ value' = value /\ status' = status
  BY DEF Open
<1>2. Stacked(frames')
  BY <1>1, ReadingFacts, StackedPush
<1>3. Counted(token', count')
  BY <1>1, ReadingFacts DEF Counted
<1>4. value' = Nothing /\ status' = "reading"
  BY <1>1 DEF Reading
<1> QED BY <1>2, <1>3, <1>4, Concluded

LEMMA SignInductive ==
  ASSUME Inductive, ReadNot \/ ReadMinus
  PROVE  Inductive'
<1>1. count' = count
  BY DEF ReadNot, ReadMinus
<1>2. PICK s \in {"not", "neg"} : Open([fn |-> s], <<>>)
  BY DEF ReadNot, ReadMinus
<1>3. Kept([fn |-> s]) /\ [fn |-> s].fn \in Inner
  BY DEF Kept, Inner
<1>4. count' \in Nat /\ count <= count' /\ count' < MaxOperands
  BY <1>1, <1>2, ReadingFacts DEF Open
<1> QED BY <1>2, <1>3, <1>4, OpenInductive

LEMMA EnterInductive ==
  ASSUME Inductive, NEW f, NEW c, Enter(f, c), f.fn \in Inner, Kept(f)
  PROVE  Inductive'
<1>1. Open(f, c) /\ count' = count + 1 /\ count + 1 < MaxOperands /\ Reading
  BY DEF Enter, Open
<1>2. count' \in Nat /\ count <= count' /\ count' < MaxOperands
  BY <1>1, ReadingFacts
<1> QED BY <1>1, <1>2, OpenInductive

LEMMA BracketInductive ==
  ASSUME Inductive,
         OpenBracket \/ (\E f \in Functions : CallFunction(f)) \/ (\E a \in Arrays : IndexArray(a))
  PROVE  Inductive'
<1>1. AllTyped(<<>>)
  BY DEF AllTyped, Sequence
<1>2. PICK f, c : Enter(f, c) /\ f.fn \in Inner /\ Kept(f)
  <2>1. CASE OpenBracket
    <3>1. Kept([fn |-> "paren"]) /\ [fn |-> "paren"].fn \in Inner
      BY DEF Kept, Inner
    <3> QED BY <2>1, <3>1 DEF OpenBracket
  <2>2. CASE \E f \in Functions : CallFunction(f)
    <3>1. PICK f \in Functions : CallFunction(f)
      BY <2>2
    <3>2. Kept([fn |-> "call", f |-> f, args |-> <<>>])
          /\ [fn |-> "call", f |-> f, args |-> <<>>].fn \in Inner
      BY <1>1 DEF Kept, Inner
    <3> QED BY <3>1, <3>2 DEF CallFunction
  <2>3. CASE \E a \in Arrays : IndexArray(a)
    <3>1. PICK a \in Arrays : IndexArray(a)
      BY <2>3
    <3>2. Kept([fn |-> "index", array |-> a, at |-> <<>>])
          /\ [fn |-> "index", array |-> a, at |-> <<>>].fn \in Inner
      BY <1>1 DEF Kept, Inner
    <3> QED BY <3>1, <3>2 DEF IndexArray
  <2> QED BY <2>1, <2>2, <2>3
<1> QED BY <1>2, EnterInductive

(* A function that returns what it has made of the operand.                 *)
Returned(k, w, refused) ==
  /\ frames' = Below
  /\ value' = [class |-> k, want |-> w]
  /\ status' = IF refused THEN "error" ELSE "reading"

LEMMA ReturnedInductive ==
  ASSUME Inductive, status = "reading", value # Nothing, Top.fn \in Inner,
         NEW k \in Kinds, NEW w, NEW refused \in BOOLEAN, Returned(k, w, refused),
         w.kind = IF refused THEN "none" ELSE k, Counted(token', count')
  PROVE  Inductive'
<1>1. Stacked(frames')
  BY StackedPop, ReadyFacts DEF Returned, Top, Below
<1>2. Judged(value', status')
  BY DEF Judged, Returned
<1>3. status' \in {"reading", "error"}
  BY DEF Returned
<1> QED BY <1>1, <1>2, <1>3, Concluded

LEMMA NegateInductive ==
  ASSUME Inductive, Negate
  PROVE  Inductive'
<1>1. /\ status = "reading" /\ value # Nothing /\ Top.fn \in Inner /\ UNCHANGED <<token, count>>
      /\ Returned(value.class, Unary("neg", value.want), value.class \notin Numeric)
  BY DEF Negate, Ready, Return, Returned, Inner
<1>2. Typed(value) /\ Counted(token, count)
  BY <1>1, ReadyFacts
<1>3. Unary("neg", value.want).kind = IF value.class \notin Numeric THEN "none" ELSE value.class
  BY <1>2 DEF Unary, Typed, Mean, Meaningless
<1> QED BY <1>1, <1>2, <1>3, ReturnedInductive DEF Typed

LEMMA InvertInductive ==
  ASSUME Inductive, Invert
  PROVE  Inductive'
<1>1. /\ status = "reading" /\ value # Nothing /\ Top.fn \in Inner /\ UNCHANGED <<token, count>>
      /\ Returned(value.class, Unary("not", value.want), value.class \notin {"integer", "boolean"})
  BY DEF Invert, Ready, Return, Returned, Inner
<1>2. Typed(value) /\ Counted(token, count)
  BY <1>1, ReadyFacts
<1>3. Unary("not", value.want).kind
        = IF value.class \notin {"integer", "boolean"} THEN "none" ELSE value.class
  BY <1>2 DEF Unary, Typed, Mean, Meaningless
<1> QED BY <1>1, <1>2, <1>3, ReturnedInductive DEF Typed

(* The left operand of the innermost operation.                             *)
LEMMA LeftFacts ==
  ASSUME Inductive, NEW fn \in {"mult", "sum", "compare"}, Ready(fn)
  PROVE  /\ status = "reading" /\ value # Nothing /\ Top.fn \in Inner
         /\ Typed(value) /\ Counted(token, count) /\ Typed(Top.left)
         /\ Top.op \in Operators /\ Level(Top.op) = fn
         /\ <<Top.left.class, Top.op>> \notin Unused
         /\ Top.left.want.kind = Top.left.class /\ value.want.kind = value.class
         /\ Top.left.want.kind # "none" /\ value.want.kind # "none"
<1>1. status = "reading" /\ value # Nothing /\ Top.fn = fn
  BY DEF Ready
<1>2. Typed(value) /\ Counted(token, count) /\ Stacked(frames)
  BY <1>1, ReadyFacts
<1>3. Kept(Top)
  BY <1>2, StackedFacts DEF Top
<1> QED BY <1>1, <1>2, <1>3, KindsAssumption DEF Kept, Inner, Typed

LEMMA MultiplyInductive ==
  ASSUME Inductive, Multiply
  PROVE  Inductive'
<1> DEFINE a == Top.left.want
           b == value.want
           k == Wider(Top.left.class, value.class)
           refused == MultRefused(Top.left.class, value.class, Top.op)
<1>1. Ready("mult") /\ UNCHANGED <<token, count>>
  BY DEF Multiply
<1>2. /\ status = "reading" /\ value # Nothing /\ Top.fn \in Inner /\ Counted(token, count)
      /\ a.kind = Top.left.class /\ b.kind = value.class /\ a.kind # "none" /\ b.kind # "none"
      /\ Top.op \in MultOps /\ a.kind \in Kinds /\ b.kind \in Kinds
  BY <1>1, LeftFacts, LevelOps DEF Typed
<1>3. Returned(k, Binary(Top.op, a, b), refused)
  BY <1>2 DEF Multiply, Return, Returned, MultRefused
<1>4. Binary(Top.op, a, b).kind = IF refused THEN "none" ELSE k
  BY <1>2, MultMeans
<1>5. k \in Kinds /\ refused \in BOOLEAN /\ Counted(token', count')
  BY <1>1, <1>2, CastRange DEF MultRefused
<1> HIDE DEF a, b, k, refused
<1> QED BY <1>2, <1>3, <1>4, <1>5, ReturnedInductive

LEMMA SumInductive ==
  ASSUME Inductive, DisputedLeftOut, Sum
  PROVE  Inductive'
<1> DEFINE a == Top.left.want
           b == value.want
           k == SumType(Top.left.class, value.class)
           refused == SumRefused(Top.left.class, value.class, Top.op)
<1>1. Ready("sum") /\ UNCHANGED <<token, count>>
  BY DEF Sum
<1>2. /\ status = "reading" /\ value # Nothing /\ Top.fn \in Inner /\ Counted(token, count)
      /\ a.kind = Top.left.class /\ b.kind = value.class /\ a.kind # "none" /\ b.kind # "none"
      /\ Top.op \in SumOps /\ a.kind \in Kinds /\ b.kind \in Kinds
      /\ <<a.kind, Top.op>> \notin Disputed
  BY <1>1, LeftFacts, LevelOps DEF Typed, DisputedLeftOut
<1>3. Returned(k, Binary(Top.op, a, b), refused)
  BY <1>2 DEF Sum, Return, Returned, SumRefused, SumType, SumLeft
<1>4. Binary(Top.op, a, b).kind = IF refused THEN "none" ELSE k
  BY <1>2, SumMeans
<1>5. k \in Kinds
  BY <1>2, CastRange, KindsAssumption DEF SumType, SumLeft
<1>6. refused \in BOOLEAN /\ Counted(token', count')
  BY <1>1, <1>2 DEF SumRefused
<1> HIDE DEF a, b, k, refused
<1> QED BY <1>2, <1>3, <1>4, <1>5, <1>6, ReturnedInductive

LEMMA CompareInductive ==
  ASSUME Inductive, Compare
  PROVE  Inductive'
<1> DEFINE a == Top.left.want
           b == value.want
           refused == CompareRefused(Top.left.class, value.class, Top.op)
<1>1. Ready("compare") /\ UNCHANGED <<token, count>>
  BY DEF Compare
<1>2. /\ status = "reading" /\ value # Nothing /\ Top.fn \in Inner /\ Counted(token, count)
      /\ a.kind = Top.left.class /\ b.kind = value.class /\ a.kind # "none" /\ b.kind # "none"
      /\ Top.op \in RelOps
  BY <1>1, LeftFacts, LevelOps
<1>3. Returned("boolean", Binary(Top.op, a, b), refused)
  BY <1>2 DEF Compare, Return, Returned, CompareRefused
<1>4. Binary(Top.op, a, b).kind = IF refused THEN "none" ELSE "boolean"
  BY <1>2, CompareMeans
<1>5. "boolean" \in Kinds /\ refused \in BOOLEAN /\ Counted(token', count')
  BY <1>1, <1>2, KindsAssumption DEF CompareRefused
<1> HIDE DEF a, b, refused
<1> QED BY <1>2, <1>3, <1>4, <1>5, ReturnedInductive

LEMMA NextOperatorInductive ==
  ASSUME Inductive, NextOperator
  PROVE  Inductive'
<1>1. status = "reading" /\ value # Nothing /\ token \in Operators /\ UNCHANGED <<token, count>>
  BY DEF NextOperator
<1>2. Typed(value) /\ Counted(token, count) /\ Stacked(frames)
  BY <1>1, ReadyFacts
<1>3. CASE <<value.class, token>> \in Unused
  <2>1. status' = "left out" /\ frames' = frames /\ value' = value
    BY <1>3 DEF NextOperator
  <2>2. Judged(value', status')
    BY <1>2, <2>1 DEF Judged, Typed
  <2> QED BY <1>1, <1>2, <2>1, <2>2, Concluded
<1>4. CASE <<value.class, token>> \notin Unused
  <2> DEFINE f == [fn |-> Level(token), op |-> token, left |-> value]
  <2>1. frames' = Append(frames, f) /\ value' = Nothing /\ status' = "reading"
    BY <1>1, <1>4 DEF NextOperator
  <2>2. f.fn \in Inner /\ Kept(f)
    BY <1>1, <1>2, <1>4, LevelOps DEF Kept, Inner
  <2>3. Stacked(frames')
    BY <1>2, <2>1, <2>2, StackedPush
  <2>4. Counted(token', count') /\ count' < MaxOperands
    BY <1>1, <1>2 DEF Counted
  <2> QED BY <2>1, <2>3, <2>4, Concluded
<1> QED BY <1>3, <1>4

LEMMA CloseBracketInductive ==
  ASSUME Inductive, CloseBracket
  PROVE  Inductive'
<1>1. /\ status = "reading" /\ value # Nothing /\ Top.fn \in Inner
      /\ Returned(value.class, value.want, FALSE)
      /\ token' \in Follow(Below, count) /\ count' = count
  BY DEF CloseBracket, Ready, Return, Returned, Inner
<1>2. Typed(value) /\ count \in 0 .. MaxOperands
  BY <1>1, ReadyFacts DEF Counted
<1>3. Counted(token', count')
  BY <1>1, <1>2, FollowFacts
<1> QED BY <1>1, <1>2, <1>3, ReturnedInductive DEF Typed

(* The call or the indexed array that waits for more.                       *)
LEMMA ListFacts ==
  ASSUME Inductive, status = "reading", value # Nothing, Top.fn \in {"call", "index", "lvalue"}
  PROVE  /\ Stacked(frames) /\ Typed(value) /\ Counted(token, count) /\ Kept(Top)
         /\ Top.fn = "call" => Top.f \in Functions /\ AllTyped(Append(Top.args, value))
         /\ Top.fn # "call" => Top.array \in Arrays /\ AllTyped(Append(Top.at, value))
<1>1. Typed(value) /\ Counted(token, count) /\ Stacked(frames)
  BY ReadyFacts
<1>2. Kept(Top)
  BY <1>1, StackedFacts DEF Top
<1>3. Top.fn = "call" => Top.f \in Functions /\ AllTyped(Top.args)
  BY <1>2 DEF Kept
<1>4. Top.fn # "call" => Top.array \in Arrays /\ AllTyped(Top.at)
  BY <1>2 DEF Kept
<1> QED BY <1>1, <1>2, <1>3, <1>4, TypedAppend

LEMMA ArgumentInductive ==
  ASSUME Inductive, Argument
  PROVE  Inductive'
<1> DEFINE f == [Top EXCEPT !.args = Append(@, value)]
<1>1. /\ status = "reading" /\ value # Nothing /\ Top.fn = "call" /\ token = "comma"
      /\ frames' = Append(Front(frames), f) /\ value' = Nothing
      /\ token' = token /\ count' = count /\ status' = status
  BY DEF Argument, Ready, Replaced, Below
<1>2. /\ Stacked(frames) /\ Counted(token, count) /\ Kept(Top)
      /\ Top.f \in Functions /\ AllTyped(Append(Top.args, value))
  BY <1>1, ListFacts
<1>3. f.fn = Last(frames).fn /\ Kept(f)
  BY <1>1, <1>2 DEF Kept, Top
<1>4. Stacked(frames')
  BY <1>1, <1>2, <1>3, StackedReplace
<1>5. count' < MaxOperands /\ Counted(token', count')
  BY <1>1, <1>2 DEF Counted
<1> QED BY <1>1, <1>4, <1>5, Concluded

LEMMA CallInductive ==
  ASSUME Inductive, Call
  PROVE  Inductive'
<1> DEFINE args == Append(Top.args, value)
           refused == WrongArguments(Top.f, args)
<1>1. /\ status = "reading" /\ value # Nothing /\ Top.fn = "call" /\ Top.fn \in Inner
      /\ Returned(Top.f.result, Called(Top.f, Wants(args)), refused)
      /\ token' \in Follow(Below, count) /\ count' = count
  BY DEF Call, Ready, Return, Returned, Inner, Wants
<1>2. Top.f \in Functions /\ AllTyped(args) /\ count \in 0 .. MaxOperands
  BY <1>1, ListFacts DEF Counted
<1>3. Called(Top.f, Wants(args)).kind = IF refused THEN "none" ELSE Top.f.result
  BY <1>2, CallMeans
<1>4. Top.f.result \in Kinds /\ refused \in BOOLEAN
  BY <1>2, FunctionsAssumption DEF WrongArguments
<1>5. Counted(token', count')
  BY <1>1, <1>2, FollowFacts
<1> HIDE DEF args, refused
<1> QED BY <1>1, <1>3, <1>4, <1>5, ReturnedInductive

LEMMA IndexInductive ==
  ASSUME Inductive, Index
  PROVE  Inductive'
<1> DEFINE f == [Top EXCEPT !.at = Append(@, value)]
<1>1. /\ status = "reading" /\ value # Nothing /\ Top.fn \in {"index", "lvalue"} /\ token = "comma"
      /\ frames' = Append(Front(frames), f) /\ value' = Nothing
      /\ token' = token /\ count' = count /\ status' = status
  BY DEF Index, Ready, Replaced, Below, IndexWanted
<1>2. /\ Stacked(frames) /\ Counted(token, count) /\ Kept(Top)
      /\ Top.array \in Arrays /\ AllTyped(Append(Top.at, value))
  BY <1>1, ListFacts
<1>3. f.fn = Last(frames).fn /\ Kept(f)
  BY <1>1, <1>2 DEF Kept, Top
<1>4. Stacked(frames')
  BY <1>1, <1>2, <1>3, StackedReplace
<1>5. count' < MaxOperands /\ Counted(token', count')
  BY <1>1, <1>2 DEF Counted
<1> QED BY <1>1, <1>4, <1>5, Concluded

LEMMA IndexTooManyInductive ==
  ASSUME Inductive, IndexTooMany
  PROVE  Inductive'
<1>1. /\ status = "reading" /\ value # Nothing /\ status' = "crash"
      /\ frames' = frames /\ value' = value /\ token' = token /\ count' = count
  BY DEF IndexTooMany, Ready
<1>2. Typed(value) /\ Counted(token, count) /\ Stacked(frames)
  BY <1>1, ReadyFacts
<1>3. Judged(value', status')
  BY <1>1, <1>2 DEF Judged, Typed
<1> QED BY <1>1, <1>2, <1>3, Concluded

LEMMA LoadInductive ==
  ASSUME Inductive, Load
  PROVE  Inductive'
<1> DEFINE at == Append(Top.at, value)
           refused == WrongIndices(Top.array, at)
<1>1. /\ status = "reading" /\ value # Nothing /\ Top.fn = "index" /\ Top.fn \in Inner
      /\ Returned(Top.array.elem, Element(Top.array, Wants(at)), refused)
      /\ token' \in Follow(Below, count) /\ count' = count
  BY DEF Load, Ready, Return, Returned, Inner
<1>2. Top.array \in Arrays /\ AllTyped(at) /\ count \in 0 .. MaxOperands
  BY <1>1, ListFacts DEF Counted
<1>3. Element(Top.array, Wants(at)).kind = IF refused THEN "none" ELSE Top.array.elem
  BY <1>2, ElementMeans
<1>4. Top.array.elem \in Kinds /\ refused \in BOOLEAN
  BY <1>2, ArraysAssumption DEF WrongIndices
<1>5. Counted(token', count')
  BY <1>1, <1>2, FollowFacts
<1> HIDE DEF at, refused
<1> QED BY <1>1, <1>3, <1>4, <1>5, ReturnedInductive

LEMMA TargetInductive ==
  ASSUME Inductive, Target
  PROVE  Inductive'
<1> DEFINE at == Append(Top.at, value)
           element == Element(Top.array, Wants(at))
<1>1. /\ status = "reading" /\ value # Nothing /\ Top.fn = "lvalue" /\ token = "close"
      /\ token' = token /\ count' = MaxOperands - 1
  BY DEF Target, Ready
<1>2. Top.array \in Arrays /\ AllTyped(at) /\ Stacked(frames) /\ Counted(token, count)
  BY <1>1, ListFacts
<1>3. Top.array.elem \in Kinds
  BY <1>2, ArraysAssumption
<1>4. Counted(token', count') /\ count' < MaxOperands
  BY <1>1, BoundAssumption DEF Counted
<1>5. CASE WrongIndices(Top.array, at)
  <2>1. /\ status' = "error" /\ value' = [class |-> Top.array.elem, want |-> element]
        /\ frames' = frames
    BY <1>5 DEF Target
  <2>2. element.kind = "none"
    BY <1>2, <1>5, ElementMeans
  <2>3. Judged(value', status')
    BY <1>3, <2>1, <2>2 DEF Judged
  <2> QED BY <1>2, <1>4, <2>1, <2>3, Concluded
<1>6. CASE ~WrongIndices(Top.array, at)
  <2> DEFINE f == [fn |-> "assign", class |-> Top.array.elem, dest |-> element.term]
  <2>1. frames' = <<f>> /\ value' = Nothing /\ status' = "reading"
    BY <1>1, <1>6 DEF Target
  <2>2. f.fn = "assign" /\ Kept(f)
    BY <1>3 DEF Kept
  <2>3. Stacked(<<f>>)
    <3> HIDE DEF f
    <3> QED BY <2>2, StackedOne
  <2> QED BY <1>4, <2>1, <2>3, Concluded
<1> QED BY <1>5, <1>6

LEMMA AssignInductive ==
  ASSUME Inductive, Assign
  PROVE  Inductive'
<1> DEFINE k == Top.class
           cast == TypeCast(k, value.class)
           want == IF Serves(k, value.want) THEN Mean(k, As(k, value.want)) ELSE Meaningless
<1>1. /\ status = "reading" /\ value # Nothing /\ Top.fn = "assign"
      /\ frames' = frames /\ token' = token /\ count' = count
      /\ value' = [class |-> k, want |-> want]
      /\ status' = IF cast \in {1, 2} THEN "done" ELSE "error"
  BY DEF Assign, Ready
<1>2. Typed(value) /\ Counted(token, count) /\ Stacked(frames)
  BY <1>1, ReadyFacts
<1>3. k \in Kinds
  BY <1>1, <1>2, StackedFacts DEF Top, Kept
<1>4. Serves(k, value.want) <=> cast \in {1, 2}
  BY <1>2, CastServes DEF Typed
<1>5. want.kind = IF cast \in {1, 2} THEN k ELSE "none"
  BY <1>4 DEF Mean, Meaningless
<1> HIDE DEF k, want, cast
<1>6. Judged(value', status') /\ status' \in {"done", "error"}
  BY <1>1, <1>3, <1>5 DEF Judged
<1> QED BY <1>1, <1>2, <1>6, Concluded

LEMMA NextInductive ==
  ASSUME Inductive, DisputedLeftOut, [Next]_vars
  PROVE  Inductive'
<1>1. CASE UNCHANGED vars
  BY <1>1 DEF Inductive, vars
<1>2. CASE Next
  <2>1. ASSUME NEW k \in Kinds, Variable(k) PROVE Inductive'
    BY <2>1, VariableInductive
  <2>2. CASE ReadNot \/ ReadMinus
    BY <2>2, SignInductive
  <2>3. CASE OpenBracket \/ (\E f \in Functions : CallFunction(f)) \/ (\E a \in Arrays : IndexArray(a))
    BY <2>3, BracketInductive
  <2>4. CASE Negate \/ Invert \/ Multiply \/ Sum \/ Compare \/ NextOperator
    BY <2>4, NegateInductive, InvertInductive, MultiplyInductive, SumInductive, CompareInductive,
       NextOperatorInductive
  <2>5. CASE CloseBracket \/ Argument \/ Call
    BY <2>5, CloseBracketInductive, ArgumentInductive, CallInductive
  <2>6. CASE Index \/ IndexTooMany \/ Load \/ Target \/ Assign
    BY <2>6, IndexInductive, IndexTooManyInductive, LoadInductive, TargetInductive, AssignInductive
  <2>7. CASE Finished
    BY <1>1, <2>7 DEF Finished
  <2> QED BY <1>2, <2>1, <2>2, <2>3, <2>4, <2>5, <2>6, <2>7 DEF Next
<1> QED BY <1>1, <1>2

-----------------------------------------------------------------------------
(* What follows for every statement, whatever its types, operators,         *)
(* functions, arrays and length are.                                        *)

(* Every value that waits as a left operand, an argument or an index has    *)
(* the type the compiler took it to have, and the last one was judged       *)
(* right.                                                                   *)
THEOREM InductiveInvariant == DisputedLeftOut => (Spec => []Inductive)
<1>1. DisputedLeftOut /\ Inductive /\ [Next]_vars => Inductive'
  BY NextInductive
<1>2. CASE DisputedLeftOut
  BY <1>1, <1>2, InitInductive, PTL DEF Spec
<1> QED BY <1>2

(* The functions that wait, the value and the number of operands have       *)
(* their types; no statement has more operands than the bound.              *)
THEOREM TypesHold == DisputedLeftOut => (Spec => []TypeOK)
<1>1. Inductive => TypeOK
  <2> SUFFICES ASSUME Inductive PROVE TypeOK
    OBVIOUS
  <2>1. Len(frames) >= 1 /\ frames[1].fn \in {"assign", "lvalue"}
        /\ \A n \in 2 .. Len(frames) : frames[n].fn \in Inner
    BY DEF Inductive, Stacked
  <2>2. frames # <<>>
    BY <2>1
  <2> QED BY <2>1, <2>2 DEF Inductive, TypeOK, Inner, Judged
<1> QED BY <1>1, InductiveInvariant, PTL

(* RD_expression and the functions below it: what is accepted has a         *)
(* meaning, and the type that was computed for it.                          *)
THEOREM AcceptedAlways == DisputedLeftOut => (Spec => []Accepted)
<1>1. Inductive => Accepted
  BY DEF Inductive, Accepted, Judged
<1> QED BY <1>1, InductiveInvariant, PTL

(* And what is refused, with one of the errors E417 to E427, has none.      *)
THEOREM NothingRefusedWrongly == DisputedLeftOut => (Spec => []NothingRefused)
<1>1. Inductive => NothingRefused
  BY DEF Inductive, NothingRefused, Judged
<1> QED BY <1>1, InductiveInvariant, PTL
=============================================================================
