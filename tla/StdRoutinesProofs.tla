------------------------- MODULE StdRoutinesProofs -------------------------
(***************************************************************************)
(* Helper classes are asked for whenever they are needed: each routine     *)
(* asks for its own (TableAssumption, which TLC evaluates for every        *)
(* routine), so a statement asks for all of them, however deep calls are   *)
(* nested.                                                                 *)
(***************************************************************************)
EXTENDS StdRoutines, TLAPS, SequenceTheorems

-----------------------------------------------------------------------------
(* The inductive invariant.                                                *)

Sequence(s) == \E S : s \in Seq(S)

(* The classes that have been asked for when the statement is left: by the  *)
(* flags, or by whoever made the values that variables hold.                *)
BroughtIn(piece) ==
  UNION {CarriedBy(piece[k].type) : k \in {j \in DOMAIN piece : piece[j].op = "load"}}
Reach(piece, flags, fix) == Classes(flags, fix) \cup BroughtIn(piece)

(* A call that is being compiled: what made its arguments is asked for.     *)
CallOK(call, reach) ==
  /\ call \in [name : Routines, given : Nat]
  /\ call.given <= Len(Params(call.name))
  /\ \A k \in 1 .. call.given : Brings(Params(call.name)[k]) \subseteq reach

(* All calls but the innermost wait for an argument, and the result of the  *)
(* next one is taken for it.                                                *)
Opened(calls, reach) ==
  /\ Sequence(calls)
  /\ \A k \in DOMAIN calls : CallOK(calls[k], reach)
  /\ \A k \in DOMAIN calls : k < Len(calls) =>
        /\ calls[k].given < Len(Params(calls[k].name))
        /\ Result(calls[k + 1].name)
             \in type_equal_cast(Params(calls[k].name)[calls[k].given + 1])

Coded(piece) ==
  /\ Sequence(piece)
  /\ \A k \in DOMAIN piece :
        piece[k].op \in {"static", "virtual", "special", "compute", "if", "goto"} =>
            Sequence(piece[k].params)

Compiled ==
  /\ fixed \in BOOLEAN /\ canvas \in Canvases
  /\ called \in Seq(Routines) /\ Len(called) <= MaxCalls
  /\ open # <<>> => called # <<>>
  /\ Coded(code) /\ uses \subseteq Flags
  /\ Opened(open, Reach(code, uses, fixed))
  /\ NamedIn(code) \subseteq Reach(code, uses, fixed)

Reported ==
  /\ phase \in {"compile", "report", "run"}
  /\ reported = IF phase = "run" THEN Classes(uses, fixed) ELSE {}
  /\ printed \in {"", "Done"}

(* The machine: objects on the stack are objects of the heap.               *)
StackOf(s, n) == \E S : s \in Seq(S) /\ \A x \in S : x.object \in 0 .. n
HeapOf(h) ==
  Sequence(h) /\ \A k \in DOMAIN h : h[k].state \in {"Raw", "Given", "Made", "Spoilt"}
Machine ==
  /\ phase # "run" => pc = 1 /\ stack = <<>> /\ objects = <<>>
  /\ pc \in 1 .. Len(code) + 1
  /\ StackOf(stack, Len(objects)) /\ HeapOf(objects)

Inductive == Compiled /\ Reported /\ Machine

-----------------------------------------------------------------------------
(* Sequences.                                                              *)

LEMMA SequenceFacts ==
  ASSUME NEW s, Sequence(s)
  PROVE  Len(s) \in Nat /\ DOMAIN s = 1 .. Len(s)
BY DEF Sequence

LEMMA SequenceAppend ==
  ASSUME NEW s, Sequence(s), NEW x
  PROVE  /\ Sequence(Append(s, x)) /\ Len(Append(s, x)) = Len(s) + 1
         /\ Append(s, x)[Len(s) + 1] = x
         /\ \A n \in 1 .. Len(s) : Append(s, x)[n] = s[n]
<1>1. PICK S : s \in Seq(S)
  BY DEF Sequence
<1>2. s \in Seq(S \cup {x}) /\ x \in S \cup {x}
  BY <1>1
<1>3. Append(s, x) \in Seq(S \cup {x})
  BY <1>2
<1> QED BY <1>2, <1>3, AppendProperties DEF Sequence

LEMMA SequenceNonempty ==
  ASSUME NEW s, Sequence(s), s # <<>>
  PROVE  Len(s) >= 1
BY DEF Sequence

LEMMA SequenceFront ==
  ASSUME NEW s, Sequence(s), Len(s) >= 1
  PROVE  /\ Sequence(Front(s)) /\ Len(Front(s)) = Len(s) - 1
         /\ \A n \in 1 .. Len(s) - 1 : Front(s)[n] = s[n]
<1>1. PICK S : s \in Seq(S)
  BY DEF Sequence
<1> PICK m \in Nat : m = Len(s)
  BY <1>1
<1>2. m >= 1
  OBVIOUS
<1>3. \A n \in 1 .. Len(s) - 1 : s[n] \in S
  BY <1>1, <1>2
<1>4. /\ SubSeq(s, 1, Len(s) - 1) \in Seq(S)
      /\ Len(SubSeq(s, 1, Len(s) - 1)) = IF 1 <= Len(s) - 1 THEN Len(s) - 1 - 1 + 1 ELSE 0
      /\ \A n \in 1 .. Len(s) - 1 - 1 + 1 : SubSeq(s, 1, Len(s) - 1)[n] = s[1 + n - 1]
  BY <1>2, <1>3, SubSeqProperties
<1>5. Len(SubSeq(s, 1, Len(s) - 1)) = Len(s) - 1
  <2>1. (IF 1 <= m - 1 THEN m - 1 - 1 + 1 ELSE 0) = m - 1
    BY <1>2
  <2> QED BY <1>4, <2>1
<1>6. ASSUME NEW n \in 1 .. Len(s) - 1 PROVE SubSeq(s, 1, Len(s) - 1)[n] = s[n]
  BY <1>2, <1>4
<1> QED BY <1>2, <1>4, <1>5, <1>6 DEF Front, Sequence

LEMMA SequenceJoin ==
  ASSUME NEW s, NEW t, Sequence(s), Sequence(t)
  PROVE  /\ Sequence(s \o t) /\ Len(s \o t) = Len(s) + Len(t)
         /\ \A n \in 1 .. Len(s) : (s \o t)[n] = s[n]
         /\ \A n \in 1 .. Len(t) : (s \o t)[Len(s) + n] = t[n]
         /\ \A n \in 1 .. Len(s) + Len(t) :
              n \in 1 .. Len(s) \/ \E m \in 1 .. Len(t) : n = Len(s) + m
<1>1. PICK S : s \in Seq(S)
  BY DEF Sequence
<1>2. PICK T : t \in Seq(T)
  BY DEF Sequence
<1>3. s \in Seq(S \cup T) /\ t \in Seq(S \cup T)
  BY <1>1, <1>2
<1>4. s \o t \in Seq(S \cup T) /\ Len(s \o t) = Len(s) + Len(t) /\ Len(s) \in Nat /\ Len(t) \in Nat
  BY <1>3
<1>5. \A n \in 1 .. Len(s) : (s \o t)[n] = s[n]
  BY <1>3
<1>6. \A n \in 1 .. Len(t) : (s \o t)[Len(s) + n] = t[n]
  BY <1>3
<1>7. ASSUME NEW n \in 1 .. Len(s) + Len(t), n \notin 1 .. Len(s)
      PROVE  \E m \in 1 .. Len(t) : n = Len(s) + m
  <2>1. n - Len(s) \in 1 .. Len(t) /\ n = Len(s) + (n - Len(s))
    BY <1>4, <1>7
  <2> QED BY <2>1
<1> QED BY <1>4, <1>5, <1>6, <1>7 DEF Sequence

(* Pieces of code, one behind the other.                                    *)
LEMMA JoinNames ==
  ASSUME NEW s, NEW t, Sequence(s), Sequence(t)
  PROVE  NamedIn(s \o t) = NamedIn(s) \cup NamedIn(t)
         /\ BroughtIn(s \o t) = BroughtIn(s) \cup BroughtIn(t)
<1>1. /\ DOMAIN (s \o t) = 1 .. Len(s) + Len(t)
      /\ DOMAIN s = 1 .. Len(s) /\ DOMAIN t = 1 .. Len(t) /\ Len(s) \in Nat /\ Len(t) \in Nat
      /\ \A n \in 1 .. Len(s) : (s \o t)[n] = s[n]
      /\ \A n \in 1 .. Len(t) : (s \o t)[Len(s) + n] = t[n]
      /\ \A n \in 1 .. Len(s) + Len(t) :
           n \in 1 .. Len(s) \/ \E m \in 1 .. Len(t) : n = Len(s) + m
  BY SequenceFacts, SequenceJoin
<1>2. ASSUME NEW n \in DOMAIN (s \o t)
      PROVE  (\E m \in DOMAIN s : (s \o t)[n] = s[m]) \/ (\E m \in DOMAIN t : (s \o t)[n] = t[m])
  <2>1. n \in 1 .. Len(s) \/ \E m \in 1 .. Len(t) : n = Len(s) + m
    BY <1>1
  <2>2. CASE n \in 1 .. Len(s)
    <3>1. n \in DOMAIN s /\ (s \o t)[n] = s[n]
      BY <1>1, <2>2
    <3> QED BY <3>1
  <2>3. CASE \E m \in 1 .. Len(t) : n = Len(s) + m
    <3>1. PICK m \in 1 .. Len(t) : n = Len(s) + m
      BY <2>3
    <3>2. m \in DOMAIN t /\ (s \o t)[n] = t[m]
      BY <1>1, <3>1
    <3> QED BY <3>2
  <2> QED BY <2>1, <2>2, <2>3
<1>3. ASSUME NEW m \in DOMAIN s PROVE \E n \in DOMAIN (s \o t) : (s \o t)[n] = s[m]
  BY <1>1
<1>4. ASSUME NEW m \in DOMAIN t PROVE \E n \in DOMAIN (s \o t) : (s \o t)[n] = t[m]
  <2>1. Len(s) + m \in DOMAIN (s \o t)
    BY <1>1
  <2> QED BY <1>1, <2>1
<1>5. NamedIn(s \o t) = NamedIn(s) \cup NamedIn(t)
  BY <1>2, <1>3, <1>4 DEF NamedIn
<1>6. BroughtIn(s \o t) = BroughtIn(s) \cup BroughtIn(t)
  BY <1>2, <1>3, <1>4 DEF BroughtIn
<1> QED BY <1>5, <1>6

LEMMA JoinCoded ==
  ASSUME NEW s, NEW t, Coded(s), Coded(t)
  PROVE  Coded(s \o t)
<1>1. Sequence(s) /\ Sequence(t)
  BY DEF Coded
<1>0. Sequence(s \o t) /\ Len(s \o t) = Len(s) + Len(t)
  BY <1>1, SequenceJoin
<1>2. /\ DOMAIN (s \o t) = 1 .. Len(s) + Len(t)
      /\ DOMAIN s = 1 .. Len(s) /\ DOMAIN t = 1 .. Len(t)
      /\ \A n \in 1 .. Len(s) : (s \o t)[n] = s[n]
      /\ \A n \in 1 .. Len(t) : (s \o t)[Len(s) + n] = t[n]
      /\ \A n \in 1 .. Len(s) + Len(t) :
           n \in 1 .. Len(s) \/ \E m \in 1 .. Len(t) : n = Len(s) + m
  BY <1>0, <1>1, SequenceFacts, SequenceJoin
<1>3. ASSUME NEW n \in DOMAIN (s \o t)
      PROVE  (s \o t)[n].op \in {"static", "virtual", "special", "compute", "if", "goto"} =>
               Sequence((s \o t)[n].params)
  <2>1. CASE n \in 1 .. Len(s)
    BY <1>2, <2>1 DEF Coded
  <2>2. CASE \E m \in 1 .. Len(t) : n = Len(s) + m
    <3>1. PICK m \in 1 .. Len(t) : n = Len(s) + m
      BY <2>2
    <3>2. m \in DOMAIN t /\ (s \o t)[n] = t[m]
      BY <1>2, <3>1
    <3> QED BY <3>2 DEF Coded
  <2> QED BY <1>2, <1>3, <2>1, <2>2
<1> QED BY <1>0, <1>3 DEF Coded

LEMMA ClassesGrow ==
  ASSUME NEW u, NEW v, NEW fix
  PROVE  Classes(u \cup v, fix) = Classes(u, fix) \cup Classes(v, fix)
BY DEF Classes

-----------------------------------------------------------------------------
(* What the parts of a call ask for.                                       *)

LEMMA DeclaredFacts ==
  ASSUME NEW n \in Routines
  PROVE  /\ Params(n) \in Seq(Types) /\ Len(Params(n)) \in Nat
         /\ Result(n) \in Types \cup {"void"}
         /\ \A k \in 1 .. Len(Params(n)) : Params(n)[k] \in Types
BY RoutinesDeclared DEF Params, Result

LEMMA TableFacts ==
  ASSUME fixed \in BOOLEAN, canvas \in Canvases, NEW n \in Routines
  PROVE  /\ Table[fixed][canvas][n].uses \subseteq Flags
         /\ Coded(Table[fixed][canvas][n].code) /\ Coded(Prefix(n, fixed))
         /\ NamedIn(Prefix(n, fixed)) = {}
         /\ NamedIn(Table[fixed][canvas][n].code) \cup Brings(Result(n))
              \subseteq Classes(Table[fixed][canvas][n].uses, fixed)
                        \cup UNION {Brings(t) : t \in Range(Params(n))}
<1>1. Table[fixed][canvas] = Emitted(fixed, canvas)
  BY DEF Table
<1>2. /\ Emitted(fixed, canvas)[n].uses \subseteq Flags
      /\ NamedIn(Prefix(n, fixed)) = {}
      /\ NamedIn(Emitted(fixed, canvas)[n].code) \cup Brings(Declared[n].result) \subseteq
           Classes(Emitted(fixed, canvas)[n].uses, fixed)
           \cup UNION {Brings(t) : t \in Range(Declared[n].params)}
      /\ IsCode(Prefix(n, fixed)) /\ IsCode(Emitted(fixed, canvas)[n].code)
  BY TableAssumption
<1>3. Coded(Prefix(n, fixed)) /\ Coded(Emitted(fixed, canvas)[n].code)
  BY <1>2 DEF IsCode, Coded, Sequence
<1> QED BY <1>1, <1>2, <1>3 DEF Params, Result

LEMMA OneInteger == Sequence(<<"I">>)
<1>1. <<"I">> \in Seq({"I"})
  OBVIOUS
<1> QED BY <1>1 DEF Sequence

(* Classes and flags of a piece that is emitted.                            *)
Asks(entry) ==
  /\ entry.uses \subseteq Flags /\ Coded(entry.code)

LEMMA ConvertedAsks ==
  ASSUME fixed \in BOOLEAN, NEW formal \in Types, NEW actual \in type_equal_cast(formal)
  PROVE  /\ Asks(Converted(actual, formal))
         /\ NamedIn(Converted(actual, formal).code)
              \subseteq Classes(Converted(actual, formal).uses, fixed)
         /\ Brings(actual) = Brings(formal) /\ actual \in Types
<1>1. CASE actual = formal
  <2>1. Converted(actual, formal) = [uses |-> {}, code |-> <<>>]
    BY <1>1 DEF Converted, Plain
  <2>2. Coded(<<>>) /\ NamedIn(<<>>) = {}
    BY DEF Coded, Sequence, NamedIn
  <2> QED BY <1>1, <2>1, <2>2 DEF Asks
<1>2. CASE formal = "string" /\ actual = "char"
  <2> DEFINE i == Static("String", "valueOf", <<"I">>, "String")
  <2>1. Converted(actual, formal) = [uses |-> {}, code |-> <<i>>]
    BY <1>2 DEF Converted, Plain
  <2>2. <<i>> \in Seq({i}) /\ DOMAIN <<i>> = {1} /\ <<i>>[1] = i
    OBVIOUS
  <2>3. i.class = "String" /\ Sequence(i.params)
    BY OneInteger DEF Static, Call
  <2> HIDE DEF i
  <2>4. Coded(<<i>>) /\ NamedIn(<<i>>) = {}
    BY <2>2, <2>3 DEF Coded, Sequence, NamedIn, Helpers, Flags
  <2> QED BY <1>2, <2>1, <2>4 DEF Asks, Brings, Types
<1>3. CASE formal = "real" /\ actual = "integer" /\ fixed
  <2> DEFINE i == Static("F", "fI", <<"I">>, "I")
  <2>1. Converted(actual, formal) = [uses |-> {"Float"}, code |-> <<i>>]
    BY <1>3 DEF Converted, With
  <2>2. <<i>> \in Seq({i}) /\ DOMAIN <<i>> = {1} /\ <<i>>[1] = i
    OBVIOUS
  <2>3. i.class = "F" /\ Sequence(i.params)
    BY OneInteger DEF Static, Call
  <2> HIDE DEF i
  <2>4. Coded(<<i>>) /\ NamedIn(<<i>>) \subseteq {"F"}
    BY <2>2, <2>3 DEF Coded, Sequence, NamedIn
  <2>5. "F" \in Classes({"Float"}, fixed)
    BY <1>3 DEF Classes
  <2>6. Converted(actual, formal).uses = {"Float"} /\ Converted(actual, formal).code = <<i>>
    BY <2>1
  <2>7. Asks(Converted(actual, formal))
    BY <2>4, <2>6 DEF Asks, Flags
  <2>8. Brings(actual) = Brings(formal) /\ actual \in Types
    BY <1>3 DEF Brings, Types
  <2> QED BY <2>4, <2>5, <2>6, <2>7, <2>8
<1>4. CASE formal = "real" /\ actual = "integer" /\ ~fixed
  <2> DEFINE i == New("Real")
             j == Construct("Real", <<"I">>)
             c == <<i, DupX1, Swap, j>>
  <2>1. Converted(actual, formal) = [uses |-> {"Float"}, code |-> c]
    BY <1>4 DEF Converted, With, Made
  <2>2. i.op = "new" /\ DupX1.op = "dup_x1" /\ Swap.op = "swap" 
        /\ j.class = "Real" /\ Sequence(j.params)
    BY OneInteger DEF New, DupX1, Swap, Construct, Call
  <2> HIDE DEF i, j
  <2>3. c \in Seq({i, DupX1, Swap, j}) /\ DOMAIN c = 1 .. 4
        /\ c[1] = i /\ c[2] = DupX1 /\ c[3] = Swap /\ c[4] = j
    OBVIOUS
  <2>4. \A k \in 1 .. 4 : k = 1 \/ k = 2 \/ k = 3 \/ k = 4
    OBVIOUS
  <2> HIDE DEF c
  <2>5. Coded(c)
    BY <2>2, <2>3, <2>4 DEF Coded, Sequence
  <2>6. NamedIn(c) \subseteq {"Real"}
    BY <2>2, <2>3, <2>4 DEF NamedIn
  <2>7. "Real" \in Classes({"Float"}, fixed)
    BY <1>4 DEF Classes
  <2> QED BY <1>4, <2>1, <2>5, <2>6, <2>7 DEF Asks, Brings, Types, Flags
<1> QED BY <1>1, <1>2, <1>3, <1>4 DEF type_equal_cast

(* Both parts of what is emitted at once.                                   *)
LEMMA ThenAsks ==
  ASSUME NEW d, NEW e, Asks(d), Asks(e)
  PROVE  /\ Asks(Then(d, e))
         /\ NamedIn(Then(d, e).code) = NamedIn(d.code) \cup NamedIn(e.code)
         /\ BroughtIn(Then(d, e).code) = BroughtIn(d.code) \cup BroughtIn(e.code)
         /\ Classes(Then(d, e).uses, fixed) = Classes(d.uses, fixed) \cup Classes(e.uses, fixed)
<1>1. Then(d, e).uses = d.uses \cup e.uses /\ Then(d, e).code = d.code \o e.code
  BY DEF Then
<1>2. Sequence(d.code) /\ Sequence(e.code)
  BY DEF Asks, Coded
<1>3. Asks(Then(d, e))
  BY <1>1, JoinCoded DEF Asks
<1> QED BY <1>1, <1>2, <1>3, JoinNames, ClassesGrow

LEMMA LoadAsks ==
  ASSUME NEW t \in Types
  PROVE  /\ Asks(Plain(<<Load(t)>>)) /\ NamedIn(Plain(<<Load(t)>>).code) = {}
         /\ BroughtIn(Plain(<<Load(t)>>).code) = Brings(t)
<1>1. Load(t).op = "load" /\ Load(t).type = Cell(t)
  BY DEF Load
<1>2. CarriedBy(Cell(t)) = Brings(t)
  BY DEF CarriedBy, Cell, Brings, Types
<1>3. PICK i : i = Load(t)
  OBVIOUS
<1>4. <<i>> \in Seq({i}) /\ DOMAIN <<i>> = {1} /\ <<i>>[1] = i
  OBVIOUS
<1>5. Coded(<<i>>) /\ NamedIn(<<i>>) = {}
  BY <1>1, <1>3, <1>4 DEF Coded, Sequence, NamedIn
<1>6. BroughtIn(<<i>>) = Brings(t)
  <2>1. {k \in DOMAIN <<i>> : <<i>>[k].op = "load"} = {1}
    BY <1>1, <1>3, <1>4
  <2>2. {CarriedBy(<<i>>[k].type) : k \in {1}} = {CarriedBy(i.type)}
    BY <1>4
  <2> QED BY <1>1, <1>2, <1>3, <2>1, <2>2 DEF BroughtIn
<1> QED BY <1>3, <1>5, <1>6 DEF Plain, Asks

(* The code that has been compiled grows.                                   *)
LEMMA EmitGrows ==
  ASSUME Coded(code), uses \subseteq Flags, NEW e, Asks(e), Emit(e), fixed' = fixed
  PROVE  /\ Coded(code') /\ uses' \subseteq Flags
         /\ NamedIn(code') = NamedIn(code) \cup NamedIn(e.code)
         /\ Reach(code', uses', fixed')
              = Reach(code, uses, fixed) \cup Classes(e.uses, fixed) \cup BroughtIn(e.code)
         /\ Len(code') \in Nat
<1>1. code' = code \o e.code /\ uses' = uses \cup e.uses /\ Coded(e.code) /\ e.uses \subseteq Flags
      /\ Sequence(code) /\ Sequence(e.code)
  BY DEF Emit, Asks, Coded
<1>2. Coded(code') /\ NamedIn(code') = NamedIn(code) \cup NamedIn(e.code)
      /\ BroughtIn(code') = BroughtIn(code) \cup BroughtIn(e.code)
  BY <1>1, JoinNames, JoinCoded
<1>3. Classes(uses', fixed') = Classes(uses, fixed) \cup Classes(e.uses, fixed)
  BY <1>1, ClassesGrow
<1>4. Reach(code', uses', fixed')
        = Reach(code, uses, fixed) \cup Classes(e.uses, fixed) \cup BroughtIn(e.code)
  <2>1. Reach(code', uses', fixed') = Classes(uses', fixed') \cup BroughtIn(code')
    BY DEF Reach
  <2>2. Reach(code, uses, fixed) = Classes(uses, fixed) \cup BroughtIn(code)
    BY DEF Reach
  <2> QED BY <1>2, <1>3, <2>1, <2>2
<1>5. Len(code') \in Nat
  BY <1>2, SequenceFacts DEF Coded
<1>6. uses' \subseteq Flags
  BY <1>1
<1> QED BY <1>2, <1>4, <1>5, <1>6


-----------------------------------------------------------------------------
(* The calls that are open.                                                *)

LEMMA ReplaceLast ==
  ASSUME NEW s, Sequence(s), Len(s) >= 1, NEW c
  PROVE  /\ Sequence(Front(s) \o <<c>>) /\ Len(Front(s) \o <<c>>) = Len(s)
         /\ (Front(s) \o <<c>>)[Len(s)] = c
         /\ \A n \in 1 .. Len(s) - 1 : (Front(s) \o <<c>>)[n] = s[n]
<1>1. Sequence(Front(s)) /\ Len(Front(s)) = Len(s) - 1
      /\ \A n \in 1 .. Len(s) - 1 : Front(s)[n] = s[n]
  BY SequenceFront
<1>2. Sequence(<<c>>) /\ Len(<<c>>) = 1 /\ <<c>>[1] = c
  <2>1. <<c>> \in Seq({c})
    OBVIOUS
  <2> QED BY <2>1 DEF Sequence
<1>3. Len(s) \in Nat
  BY SequenceFacts
<1>4. PICK f : f = Front(s)
  OBVIOUS
<1>5. PICK d : d = <<c>>
  OBVIOUS
<1>6. /\ Sequence(f \o d) /\ Len(f \o d) = Len(f) + Len(d)
      /\ \A n \in 1 .. Len(f) : (f \o d)[n] = f[n]
      /\ \A n \in 1 .. Len(d) : (f \o d)[Len(f) + n] = d[n]
  BY <1>1, <1>2, <1>4, <1>5, SequenceJoin
<1>7. Len(f) + 1 = Len(s) /\ Len(d) = 1 /\ 1 \in 1 .. Len(d) /\ d[1] = c
  BY <1>1, <1>2, <1>3, <1>4, <1>5
<1>8. (f \o d)[Len(s)] = c
  BY <1>6, <1>7
<1>9. \A n \in 1 .. Len(s) - 1 : (f \o d)[n] = s[n]
  BY <1>1, <1>4, <1>6
<1> QED BY <1>4, <1>5, <1>6, <1>7, <1>8, <1>9

(* What has been asked for stays asked for.                                 *)
LEMMA CallGrows ==
  ASSUME NEW c, NEW r, NEW s, CallOK(c, r), r \subseteq s
  PROVE  CallOK(c, s)
BY DEF CallOK

LEMMA OpenedGrows ==
  ASSUME NEW calls, NEW r, NEW s, Opened(calls, r), r \subseteq s
  PROVE  Opened(calls, s)
BY CallGrows DEF Opened

(* Another argument of the innermost call.                                  *)
Waits(call) == call.given < Len(Params(call.name))
NextFormal(call) == Params(call.name)[call.given + 1]

LEMMA CallGiven ==
  ASSUME NEW c, NEW r, CallOK(c, r), Waits(c), Brings(NextFormal(c)) \subseteq r
  PROVE  /\ CallOK([c EXCEPT !.given = c.given + 1], r)
         /\ [c EXCEPT !.given = c.given + 1].name = c.name
<1> DEFINE d == [c EXCEPT !.given = c.given + 1]
<1>1. c \in [name : Routines, given : Nat]
  BY DEF CallOK
<1>2. d \in [name : Routines, given : Nat] /\ d.name = c.name /\ d.given = c.given + 1
  BY <1>1
<1> HIDE DEF d
<1>3. Len(Params(c.name)) \in Nat /\ c.given \in Nat
  BY <1>1, DeclaredFacts
<1>4. d.given <= Len(Params(d.name))
  BY <1>2, <1>3 DEF Waits
<1>5. \A k \in 1 .. d.given : k \in 1 .. c.given \/ k = c.given + 1
  BY <1>2, <1>3
<1>6. \A k \in 1 .. d.given : Brings(Params(d.name)[k]) \subseteq r
  BY <1>2, <1>5 DEF CallOK, NextFormal
<1>7. CallOK(d, r)
  BY <1>2, <1>4, <1>6 DEF CallOK
<1> QED BY <1>2, <1>7 DEF d

(* One more argument, whatever it was: of the call that waits for it.       *)
LEMMA GivenOpened ==
  ASSUME NEW calls, NEW r, Opened(calls, r), Len(calls) >= 1,
         Waits(Last(calls)), Brings(NextFormal(Last(calls))) \subseteq r
  PROVE  Opened(Given(calls), r)
<1>1. Sequence(calls) /\ Len(calls) \in Nat /\ DOMAIN calls = 1 .. Len(calls)
  BY SequenceFacts DEF Opened
<1>2. PICK m \in Nat : m = Len(calls)
  BY <1>1
<1>3. m \in DOMAIN calls /\ Last(calls) = calls[m] /\ m >= 1
  BY <1>1, <1>2 DEF Last
<1> DEFINE d == [calls[m] EXCEPT !.given = calls[m].given + 1]
           new == Front(calls) \o <<d>>
<1>4. CallOK(d, r) /\ d.name = calls[m].name
  BY <1>3, CallGiven DEF Opened
<1>5. Given(calls) = new
  <2>1. calls # <<>>
    <3>1. Len(<<>>) = 0
      OBVIOUS
    <3> QED BY <3>1
  <2> QED BY <1>3, <2>1 DEF Given
<1> HIDE DEF d
<1>6. Sequence(new) /\ Len(new) = m /\ new[m] = d /\ \A n \in 1 .. m - 1 : new[n] = calls[n]
  BY <1>1, <1>2, ReplaceLast
<1> HIDE DEF new
<1>7. DOMAIN new = 1 .. m
  BY <1>6, SequenceFacts
<1>8. \A n \in 1 .. m : n = m \/ n \in 1 .. m - 1
  BY <1>2
<1>9. ASSUME NEW k \in 1 .. m PROVE CallOK(new[k], r)
  BY <1>1, <1>2, <1>4, <1>6, <1>8 DEF Opened
<1>10. \A k \in 1 .. m : new[k].name = calls[k].name
  BY <1>4, <1>6, <1>8
<1>11. ASSUME NEW k \in 1 .. m, k < m
       PROVE  /\ new[k].given < Len(Params(new[k].name))
              /\ Result(new[k + 1].name)
                   \in type_equal_cast(Params(new[k].name)[new[k].given + 1])
  <2>1. k \in 1 .. m - 1 /\ k + 1 \in 1 .. m
    BY <1>2, <1>11
  <2>2. new[k] = calls[k] /\ new[k + 1].name = calls[k + 1].name
    BY <1>6, <1>10, <2>1
  <2>3. /\ calls[k].given < Len(Params(calls[k].name))
        /\ Result(calls[k + 1].name)
             \in type_equal_cast(Params(calls[k].name)[calls[k].given + 1])
    BY <1>1, <1>2, <1>11 DEF Opened
  <2> QED BY <2>2, <2>3
<1> QED BY <1>5, <1>6, <1>7, <1>9, <1>11 DEF Opened

(* The call around it, when the innermost is over.                          *)
LEMMA FrontOpened ==
  ASSUME NEW calls, NEW r, Opened(calls, r), Len(calls) >= 1
  PROVE  /\ Opened(Front(calls), r) /\ Len(Front(calls)) = Len(calls) - 1
         /\ Len(calls) >= 2 =>
              /\ Last(Front(calls)) = calls[Len(calls) - 1]
              /\ Waits(Last(Front(calls)))
              /\ Result(Last(calls).name) \in type_equal_cast(NextFormal(Last(Front(calls))))
              /\ NextFormal(Last(Front(calls))) \in Types
<1>1. Sequence(calls) /\ Len(calls) \in Nat /\ DOMAIN calls = 1 .. Len(calls)
  BY SequenceFacts DEF Opened
<1>2. PICK m \in Nat : m = Len(calls)
  BY <1>1
<1> DEFINE f == Front(calls)
<1>3. Sequence(f) /\ Len(f) = m - 1 /\ \A n \in 1 .. m - 1 : f[n] = calls[n]
  BY <1>1, <1>2, SequenceFront
<1> HIDE DEF f
<1>4. DOMAIN f = 1 .. m - 1
  BY <1>3, SequenceFacts
<1>5. \A k \in 1 .. m - 1 : k \in DOMAIN calls /\ CallOK(f[k], r)
  BY <1>1, <1>2, <1>3 DEF Opened
<1>6. ASSUME NEW k \in 1 .. m - 1, k < m - 1
      PROVE  /\ f[k].given < Len(Params(f[k].name))
             /\ Result(f[k + 1].name) \in type_equal_cast(Params(f[k].name)[f[k].given + 1])
  <2>1. k + 1 \in 1 .. m - 1 /\ k < m
    BY <1>2, <1>6
  <2>2. f[k] = calls[k] /\ f[k + 1] = calls[k + 1] /\ k \in DOMAIN calls
    BY <1>3, <1>5, <2>1
  <2> QED BY <1>2, <2>1, <2>2 DEF Opened
<1>7. Opened(f, r)
  BY <1>3, <1>4, <1>5, <1>6 DEF Opened
<1>8. ASSUME m >= 2
      PROVE  /\ Last(f) = calls[m - 1] /\ Waits(Last(f))
             /\ Result(Last(calls).name) \in type_equal_cast(NextFormal(Last(f)))
             /\ NextFormal(Last(f)) \in Types
  <2>1. m - 1 \in 1 .. m - 1 /\ m - 1 < m /\ (m - 1) + 1 = m
    BY <1>2, <1>8
  <2>2. Last(f) = calls[m - 1] /\ Last(calls) = calls[m] /\ m - 1 \in DOMAIN calls
    BY <1>2, <1>3, <1>5, <2>1 DEF Last
  <2>3. /\ calls[m - 1].given < Len(Params(calls[m - 1].name))
        /\ Result(calls[(m - 1) + 1].name)
             \in type_equal_cast(Params(calls[m - 1].name)[calls[m - 1].given + 1])
    BY <1>2, <2>1, <2>2 DEF Opened
  <2>4. Waits(Last(f)) /\ Result(Last(calls).name) \in type_equal_cast(NextFormal(Last(f)))
    BY <2>1, <2>2, <2>3 DEF Waits, NextFormal
  <2>5. PICK c : c = calls[m - 1]
    OBVIOUS
  <2>6. c.name \in Routines /\ c.given \in Nat /\ c.given < Len(Params(c.name))
    <3>1. c \in [name : Routines, given : Nat]
      BY <2>2, <2>5 DEF Opened, CallOK
    <3> QED BY <2>3, <2>5, <3>1
  <2>7. c.given + 1 \in 1 .. Len(Params(c.name))
    BY <2>6, DeclaredFacts
  <2> QED BY <2>2, <2>4, <2>5, <2>6, <2>7, DeclaredFacts DEF NextFormal
<1> QED BY <1>2, <1>3, <1>7, <1>8 DEF f

(* A call inside the innermost one, or the first.                           *)
LEMMA BeginOpened ==
  ASSUME NEW calls, NEW r, Opened(calls, r), NEW n \in Routines,
         calls = <<>> \/ (Len(calls) >= 1 /\ Waits(Last(calls))
                          /\ Result(n) \in type_equal_cast(NextFormal(Last(calls))))
  PROVE  Opened(Append(calls, [name |-> n, given |-> 0]), r)
<1> DEFINE c == [name |-> n, given |-> 0]
           new == Append(calls, c)
<1>1. Sequence(calls) /\ Len(calls) \in Nat /\ DOMAIN calls = 1 .. Len(calls)
  BY SequenceFacts DEF Opened
<1>2. PICK m \in Nat : m = Len(calls)
  BY <1>1
<1>3. CallOK(c, r) /\ c.name = n
  <2>1. c \in [name : Routines, given : Nat] /\ c.given = 0 /\ c.name = n
    OBVIOUS
  <2> QED BY <2>1, DeclaredFacts DEF CallOK
<1> HIDE DEF c
<1>4. Sequence(new) /\ Len(new) = m + 1 /\ new[m + 1] = c /\ \A k \in 1 .. m : new[k] = calls[k]
  BY <1>1, <1>2, SequenceAppend
<1> HIDE DEF new
<1>5. DOMAIN new = 1 .. m + 1 /\ \A k \in 1 .. m + 1 : k \in 1 .. m \/ k = m + 1
  BY <1>2, <1>4, SequenceFacts
<1>6. \A k \in DOMAIN new : CallOK(new[k], r)
  BY <1>1, <1>2, <1>3, <1>4, <1>5 DEF Opened
<1>7. ASSUME NEW k \in 1 .. m + 1, k < m + 1
      PROVE  /\ new[k].given < Len(Params(new[k].name))
             /\ Result(new[k + 1].name)
                  \in type_equal_cast(Params(new[k].name)[new[k].given + 1])
  <2>1. k \in 1 .. m /\ new[k] = calls[k] /\ k \in DOMAIN calls
    BY <1>1, <1>2, <1>4, <1>5, <1>7
  <2>2. CASE k < m
    <3>1. k + 1 \in 1 .. m /\ new[k + 1] = calls[k + 1]
      BY <1>2, <1>4, <2>1, <2>2
    <3> QED BY <1>2, <2>1, <2>2, <3>1 DEF Opened
  <2>3. CASE k = m
    <3>1. calls # <<>>
      <4>1. Len(<<>>) = 0
        OBVIOUS
      <4> QED BY <1>2, <2>1, <4>1
    <3>2. Last(calls) = calls[k] /\ new[k + 1].name = n
      BY <1>2, <1>3, <1>4, <2>3 DEF Last
    <3> QED BY <2>1, <3>1, <3>2 DEF Waits, NextFormal
  <2> QED BY <1>2, <2>1, <2>2, <2>3
<1> QED BY <1>4, <1>5, <1>6, <1>7 DEF new, c, Opened

-----------------------------------------------------------------------------
(* The operations of the compiler.                                         *)

LEMMA InitInductive ==
  ASSUME Init
  PROVE  Inductive
<1>1. Sequence(<<>>) /\ Len(<<>>) = 0 /\ DOMAIN <<>> = {}
  <2>1. <<>> \in Seq({})
    OBVIOUS
  <2> QED BY <2>1 DEF Sequence
<1>2. Opened(<<>>, Reach(code, uses, fixed)) /\ Coded(<<>>) /\ NamedIn(<<>>) = {}
  BY <1>1 DEF Opened, Coded, NamedIn
<1>3. Compiled
  <2>1. called \in Seq(Routines) /\ Len(called) <= MaxCalls
    <3>1. <<>> \in Seq(Routines) /\ 0 <= MaxCalls
      BY CallsAssumption
    <3> QED BY <1>1, <3>1 DEF Init
  <2> QED BY <1>2, <2>1 DEF Init, Compiled
<1>4. Reported
  BY DEF Init, Reported
<1>5. Machine
  <2>1. StackOf(stack, Len(objects))
    <3>1. <<>> \in Seq({}) /\ \A x \in {} : x.object \in 0 .. Len(objects)
      OBVIOUS
    <3>2. StackOf(<<>>, Len(objects))
      BY <3>1 DEF StackOf
    <3> QED BY <3>2 DEF Init
  <2>2. HeapOf(<<>>)
    BY <1>1 DEF HeapOf
  <2>3. pc \in 1 .. Len(code) + 1
    <3>1. 1 \in 1 .. 0 + 1
      OBVIOUS
    <3> QED BY <1>1, <3>1 DEF Init
  <2> QED BY <2>1, <2>2, <2>3 DEF Init, Machine
<1> QED BY <1>3, <1>4, <1>5 DEF Inductive

(* The current call, when one is open.                                      *)
LEMMA CurrentFacts ==
  ASSUME Compiled, open # <<>>
  PROVE  /\ Len(open) >= 1 /\ Len(open) \in Nat
         /\ CallOK(Current, Reach(code, uses, fixed)) /\ Current = Last(open)
         /\ Waiting <=> Waits(Current)
         /\ Waiting => Formal = NextFormal(Current) /\ Formal \in Types
<1>1. Sequence(open) /\ Len(open) \in Nat /\ DOMAIN open = 1 .. Len(open) /\ Len(open) >= 1
  BY SequenceFacts, SequenceNonempty DEF Compiled, Opened
<1>2. Current = open[Len(open)] /\ Len(open) \in DOMAIN open
  BY <1>1 DEF Current, Last
<1>3. CallOK(Current, Reach(code, uses, fixed))
  BY <1>2 DEF Compiled, Opened
<1>4. Waiting <=> Waits(Current)
  BY DEF Waiting, Waits
<1>5. ASSUME Waiting PROVE Formal = NextFormal(Current) /\ Formal \in Types
  <2>1. Formal = NextFormal(Current)
    BY DEF Formal, NextFormal
  <2>2. Current.name \in Routines /\ Current.given \in Nat
    <3>1. PICK c : c = Current
      OBVIOUS
    <3>2. c \in [name : Routines, given : Nat]
      BY <1>3, <3>1 DEF CallOK
    <3>3. c.name \in Routines /\ c.given \in Nat
      BY <3>2
    <3> QED BY <3>1, <3>3
  <2>3. Current.given + 1 \in 1 .. Len(Params(Current.name))
    BY <1>4, <1>5, <2>2, DeclaredFacts DEF Waits
  <2> QED BY <2>1, <2>2, <2>3, DeclaredFacts DEF NextFormal
<1> QED BY <1>1, <1>3, <1>4, <1>5 DEF Current

(* While a statement is compiled nothing has run.                           *)
LEMMA CompilingIdle ==
  ASSUME Inductive, phase = "compile", phase' \in {"compile", "report"},
         UNCHANGED <<reported, printed, pc, stack, objects>>, Len(code') \in Nat
  PROVE  Reported' /\ Machine'
<1>1. Reported'
  BY DEF Inductive, Reported
<1>2. pc' \in 1 .. Len(code') + 1
  BY DEF Inductive, Machine
<1>3. Machine'
  BY <1>2 DEF Inductive, Machine
<1> QED BY <1>1, <1>3

LEMMA ArgumentInductive ==
  ASSUME Inductive, NEW actual \in Types, Argument(actual)
  PROVE  Inductive'
<1> DEFINE load == Plain(<<Load(actual)>>)
           conversion == Converted(actual, Formal)
           e == Then(load, conversion)
           old == Reach(code, uses, fixed)
           new == Reach(code', uses', fixed')
<1>1. /\ phase = "compile" /\ Waiting /\ actual \in type_equal_cast(Formal)
      /\ Emit(e) /\ open' = Given(open)
      /\ UNCHANGED <<fixed, canvas, called, reported, printed, phase, pc, stack, objects>>
  BY DEF Argument, settings, report, machine
<1>2. Compiled /\ fixed \in BOOLEAN
  BY DEF Inductive, Compiled
<1>3. open # <<>>
  BY <1>1 DEF Waiting
<1>4. /\ Len(open) >= 1 /\ Waits(Last(open)) /\ Formal = NextFormal(Last(open)) /\ Formal \in Types
  BY <1>1, <1>2, <1>3, CurrentFacts
<1>5. /\ Asks(conversion) /\ NamedIn(conversion.code) \subseteq Classes(conversion.uses, fixed)
      /\ Brings(actual) = Brings(Formal)
  BY <1>1, <1>2, <1>4, ConvertedAsks
<1>6. Asks(load) /\ NamedIn(load.code) = {} /\ BroughtIn(load.code) = Brings(actual)
  BY LoadAsks
<1> HIDE DEF load, conversion
<1>7. /\ Asks(e) /\ NamedIn(e.code) = NamedIn(load.code) \cup NamedIn(conversion.code)
      /\ BroughtIn(e.code) = BroughtIn(load.code) \cup BroughtIn(conversion.code)
      /\ Classes(e.uses, fixed) = Classes(load.uses, fixed) \cup Classes(conversion.uses, fixed)
  <2>1. Asks(load) /\ Asks(conversion) /\ e = Then(load, conversion)
    BY <1>5, <1>6
  <2> HIDE DEF e
  <2> QED BY <2>1, ThenAsks
<1> HIDE DEF e
<1>8. Coded(code) /\ uses \subseteq Flags
  BY <1>2 DEF Compiled
<1>9. /\ Coded(code') /\ uses' \subseteq Flags /\ NamedIn(code') = NamedIn(code) \cup NamedIn(e.code)
      /\ new = old \cup Classes(e.uses, fixed) \cup BroughtIn(e.code)
      /\ Len(code') \in Nat
  BY <1>1, <1>7, <1>8, EmitGrows
<1> HIDE DEF old, new
<1>10. NamedIn(code) \subseteq old /\ Opened(open, old)
  BY <1>2 DEF Compiled, old
<1>11. NamedIn(code') \subseteq new
  BY <1>5, <1>6, <1>7, <1>9, <1>10
<1>12. Brings(NextFormal(Last(open))) \subseteq new
  BY <1>4, <1>5, <1>6, <1>7, <1>9
<1>13. Opened(open', new)
  <2>1. Opened(open, new)
    BY <1>9, <1>10, OpenedGrows
  <2> QED BY <1>1, <1>4, <1>12, <2>1, GivenOpened
<1>14. Compiled'
  <2>1. called # <<>>
    BY <1>2, <1>3 DEF Compiled
  <2> QED BY <1>1, <1>2, <1>9, <1>11, <1>13, <2>1 DEF Compiled, new
<1>15. Reported' /\ Machine'
  BY <1>1, <1>9, CompilingIdle
<1> QED BY <1>14, <1>15 DEF Inductive

LEMMA BeginInductive ==
  ASSUME Inductive, NEW n \in Routines, Begin(n)
  PROVE  Inductive'
<1> DEFINE e == Plain(Prefix(n, fixed))
           old == Reach(code, uses, fixed)
           new == Reach(code', uses', fixed')
<1>1. /\ phase = "compile" /\ Len(called) < MaxCalls
      /\ IF Waiting THEN Result(n) \in type_equal_cast(Formal) ELSE called = <<>>
      /\ Emit(e) /\ called' = Append(called, n)
      /\ open' = Append(open, [name |-> n, given |-> 0])
      /\ UNCHANGED <<fixed, canvas, reported, printed, phase, pc, stack, objects>>
  BY DEF Begin, settings, report, machine
<1>2. Compiled /\ fixed \in BOOLEAN /\ canvas \in Canvases
  BY DEF Inductive, Compiled
<1>3. Coded(Prefix(n, fixed)) /\ NamedIn(Prefix(n, fixed)) = {}
  BY <1>2, TableFacts
<1>4. Asks(e) /\ NamedIn(e.code) = {}
  BY <1>3 DEF Asks, Plain
<1> HIDE DEF e
<1>5. Coded(code) /\ uses \subseteq Flags
  BY <1>2 DEF Compiled
<1>6. /\ Coded(code') /\ uses' \subseteq Flags /\ NamedIn(code') = NamedIn(code) \cup NamedIn(e.code)
      /\ new = old \cup Classes(e.uses, fixed) \cup BroughtIn(e.code)
      /\ Len(code') \in Nat
  BY <1>1, <1>4, <1>5, EmitGrows
<1> HIDE DEF old, new
<1>7. NamedIn(code) \subseteq old /\ Opened(open, old)
  BY <1>2 DEF Compiled, old
<1>8. NamedIn(code') \subseteq new
  BY <1>4, <1>6, <1>7
<1>9. open = <<>> \/ (Len(open) >= 1 /\ Waits(Last(open))
                      /\ Result(n) \in type_equal_cast(NextFormal(Last(open))))
  <2>1. CASE Waiting
    <3>1. open # <<>>
      BY <2>1 DEF Waiting
    <3> QED BY <1>1, <1>2, <2>1, <3>1, CurrentFacts
  <2>2. CASE ~Waiting
    BY <1>1, <1>2, <2>2 DEF Compiled
  <2> QED BY <2>1, <2>2
<1>10. Opened(open', new)
  <2>1. Opened(open, new)
    BY <1>6, <1>7, OpenedGrows
  <2> QED BY <1>1, <1>9, <2>1, BeginOpened
<1>11. called' \in Seq(Routines) /\ Len(called') <= MaxCalls /\ called' # <<>>
  <2>1. called \in Seq(Routines)
    BY <1>2 DEF Compiled
  <2>2. called' \in Seq(Routines) /\ Len(called') = Len(called) + 1 /\ Len(called) \in Nat
    BY <1>1, <2>1
  <2> QED BY <1>1, <2>2, CallsAssumption
<1>12. Compiled'
  BY <1>1, <1>2, <1>6, <1>8, <1>10, <1>11 DEF Compiled, new
<1>13. Reported' /\ Machine'
  BY <1>1, <1>6, CompilingIdle
<1> QED BY <1>12, <1>13 DEF Inductive

(* The end of a call: all of its arguments have been given, so that what    *)
(* its code or its result needs has been asked for.                         *)
LEMMA EndAsks ==
  ASSUME NEW c, NEW r, NEW s, CallOK(c, r), ~Waits(c), fixed \in BOOLEAN, canvas \in Canvases,
         r \subseteq s, Classes(Table[fixed][canvas][c.name].uses, fixed) \subseteq s
  PROVE  /\ NamedIn(Table[fixed][canvas][c.name].code) \subseteq s
         /\ Brings(Result(c.name)) \subseteq s
<1>1. c.name \in Routines /\ c.given \in Nat
  <2>1. c \in [name : Routines, given : Nat]
    BY DEF CallOK
  <2> QED BY <2>1
<1>2. Params(c.name) \in Seq(Types) /\ Len(Params(c.name)) \in Nat
  BY <1>1, DeclaredFacts
<1>3. c.given = Len(Params(c.name))
  BY <1>1, <1>2 DEF CallOK, Waits
<1>4. ASSUME NEW t \in Range(Params(c.name)) PROVE Brings(t) \subseteq r
  <2>1. PICK k \in DOMAIN Params(c.name) : t = Params(c.name)[k]
    BY DEF Range
  <2>2. k \in 1 .. c.given
    BY <1>2, <1>3
  <2> QED BY <2>1, <2>2 DEF CallOK
<1>5. UNION {Brings(t) : t \in Range(Params(c.name))} \subseteq s
  BY <1>4
<1> QED BY <1>1, <1>5, TableFacts

LEMMA EndInductive ==
  ASSUME Inductive, End
  PROVE  Inductive'
<1> DEFINE n == Current.name
           outer == Front(open)
           body == Table[fixed][canvas][n]
           conversion == Converted(Result(n), NextFormal(Last(outer)))
           e == IF outer = <<>> THEN body ELSE Then(body, conversion)
           old == Reach(code, uses, fixed)
           new == Reach(code', uses', fixed')
<1>1. /\ phase = "compile" /\ open # <<>> /\ ~Waiting
      /\ open' = Given(outer) /\ Emit(e)
      /\ phase' = IF outer = <<>> THEN "report" ELSE phase
      /\ UNCHANGED <<fixed, canvas, called, reported, printed, pc, stack, objects>>
  BY DEF End, settings, report, machine, NextFormal
<1>2. Compiled /\ fixed \in BOOLEAN /\ canvas \in Canvases
  BY DEF Inductive, Compiled
<1>3. Len(open) >= 1 /\ Len(open) \in Nat /\ CallOK(Current, old) /\ ~Waits(Current)
      /\ Current = Last(open)
  BY <1>1, <1>2, CurrentFacts
<1>4. n \in Routines
  <2>1. PICK c : c = Current
    OBVIOUS
  <2>2. c \in [name : Routines, given : Nat]
    BY <1>3, <2>1 DEF CallOK
  <2> QED BY <2>1, <2>2
<1>5. Asks(body)
  BY <1>2, <1>4, TableFacts DEF Asks
<1>6. Opened(open, old) /\ NamedIn(code) \subseteq old
  BY <1>2 DEF Compiled
<1>7. /\ Opened(outer, old) /\ Len(outer) = Len(open) - 1
      /\ Len(open) >= 2 =>
           /\ Waits(Last(outer))
           /\ Result(n) \in type_equal_cast(NextFormal(Last(outer)))
           /\ NextFormal(Last(outer)) \in Types
  BY <1>3, <1>6, FrontOpened
<1>8. outer # <<>> => Len(open) >= 2
  <2>1. outer # <<>> => Len(outer) >= 1
    BY <1>7, SequenceNonempty DEF Opened
  <2> QED BY <1>3, <1>7, <2>1
<1>9. Coded(code) /\ uses \subseteq Flags
  BY <1>2 DEF Compiled
<1>10. ASSUME outer # <<>>
       PROVE  /\ Asks(conversion) /\ NamedIn(conversion.code) \subseteq Classes(conversion.uses, fixed)
              /\ Brings(Result(n)) = Brings(NextFormal(Last(outer)))
  BY <1>2, <1>7, <1>8, <1>10, ConvertedAsks
<1> HIDE DEF outer, conversion, n, body
<1>11. /\ Asks(e) /\ Classes(body.uses, fixed) \subseteq Classes(e.uses, fixed)
       /\ NamedIn(e.code) \subseteq NamedIn(body.code) \cup Classes(e.uses, fixed)
  <2>1. CASE outer = <<>>
    BY <1>5, <2>1
  <2>2. CASE outer # <<>>
    <3>1. /\ Asks(Then(body, conversion))
          /\ NamedIn(Then(body, conversion).code) = NamedIn(body.code) \cup NamedIn(conversion.code)
          /\ Classes(Then(body, conversion).uses, fixed)
               = Classes(body.uses, fixed) \cup Classes(conversion.uses, fixed)
      <4>1. Asks(body) /\ Asks(conversion)
        BY <1>5, <1>10, <2>2
      <4> HIDE DEF e
      <4> QED BY <4>1, ThenAsks
    <3> QED BY <1>10, <2>2, <3>1
  <2> QED BY <2>1, <2>2
<1> HIDE DEF e
<1>12. /\ Coded(code') /\ uses' \subseteq Flags /\ NamedIn(code') = NamedIn(code) \cup NamedIn(e.code)
       /\ new = old \cup Classes(e.uses, fixed) \cup BroughtIn(e.code)
       /\ Len(code') \in Nat
  BY <1>1, <1>9, <1>11, EmitGrows
<1> HIDE DEF old, new
<1>13. NamedIn(body.code) \subseteq new /\ Brings(Result(n)) \subseteq new
  BY <1>2, <1>3, <1>11, <1>12, EndAsks DEF body, n
<1>14. NamedIn(code') \subseteq new
  BY <1>6, <1>11, <1>12, <1>13
<1>15. Opened(open', new)
  <2>1. Opened(outer, new)
    BY <1>7, <1>12, OpenedGrows
  <2>2. CASE outer = <<>>
    BY <1>1, <2>1, <2>2 DEF Given
  <2>3. CASE outer # <<>>
    <3>1. Len(outer) >= 1 /\ Waits(Last(outer)) /\ Brings(NextFormal(Last(outer))) \subseteq new
      BY <1>3, <1>7, <1>8, <1>10, <1>13, <2>3
    <3> QED BY <1>1, <2>1, <3>1, GivenOpened
  <2> QED BY <2>2, <2>3
<1>16. Compiled'
  <2>1. called # <<>>
    BY <1>1, <1>2 DEF Compiled
  <2> QED BY <1>1, <1>2, <1>12, <1>14, <1>15, <2>1 DEF Compiled, new
<1>17. Reported' /\ Machine'
  BY <1>1, <1>12, CompilingIdle
<1> QED BY <1>16, <1>17 DEF Inductive

LEMMA LastOfTwo ==
  ASSUME NEW a, NEW b
  PROVE  Last(<<a>> \o <<b>>) = b
<1>1. PICK s : s = <<a>>
  OBVIOUS
<1>2. PICK t : t = <<b>>
  OBVIOUS
<1>3. s \in Seq({a}) /\ Len(s) = 1 /\ t \in Seq({b}) /\ Len(t) = 1 /\ t[1] = b
  BY <1>1, <1>2
<1>4. Sequence(s) /\ Sequence(t)
  BY <1>3 DEF Sequence
<1>5. Len(s \o t) = Len(s) + Len(t) /\ \A n \in 1 .. Len(t) : (s \o t)[Len(s) + n] = t[n]
  BY <1>4, SequenceJoin
<1>6. Len(s \o t) = 2
  BY <1>3, <1>5
<1>7. (s \o t)[2] = b
  <2>1. 1 \in 1 .. Len(t) /\ Len(s) + 1 = 2
    BY <1>3
  <2> QED BY <1>3, <1>5, <2>1
<1> QED BY <1>1, <1>2, <1>6, <1>7 DEF Last

LEMMA ReportInductive ==
  ASSUME Inductive, Report
  PROVE  Inductive'
<1>1. /\ phase = "report" /\ phase' = "run" /\ reported' = Classes(uses, fixed)
      /\ printed' = FinalSwitch(0)
      /\ UNCHANGED <<fixed, canvas, called, open, code, uses, pc, stack, objects>>
  BY DEF Report, settings, machine, PrintFinalMessage
<1>2. Compiled'
  BY <1>1 DEF Inductive, Compiled
<1>3. printed' \in {"", "Done"}
  <2>1. FinalSwitch(0) = Last(<<"Done">> \o <<"">>)
    BY DEF FinalSwitch
  <2>2. Last(<<"Done">> \o <<"">>) = ""
    BY LastOfTwo
  <2> QED BY <1>1, <2>1, <2>2
<1>4. Reported'
  BY <1>1, <1>3 DEF Reported
<1>5. Machine'
  BY <1>1 DEF Inductive, Machine
<1> QED BY <1>2, <1>4, <1>5 DEF Inductive

-----------------------------------------------------------------------------
(* The machine.                                                            *)

LEMMA StackGrows ==
  ASSUME NEW s, NEW n \in Nat, StackOf(s, n)
  PROVE  StackOf(s, n + 1)
<1>1. PICK S : s \in Seq(S) /\ \A x \in S : x.object \in 0 .. n
  BY DEF StackOf
<1>2. \A x \in S : x.object \in 0 .. n + 1
  BY <1>1
<1> QED BY <1>1, <1>2 DEF StackOf

LEMMA StackPush ==
  ASSUME NEW s, NEW n \in Nat, StackOf(s, n), NEW x, x.object \in 0 .. n
  PROVE  StackOf(Append(s, x), n)
<1>1. PICK S : s \in Seq(S) /\ \A y \in S : y.object \in 0 .. n
  BY DEF StackOf
<1>2. s \in Seq(S \cup {x}) /\ x \in S \cup {x}
  BY <1>1
<1>3. Append(s, x) \in Seq(S \cup {x})
  BY <1>2
<1>4. \A y \in S \cup {x} : y.object \in 0 .. n
  BY <1>1
<1> QED BY <1>3, <1>4 DEF StackOf

LEMMA StackBelow ==
  ASSUME NEW s, NEW n \in Nat, StackOf(s, n), NEW k \in Nat
  PROVE  StackOf(SubSeq(s, 1, Len(s) - k), n)
<1>1. PICK S : s \in Seq(S) /\ \A y \in S : y.object \in 0 .. n
  BY DEF StackOf
<1>2. Len(s) \in Nat
  BY <1>1
<1>3. \A i \in 1 .. Len(s) - k : s[i] \in S
  BY <1>1, <1>2
<1>4. SubSeq(s, 1, Len(s) - k) \in Seq(S)
  BY <1>2, <1>3, SubSeqProperties
<1> QED BY <1>1, <1>4 DEF StackOf

(* What the instructions that take their operands from the stack have.      *)
LEMMA TakesOperands ==
  ASSUME Inductive, Running
  PROVE  /\ phase = "run" /\ pc + 1 \in 1 .. Len(code) + 1 /\ Len(objects) \in Nat
         /\ StackOf(stack, Len(objects)) /\ HeapOf(objects)
         /\ I.op \in {"static", "virtual", "special", "compute", "if", "goto"} =>
              Len(I.params) \in Nat /\ Len(Operands) \in Nat
<1>1. Sequence(code) /\ Len(code) \in Nat /\ DOMAIN code = 1 .. Len(code)
  BY SequenceFacts DEF Inductive, Compiled, Coded
<1>2. pc \in 1 .. Len(code) + 1 /\ pc <= Len(code) /\ phase = "run"
  BY DEF Inductive, Machine, Running
<1>3. pc \in DOMAIN code /\ pc + 1 \in 1 .. Len(code) + 1
  BY <1>1, <1>2
<1>4. StackOf(stack, Len(objects)) /\ HeapOf(objects)
  BY DEF Inductive, Machine
<1>5. Len(objects) \in Nat
  BY <1>4, SequenceFacts DEF HeapOf
<1>6. ASSUME I.op \in {"static", "virtual", "special", "compute", "if", "goto"}
      PROVE  Len(I.params) \in Nat /\ Len(Operands) \in Nat
  <2>1. Sequence(I.params)
    BY <1>3, <1>6 DEF Inductive, Compiled, Coded, I
  <2>2. <<I.class>> \in Seq({I.class})
    OBVIOUS
  <2>3. Sequence(<<I.class>>)
    BY <2>2 DEF Sequence
  <2>4. Sequence(<<I.class>> \o I.params)
    BY <2>1, <2>3, SequenceJoin
  <2>5. Sequence(Operands)
    BY <2>1, <2>4 DEF Operands
  <2> QED BY <2>1, <2>5, SequenceFacts
<1> QED BY <1>2, <1>3, <1>4, <1>5, <1>6

(* A step of the machine, after which objects are still in the heap.        *)
LEMMA RunKeeps ==
  ASSUME Inductive, phase = "run",
         UNCHANGED <<fixed, canvas, called, open, code, uses, reported, printed, phase>>,
         pc' \in 1 .. Len(code) + 1, StackOf(stack', Len(objects')), HeapOf(objects')
  PROVE  Inductive'
<1>1. Compiled'
  BY DEF Inductive, Compiled
<1>2. Reported'
  BY DEF Inductive, Reported
<1>3. Machine'
  BY DEF Inductive, Machine
<1> QED BY <1>1, <1>2, <1>3 DEF Inductive

LEMMA StepKeeps ==
  ASSUME Inductive, NEW s, NEW h, Step(s, h), StackOf(s, Len(h)), HeapOf(h)
  PROVE  Inductive'
<1>1. /\ Running /\ stack' = s /\ objects' = h /\ pc' = pc + 1
      /\ UNCHANGED <<fixed, canvas, called, open, code, uses, reported, printed, phase>>
  BY DEF Step, settings, report
<1>2. phase = "run" /\ pc + 1 \in 1 .. Len(code) + 1
  BY <1>1, TakesOperands
<1> QED BY <1>1, <1>2, RunKeeps

(* An object more in the heap, and one that changes.                        *)
States == {"Raw", "Given", "Made", "Spoilt"}

LEMMA HeapGrows ==
  ASSUME NEW h, HeapOf(h), NEW x, x.state \in States
  PROVE  HeapOf(Append(h, x)) /\ Len(Append(h, x)) = Len(h) + 1
<1>1. Sequence(h) /\ Len(h) \in Nat /\ DOMAIN h = 1 .. Len(h)
  BY SequenceFacts DEF HeapOf
<1>2. PICK g : g = Append(h, x)
  OBVIOUS
<1>3. Sequence(g) /\ Len(g) = Len(h) + 1 /\ g[Len(h) + 1] = x /\ \A n \in 1 .. Len(h) : g[n] = h[n]
  BY <1>1, <1>2, SequenceAppend
<1>4. DOMAIN g = 1 .. Len(h) + 1
  BY <1>3, SequenceFacts
<1>5. ASSUME NEW k \in 1 .. Len(h) + 1 PROVE g[k].state \in States
  <2>1. k \in 1 .. Len(h) \/ k = Len(h) + 1
    BY <1>1
  <2> QED BY <1>1, <1>3, <2>1 DEF HeapOf, States
<1> QED BY <1>2, <1>3, <1>4, <1>5 DEF HeapOf, States

LEMMA HeapChanges ==
  ASSUME NEW h, HeapOf(h), NEW k, NEW x, k \in DOMAIN h => x.state \in States
  PROVE  HeapOf([h EXCEPT ![k] = x]) /\ Len([h EXCEPT ![k] = x]) = Len(h)
<1>1. PICK S : h \in Seq(S)
  BY DEF HeapOf, Sequence
<1>2. h \in Seq(S \cup {x}) /\ Len(h) \in Nat /\ DOMAIN h = 1 .. Len(h)
  BY <1>1
<1> DEFINE g == [h EXCEPT ![k] = x]
<1>3. h \in [1 .. Len(h) -> S \cup {x}]
  BY <1>2
<1>4. g \in [1 .. Len(h) -> S \cup {x}] /\ DOMAIN g = 1 .. Len(h)
  BY <1>3
<1>5. \A j \in DOMAIN h : g[j] = IF j = k THEN x ELSE h[j]
  BY <1>2
<1> HIDE DEF g
<1>6. g \in Seq(S \cup {x}) /\ Len(g) = Len(h)
  BY <1>2, <1>4
<1>7. ASSUME NEW j \in DOMAIN g PROVE g[j].state \in States
  <2>1. j \in DOMAIN h
    BY <1>2, <1>4
  <2>2. CASE j = k
    BY <1>5, <2>1, <2>2
  <2>3. CASE j # k
    BY <1>5, <2>1, <2>3 DEF HeapOf, States
  <2> QED BY <2>2, <2>3
<1>8. HeapOf(g)
  BY <1>6, <1>7 DEF HeapOf, Sequence, States
<1> QED BY <1>6, <1>8 DEF g

LEMMA PushOfKeeps ==
  ASSUME Inductive, Running, NEW t, NEW from, NEW state \in States, PushOf(t, from, state)
  PROVE  Inductive'
<1>1. Len(objects) \in Nat /\ StackOf(stack, Len(objects)) /\ HeapOf(objects)
  BY TakesOperands
<1>2. CASE t = "Real"
  <2> DEFINE x == Object(t, Len(objects) + 1)
             o == Is(state, from)
  <2>1. Step(Append(stack, x), Append(objects, o))
    BY <1>2 DEF PushOf
  <2>2. x.object \in 0 .. Len(objects) + 1 /\ o.state \in States
    BY <1>1 DEF Object, Is
  <2> HIDE DEF x, o
  <2>3. HeapOf(Append(objects, o)) /\ Len(Append(objects, o)) = Len(objects) + 1
    BY <1>1, <2>2, HeapGrows
  <2>4. StackOf(Append(stack, x), Len(objects) + 1)
    <3>1. Len(objects) + 1 \in Nat /\ StackOf(stack, Len(objects) + 1)
      BY <1>1, StackGrows
    <3> QED BY <2>2, <3>1, StackPush
  <2> QED BY <2>1, <2>3, <2>4, StepKeeps
<1>3. CASE t # "Real"
  <2> DEFINE x == Item(t, from)
  <2>1. Step(Append(stack, x), objects)
    BY <1>3 DEF PushOf
  <2>2. x.object \in 0 .. Len(objects)
    BY <1>1 DEF Item
  <2> HIDE DEF x
  <2>3. StackOf(Append(stack, x), Len(objects))
    BY <1>1, <2>2, StackPush
  <2> QED BY <1>1, <2>1, <2>3, StepKeeps
<1> QED BY <1>2, <1>3

LEMMA PushInductive ==
  ASSUME Inductive, Push
  PROVE  Inductive'
<1>1. Running
  BY DEF Push
<1>2. Len(objects) \in Nat /\ StackOf(stack, Len(objects)) /\ HeapOf(objects)
  BY <1>1, TakesOperands
<1>3. "Given" \in States /\ "Raw" \in States
  BY DEF States
<1>4. CASE Step(Append(stack, Object(I.class, Len(objects) + 1)), Append(objects, Is("Raw", <<>>)))
  <2> DEFINE x == Object(I.class, Len(objects) + 1)
             o == Is("Raw", <<>>)
  <2>1. x.object \in 0 .. Len(objects) + 1 /\ o.state \in States
    BY <1>2, <1>3 DEF Object, Is
  <2> HIDE DEF x, o
  <2>2. HeapOf(Append(objects, o)) /\ Len(Append(objects, o)) = Len(objects) + 1
    BY <1>2, <2>1, HeapGrows
  <2>3. StackOf(Append(stack, x), Len(objects) + 1)
    <3>1. Len(objects) + 1 \in Nat /\ StackOf(stack, Len(objects) + 1)
      BY <1>2, StackGrows
    <3> QED BY <2>1, <3>1, StackPush
  <2> QED BY <1>4, <2>2, <2>3, StepKeeps DEF x, o
<1>5. CASE PushOf(I.type, <<>>, "Given")
  BY <1>1, <1>3, <1>5, PushOfKeeps
<1>6. CASE PushOf(I.type, <<I.arg>>, "Given")
  BY <1>1, <1>3, <1>6, PushOfKeeps
<1> QED BY <1>4, <1>5, <1>6 DEF Push

LEMMA RearrangeInductive ==
  ASSUME Inductive, Rearrange
  PROVE  Inductive'
<1>1. Running /\ Executable /\ I.op \in {"dup", "dup_x1", "swap", "pop", "pop2", "put"}
  BY DEF Rearrange
<1>2. Len(objects) \in Nat /\ StackOf(stack, Len(objects)) /\ HeapOf(objects)
  BY <1>1, TakesOperands
<1>3. PICK S : stack \in Seq(S) /\ \A x \in S : x.object \in 0 .. Len(objects)
  BY <1>2 DEF StackOf
<1>4. Len(stack) \in Nat
  BY <1>3
<1> DEFINE x == Last(stack)
           y == Top(2)[1]
           new == CASE I.op = "dup"    -> Append(stack, x)
                    [] I.op = "dup_x1" -> Below(2) \o <<x, y, x>>
                    [] I.op = "swap"   -> Below(2) \o <<x, y>>
                    [] I.op = "pop2"   -> Below(2)
                    [] OTHER           -> Below(1)
<1>5. Step(new, objects)
  BY DEF Rearrange
<1>6. Below(1) \in Seq(S) /\ Below(2) \in Seq(S)
  <2>1. \A i \in 1 .. Len(stack) - 1 : stack[i] \in S
    BY <1>3, <1>4
  <2>2. \A i \in 1 .. Len(stack) - 2 : stack[i] \in S
    BY <1>3, <1>4
  <2> QED BY <1>4, <2>1, <2>2, SubSeqProperties DEF Below
<1>7. ASSUME Len(stack) >= 1 PROVE x \in S
  BY <1>3, <1>4, <1>7 DEF Last
<1>8. ASSUME Len(stack) >= 2 PROVE y \in S
  <2>1. \A i \in Len(stack) - 2 + 1 .. Len(stack) : stack[i] \in S
    BY <1>3, <1>4, <1>8
  <2>2. PICK t : t = SubSeq(stack, Len(stack) - 2 + 1, Len(stack))
    OBVIOUS
  <2>3. t \in Seq(S) /\ Len(t) = IF Len(stack) - 2 + 1 <= Len(stack)
                                 THEN Len(stack) - (Len(stack) - 2 + 1) + 1 ELSE 0
    BY <1>4, <2>1, <2>2, SubSeqProperties
  <2>4. Len(t) = 2
    BY <1>4, <2>3
  <2>5. t[1] \in S
    BY <2>3, <2>4
  <2> QED BY <2>2, <2>5 DEF Top
<1>9. /\ I.op = "dup" => Len(stack) >= 1
      /\ I.op \in {"dup_x1", "swap"} => Len(stack) >= 2
  <2>1. I.op = "dup" => Words(1)
    BY <1>1 DEF Executable
  <2>2. I.op \in {"dup_x1", "swap"} => Words(2)
    BY <1>1 DEF Executable
  <2> QED BY <2>1, <2>2 DEF Words
<1>10. new \in Seq(S)
  <2> HIDE DEF x, y
  <2>1. CASE I.op = "dup"
    <3>1. new = Append(stack, x)
      BY <2>1
    <3>2. x \in S
      BY <1>7, <1>9, <2>1
    <3>3. Append(stack, x) \in Seq(S)
      BY <1>3, <3>2
    <3> HIDE DEF new
    <3> QED BY <3>1, <3>3
  <2>2. CASE I.op = "dup_x1"
    <3>1. new = Below(2) \o <<x, y, x>>
      BY <2>2
    <3>2. x \in S /\ y \in S
      BY <1>4, <1>7, <1>8, <1>9, <2>2
    <3>3. <<x, y, x>> \in Seq(S)
      BY <3>2
    <3>4. Below(2) \o <<x, y, x>> \in Seq(S)
      BY <1>6, <3>3
    <3> HIDE DEF new
    <3> QED BY <3>1, <3>4
  <2>3. CASE I.op = "swap"
    <3>1. new = Below(2) \o <<x, y>>
      BY <2>3
    <3>2. x \in S /\ y \in S
      BY <1>4, <1>7, <1>8, <1>9, <2>3
    <3>3. <<x, y>> \in Seq(S)
      BY <3>2
    <3>4. Below(2) \o <<x, y>> \in Seq(S)
      BY <1>6, <3>3
    <3> HIDE DEF new
    <3> QED BY <3>1, <3>4
  <2>4. CASE I.op \in {"pop", "pop2", "put"}
    BY <1>6, <2>4
  <2> QED BY <1>1, <2>1, <2>2, <2>3, <2>4
<1>11. StackOf(new, Len(objects))
  BY <1>3, <1>10 DEF StackOf
<1> HIDE DEF new
<1> QED BY <1>2, <1>5, <1>11, StepKeeps

LEMMA InvokeInductive ==
  ASSUME Inductive, Invoke
  PROVE  Inductive'
<1>1. Running /\ I.op \in {"static", "virtual", "compute"}
  BY DEF Invoke
<1>2. Len(objects) \in Nat /\ StackOf(stack, Len(objects)) /\ HeapOf(objects)
      /\ Len(Operands) \in Nat
  BY <1>1, TakesOperands
<1> DEFINE n == Len(Operands)
           args == Top(n)
           from == FromAll(args)
           k == args[1].object
           o == Is(IF objects[k].state = "Given" THEN "Spoilt" ELSE objects[k].state, from)
<1>3. StackOf(Below(n), Len(objects))
  BY <1>2, StackBelow DEF Below
<1>4. CASE Step(Below(n), [objects EXCEPT ![k] = o])
  <2>1. k \in DOMAIN objects => o.state \in States
    BY <1>2 DEF HeapOf, States, Is
  <2> HIDE DEF o, k, n
  <2>2. HeapOf([objects EXCEPT ![k] = o]) /\ Len([objects EXCEPT ![k] = o]) = Len(objects)
    BY <1>2, <2>1, HeapChanges
  <2> QED BY <1>3, <1>4, <2>2, StepKeeps
<1>5. CASE Step(Below(n), objects)
  BY <1>2, <1>3, <1>5, StepKeeps
<1>6. CASE Step(Append(Below(n), Item(I.result, from)), objects)
  <2> DEFINE x == Item(I.result, from)
  <2>1. x.object \in 0 .. Len(objects)
    BY <1>2 DEF Item
  <2> HIDE DEF n, x
  <2>2. StackOf(Append(Below(n), x), Len(objects))
    BY <1>2, <1>3, <2>1, StackPush
  <2> QED BY <1>2, <1>6, <2>2, StepKeeps DEF x
<1> QED BY <1>4, <1>5, <1>6 DEF Invoke

LEMMA InitialiseInductive ==
  ASSUME Inductive, Initialise
  PROVE  Inductive'
<1>1. Running /\ I.op = "special"
  BY DEF Initialise
<1>2. Len(objects) \in Nat /\ StackOf(stack, Len(objects)) /\ HeapOf(objects)
      /\ Len(I.params) \in Nat
  BY <1>1, TakesOperands
<1> DEFINE n == Len(I.params)
           o == Is("Made", FromAll(Top(n)))
           k == Receiver.object
<1>3. Step(Below(n + 1), [objects EXCEPT ![k] = o])
  BY DEF Initialise
<1>4. StackOf(Below(n + 1), Len(objects))
  <2>1. n + 1 \in Nat
    BY <1>2
  <2> QED BY <1>2, <2>1, StackBelow DEF Below
<1>5. o.state \in States
  BY DEF Is, States
<1> HIDE DEF n, o, k
<1>6. HeapOf([objects EXCEPT ![k] = o]) /\ Len([objects EXCEPT ![k] = o]) = Len(objects)
  BY <1>2, <1>5, HeapChanges
<1> QED BY <1>3, <1>4, <1>6, StepKeeps

LEMMA BranchInductive ==
  ASSUME Inductive, Branch
  PROVE  Inductive'
<1>1. /\ Running /\ I.op \in {"if", "goto"}
      /\ stack' = Below(Len(I.params))
      /\ pc' \in Targets \cup (IF I.op = "if" THEN {pc + 1} ELSE {})
      /\ UNCHANGED <<fixed, canvas, called, open, code, uses, reported, printed, phase, objects>>
  BY DEF Branch, settings, report
<1>2. /\ Len(objects) \in Nat /\ StackOf(stack, Len(objects)) /\ HeapOf(objects)
      /\ Len(I.params) \in Nat /\ phase = "run" /\ pc + 1 \in 1 .. Len(code) + 1
  BY <1>1, TakesOperands
<1>3. pc' \in 1 .. Len(code) + 1
  BY <1>1, <1>2 DEF Targets
<1>4. StackOf(stack', Len(objects'))
  BY <1>1, <1>2, StackBelow DEF Below
<1> QED BY <1>1, <1>2, <1>3, <1>4, RunKeeps

-----------------------------------------------------------------------------
(* The theorems.                                                           *)

LEMMA NextInductive ==
  ASSUME Inductive, [Next]_vars
  PROVE  Inductive'
<1>1. CASE UNCHANGED vars
  <2>1. Compiled'
    BY <1>1 DEF vars, Inductive, Compiled
  <2>2. Reported'
    BY <1>1 DEF vars, Inductive, Reported
  <2>3. Machine'
    BY <1>1 DEF vars, Inductive, Machine
  <2> QED BY <2>1, <2>2, <2>3 DEF Inductive
<1>2. CASE \E n \in Routines : Begin(n)
  BY <1>2, BeginInductive
<1>3. CASE \E t \in Types : Argument(t)
  BY <1>3, ArgumentInductive
<1>4. CASE End \/ Report
  BY <1>4, EndInductive, ReportInductive
<1>5. CASE Push \/ Rearrange \/ Invoke \/ Initialise \/ Branch
  BY <1>5, PushInductive, RearrangeInductive, InvokeInductive, InitialiseInductive,
     BranchInductive
<1> QED BY <1>1, <1>2, <1>3, <1>4, <1>5 DEF Next

(* Of a call that is open, every argument that has been given is of a type  *)
(* whose helper class is asked for, and so are the classes that the code    *)
(* names; the machine only holds objects of its heap.                       *)
THEOREM InductiveInvariant == Spec => []Inductive
<1>1. Init => Inductive
  BY InitInductive
<1>2. Inductive /\ [Next]_vars => Inductive'
  BY NextInductive
<1> QED BY <1>1, <1>2, PTL DEF Spec

LEMMA InductiveTypes == Inductive => TypeOK
<1> SUFFICES ASSUME Inductive PROVE TypeOK
  OBVIOUS
<1>1. \A k \in DOMAIN open : open[k].name \in Routines
                             /\ open[k].given \in 0 .. Len(Params(open[k].name))
  <2> SUFFICES ASSUME NEW k \in DOMAIN open
               PROVE  open[k].name \in Routines /\ open[k].given \in 0 .. Len(Params(open[k].name))
    OBVIOUS
  <2>1. PICK c : c = open[k]
    OBVIOUS
  <2>2. c \in [name : Routines, given : Nat] /\ c.given <= Len(Params(c.name))
    BY <2>1 DEF Inductive, Compiled, Opened, CallOK
  <2>3. c.name \in Routines /\ c.given \in Nat
    BY <2>2
  <2>4. c.given \in 0 .. Len(Params(c.name))
    BY <2>2, <2>3, DeclaredFacts
  <2> QED BY <2>1, <2>3, <2>4
<1>2. reported \subseteq Helpers \cup {"Real$NumberFormat"}
  <2>1. Classes(uses, fixed) \subseteq Helpers \cup {"Real$NumberFormat"}
    BY DEF Inductive, Compiled, Classes, Helpers, Flags
  <2> QED BY <2>1 DEF Inductive, Reported
<1>3. pc \in 1 .. Len(code) + 1
  BY DEF Inductive, Machine
<1>4. \A k \in DOMAIN stack : stack[k].object \in 0 .. Len(objects)
  <2>1. PICK S : stack \in Seq(S) /\ \A x \in S : x.object \in 0 .. Len(objects)
    BY DEF Inductive, Machine, StackOf
  <2>2. \A k \in DOMAIN stack : stack[k] \in S
    BY <2>1
  <2> QED BY <2>1, <2>2
<1>5. \A k \in DOMAIN objects : objects[k].state \in {"Raw", "Given", "Made", "Spoilt"}
  BY DEF Inductive, Machine, HeapOf
<1> QED BY <1>1, <1>2, <1>3, <1>4, <1>5 DEF Inductive, Compiled, Reported, TypeOK

(* Every variable of the compiler and of the machine keeps its type, and no *)
(* call is given more arguments than its signature has.                     *)
THEOREM TypesHold == Spec => []TypeOK
BY InductiveInvariant, InductiveTypes, PTL

LEMMA InductiveAnnounced == Inductive => Announced
<1>1. Inductive /\ phase = "run" => NamedIn(code) \subseteq reported \cup BroughtIn(code)
  BY DEF Inductive, Compiled, Reported, Reach
<1> QED BY <1>1 DEF Announced, BroughtIn

(* However calls are nested, whatever the arguments and in both             *)
(* representations of a real: a helper class that the code of the statement *)
(* names is reported for the JAR, unless a value that a variable holds has  *)
(* already had it reported (the usesX flags and the report of main()).      *)
THEOREM AnnouncedAlways == Spec => []Announced
BY InductiveInvariant, InductiveAnnounced, PTL

=============================================================================
