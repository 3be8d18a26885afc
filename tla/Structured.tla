----------------------------- MODULE Structured -----------------------------
(***************************************************************************)
(* What the statements of MIDlet Pascal mean, without jumps: the abstract  *)
(* specification that the code of CodeGen implements.                      *)
(*                                                                         *)
(* A routine is the sequence of its tokens, with matching brackets         *)
(* (if..fi, while..od, repeat..until, for..rof, case..esac).  Running it   *)
(* makes observations: a simple statement runs, a condition or a limit is  *)
(* evaluated with an outcome, a selector yields a value, the routine is    *)
(* left.  "After" says which observations may follow a given one; it is    *)
(* defined on the bracket structure alone.                                 *)
(***************************************************************************)
EXTENDS Integers, Sequences, FiniteSets

CONSTANT Values     \* what a case selector may evaluate to

VARIABLES
  prog,     \* the tokens
  ready,    \* the routine is complete and may run
  obs       \* the last observation; beat tells equal ones in a row apart

svars == <<prog, ready, obs>>

Observation(i, ev, out, beat) == [tok |-> i, ev |-> ev, out |-> out, beat |-> beat]

Start == Observation(0, "start", 0, FALSE)

-----------------------------------------------------------------------------
(* Brackets. *)

Openers == {"if", "while", "repeat", "for", "case"}
Closers == {"fi", "od", "until", "forever", "rof", "esac"}
Loops   == {"while", "repeat", "for"}

Kind(i) == prog[i].k

(* How many brackets are open after tokens i..j. *)
Balance(i, j) ==
  Cardinality({m \in i .. j : Kind(m) \in Openers})
    - Cardinality({m \in i .. j : Kind(m) \in Closers})

First(S) == CHOOSE m \in S : \A n \in S : m <= n
Last(S)  == CHOOSE m \in S : \A n \in S : n <= m

Closer(i) == First({j \in i .. Len(prog) : Balance(i, j) = 0})
Opener(j) == Last({i \in 1 .. j : Kind(i) \in Openers /\ Closer(i) = j})

(* The brackets of one of the given kinds around token i, innermost. *)
Around(i, kinds) ==
  Last({j \in 1 .. i : Kind(j) \in kinds /\ Closer(j) > i})

(* The tokens of a kind that belong to the bracket opened at i itself. *)
Parts(i, kind) == {j \in i .. Closer(i) : Kind(j) = kind /\ Balance(i, j) = 1}

-----------------------------------------------------------------------------
(* Where control is after the tokens that are not observed. *)

Skip(i) ==
  IF i > Len(prog) THEN i
  ELSE CASE Kind(i) \in {"repeat", "fi", "esac"} -> i + 1
         [] Kind(i) = "forever"                  -> Opener(i)
         [] Kind(i) = "od"                       -> Opener(i)
         [] Kind(i) = "else"                     -> Closer(Around(i, {"if"}))
         [] Kind(i) \in {"endarm", "caseelse"}   -> Closer(Around(i, {"case"}))
         [] Kind(i) = "break"                    -> Closer(Around(i, Loops)) + 1
         [] OTHER                                -> i

(* Len(prog) + 1 skips reach a token that stays put, or go round for ever. *)
Settle(i) ==
  LET at[n \in 0 .. Len(prog) + 1] == IF n = 0 THEN i ELSE Skip(at[n - 1])
  IN at[Len(prog) + 1]

(* The observations that token i can make when control reaches it. *)
Points(i) ==
  IF i > Len(prog) THEN {<<i, "return", 0>>}
  ELSE CASE Kind(i) = "stmt"                     -> {<<i, "stmt", 0>>}
         [] Kind(i) = "exit"                     -> {<<i, "exit", 0>>}
         [] Kind(i) \in {"if", "while", "until"} -> {<<i, "cond", b>> : b \in {0, 1}}
         [] Kind(i) = "for"                      -> {<<i, "init", 0>>}
         [] Kind(i) = "rof"                      -> {<<i, "incr", 0>>}
         [] Kind(i) = "case"                     -> {<<i, "select", v>> : v \in Values}
         [] OTHER                                -> {}

From(i) == Points(Settle(i))

Limits(i) == {<<i, "limit", b>> : b \in {0, 1}}      \* 1: the loop is over

(* The arm of the case at i that the value v selects, else the else part. *)
Arm(i, v) ==
  LET hits == {j \in Parts(i, "label") : prog[j].lo <= v /\ v <= prog[j].hi}
  IN IF hits # {} THEN First({j \in Parts(i, "colon") : j > First(hits)}) + 1
     ELSE IF Parts(i, "caseelse") # {} THEN First(Parts(i, "caseelse")) + 1
     ELSE Closer(i)

Otherwise(i) ==
  IF Parts(i, "else") # {} THEN First(Parts(i, "else")) + 1 ELSE Closer(i)

AfterCond(i, b) ==
  CASE Kind(i) = "if"    -> From(IF b = 1 THEN i + 1 ELSE Otherwise(i))
    [] Kind(i) = "while" -> From(IF b = 1 THEN i + 1 ELSE Closer(i) + 1)
    [] Kind(i) = "until" -> From(IF b = 1 THEN i + 1 ELSE Opener(i))

After(o) ==
  CASE o.ev = "start"  -> From(1)
    [] o.ev = "stmt"   -> From(o.tok + 1)
    [] o.ev = "cond"   -> AfterCond(o.tok, o.out)
    [] o.ev = "init"   -> Limits(o.tok)
    [] o.ev = "limit"  -> From(IF o.out = 0 THEN o.tok + 1 ELSE Closer(o.tok) + 1)
    [] o.ev = "incr"   -> Limits(Opener(o.tok))
    [] o.ev = "select" -> From(Arm(o.tok, o.out))
    [] OTHER           -> {}

-----------------------------------------------------------------------------
Init == ready = FALSE /\ obs = Start

Parse == ~ready /\ ready' \in BOOLEAN /\ UNCHANGED obs

Observe ==
  /\ ready
  /\ obs' \in {Observation(p[1], p[2], p[3], ~obs.beat) : p \in After(obs)}
  /\ UNCHANGED <<prog, ready>>

Spec == Init /\ [][Parse \/ Observe]_svars
=============================================================================
