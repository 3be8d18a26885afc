------------------------------- MODULE Layout -------------------------------
(***************************************************************************)
(* What a routine looks like as code, token by token: where the            *)
(* instructions of each token of the source lie, which they are, and where *)
(* each branch leads, for a routine that may not be complete yet. The code *)
(* generator knows none of this: it has positions to patch, and does so    *)
(* when the statement they belong to goes on or ends.                      *)
(***************************************************************************)
EXTENDS Execution

-----------------------------------------------------------------------------
(* Brackets in a sequence of tokens that may not be complete yet.           *)

Bal(s, i, j) ==
  Cardinality({m \in i .. j : s[m].k \in Meaning!Openers})
    - Cardinality({m \in i .. j : s[m].k \in Meaning!Closers})

(* The bracket opened at i is still open behind each of the tokens i..j.    *)
OpenTo(s, i, j) == \A m \in i .. j : Bal(s, i, m) >= 1

Opens(s, i) == i \in DOMAIN s /\ s[i].k \in Meaning!Openers
Open(s, i)  == Opens(s, i) /\ OpenTo(s, i, Len(s))

(* c is the token that closes it.                                           *)
Closes(s, i, c) ==
  /\ Opens(s, i) /\ c \in i .. Len(s)
  /\ Bal(s, i, c) = 0 /\ OpenTo(s, i, c - 1)

(* The token t lies in the bracket, and in no other within it.              *)
Direct(s, i, t) ==
  /\ Opens(s, i) /\ t \in i + 1 .. Len(s)
  /\ Bal(s, i, t) = 1 /\ OpenTo(s, i, t)

(* The bracket at i is the innermost one of a kind in K around t.           *)
Inner(s, i, t, K) ==
  /\ t \in DOMAIN s /\ i \in 1 .. t /\ s[i].k \in K /\ OpenTo(s, i, t)
  /\ \A j \in i + 1 .. t : s[j].k \in K => ~OpenTo(s, j, t)

(* The open statement that an open bracket belongs to.                      *)
Rank(f, s, i)    == Len(f) + 1 - Bal(s, i, Len(s))
FrameOf(f, s, i) == f[Rank(f, s, i)]

KindsOf(k) ==
  CASE k = "if"   -> {"if", "else"}
    [] k = "case" -> {"labels", "arm", "caseelse"}
    [] OTHER      -> {k}

EndsOf(k) ==
  CASE k = "if"     -> {"fi"}
    [] k = "while"  -> {"od"}
    [] k = "repeat" -> {"until", "forever"}
    [] k = "for"    -> {"rof"}
    [] OTHER        -> {"esac"}

Among   == {"label", "colon", "caseelse"}
Popping == {"case", "endarm"}

(* Which tokens may follow each other, and which one the innermost          *)
(* statement has just read.                                                 *)
Follows(k, l) ==
  CASE k \in Popping           -> l \in {"label", "caseelse", "esac"}
    [] k = "label"              -> l \in {"label", "colon"}
    [] OTHER                    -> l \notin Among

(* Every bracket is open, and belongs to a statement that is, or closed.    *)
Owned(s, f) ==
  /\ \A i \in DOMAIN s : Opens(s, i) => Open(s, i) \/ \E c \in DOMAIN s : Closes(s, i, c)
  /\ \A i \in DOMAIN s : Open(s, i) =>
       Rank(f, s, i) \in DOMAIN f /\ FrameOf(f, s, i).kind \in KindsOf(s[i].k)
  /\ \A n \in DOMAIN f : \E i \in DOMAIN s : Open(s, i) /\ Rank(f, s, i) = n
  /\ \A c \in DOMAIN s : s[c].k \in Meaning!Closers =>
       \E i \in DOMAIN s : Closes(s, i, c) /\ s[c].k \in EndsOf(s[i].k)

Labels(f)  == f # <<>> /\ f[Len(f)].kind = "labels"
Between(f) == Labels(f) /\ f[Len(f)].arms = {}
Listing(f) == Labels(f) /\ f[Len(f)].arms # {}

LastKind(s) == IF s = <<>> THEN "stmt" ELSE s[Len(s)].k

Ordered(s, f) ==
  /\ \A t \in 2 .. Len(s) : Follows(s[t-1].k, s[t].k)
  /\ s # <<>> => s[1].k \notin Among
  /\ LastKind(s) \in Popping <=> Between(f)
  /\ LastKind(s) = "label" <=> Listing(f)

Bracketed(s, f) == Owned(s, f) /\ Ordered(s, f)

-----------------------------------------------------------------------------
(* Where the code of token i starts.                                        *)
Place(b, i) ==
  Meaning!First({a \in DOMAIN b.ins : b.ins[a].tok >= i} \cup {b.pos})

Is(b, a, op, t) == a \in DOMAIN b.ins /\ b.ins[a].op = op /\ b.ins[a].tok = t
Past(b, a)      == a + b.ins[a].len

(* An instruction and the branch behind it.                                 *)
Tests(b, t, op, K) ==
  LET p == Place(b, t)  j == Place(b, t + 1) - 3
  IN Is(b, p, op, t) /\ Past(b, p) = j /\ j \in DOMAIN b.ins /\ b.ins[j].op \in K
     /\ b.ins[j].tok = t /\ b.ins[j].len = 3

PlainLabel(b, s, t) ==
  LET p == Place(b, t)
  IN /\ \/ Tests(b, t, "label", {"if_icmpeq", "if_icmpne"})
        \/ Tests(b, t, "strlabel", {"ifeq", "ifne"})
     /\ b.ins[p].val = s[t].lo /\ s[t].hi = s[t].lo

RangeLabel(b, s, t) ==
  LET p == Place(b, t)
      x == Past(b, p)
      y == x + 3
      j == Place(b, t + 1) - 3
  IN /\ Is(b, p, "label", t) /\ b.ins[p].val = s[t].lo
     /\ Is(b, x, "if_icmplt", t) /\ b.ins[x].len = 3 /\ Target(b, x) = j + 3
     /\ Is(b, y, "label", t) /\ b.ins[y].val = s[t].hi /\ Past(b, y) = j
     /\ Is(b, j, "if_icmple", t) /\ b.ins[j].len = 3
     /\ s[t].lo <= s[t].hi

WithGoto(b, c) == Place(b, c + 1) = Place(b, c) + 4

Shape(b, s, t) ==
  LET k == s[t].k
      p == Place(b, t)
      q == Place(b, t + 1)
  IN CASE k = "stmt"  -> Is(b, p, "stmt", t) /\ Past(b, p) = q
       [] k = "exit"  -> Is(b, p, "return", t) \/ Is(b, p, "halt", t)
       [] k = "break" -> (Is(b, p, "break", t) \/ Is(b, p, "goto", t)) /\ q = p + 3
       [] k \in {"else", "od", "endarm"} -> Is(b, p, "goto", t) /\ q = p + 3
       [] k \in {"fi", "repeat"} -> p = q
       [] k \in {"if", "while", "until"} -> Tests(b, t, "cond", {"ifeq"})
       [] k = "forever" -> Tests(b, t, "false", {"ifeq"})
       [] k = "rof"     -> Tests(b, t, "incr", {"goto"})
       [] k = "for"     ->
            /\ Is(b, p, "init", t) /\ Is(b, Past(b, p), "limit", t)
            /\ b.ins[Past(b, p)].val = s[t].lo /\ Past(b, Past(b, p)) = q - 3
            /\ s[t].lo \in Direction
            /\ Is(b, q - 3, IF s[t].lo = 1 THEN "if_icmplt" ELSE "if_icmpgt", t)
            /\ b.ins[q - 3].len = 3
       [] k = "case"  -> Is(b, p, "select", t) /\ Past(b, p) = q
       [] k = "label" -> PlainLabel(b, s, t) \/ RangeLabel(b, s, t)
       [] k = "colon" -> /\ Is(b, q - 1, "pop", t) /\ b.ins[q - 1].len = 1
                         /\ \/ p = q - 1
                            \/ Is(b, p, "goto", t) /\ p = q - 4
       [] k = "caseelse" -> Is(b, p, "pop", t) /\ Past(b, p) = q
       [] k = "esac"     -> IF s[t-1].k \in Popping
                            THEN Is(b, p, "pop", t) /\ Past(b, p) = q
                            ELSE p = q

-----------------------------------------------------------------------------
(* Where the branch of a token is, and where it leads.                      *)
BranchAt(b, s, t) ==
  IF s[t].k \in {"else", "od", "endarm", "break", "colon"}
  THEN Place(b, t) ELSE Place(b, t + 1) - 3

To(b, s, t) == Target(b, BranchAt(b, s, t))

Limit(b, t)  == Past(b, Place(b, t))
PopAt(b, c)  == Place(b, c + 1) - 1
LoopHead(b, s, i) == IF s[i].k = "for" THEN Limit(b, i) ELSE Place(b, i)

(* The token whose branch leads past the arm that starts at the colon c.    *)
Skipper(b, c) == IF WithGoto(b, c) THEN c ELSE c - 1

TurnedAt(b, s, l) == b.ins[BranchAt(b, s, l)].op \in {"ifne", "if_icmpne"}

NoneOf(s, i, from, to, K) == \A m \in from .. to : s[m].k \in K => ~Direct(s, i, m)

IfLinked(b, s, f, i) ==
  /\ Open(s, i) =>
       LET g == FrameOf(f, s, i) IN
       IF g.kind = "if"
       THEN g.hole = BranchAt(b, s, i) /\ NoneOf(s, i, i, Len(s), {"else"})
       ELSE \E e \in DOMAIN s : /\ Direct(s, i, e) /\ s[e].k = "else" /\ g.hole = BranchAt(b, s, e)
                 /\ To(b, s, i) = Place(b, e + 1)
                 /\ NoneOf(s, i, i, e - 1, {"else"}) /\ NoneOf(s, i, e + 1, Len(s), {"else"})
  /\ \A c \in DOMAIN s : Closes(s, i, c) =>
       \/ To(b, s, i) = Place(b, c) /\ NoneOf(s, i, i, c, {"else"})
       \/ \E e \in DOMAIN s : /\ Direct(s, i, e) /\ s[e].k = "else" /\ e < c
               /\ To(b, s, i) = Place(b, e + 1) /\ To(b, s, e) = Place(b, c)
               /\ NoneOf(s, i, i, e - 1, {"else"}) /\ NoneOf(s, i, e + 1, c, {"else"})

LoopLinked(b, s, f, i) ==
  /\ Open(s, i) =>
       LET g == FrameOf(f, s, i) IN
       /\ g.head = LoopHead(b, s, i) /\ g.brk = Place(b, i + 1)
       /\ s[i].k # "repeat" => g.hole = BranchAt(b, s, i)
  /\ \A c \in DOMAIN s : Closes(s, i, c) =>
       /\ To(b, s, c) = LoopHead(b, s, i)
       /\ s[i].k # "repeat" => To(b, s, i) = Place(b, c + 1)

BreakLinked(b, s, t) ==
  \E i \in DOMAIN s :
    /\ Inner(s, i, t, LoopKinds)
    /\ IF Is(b, Place(b, t), "break", t) THEN Open(s, i)
       ELSE \E c \in DOMAIN s : Closes(s, i, c) /\ To(b, s, t) = Place(b, c + 1)

LabelLinked(b, s, f, i, l) ==
  \/ /\ Open(s, i) /\ FrameOf(f, s, i).kind = "labels"
     /\ ~TurnedAt(b, s, l) /\ NoneOf(s, i, l, Len(s), {"colon"})
  \/ \E c \in DOMAIN s :
       /\ l < c /\ Direct(s, i, c) /\ s[c].k = "colon" /\ NoneOf(s, i, l, c - 1, {"colon"})
       /\ IF TurnedAt(b, s, l) THEN c = l + 1 /\ ~WithGoto(b, c)
          ELSE To(b, s, l) = PopAt(b, c) /\ (c = l + 1 => WithGoto(b, c))

ColonLinked(b, s, f, i, c) ==
  \/ /\ Open(s, i) /\ FrameOf(f, s, i).kind = "arm"
     /\ FrameOf(f, s, i).hole = BranchAt(b, s, Skipper(b, c))
     /\ NoneOf(s, i, c + 1, Len(s), {"label", "colon", "endarm", "caseelse"})
  \/ \E e \in DOMAIN s :
       /\ c < e /\ Direct(s, i, e) /\ s[e].k = "endarm"
       /\ NoneOf(s, i, c + 1, e, {"label", "colon", "caseelse"})
       /\ To(b, s, Skipper(b, c)) = Place(b, e + 1)

CaseLinked(b, s, f, i) ==
  /\ \A l \in DOMAIN s : Direct(s, i, l) /\ s[l].k = "label" => LabelLinked(b, s, f, i, l)
  /\ \A c \in DOMAIN s : Direct(s, i, c) /\ s[c].k = "colon" => ColonLinked(b, s, f, i, c)
  /\ \A e \in DOMAIN s : Direct(s, i, e) /\ s[e].k = "caseelse" =>
       /\ Open(s, i) => FrameOf(f, s, i).kind = "caseelse"
       /\ NoneOf(s, i, i, e - 1, {"caseelse"}) /\ NoneOf(s, i, e + 1, Len(s), {"label", "caseelse"})
  /\ Open(s, i) =>
       LET g == FrameOf(f, s, i) IN
       /\ g.arms = IF g.kind = "labels"
                   THEN {BranchAt(b, s, l) : l \in {x \in DOMAIN s : Direct(s, i, x) /\ s[x].k = "label"
                                            /\ NoneOf(s, i, x, Len(s), {"colon"})}}
                   ELSE {}
       /\ g.ends = {BranchAt(b, s, e) : e \in {x \in DOMAIN s : Direct(s, i, x) /\ s[x].k = "endarm"}}
       /\ g.kind = "arm" => \E c \in DOMAIN s : Direct(s, i, c) /\ s[c].k = "colon"
                          /\ NoneOf(s, i, c + 1, Len(s), {"label", "colon", "endarm", "caseelse"})
       /\ g.kind = "caseelse" => \E e \in DOMAIN s : Direct(s, i, e) /\ s[e].k = "caseelse"
  /\ \A c \in DOMAIN s : Closes(s, i, c) =>
       /\ \A e \in DOMAIN s : Direct(s, i, e) /\ s[e].k = "endarm" => To(b, s, e) = Place(b, c + 1)
       /\ s[c-1].k \in Popping <=> NoneOf(s, i, i, c, {"caseelse"})

Linked(b, s, f) ==
  /\ \A i \in DOMAIN s : s[i].k = "if" => IfLinked(b, s, f, i)
  /\ \A i \in DOMAIN s : s[i].k \in LoopKinds => LoopLinked(b, s, f, i)
  /\ \A i \in DOMAIN s : s[i].k = "case" => CaseLinked(b, s, f, i)
  /\ \A t \in DOMAIN s : s[t].k = "break" => BreakLinked(b, s, t)

Shaped(b, s) == \A t \in DOMAIN s : Shape(b, s, t)

Tokened(b, n) == \A a \in DOMAIN b.ins : b.ins[a].tok \in 1 .. n

Last == Place(code, Len(prog) + 1)

(* The code of RD_statement is laid out as the source is nested: each token *)
(* has its instructions, in its order, and each branch leads where the      *)
(* structure of the source says: past the else, to the end of the loop      *)
(* that is innermost around a break, to the next label of a case, past its  *)
(* arm, past its end.  An open statement holds exactly the branches that    *)
(* are not known yet.                                                       *)
LaidOut ==
  InRange /\ ~errors =>
    /\ Bracketed(prog, frames)
    /\ Tokened(code, Len(prog) + (IF done THEN 1 ELSE 0))
    /\ Shaped(code, prog)
    /\ Linked(code, prog, frames)
    /\ IF done THEN Is(code, Last, "return", Len(prog) + 1) ELSE Last = code.pos
=============================================================================
