---------------------------- MODULE LayoutProofs ----------------------------
(***************************************************************************)
(* The code of a routine of any length and nesting is laid out as its      *)
(* source is nested, and every branch in it leads where the statement      *)
(* says.                                                                   *)
(*                                                                         *)
(* The inductive invariant says it of the code read so far, in which some  *)
(* statements are still open: the branches of these are the ones their     *)
(* frames hold. For each step the proofs say first what the new token does *)
(* to the brackets around it, then what has been added to the code and     *)
(* which branch has been patched, and then that both still match.          *)
(***************************************************************************)
EXTENDS Layout, CodeGenProofs, WellFoundedInduction

-----------------------------------------------------------------------------
(* Counting brackets.                                                       *)

Marks(s, K, i, j) == {m \in i .. j : s[m].k \in K}

Delta(k) == IF k \in Meaning!Openers THEN 1 ELSE IF k \in Meaning!Closers THEN -1 ELSE 0

LEMMA MarksSplit ==
  ASSUME NEW s, NEW K, NEW i \in Int, NEW j \in Int, NEW n \in Int, i - 1 <= n, n <= j
  PROVE  /\ Cardinality(Marks(s, K, i, j))
              = Cardinality(Marks(s, K, i, n)) + Cardinality(Marks(s, K, n + 1, j))
         /\ Cardinality(Marks(s, K, i, j)) \in Nat
<1> DEFINE A == Marks(s, K, i, n)
           B == Marks(s, K, n + 1, j)
<1>1. IsFiniteSet(i .. n) /\ IsFiniteSet((n + 1) .. j)
  BY FS_Interval
<1>2. A \subseteq i .. n /\ B \subseteq (n + 1) .. j
  BY DEF Marks
<1>3. IsFiniteSet(A) /\ IsFiniteSet(B)
  BY <1>1, <1>2, FS_Subset
<1>4. A \cap B = {}
  BY <1>2
<1>5. Marks(s, K, i, j) = A \cup B
  BY DEF Marks
<1> HIDE DEF A, B
<1>6. Cardinality(A \cup B) = Cardinality(A) + Cardinality(B) - Cardinality(A \cap B)
      /\ IsFiniteSet(A \cup B)
  BY <1>3, FS_Union
<1>7. Cardinality(A \cap B) = 0
  BY <1>4, FS_EmptySet
<1>8. Cardinality(A) \in Nat /\ Cardinality(B) \in Nat
  BY <1>3, FS_CardinalityType
<1> QED BY <1>5, <1>6, <1>7, <1>8 DEF A, B

LEMMA MarksOne ==
  ASSUME NEW s, NEW K, NEW i \in Int
  PROVE  /\ Cardinality(Marks(s, K, i, i)) = IF s[i].k \in K THEN 1 ELSE 0
         /\ Cardinality(Marks(s, K, i, i - 1)) = 0
<1>1. Marks(s, K, i, i - 1) = {}
  BY DEF Marks
<1>2. Marks(s, K, i, i) = IF s[i].k \in K THEN {i} ELSE {}
  BY DEF Marks
<1> QED BY <1>1, <1>2, FS_EmptySet, FS_Singleton

LEMMA BalMarks ==
  \A s, i, j : Bal(s, i, j) = Cardinality(Marks(s, Meaning!Openers, i, j))
                                - Cardinality(Marks(s, Meaning!Closers, i, j))
  BY DEF Bal, Marks

(* The brackets of a piece are those of its two halves.                     *)
LEMMA BalSplit ==
  ASSUME NEW s, NEW i \in Int, NEW j \in Int, NEW n \in Int, NEW m \in Int,
         m = n + 1, i <= m, m <= j + 1
  PROVE  /\ Bal(s, i, j) = Bal(s, i, n) + Bal(s, m, j)
         /\ Bal(s, i, j) \in Int /\ Bal(s, i, n) \in Int /\ Bal(s, m, j) \in Int
<1> DEFINE c(K, a, b) == Cardinality(Marks(s, K, a, b))
<1>0. i - 1 <= n /\ n <= j
  OBVIOUS
<1>1. \A K : c(K, i, j) = c(K, i, n) + c(K, m, j) /\ c(K, i, j) \in Nat
  BY <1>0, MarksSplit
<1>2. \A K : c(K, i, n) \in Nat
  BY <1>0, MarksSplit
<1>3. \A K : c(K, m, j) \in Nat
  <2> SUFFICES ASSUME NEW K PROVE c(K, m, j) \in Nat
    OBVIOUS
  <2>1. m - 1 \in Int /\ m - 1 <= m - 1 /\ m - 1 <= j
    OBVIOUS
  <2>2. c(K, m, j) \in Nat
    BY <2>1, MarksSplit
  <2> QED BY <2>2
<1> HIDE DEF c
<1>4. \A a, b : Bal(s, a, b) = c(Meaning!Openers, a, b) - c(Meaning!Closers, a, b)
  BY BalMarks DEF c
<1> QED BY <1>1, <1>2, <1>3, <1>4

LEMMA BalOne ==
  ASSUME NEW s, NEW i \in Int
  PROVE  Bal(s, i, i) = Delta(s[i].k) /\ Bal(s, i, i - 1) = 0
<1>1. Meaning!Openers \cap Meaning!Closers = {}
  BY DEF Meaning!Openers, Meaning!Closers
<1> QED BY <1>1, MarksOne, BalMarks DEF Delta

LEMMA BalNext ==
  ASSUME NEW s, NEW i \in Int, NEW j \in Int, i <= j + 1
  PROVE  Bal(s, i, j + 1) = Bal(s, i, j) + Delta(s[j + 1].k) /\ Bal(s, i, j) \in Int
<1>1. Bal(s, i, j + 1) = Bal(s, i, j) + Bal(s, j + 1, j + 1) /\ Bal(s, i, j) \in Int
  BY BalSplit
<1>2. Bal(s, j + 1, j + 1) = Delta(s[j + 1].k)
  BY BalOne
<1> QED BY <1>1, <1>2

LEMMA BalSame ==
  ASSUME NEW s, NEW t, NEW i, NEW j, \A m \in i .. j : s[m] = t[m]
  PROVE  Bal(s, i, j) = Bal(t, i, j)
<1>1. \A K : Marks(s, K, i, j) = Marks(t, K, i, j)
  BY DEF Marks
<1> QED BY <1>1, BalMarks

-----------------------------------------------------------------------------
(* One more token.                                                          *)

OneMore(s, s2, k) ==
  /\ s \in Seq(Tokens) /\ s2 \in Seq(Tokens) /\ Len(s2) = Len(s) + 1
  /\ s2[Len(s) + 1].k = k
  /\ \A i \in DOMAIN s : s2[i] = s[i]

LEMMA AppendLonger ==
  ASSUME NEW s \in Seq(Tokens), NEW tk \in Tokens
  PROVE  OneMore(s, Append(s, tk), tk.k) /\ Append(s, tk)[Len(s) + 1] = tk
  BY DEF OneMore

LEMMA LongerBal ==
  ASSUME NEW s, NEW s2, NEW k, OneMore(s, s2, k), NEW i \in Nat \ {0}, NEW j \in Int, j <= Len(s)
  PROVE  /\ Bal(s2, i, j) = Bal(s, i, j)
         /\ OpenTo(s2, i, j) <=> OpenTo(s, i, j)
<1>1. \A m \in Int : m <= Len(s) => Bal(s2, i, m) = Bal(s, i, m)
  <2> SUFFICES ASSUME NEW m \in Int, m <= Len(s) PROVE Bal(s2, i, m) = Bal(s, i, m)
    OBVIOUS
  <2>1. \A n \in i .. m : n \in DOMAIN s
    BY DEF OneMore
  <2>2. \A n \in i .. m : s2[n] = s[n]
    BY <2>1 DEF OneMore
  <2> QED BY <2>2, BalSame
<1>2. Len(s) \in Int /\ i .. j \subseteq Int /\ \A m \in i .. j : m <= Len(s)
  BY DEF OneMore
<1> QED BY <1>1, <1>2 DEF OpenTo

LEMMA LongerOpens ==
  ASSUME NEW s, NEW s2, NEW k, OneMore(s, s2, k)
  PROVE  /\ DOMAIN s2 = DOMAIN s \cup {Len(s) + 1} /\ DOMAIN s = 1 .. Len(s)
         /\ Len(s) + 1 \notin DOMAIN s /\ Len(s) \in Nat
         /\ \A i \in DOMAIN s : Opens(s2, i) <=> Opens(s, i)
         /\ Opens(s2, Len(s) + 1) <=> k \in Meaning!Openers
         /\ Len(s2) = Len(s) + 1 /\ s2[Len(s) + 1].k = k /\ \A i \in DOMAIN s : s2[i] = s[i]
<1>1. /\ DOMAIN s2 = DOMAIN s \cup {Len(s) + 1} /\ DOMAIN s = 1 .. Len(s)
      /\ Len(s) + 1 \notin DOMAIN s /\ Len(s) \in Nat
  BY DEF OneMore
<1> QED BY <1>1 DEF OneMore, Opens

LEMMA OpenToNext ==
  ASSUME NEW s, NEW i \in Int, NEW j \in Int, i <= j + 1
  PROVE  OpenTo(s, i, j + 1) <=> OpenTo(s, i, j) /\ Bal(s, i, j + 1) >= 1
<1>1. i .. (j + 1) = (i .. j) \cup {j + 1}
  OBVIOUS
<1> QED BY <1>1 DEF OpenTo

(* What one more token does to the brackets that were there ...             *)
LEMMA LongerOld ==
  ASSUME NEW s, NEW s2, NEW k, OneMore(s, s2, k), NEW i \in DOMAIN s
  PROVE  /\ Bal(s2, i, Len(s2)) = Bal(s, i, Len(s)) + Delta(k) /\ Bal(s, i, Len(s)) \in Int
         /\ Open(s2, i) <=> Open(s, i) /\ Bal(s, i, Len(s)) + Delta(k) >= 1
         /\ \A c \in DOMAIN s : Closes(s2, i, c) <=> Closes(s, i, c)
         /\ Closes(s2, i, Len(s) + 1) <=> Open(s, i) /\ Bal(s, i, Len(s)) + Delta(k) = 0
         /\ \A t \in DOMAIN s : Direct(s2, i, t) <=> Direct(s, i, t)
         /\ Direct(s2, i, Len(s) + 1) <=> Open(s, i) /\ Bal(s, i, Len(s)) + Delta(k) = 1
<1>0. /\ DOMAIN s2 = DOMAIN s \cup {Len(s) + 1} /\ DOMAIN s = 1 .. Len(s) /\ Len(s) \in Nat
      /\ Opens(s2, i) <=> Opens(s, i)
      /\ i \in Nat \ {0} /\ i <= Len(s) /\ Len(s2) = Len(s) + 1 /\ s2[Len(s) + 1].k = k
  <2>1. Len(s2) = Len(s) + 1 /\ s2[Len(s) + 1].k = k
    BY DEF OneMore
  <2>2. DOMAIN s2 = DOMAIN s \cup {Len(s) + 1} /\ DOMAIN s = 1 .. Len(s) /\ Len(s) \in Nat
    BY LongerOpens
  <2>3. Opens(s2, i) <=> Opens(s, i)
    BY LongerOpens
  <2>4. i \in Nat \ {0} /\ i <= Len(s)
    BY <2>2
  <2> QED BY <2>1, <2>2, <2>3, <2>4
<1>1. Bal(s2, i, Len(s)) = Bal(s, i, Len(s)) /\ (OpenTo(s2, i, Len(s)) <=> OpenTo(s, i, Len(s)))
  BY <1>0, LongerBal
<1>2. Bal(s2, i, Len(s) + 1) = Bal(s, i, Len(s)) + Delta(k) /\ Bal(s, i, Len(s)) \in Int
  <2>1. i \in Int /\ Len(s) \in Int /\ i <= Len(s) + 1
    BY <1>0
  <2>2. Bal(s2, i, Len(s) + 1) = Bal(s2, i, Len(s)) + Delta(s2[Len(s) + 1].k) /\ Bal(s2, i, Len(s)) \in Int
    BY <2>1, BalNext
  <2> QED BY <1>0, <1>1, <2>2
<1>3. OpenTo(s2, i, Len(s) + 1) <=> OpenTo(s, i, Len(s)) /\ Bal(s, i, Len(s)) + Delta(k) >= 1
  BY <1>0, <1>1, <1>2, OpenToNext
<1>4. Open(s2, i) <=> Open(s, i) /\ Bal(s, i, Len(s)) + Delta(k) >= 1
  BY <1>0, <1>3 DEF Open
<1>5. ASSUME NEW c \in DOMAIN s
      PROVE  (Closes(s2, i, c) <=> Closes(s, i, c)) /\ (Direct(s2, i, c) <=> Direct(s, i, c))
  <2>1. /\ c \in Int /\ c - 1 \in Int /\ c <= Len(s) /\ c - 1 <= Len(s)
    BY <1>0
  <2>2. Bal(s2, i, c) = Bal(s, i, c) /\ (OpenTo(s2, i, c) <=> OpenTo(s, i, c))
        /\ (OpenTo(s2, i, c - 1) <=> OpenTo(s, i, c - 1))
    BY <1>0, <2>1, LongerBal
  <2>3. (c \in i .. Len(s2) <=> c \in i .. Len(s)) /\ (c \in i + 1 .. Len(s2) <=> c \in i + 1 .. Len(s))
    BY <1>0, <2>1
  <2> QED BY <1>0, <2>2, <2>3 DEF Closes, Direct
<1>6. Closes(s2, i, Len(s) + 1) <=> Open(s, i) /\ Bal(s, i, Len(s)) + Delta(k) = 0
  <2>1. Len(s) + 1 \in i .. Len(s2) /\ (Len(s) + 1) - 1 = Len(s)
    BY <1>0
  <2> QED BY <1>0, <1>1, <1>2, <2>1 DEF Closes, Open
<1>7. Direct(s2, i, Len(s) + 1) <=> Open(s, i) /\ Bal(s, i, Len(s)) + Delta(k) = 1
  <2>1. Len(s) + 1 \in i + 1 .. Len(s2)
    BY <1>0
  <2> QED BY <1>0, <1>1, <1>2, <1>3, <2>1 DEF Direct, Open
<1> QED BY <1>0, <1>2, <1>4, <1>5, <1>6, <1>7

(* ... and which one it opens.                                              *)
LEMMA LongerNew ==
  ASSUME NEW s, NEW s2, NEW k, OneMore(s, s2, k)
  PROVE  LET n == Len(s) + 1 IN
         /\ k \in Meaning!Openers => Open(s2, n) /\ Bal(s2, n, Len(s2)) = 1
         /\ k \notin Meaning!Openers => ~Opens(s2, n) /\ ~Open(s2, n)
         /\ \A c \in DOMAIN s2 : ~Closes(s2, n, c) /\ ~Direct(s2, n, c)
<1> DEFINE n == Len(s) + 1
<1>1. /\ n \in Int /\ n \in DOMAIN s2 /\ Len(s2) = n /\ s2[n].k = k /\ DOMAIN s2 = 1 .. n
      /\ Opens(s2, n) <=> k \in Meaning!Openers
  <2>1. Len(s2) = Len(s) + 1 /\ s2[Len(s) + 1].k = k
    BY DEF OneMore
  <2>2. DOMAIN s2 = DOMAIN s \cup {Len(s) + 1} /\ DOMAIN s = 1 .. Len(s) /\ Len(s) \in Nat
        /\ (Opens(s2, Len(s) + 1) <=> k \in Meaning!Openers)
    BY LongerOpens
  <2> QED BY <2>1, <2>2
<1> HIDE DEF n
<1>2. Bal(s2, n, n) = Delta(k)
  BY <1>1, BalOne
<1>3. n .. n = {n} /\ n + 1 .. n = {}
  BY <1>1
<1>4. k \in Meaning!Openers => Open(s2, n) /\ Bal(s2, n, Len(s2)) = 1
  BY <1>1, <1>2, <1>3 DEF Open, OpenTo, Delta
<1>5. k \notin Meaning!Openers => ~Opens(s2, n) /\ ~Open(s2, n)
  BY <1>1 DEF Open
<1>6. ASSUME NEW c \in DOMAIN s2 PROVE ~Closes(s2, n, c) /\ ~Direct(s2, n, c)
  <2>1. ~Direct(s2, n, c)
    BY <1>1, <1>3 DEF Direct
  <2>2. Closes(s2, n, c) => c = n /\ k \in Meaning!Openers /\ Bal(s2, n, n) = 0
    BY <1>1, <1>3 DEF Closes
  <2> QED BY <1>2, <2>1, <2>2 DEF Delta
<1> QED BY <1>4, <1>5, <1>6 DEF n

LEMMA LongerNone ==
  ASSUME NEW s, NEW s2, NEW k, OneMore(s, s2, k), NEW i \in DOMAIN s, NEW K
  PROVE  /\ \A from \in Nat \ {0}, to \in Int : to <= Len(s) =>
              (NoneOf(s2, i, from, to, K) <=> NoneOf(s, i, from, to, K))
         /\ \A from \in Nat \ {0} : from <= Len(s) + 1 =>
              (NoneOf(s2, i, from, Len(s) + 1, K)
                 <=> /\ NoneOf(s, i, from, Len(s), K)
                     /\ k \in K => ~Direct(s2, i, Len(s) + 1))
<1>0. /\ DOMAIN s = 1 .. Len(s) /\ Len(s) \in Nat /\ s2[Len(s) + 1].k = k
      /\ \A m \in DOMAIN s : s2[m] = s[m]
  BY LongerOpens
<1>1. \A t \in DOMAIN s : Direct(s2, i, t) <=> Direct(s, i, t)
  BY LongerOld
<1>2. ASSUME NEW from \in Nat \ {0}, NEW to \in Int, to <= Len(s)
      PROVE  NoneOf(s2, i, from, to, K) <=> NoneOf(s, i, from, to, K)
  <2>1. \A m \in from .. to : m \in DOMAIN s
    BY <1>0, <1>2
  <2> QED BY <1>0, <1>1, <2>1 DEF NoneOf
<1>3. ASSUME NEW from \in Nat \ {0}, from <= Len(s) + 1
      PROVE  NoneOf(s2, i, from, Len(s) + 1, K)
               <=> NoneOf(s2, i, from, Len(s), K) /\ (k \in K => ~Direct(s2, i, Len(s) + 1))
  <2>1. from .. (Len(s) + 1) = (from .. Len(s)) \cup {Len(s) + 1}
    BY <1>0, <1>3
  <2> QED BY <1>0, <2>1 DEF NoneOf
<1> QED BY <1>0, <1>2, <1>3

LEMMA LongerInner ==
  ASSUME NEW s, NEW s2, NEW k, OneMore(s, s2, k), NEW i \in DOMAIN s, NEW t \in DOMAIN s, NEW K
  PROVE  Inner(s2, i, t, K) <=> Inner(s, i, t, K)
<1>0. /\ DOMAIN s = 1 .. Len(s) /\ Len(s) \in Nat /\ Len(s2) = Len(s) + 1
      /\ \A m \in DOMAIN s : s2[m] = s[m]
  BY LongerOpens
<1>1. \A j \in 1 .. t : OpenTo(s2, j, t) <=> OpenTo(s, j, t)
  BY <1>0, LongerBal
<1>2. \A j \in i .. t : j \in DOMAIN s
  BY <1>0
<1>3. t \in DOMAIN s /\ t \in DOMAIN s2
  <2>1. DOMAIN s2 = DOMAIN s \cup {Len(s) + 1}
    BY LongerOpens
  <2> QED BY <2>1
<1>4. \A j \in i + 1 .. t : j \in 1 .. t /\ j \in DOMAIN s
  BY <1>0
<1> QED BY <1>0, <1>1, <1>3, <1>4 DEF Inner

-----------------------------------------------------------------------------
(* Brackets are nested.                                                     *)

LEMMA BalInt ==
  ASSUME NEW s, NEW i \in Int, NEW j \in Int, i <= j + 1
  PROVE  Bal(s, i, j) \in Int
  BY BalNext

LEMMA OpenToPrefix ==
  ASSUME NEW s, NEW i \in Int, NEW j \in Int, NEW n \in Int, n <= j, OpenTo(s, i, j)
  PROVE  OpenTo(s, i, n)
  BY DEF OpenTo

LEMMA Nested ==
  ASSUME NEW s, NEW i \in Int, NEW j \in Int, NEW t \in Int, i < j, j <= t + 1,
         OpenTo(s, i, j - 1)
  PROVE  Bal(s, i, t) >= 1 + Bal(s, j, t) /\ Bal(s, i, t) \in Int /\ Bal(s, j, t) \in Int
<1>1. Bal(s, i, j - 1) >= 1
  BY DEF OpenTo
<1>2. j - 1 \in Int /\ j = (j - 1) + 1 /\ i <= j
  OBVIOUS
<1>3. Bal(s, i, t) = Bal(s, i, j - 1) + Bal(s, j, t) /\ Bal(s, i, t) \in Int
      /\ Bal(s, i, j - 1) \in Int /\ Bal(s, j, t) \in Int
  <2> PICK n \in Int : n = j - 1
    BY <1>2
  <2>1. j = n + 1 /\ j <= t + 1 /\ i <= j
    OBVIOUS
  <2>2. Bal(s, i, t) = Bal(s, i, n) + Bal(s, j, t) /\ Bal(s, i, t) \in Int
        /\ Bal(s, i, n) \in Int /\ Bal(s, j, t) \in Int
    BY ONLY <2>1, BalSplit, i \in Int, j \in Int, t \in Int, n \in Int
  <2> QED BY <2>2
<1> QED BY <1>1, <1>3

LEMMA OpenOrder ==
  ASSUME NEW s \in Seq(Tokens), NEW i, NEW j, Open(s, i), Open(s, j)
  PROVE  /\ Bal(s, i, Len(s)) \in Nat \ {0}
         /\ i < j => Bal(s, i, Len(s)) > Bal(s, j, Len(s))
         /\ Bal(s, i, Len(s)) = Bal(s, j, Len(s)) => i = j
<1>1. /\ i \in Int /\ j \in Int /\ Len(s) \in Int /\ 1 <= i /\ i <= Len(s) /\ 1 <= j /\ j <= Len(s)
      /\ OpenTo(s, i, Len(s)) /\ OpenTo(s, j, Len(s))
  BY DEF Open, Opens
<1>2. /\ Bal(s, i, Len(s)) \in Int /\ Bal(s, j, Len(s)) \in Int
      /\ Bal(s, i, Len(s)) >= 1 /\ Bal(s, j, Len(s)) >= 1
  <2>1. Len(s) \in i .. Len(s) /\ Len(s) \in j .. Len(s)
    BY <1>1
  <2> QED BY <1>1, <2>1, BalInt DEF OpenTo
<1>3. i < j => Bal(s, i, Len(s)) > Bal(s, j, Len(s))
  <2> SUFFICES ASSUME i < j PROVE Bal(s, i, Len(s)) > Bal(s, j, Len(s))
    OBVIOUS
  <2>1. OpenTo(s, i, j - 1)
    BY <1>1, OpenToPrefix
  <2> QED BY <1>1, <1>2, <2>1, Nested
<1>4. j < i => Bal(s, j, Len(s)) > Bal(s, i, Len(s))
  <2> SUFFICES ASSUME j < i PROVE Bal(s, j, Len(s)) > Bal(s, i, Len(s))
    OBVIOUS
  <2>1. OpenTo(s, j, i - 1)
    BY <1>1, OpenToPrefix
  <2> QED BY <1>1, <1>2, <2>1, Nested
<1> QED BY <1>1, <1>2, <1>3, <1>4

LEMMA DirectFacts ==
  ASSUME NEW s \in Seq(Tokens), NEW i, NEW t, Direct(s, i, t)
  PROVE  /\ i \in DOMAIN s /\ t \in DOMAIN s /\ i \in Int /\ t \in Int /\ i < t /\ t <= Len(s)
         /\ 1 <= i /\ s[i].k \in Meaning!Openers /\ Len(s) \in Nat
         /\ OpenTo(s, i, t) /\ Bal(s, i, t) = 1
  BY DEF Direct, Opens

LEMMA ClosesFacts ==
  ASSUME NEW s \in Seq(Tokens), NEW i, NEW c, Closes(s, i, c)
  PROVE  /\ i \in DOMAIN s /\ c \in DOMAIN s /\ i \in Int /\ c \in Int /\ i < c /\ c <= Len(s)
         /\ 1 <= i /\ s[i].k \in Meaning!Openers /\ Len(s) \in Nat
         /\ OpenTo(s, i, c - 1) /\ Bal(s, i, c) = 0
<1>1. /\ i \in DOMAIN s /\ i \in Int /\ 1 <= i /\ c \in Int /\ i <= c /\ c <= Len(s) /\ Len(s) \in Nat
      /\ s[i].k \in Meaning!Openers /\ OpenTo(s, i, c - 1) /\ Bal(s, i, c) = 0 /\ c \in DOMAIN s
  BY DEF Closes, Opens
<1>2. i # c
  BY <1>1, BalOne DEF Delta
<1> QED BY <1>1, <1>2

LEMMA DirectOwner ==
  ASSUME NEW s \in Seq(Tokens), NEW i, NEW j, NEW t, Direct(s, i, t), Direct(s, j, t)
  PROVE  i = j
<1>1. ASSUME NEW a \in Int, NEW b \in Int, a < b, b < t, t \in Int, OpenTo(s, a, t),
             Bal(s, a, t) = 1, Bal(s, b, t) = 1
      PROVE  FALSE
  <2>1. OpenTo(s, a, b - 1)
    BY <1>1, OpenToPrefix
  <2> QED BY <1>1, <2>1, Nested
<1> QED BY <1>1, DirectFacts

LEMMA ClosesOwner ==
  ASSUME NEW s \in Seq(Tokens), NEW i, NEW j, NEW c, Closes(s, i, c), Closes(s, j, c)
  PROVE  i = j
<1>1. ASSUME NEW a \in Int, NEW b \in Int, a < b, b < c, c \in Int, OpenTo(s, a, c - 1),
             Bal(s, a, c) = 0, Bal(s, b, c) = 0
      PROVE  FALSE
  <2>1. OpenTo(s, a, b - 1)
    BY <1>1, OpenToPrefix
  <2> QED BY <1>1, <2>1, Nested
<1> QED BY <1>1, ClosesFacts

LEMMA OpenToEnds ==
  ASSUME NEW s \in Seq(Tokens), NEW i, NEW c, Closes(s, i, c), NEW t \in Int, i <= t
  PROVE  OpenTo(s, i, t) <=> t < c
<1>1. c \in Int /\ i \in Int /\ i < c /\ OpenTo(s, i, c - 1) /\ Bal(s, i, c) = 0
  BY ClosesFacts
<1>2. t < c => OpenTo(s, i, t)
  BY <1>1, OpenToPrefix
<1>3. t >= c => ~OpenTo(s, i, t)
  BY <1>1 DEF OpenTo
<1> QED BY <1>1, <1>2, <1>3

LEMMA ClosesOnce ==
  ASSUME NEW s \in Seq(Tokens), NEW i, NEW c, Closes(s, i, c)
  PROVE  /\ \A d : Closes(s, i, d) => d = c
         /\ \A t : Direct(s, i, t) => t < c
         /\ \A t, K : Inner(s, i, t, K) => t < c
         /\ ~Open(s, i)
<1>1. /\ c \in Int /\ i \in Int /\ i < c /\ c <= Len(s) /\ OpenTo(s, i, c - 1) /\ Bal(s, i, c) = 0
      /\ Len(s) \in Int
  BY ClosesFacts
<1>2. ASSUME NEW d, Closes(s, i, d) PROVE d = c
  <2>1. d \in Int /\ i < d /\ OpenTo(s, i, d - 1) /\ Bal(s, i, d) = 0
    BY <1>2, ClosesFacts
  <2>2. ~(d < c)
    BY <1>1, <2>1 DEF OpenTo
  <2>3. ~(c < d)
    BY <1>1, <2>1 DEF OpenTo
  <2> QED BY <1>1, <2>1, <2>2, <2>3
<1>3. ASSUME NEW t, Direct(s, i, t) PROVE t < c
  <2>1. t \in Int /\ i < t /\ OpenTo(s, i, t)
    BY <1>3, DirectFacts
  <2> QED BY <1>1, <2>1, OpenToEnds
<1>4. ASSUME NEW t, NEW K, Inner(s, i, t, K) PROVE t < c
  <2>1. t \in Int /\ i <= t /\ OpenTo(s, i, t)
    BY <1>4 DEF Inner
  <2> QED BY <1>1, <2>1, OpenToEnds
<1>5. ~Open(s, i)
  <2>1. OpenTo(s, i, Len(s)) <=> Len(s) < c
    BY <1>1, OpenToEnds
  <2> QED BY <1>1, <2>1 DEF Open
<1> QED BY <1>2, <1>3, <1>4, <1>5

-----------------------------------------------------------------------------
(* The statements that are open, token by token.                            *)

LEMMA RankStep ==
  ASSUME NEW s, NEW s2, NEW k, OneMore(s, s2, k), NEW f, NEW f2,
         f \in Seq(Frame), f2 \in Seq(Frame), Len(f2) = Len(f) + Delta(k), NEW i \in DOMAIN s
  PROVE  Rank(f2, s2, i) = Rank(f, s, i)
<1>1. Bal(s2, i, Len(s2)) = Bal(s, i, Len(s)) + Delta(k) /\ Bal(s, i, Len(s)) \in Int
  BY LongerOld
<1>2. Delta(k) \in Int /\ Len(f) \in Int
  BY DEF Delta
<1> QED BY <1>1, <1>2 DEF Rank

Guarded(f, k) ==
  /\ Between(f) => k \in {"label", "caseelse", "esac"}
  /\ Listing(f) => k \in {"label", "colon"}
  /\ ~Labels(f) => k \notin Among

LEMMA OrderedStep ==
  ASSUME NEW s, NEW s2, NEW k, OneMore(s, s2, k), NEW f, NEW f2, Ordered(s, f), Guarded(f, k),
         k \in Popping <=> Between(f2), k = "label" <=> Listing(f2)
  PROVE  Ordered(s2, f2)
<1>1. /\ DOMAIN s = 1 .. Len(s) /\ Len(s) \in Nat /\ Len(s2) = Len(s) + 1
      /\ s2[Len(s) + 1].k = k /\ \A m \in 1 .. Len(s) : s2[m] = s[m]
      /\ s = <<>> <=> Len(s) = 0
  BY DEF OneMore
<1>2. LastKind(s2) = k
  <2>1. s2 # <<>>
    BY <1>1 DEF OneMore
  <2> QED BY <1>1, <2>1 DEF LastKind
<1>3. s # <<>> => Follows(s[Len(s)].k, k)
  <2> SUFFICES ASSUME s # <<>> PROVE Follows(s[Len(s)].k, k)
    OBVIOUS
  <2>1. s[Len(s)].k \in Popping <=> Between(f)
    BY DEF Ordered, LastKind
  <2>2. s[Len(s)].k = "label" <=> Listing(f)
    BY DEF Ordered, LastKind
  <2> QED BY <2>1, <2>2 DEF Follows, Guarded, Between, Listing, Popping
<1>4. s = <<>> => k \notin Among
  <2> SUFFICES ASSUME s = <<>> PROVE k \notin Among
    OBVIOUS
  <2>1. LastKind(s) = "stmt"
    BY DEF LastKind
  <2>2. ~Between(f) /\ ~Listing(f)
    BY <2>1 DEF Ordered, Popping
  <2> QED BY <2>2 DEF Guarded, Between, Listing
<1>5. \A t \in 2 .. Len(s2) : Follows(s2[t-1].k, s2[t].k)
  <2> SUFFICES ASSUME NEW t \in 2 .. Len(s2) PROVE Follows(s2[t-1].k, s2[t].k)
    OBVIOUS
  <2>1. CASE t = Len(s) + 1
    <3>1. s # <<>> /\ t - 1 = Len(s) /\ Len(s) \in 1 .. Len(s)
      BY <1>1, <2>1
    <3> QED BY <1>1, <1>3, <2>1, <3>1
  <2>2. CASE t # Len(s) + 1
    <3>1. t \in 2 .. Len(s) /\ t - 1 \in 1 .. Len(s) /\ t \in 1 .. Len(s)
      BY <1>1, <2>2
    <3> QED BY <1>1, <3>1 DEF Ordered
  <2> QED BY <2>1, <2>2
<1>6. s2[1].k \notin Among
  <2>1. CASE s = <<>>
    BY <1>1, <1>4, <2>1
  <2>2. CASE s # <<>>
    <3>1. 1 \in 1 .. Len(s)
      BY <1>1, <2>2
    <3> QED BY <1>1, <2>2, <3>1 DEF Ordered
  <2> QED BY <2>1, <2>2
<1> QED BY <1>2, <1>5, <1>6 DEF Ordered

(* A token inside a statement, one that opens a statement, and one that     *)
(* closes the innermost.                                                    *)
SameUpTo(f, f2, n) == \A m \in 1 .. n : f2[m] = f[m]

Turns(f, f2) ==
  /\ Len(f2) = Len(f) /\ SameUpTo(f, f2, Len(f) - 1)
  /\ \A k \in Meaning!Openers : f # <<>> /\ f[Len(f)].kind \in KindsOf(k) => f2[Len(f)].kind \in KindsOf(k)

LEMMA OwnedInside ==
  ASSUME NEW s, NEW s2, NEW k, OneMore(s, s2, k), Delta(k) = 0,
         NEW f \in Seq(Frame), NEW f2 \in Seq(Frame), Turns(f, f2), Owned(s, f)
  PROVE  Owned(s2, f2)
<1>1. /\ DOMAIN s2 = DOMAIN s \cup {Len(s) + 1} /\ Len(s) + 1 \notin DOMAIN s
      /\ \A i \in DOMAIN s : Opens(s2, i) <=> Opens(s, i)
      /\ \A i \in DOMAIN s : s2[i] = s[i]
  BY LongerOpens, ZenonT(60)
<1>2. k \notin Meaning!Openers /\ k \notin Meaning!Closers
  BY DEF Delta
<1>3. ~Opens(s2, Len(s) + 1) /\ ~Open(s2, Len(s) + 1)
  BY <1>2, LongerNew
<1>4. ASSUME NEW i \in DOMAIN s
      PROVE  /\ Open(s2, i) <=> Open(s, i)
             /\ \A c \in DOMAIN s : Closes(s2, i, c) <=> Closes(s, i, c)
             /\ Rank(f2, s2, i) = Rank(f, s, i)
  <2>1. Open(s2, i) <=> Open(s, i) /\ Bal(s, i, Len(s)) + 0 >= 1
    BY LongerOld
  <2>2. Open(s, i) => Bal(s, i, Len(s)) \in Nat \ {0}
    BY OpenOrder DEF OneMore
  <2>3. Rank(f2, s2, i) = Rank(f, s, i)
    <3>1. Len(f) \in Int
      OBVIOUS
    <3> QED BY <3>1, RankStep DEF Turns
  <2>4. \A c \in DOMAIN s : Closes(s2, i, c) <=> Closes(s, i, c)
    BY LongerOld
  <2> QED BY <2>1, <2>2, <2>3, <2>4
<1>5. DOMAIN f2 = DOMAIN f
  BY DEF Turns
<1>6. ASSUME NEW i \in DOMAIN s2, Opens(s2, i)
      PROVE  Open(s2, i) \/ \E c \in DOMAIN s2 : Closes(s2, i, c)
  BY <1>1, <1>3, <1>4, <1>6 DEF Owned
<1>7. ASSUME NEW i \in DOMAIN s2, Open(s2, i)
      PROVE  Rank(f2, s2, i) \in DOMAIN f2 /\ FrameOf(f2, s2, i).kind \in KindsOf(s2[i].k)
  <2>1. i \in DOMAIN s
    BY <1>1, <1>3, <1>7
  <2>2. Rank(f, s, i) \in DOMAIN f /\ f[Rank(f, s, i)].kind \in KindsOf(s[i].k)
    BY <1>4, <1>7, <2>1 DEF Owned, FrameOf
  <2>3. Rank(f, s, i) = Len(f) \/ Rank(f, s, i) \in 1 .. Len(f) - 1
    BY <2>2
  <2>5. f # <<>>
    <3>1. DOMAIN <<>> = {}
      OBVIOUS
    <3> QED BY <2>2, <3>1
  <2>6. s[i].k \in Meaning!Openers
    BY <1>4, <1>7, <2>1 DEF Open, Opens
  <2>4. f2[Rank(f, s, i)].kind \in KindsOf(s[i].k)
    BY <2>2, <2>3, <2>5, <2>6 DEF Turns, SameUpTo
  <2> QED BY <1>1, <1>4, <1>5, <2>1, <2>2, <2>4 DEF FrameOf
<1>8. ASSUME NEW n \in DOMAIN f2 PROVE \E i \in DOMAIN s2 : Open(s2, i) /\ Rank(f2, s2, i) = n
  <2>1. PICK i \in DOMAIN s : Open(s, i) /\ Rank(f, s, i) = n
    BY <1>5, <1>8 DEF Owned
  <2> QED BY <1>1, <1>4, <2>1
<1>9. ASSUME NEW c \in DOMAIN s2, s2[c].k \in Meaning!Closers
      PROVE  \E i \in DOMAIN s2 : Closes(s2, i, c) /\ s2[c].k \in EndsOf(s2[i].k)
  <2>1. c \in DOMAIN s
    BY <1>1, <1>2, <1>9 DEF OneMore
  <2>2. PICK i \in DOMAIN s : Closes(s, i, c) /\ s[c].k \in EndsOf(s[i].k)
    BY <1>1, <1>9, <2>1 DEF Owned
  <2> QED BY <1>1, <1>4, <2>1, <2>2
<1> QED BY <1>6, <1>7, <1>8, <1>9 DEF Owned

LEMMA OwnedPush ==
  ASSUME NEW s, NEW s2, NEW k \in Meaning!Openers, OneMore(s, s2, k),
         NEW f \in Seq(Frame), NEW f2 \in Seq(Frame), Len(f2) = Len(f) + 1,
         SameUpTo(f, f2, Len(f)), f2[Len(f) + 1].kind \in KindsOf(k), Owned(s, f)
  PROVE  Owned(s2, f2)
<1> DEFINE n1 == Len(s) + 1
<1>1. /\ DOMAIN s2 = DOMAIN s \cup {n1} /\ n1 \notin DOMAIN s
      /\ \A i \in DOMAIN s : Opens(s2, i) <=> Opens(s, i)
      /\ \A i \in DOMAIN s : s2[i] = s[i]
      /\ s2[n1].k = k
  BY LongerOpens
<1>2. Delta(k) = 1 /\ k \notin Meaning!Closers
  BY DEF Delta, Meaning!Openers, Meaning!Closers
<1>3. Open(s2, n1) /\ Bal(s2, n1, Len(s2)) = 1
  BY LongerNew
<1> HIDE DEF n1
<1>4. ASSUME NEW i \in DOMAIN s
      PROVE  /\ Open(s2, i) <=> Open(s, i)
             /\ \A c \in DOMAIN s : Closes(s2, i, c) <=> Closes(s, i, c)
             /\ Rank(f2, s2, i) = Rank(f, s, i)
  <2>1. Open(s2, i) <=> Open(s, i) /\ Bal(s, i, Len(s)) + 1 >= 1
    BY <1>2, LongerOld
  <2>2. Open(s, i) => Bal(s, i, Len(s)) \in Nat \ {0}
    BY OpenOrder DEF OneMore
  <2>3. Rank(f2, s2, i) = Rank(f, s, i)
    BY <1>2, RankStep
  <2>4. \A c \in DOMAIN s : Closes(s2, i, c) <=> Closes(s, i, c)
    BY LongerOld
  <2> QED BY <2>1, <2>2, <2>3, <2>4
<1>5. DOMAIN f2 = DOMAIN f \cup {Len(f) + 1} /\ Rank(f2, s2, n1) = Len(f) + 1
  BY <1>3 DEF Rank
<1>6. ASSUME NEW i \in DOMAIN s2, Opens(s2, i)
      PROVE  Open(s2, i) \/ \E c \in DOMAIN s2 : Closes(s2, i, c)
  BY <1>1, <1>3, <1>4, <1>6 DEF Owned
<1>7. ASSUME NEW i \in DOMAIN s2, Open(s2, i)
      PROVE  Rank(f2, s2, i) \in DOMAIN f2 /\ FrameOf(f2, s2, i).kind \in KindsOf(s2[i].k)
  <2>1. CASE i = n1
    BY <1>1, <1>5, <2>1 DEF FrameOf
  <2>2. CASE i # n1
    <3>1. i \in DOMAIN s
      BY <1>1, <2>2
    <3>2. Rank(f, s, i) \in DOMAIN f /\ f[Rank(f, s, i)].kind \in KindsOf(s[i].k)
      BY <1>4, <1>7, <3>1 DEF Owned, FrameOf
    <3>3. f2[Rank(f, s, i)] = f[Rank(f, s, i)]
      BY <3>2 DEF SameUpTo
    <3> QED BY <1>1, <1>4, <1>5, <3>1, <3>2, <3>3 DEF FrameOf
  <2> QED BY <2>1, <2>2
<1>8. ASSUME NEW n \in DOMAIN f2 PROVE \E i \in DOMAIN s2 : Open(s2, i) /\ Rank(f2, s2, i) = n
  <2>1. CASE n = Len(f) + 1
    BY <1>1, <1>3, <1>5, <2>1
  <2>2. CASE n # Len(f) + 1
    <3>1. PICK i \in DOMAIN s : Open(s, i) /\ Rank(f, s, i) = n
      BY <1>5, <2>2 DEF Owned
    <3> QED BY <1>1, <1>4, <3>1
  <2> QED BY <2>1, <2>2
<1>9. ASSUME NEW c \in DOMAIN s2, s2[c].k \in Meaning!Closers
      PROVE  \E i \in DOMAIN s2 : Closes(s2, i, c) /\ s2[c].k \in EndsOf(s2[i].k)
  <2>1. c \in DOMAIN s
    BY <1>1, <1>2, <1>9
  <2>2. PICK i \in DOMAIN s : Closes(s, i, c) /\ s[c].k \in EndsOf(s[i].k)
    BY <1>1, <1>9, <2>1 DEF Owned
  <2> QED BY <1>1, <1>4, <2>1, <2>2
<1> QED BY <1>6, <1>7, <1>8, <1>9 DEF Owned

LEMMA OwnedPop ==
  ASSUME NEW s, NEW s2, NEW k \in Meaning!Closers, OneMore(s, s2, k),
         NEW f \in Seq(Frame), NEW f2 \in Seq(Frame), f # <<>>, Len(f2) = Len(f) - 1,
         SameUpTo(f, f2, Len(f) - 1), Owned(s, f),
         \A o \in Meaning!Openers : f[Len(f)].kind \in KindsOf(o) => k \in EndsOf(o)
  PROVE  Owned(s2, f2)
<1> DEFINE n1 == Len(s) + 1
<1>1. /\ DOMAIN s2 = DOMAIN s \cup {n1} /\ n1 \notin DOMAIN s
      /\ \A i \in DOMAIN s : Opens(s2, i) <=> Opens(s, i)
      /\ \A i \in DOMAIN s : s2[i] = s[i]
      /\ s2[n1].k = k
  BY LongerOpens, ZenonT(60)
<1>2. Delta(k) = -1 /\ k \notin Meaning!Openers
  BY DEF Delta, Meaning!Openers, Meaning!Closers
<1>3. ~Opens(s2, n1) /\ ~Open(s2, n1)
  BY <1>2, LongerNew
<1>4. ASSUME NEW i \in DOMAIN s
      PROVE  /\ Open(s2, i) <=> Open(s, i) /\ Rank(f, s, i) # Len(f)
             /\ \A c \in DOMAIN s : Closes(s2, i, c) <=> Closes(s, i, c)
             /\ Closes(s2, i, n1) <=> Open(s, i) /\ Rank(f, s, i) = Len(f)
             /\ Rank(f2, s2, i) = Rank(f, s, i)
  <2>1. /\ Open(s2, i) <=> Open(s, i) /\ Bal(s, i, Len(s)) + (-1) >= 1
        /\ Closes(s2, i, n1) <=> Open(s, i) /\ Bal(s, i, Len(s)) + (-1) = 0
        /\ Bal(s, i, Len(s)) \in Int
    BY <1>2, LongerOld
  <2>2. Open(s, i) => Bal(s, i, Len(s)) \in Nat \ {0}
    BY OpenOrder DEF OneMore
  <2>3. Rank(f2, s2, i) = Rank(f, s, i)
    <3>1. Len(f2) = Len(f) + (-1)
      OBVIOUS
    <3> QED BY <1>2, <3>1, RankStep
  <2>4. \A c \in DOMAIN s : Closes(s2, i, c) <=> Closes(s, i, c)
    BY LongerOld
  <2>5. Rank(f, s, i) = Len(f) <=> Bal(s, i, Len(s)) = 1
    BY <2>1 DEF Rank
  <2> QED BY <2>1, <2>2, <2>3, <2>4, <2>5
<1> HIDE DEF n1
<1>5. DOMAIN f2 = DOMAIN f \ {Len(f)} /\ DOMAIN f2 = 1 .. Len(f) - 1 /\ Len(f) \in DOMAIN f
  <2>1. Len(f) \in Nat \ {0} /\ DOMAIN f = 1 .. Len(f) /\ DOMAIN f2 = 1 .. Len(f) - 1
    OBVIOUS
  <2> QED BY <2>1
<1>6. ASSUME NEW i \in DOMAIN s2, Opens(s2, i)
      PROVE  Open(s2, i) \/ \E c \in DOMAIN s2 : Closes(s2, i, c)
  <2>1. i \in DOMAIN s
    BY <1>1, <1>3, <1>6
  <2>2. Open(s, i) \/ \E c \in DOMAIN s : Closes(s, i, c)
    BY <1>1, <1>6, <2>1 DEF Owned
  <2> QED BY <1>1, <1>4, <2>1, <2>2
<1>7. ASSUME NEW i \in DOMAIN s2, Open(s2, i)
      PROVE  Rank(f2, s2, i) \in DOMAIN f2 /\ FrameOf(f2, s2, i).kind \in KindsOf(s2[i].k)
  <2>1. i \in DOMAIN s
    BY <1>1, <1>3, <1>7
  <2>2. Rank(f, s, i) \in DOMAIN f2 /\ f[Rank(f, s, i)].kind \in KindsOf(s[i].k)
    BY <1>4, <1>5, <1>7, <2>1 DEF Owned, FrameOf
  <2>3. f2[Rank(f, s, i)] = f[Rank(f, s, i)]
    BY <1>5, <2>2 DEF SameUpTo
  <2> QED BY <1>1, <1>4, <2>1, <2>2, <2>3 DEF FrameOf
<1>8. ASSUME NEW n \in DOMAIN f2 PROVE \E i \in DOMAIN s2 : Open(s2, i) /\ Rank(f2, s2, i) = n
  <2>1. PICK i \in DOMAIN s : Open(s, i) /\ Rank(f, s, i) = n
    BY <1>5 DEF Owned
  <2> QED BY <1>1, <1>4, <1>5, <2>1
<1>9. ASSUME NEW c \in DOMAIN s2, s2[c].k \in Meaning!Closers
      PROVE  \E i \in DOMAIN s2 : Closes(s2, i, c) /\ s2[c].k \in EndsOf(s2[i].k)
  <2>1. CASE c = n1
    <3>1. PICK i \in DOMAIN s : Open(s, i) /\ Rank(f, s, i) = Len(f)
      BY <1>5 DEF Owned
    <3>2. f[Len(f)].kind \in KindsOf(s[i].k) /\ s[i].k \in Meaning!Openers
      BY <3>1 DEF Owned, FrameOf, Open, Opens
    <3> QED BY <1>1, <1>4, <2>1, <3>1, <3>2
  <2>2. CASE c # n1
    <3>1. c \in DOMAIN s
      BY <1>1, <2>2
    <3>2. PICK i \in DOMAIN s : Closes(s, i, c) /\ s[c].k \in EndsOf(s[i].k)
      BY <1>1, <1>9, <3>1 DEF Owned
    <3> QED BY <1>1, <1>4, <3>1, <3>2
  <2> QED BY <2>1, <2>2
<1> QED BY <1>6, <1>7, <1>8, <1>9 DEF Owned

-----------------------------------------------------------------------------
(* The place of a token in the code.                                        *)

LEMMA FirstIs ==
  ASSUME NEW S \in SUBSET Int, NEW x \in S, \A y \in S : x <= y
  PROVE  Meaning!First(S) = x
<1>1. \E m \in S : \A n \in S : m <= n
  OBVIOUS
<1>2. Meaning!First(S) \in S /\ \A n \in S : Meaning!First(S) <= n
  BY <1>1 DEF Meaning!First
<1>3. Meaning!First(S) \in Int /\ x \in Int /\ Meaning!First(S) <= x /\ x <= Meaning!First(S)
  BY <1>2
<1> QED BY <1>3

LEMMA FirstOf ==
  ASSUME NEW S \in SUBSET Nat, S # {}
  PROVE  Meaning!First(S) \in S /\ \A n \in S : Meaning!First(S) <= n
<1>1. PICK x \in S : \A y \in S : ~(<<y, x>> \in OpToRel(<, Nat))
  BY WFMin, NatLessThanWellFounded
<1>4. \A y \in S : y \in Nat /\ x \in Nat
  OBVIOUS
<1>5. \A y \in S : ~(y < x)
  BY <1>1, <1>4 DEF OpToRel
<1>2. \A y \in S : x <= y
  BY <1>4, <1>5
<1>3. S \in SUBSET Int
  OBVIOUS
<1> QED BY <1>2, <1>3, FirstIs

From(b, i) == {a \in DOMAIN b.ins : b.ins[a].tok >= i} \cup {b.pos}

LEMMA PlaceFacts ==
  ASSUME NEW b, IsCode(b), NEW i \in Int
  PROVE  /\ Place(b, i) \in From(b, i) /\ \A a \in From(b, i) : Place(b, i) <= a
         /\ Place(b, i) \in Nat /\ Place(b, i) <= b.pos /\ From(b, i) \subseteq Nat
<1>1. From(b, i) \in SUBSET Nat /\ From(b, i) # {} /\ b.pos \in From(b, i)
  BY DEF From, IsCode
<1>2. Place(b, i) = Meaning!First(From(b, i))
  BY DEF Place, From
<1>3. Place(b, i) \in From(b, i) /\ \A a \in From(b, i) : Place(b, i) <= a
  BY <1>1, <1>2, FirstOf
<1> QED BY <1>1, <1>3

LEMMA PlaceMono ==
  ASSUME NEW b, IsCode(b), NEW i \in Int, NEW j \in Int, i <= j
  PROVE  Place(b, i) <= Place(b, j)
<1>1. Place(b, j) \in From(b, j) /\ \A a \in From(b, i) : Place(b, i) <= a
  BY PlaceFacts
<1>2. From(b, j) \subseteq From(b, i)
  <2>1. \A a \in DOMAIN b.ins : b.ins[a].tok \in Nat
    BY DEF IsCode, Instr
  <2> QED BY <2>1 DEF From
<1> QED BY <1>1, <1>2

-----------------------------------------------------------------------------
(* What the code for one more token does to the code there was: nothing is  *)
(* moved, and what is new belongs to the token n.                           *)
Adds(b, e, n) ==
  /\ IsCode(e) /\ b.pos <= e.pos /\ DOMAIN b.ins \subseteq DOMAIN e.ins
  /\ \A a \in DOMAIN b.ins : /\ e.ins[a].tok = b.ins[a].tok
                             /\ e.ins[a].len = b.ins[a].len
                             /\ e.ins[a].val = b.ins[a].val
  /\ \A a \in DOMAIN e.ins : a \notin DOMAIN b.ins => a >= b.pos /\ e.ins[a].tok = n
  /\ e.pos > b.pos => b.pos \in DOMAIN e.ins

LEMMA AddsNothing ==
  ASSUME NEW b, IsCode(b), NEW n
  PROVE  Adds(b, b, n)
  BY DEF Adds, IsCode

LEMMA AddsTwice ==
  ASSUME NEW b, IsCode(b), NEW c, NEW e, NEW n, Adds(b, c, n), Adds(c, e, n)
  PROVE  Adds(b, e, n)
<1>1. /\ b.pos \in Nat /\ c.pos \in Nat /\ e.pos \in Nat /\ IsCode(e) /\ b.pos <= c.pos /\ c.pos <= e.pos
      /\ DOMAIN e.ins \subseteq Nat /\ DOMAIN c.ins \subseteq Nat
  BY DEF Adds, IsCode
<1>2. ASSUME NEW a \in DOMAIN e.ins, a \notin DOMAIN b.ins
      PROVE  a >= b.pos /\ e.ins[a].tok = n
  <2>1. CASE a \in DOMAIN c.ins
    BY <1>2, <2>1 DEF Adds
  <2>2. CASE a \notin DOMAIN c.ins
    BY <1>1, <1>2, <2>2 DEF Adds
  <2> QED BY <2>1, <2>2
<1>3. e.pos > b.pos => b.pos \in DOMAIN e.ins
  BY <1>1 DEF Adds
<1> QED BY <1>1, <1>2, <1>3 DEF Adds

LEMMA PlaceStep ==
  ASSUME NEW b, IsCode(b), NEW e, NEW n \in Nat \ {0}, Adds(b, e, n), Tokened(b, n - 1)
  PROVE  /\ \A i \in Int : i <= n => Place(e, i) = Place(b, i)
         /\ Place(b, n) = b.pos /\ Place(e, n) = b.pos /\ Place(e, n + 1) = e.pos
         /\ Tokened(e, n)
<1>1. /\ b.pos \in Nat /\ e.pos \in Nat /\ IsCode(e) /\ b.pos \notin DOMAIN b.ins
      /\ DOMAIN b.ins \subseteq Nat /\ DOMAIN e.ins \subseteq Nat
      /\ \A a \in DOMAIN b.ins : b.ins[a].tok \in Nat
      /\ \A a \in DOMAIN e.ins : e.ins[a].tok \in Nat
  BY DEF Adds, IsCode, Instr
<1>2. ASSUME NEW i \in Int, i <= n PROVE Place(e, i) = Place(b, i)
  <2> PICK m : m = Place(b, i)
    OBVIOUS
  <2>1. m \in From(b, i) /\ (\A a \in From(b, i) : m <= a) /\ m \in Nat /\ m <= b.pos
    BY PlaceFacts
  <2>2. m \in From(e, i)
    <3>1. CASE m \in DOMAIN b.ins /\ b.ins[m].tok >= i
      BY <3>1 DEF Adds, From
    <3>2. CASE m = b.pos
      <4>1. CASE e.pos = b.pos
        BY <3>2, <4>1 DEF From
      <4>2. CASE e.pos # b.pos
        <5>1. b.pos \in DOMAIN e.ins /\ e.ins[b.pos].tok = n
          BY <1>1, <4>2 DEF Adds
        <5> QED BY <1>2, <3>2, <5>1 DEF From
      <4> QED BY <4>1, <4>2
    <3> QED BY <2>1, <3>1, <3>2 DEF From
  <2>3. \A a \in From(e, i) : m <= a
    <3> SUFFICES ASSUME NEW a \in From(e, i) PROVE m <= a
      OBVIOUS
    <3>1. CASE a \in DOMAIN b.ins
      <4>1. a \in DOMAIN e.ins
        BY <3>1 DEF Adds
      <4>2. a # e.pos
        BY <1>1, <4>1 DEF IsCode
      <4>3. e.ins[a].tok >= i /\ e.ins[a].tok = b.ins[a].tok
        BY <3>1, <4>2 DEF From, Adds
      <4> QED BY <2>1, <3>1, <4>3 DEF From
    <3>2. CASE a \notin DOMAIN b.ins
      <4>1. a >= b.pos /\ a \in Nat
        BY <1>1, <3>2 DEF From, Adds
      <4> QED BY <1>1, <2>1, <4>1
    <3> QED BY <3>1, <3>2
  <2>4. From(e, i) \in SUBSET Int
    BY <1>1, PlaceFacts
  <2>5. Meaning!First(From(e, i)) = m
    BY <2>2, <2>3, <2>4, FirstIs
  <2> QED BY <2>5 DEF Place, From
<1>3. Tokened(e, n)
  BY <1>1 DEF Tokened, Adds
<1>4. ASSUME NEW c, IsCode(c), NEW k \in Nat, Tokened(c, k) PROVE Place(c, k + 1) = c.pos
  <2>1. c.pos \in Nat /\ From(c, k + 1) = {c.pos}
    BY <1>4 DEF Tokened, From, IsCode
  <2>2. Meaning!First({c.pos}) = c.pos
    BY <2>1, FirstIs
  <2> QED BY <2>1, <2>2 DEF Place, From
<1>5. Place(b, n) = b.pos
  <2> PICK k \in Nat : k = n - 1
    OBVIOUS
  <2>1. Tokened(b, k) /\ k + 1 = n
    OBVIOUS
  <2>2. Place(b, k + 1) = b.pos
    BY <1>4, <2>1
  <2> QED BY <2>1, <2>2
<1>6. Place(e, n + 1) = e.pos
  BY <1>1, <1>3, <1>4
<1>7. Place(e, n) = b.pos
  BY <1>2, <1>5
<1> QED BY <1>2, <1>3, <1>5, <1>6, <1>7

-----------------------------------------------------------------------------
(* Each of the helpers adds.                                                *)

LEMMA EmitAdds ==
  ASSUME NEW b, IsCode(b), NEW op \in Ops, NEW n \in Nat \ {0},
         NEW off \in Int, NEW val \in Int, prog \in Seq(Tokens)
  PROVE  LET e == Emit(b, op, n, off, val) IN
         /\ Adds(b, e, Len(prog) + 1) /\ IsCode(e)
         /\ e.pos = b.pos + n /\ DOMAIN e.ins = DOMAIN b.ins \cup {b.pos}
         /\ b.pos \notin DOMAIN b.ins
         /\ \A a \in DOMAIN b.ins : e.ins[a] = b.ins[a]
         /\ Is(e, b.pos, op, Len(prog) + 1)
         /\ e.ins[b.pos].len = n /\ e.ins[b.pos].off = off /\ e.ins[b.pos].val = val
<1> DEFINE new == [op |-> op, len |-> n, off |-> off, val |-> val,
                   tok |-> Len(prog) + 1, d |-> DepthHere(b)]
<1> PICK e : e = Emit(b, op, n, off, val)
  OBVIOUS
<1>1. /\ IsCode(e)
      /\ e.pos = b.pos + n
      /\ DOMAIN e.ins = DOMAIN b.ins \cup {b.pos}
      /\ \A a \in DOMAIN b.ins : e.ins[a] = b.ins[a]
      /\ b.pos \notin DOMAIN b.ins
  BY EmitCode
<1>2. e.ins[b.pos] = new
  BY DEF Emit
<1>3. e.ins[b.pos].tok = Len(prog) + 1 /\ e.ins[b.pos].len = n /\ e.ins[b.pos].off = off
      /\ e.ins[b.pos].val = val /\ e.ins[b.pos].op = op
  BY <1>2
<1>4. b.pos \in Nat
  BY DEF IsCode
<1>5. Adds(b, e, Len(prog) + 1)
  BY <1>1, <1>3, <1>4 DEF Adds
<1>6. Is(e, b.pos, op, Len(prog) + 1)
  BY <1>1, <1>3 DEF Is
<1> QED BY <1>1, <1>3, <1>5, <1>6

LEMMA ChunkAdds ==
  ASSUME NEW b, IsCode(b), NEW op \in Ops, NEW n \in Nat \ {0}, prog \in Seq(Tokens)
  PROVE  LET e == EmitChunk(b, op, n) IN
         /\ Adds(b, e, Len(prog) + 1) /\ IsCode(e)
         /\ e.pos = b.pos + n /\ DOMAIN e.ins = DOMAIN b.ins \cup {b.pos}
         /\ b.pos \notin DOMAIN b.ins
         /\ \A a \in DOMAIN b.ins : e.ins[a] = b.ins[a]
         /\ Is(e, b.pos, op, Len(prog) + 1) /\ e.ins[b.pos].len = n
<1>1. 0 \in Int
  OBVIOUS
<1> QED BY <1>1, EmitAdds DEF EmitChunk

LEMMA HoleAdds ==
  ASSUME NEW b, IsCode(b), NEW op \in Ops, prog \in Seq(Tokens)
  PROVE  LET e == EmitHole(b, op) IN
         /\ Adds(b, e, Len(prog) + 1) /\ IsCode(e)
         /\ e.pos = b.pos + 3 /\ DOMAIN e.ins = DOMAIN b.ins \cup {b.pos}
         /\ b.pos \notin DOMAIN b.ins
         /\ \A a \in DOMAIN b.ins : e.ins[a] = b.ins[a]
         /\ Is(e, b.pos, op, Len(prog) + 1) /\ e.ins[b.pos].len = 3
<1>1. 0 \in Int /\ 3 \in Nat \ {0}
  OBVIOUS
<1> QED BY <1>1, EmitAdds DEF EmitHole

LEMMA JumpAdds ==
  ASSUME NEW b, IsCode(b), NEW op \in Ops, NEW to \in Nat, to <= b.pos, b.pos < ShortHalf,
         prog \in Seq(Tokens)
  PROVE  LET e == EmitJump(b, op, to) IN
         /\ Adds(b, e, Len(prog) + 1) /\ IsCode(e)
         /\ e.pos = b.pos + 3 /\ DOMAIN e.ins = DOMAIN b.ins \cup {b.pos}
         /\ b.pos \notin DOMAIN b.ins
         /\ \A a \in DOMAIN b.ins : e.ins[a] = b.ins[a]
         /\ Is(e, b.pos, op, Len(prog) + 1) /\ e.ins[b.pos].len = 3
         /\ Target(e, b.pos) = to
<1>0. b.pos \in Nat /\ to - b.pos \in Int /\ 0 \in Int /\ 3 \in Nat \ {0} /\ ShortHalf \in Nat
  BY ShortAssumption DEF IsCode
<1>1. Short(to - b.pos) = to - b.pos
  BY <1>0, ShortSame
<1> PICK off \in Int : off = to - b.pos
  BY <1>0
<1> PICK e : e = Emit(b, op, 3, off, 0)
  OBVIOUS
<1>2. /\ Adds(b, e, Len(prog) + 1) /\ IsCode(e)
      /\ e.pos = b.pos + 3 /\ DOMAIN e.ins = DOMAIN b.ins \cup {b.pos}
      /\ b.pos \notin DOMAIN b.ins
      /\ \A a \in DOMAIN b.ins : e.ins[a] = b.ins[a]
      /\ Is(e, b.pos, op, Len(prog) + 1)
      /\ e.ins[b.pos].len = 3 /\ e.ins[b.pos].off = off
  BY <1>0, EmitAdds
<1>3. Target(e, b.pos) = to
  BY <1>0, <1>2 DEF Target
<1>4. EmitJump(b, op, to) = e
  BY <1>1 DEF EmitJump
<1> QED BY <1>2, <1>3, <1>4

LEMMA PatchAdds ==
  ASSUME NEW b, IsCode(b), NEW S, NEW to \in Nat, to < ShortHalf, b.pos < ShortHalf, NEW n
  PROVE  LET e == Patch(b, S, to) IN
         /\ Adds(b, e, n) /\ IsCode(e) /\ e.pos = b.pos /\ DOMAIN e.ins = DOMAIN b.ins
         /\ \A a \in DOMAIN b.ins :
              /\ e.ins[a].op = b.ins[a].op
              /\ a \notin S => e.ins[a] = b.ins[a]
              /\ a \in S => Target(e, a) = to
<1> PICK e : e = Patch(b, S, to)
  OBVIOUS
<1>1. /\ IsCode(e) /\ e.pos = b.pos /\ DOMAIN e.ins = DOMAIN b.ins
      /\ \A a \in DOMAIN b.ins : 
           /\ e.ins[a].op = b.ins[a].op
           /\ a \notin S => e.ins[a] = b.ins[a]
           /\ a \in S => e.ins[a].off = Short(to - a)
  BY PatchCode
<1>2. e.ins = [a \in DOMAIN b.ins |->
                 IF a \in S THEN [b.ins[a] EXCEPT !.off = Short(to - a)] ELSE b.ins[a]]
  BY DEF Patch, IsCode
<1>3. \A a \in DOMAIN b.ins : /\ e.ins[a].tok = b.ins[a].tok
                              /\ e.ins[a].len = b.ins[a].len
                              /\ e.ins[a].val = b.ins[a].val
  <2> SUFFICES ASSUME NEW a \in DOMAIN b.ins
               PROVE  e.ins[a].tok = b.ins[a].tok /\ e.ins[a].len = b.ins[a].len
                      /\ e.ins[a].val = b.ins[a].val
    OBVIOUS
  <2>1. b.ins[a] \in Instr
    BY DEF IsCode
  <2> QED BY <1>2, <2>1 DEF Instr
<1>4. Adds(b, e, n)
  BY <1>1, <1>3 DEF Adds, IsCode
<1>5. ASSUME NEW a \in DOMAIN b.ins, a \in S PROVE Target(e, a) = to
  <2>1. a \in Nat /\ a < b.pos /\ b.pos \in Nat /\ ShortHalf \in Nat
    BY ShortAssumption DEF IsCode
  <2>2. Short(to - a) = to - a
    BY <2>1, ShortSame
  <2> QED BY <1>1, <1>5, <2>1, <2>2 DEF Target
<1> QED BY <1>1, <1>4, <1>5

(* The break marks in start..end-1 of b are gotos to "to" in e.             *)
Transformed(b, e, n, start, end, to) ==
  /\ Adds(b, e, n) /\ IsCode(e) /\ e.pos = b.pos /\ DOMAIN e.ins = DOMAIN b.ins
  /\ \A a \in DOMAIN b.ins :
       /\ ~(a \in start .. end - 1 /\ b.ins[a].op = "break") => e.ins[a] = b.ins[a]
       /\ a \in start .. end - 1 /\ b.ins[a].op = "break" => e.ins[a].op = "goto" /\ Target(e, a) = to

LEMMA TransformAdds ==
  ASSUME NEW b, IsCode(b), NEW start, NEW end, NEW to \in Nat, to < ShortHalf, b.pos < ShortHalf, NEW n
  PROVE  Transformed(b, TransformBreaks(b, start, end, to), n, start, end, to)
<1> DEFINE In(a) == a \in start .. end - 1 /\ b.ins[a].op = "break"
<1> PICK e : e = TransformBreaks(b, start, end, to)
  OBVIOUS
<1>1. /\ IsCode(e) /\ e.pos = b.pos /\ DOMAIN e.ins = DOMAIN b.ins
      /\ \A a \in DOMAIN b.ins :
           /\ ~In(a) => e.ins[a] = b.ins[a]
           /\ In(a) => e.ins[a].op = "goto" /\ e.ins[a].off = Short(to - a)
  BY TransformCode
<1>2. e.ins = [a \in DOMAIN b.ins |->
                 IF In(a) THEN [b.ins[a] EXCEPT !.op = "goto", !.off = Short(to - a)]
                 ELSE b.ins[a]]
  BY DEF TransformBreaks, IsCode
<1> HIDE DEF In
<1>3. \A a \in DOMAIN b.ins : /\ e.ins[a].tok = b.ins[a].tok
                              /\ e.ins[a].len = b.ins[a].len
                              /\ e.ins[a].val = b.ins[a].val
  <2> SUFFICES ASSUME NEW a \in DOMAIN b.ins
               PROVE  e.ins[a].tok = b.ins[a].tok /\ e.ins[a].len = b.ins[a].len
                      /\ e.ins[a].val = b.ins[a].val
    OBVIOUS
  <2>1. b.ins[a] \in Instr
    BY DEF IsCode
  <2> QED BY <1>2, <2>1 DEF Instr
<1>4. Adds(b, e, n)
  BY <1>1, <1>3 DEF Adds, IsCode
<1>5. ASSUME NEW a \in DOMAIN b.ins, In(a) PROVE Target(e, a) = to
  <2>1. a \in Nat /\ a < b.pos /\ b.pos \in Nat /\ ShortHalf \in Nat
    BY ShortAssumption DEF IsCode
  <2>2. Short(to - a) = to - a
    BY <2>1, ShortSame
  <2> QED BY <1>1, <1>5, <2>1, <2>2 DEF Target
<1> QED BY <1>1, <1>4, <1>5 DEF In, Transformed

-----------------------------------------------------------------------------
(* The tokens that have a branch of their own.                              *)
Branchers == {"if", "while", "until", "forever", "rof", "for", "label",
              "else", "od", "endarm", "break"}

HasBranch(b, s, t) == s[t].k \in Branchers \/ (s[t].k = "colon" /\ WithGoto(b, t))

LEMMA BranchFacts ==
  ASSUME NEW b, IsCode(b), NEW s \in Seq(Tokens), NEW t \in DOMAIN s,
         Shape(b, s, t), HasBranch(b, s, t)
  PROVE  /\ BranchAt(b, s, t) \in DOMAIN b.ins /\ b.ins[BranchAt(b, s, t)].tok = t
         /\ s[t].k = "label" => b.ins[BranchAt(b, s, t)].op # "if_icmplt"
         /\ s[t].k # "break" => b.ins[BranchAt(b, s, t)].op # "break"
<1> DEFINE p == Place(b, t)
           q == Place(b, t + 1)
<1>0. t \in Int /\ t + 1 \in Int
  OBVIOUS
<1>1. p \in Nat /\ q \in Nat
  BY <1>0, PlaceFacts
<1> HIDE DEF p, q
<1>2. CASE s[t].k \in {"else", "od", "endarm"}
  <2>1. Is(b, p, "goto", t) /\ BranchAt(b, s, t) = p
    BY <1>2 DEF Shape, BranchAt, p
  <2> QED BY <1>2, <2>1 DEF Is
<1>3. CASE s[t].k = "break"
  <2>1. (Is(b, p, "break", t) \/ Is(b, p, "goto", t)) /\ BranchAt(b, s, t) = p
    BY <1>3 DEF Shape, BranchAt, p
  <2> QED BY <1>3, <2>1 DEF Is
<1>4. CASE s[t].k = "colon"
  <2>1. WithGoto(b, t) /\ BranchAt(b, s, t) = p
    BY <1>4 DEF HasBranch, Branchers, BranchAt, p
  <2>2. p = q - 1 \/ Is(b, p, "goto", t)
    BY <1>4 DEF Shape, p, q
  <2>3. q = p + 4
    BY <2>1 DEF WithGoto, p, q
  <2>4. Is(b, p, "goto", t)
    BY <1>1, <2>2, <2>3
  <2> QED BY <1>4, <2>1, <2>4 DEF Is
<1>5. CASE s[t].k \in {"if", "while", "until"}
  <2>1. Tests(b, t, "cond", {"ifeq"}) /\ BranchAt(b, s, t) = q - 3
    BY <1>5 DEF Shape, BranchAt, q
  <2> QED BY <1>5, <2>1 DEF Tests, q
<1>6. CASE s[t].k = "forever"
  <2>1. Tests(b, t, "false", {"ifeq"}) /\ BranchAt(b, s, t) = q - 3
    BY <1>6 DEF Shape, BranchAt, q
  <2> QED BY <1>6, <2>1 DEF Tests, q
<1>7. CASE s[t].k = "rof"
  <2>1. Tests(b, t, "incr", {"goto"}) /\ BranchAt(b, s, t) = q - 3
    BY <1>7 DEF Shape, BranchAt, q
  <2> QED BY <1>7, <2>1 DEF Tests, q
<1>8. CASE s[t].k = "for"
  <2>1. Is(b, q - 3, IF s[t].lo = 1 THEN "if_icmplt" ELSE "if_icmpgt", t) /\ BranchAt(b, s, t) = q - 3
    BY <1>8 DEF Shape, BranchAt, q
  <2> QED BY <1>8, <2>1 DEF Is
<1>9. CASE s[t].k = "label"
  <2>1. BranchAt(b, s, t) = q - 3 /\ (PlainLabel(b, s, t) \/ RangeLabel(b, s, t))
    BY <1>9 DEF Shape, BranchAt, q
  <2>2. CASE PlainLabel(b, s, t)
    BY <1>9, <2>1, <2>2 DEF PlainLabel, Tests, q
  <2>3. CASE RangeLabel(b, s, t)
    BY <1>9, <2>1, <2>3 DEF RangeLabel, Is, q
  <2> QED BY <2>1, <2>2, <2>3
<1> QED BY <1>2, <1>3, <1>4, <1>5, <1>6, <1>7, <1>8, <1>9 DEF HasBranch, Branchers

-----------------------------------------------------------------------------
(* What may happen to the instructions of an old token.                     *)
Turn(o, p) == (o = "ifeq" /\ p = "ifne") \/ (o = "if_icmpeq" /\ p = "if_icmpne")

Touches(b, e, s, t) ==
  \A a \in DOMAIN b.ins : b.ins[a].tok = t =>
    \/ /\ e.ins[a].op = b.ins[a].op
       /\ e.ins[a].off = b.ins[a].off \/ a = BranchAt(b, s, t)
    \/ b.ins[a].op = "break" /\ e.ins[a].op = "goto"
    \/ s[t].k = "label" /\ a = BranchAt(b, s, t) /\ Turn(b.ins[a].op, e.ins[a].op)

LEMMA ShapeStays ==
  ASSUME NEW b, IsCode(b), NEW s, NEW s2, NEW k, OneMore(s, s2, k), NEW e,
         Adds(b, e, Len(s) + 1), Tokened(b, Len(s)), NEW t \in DOMAIN s,
         Shape(b, s, t), Touches(b, e, s, t), s[t].k = "esac" => t >= 2
  PROVE  Shape(e, s2, t)
<1> DEFINE p == Place(b, t)
           q == Place(b, t + 1)
<1>0. t \in Int /\ t + 1 \in Int /\ t <= Len(s) /\ t >= 1 /\ Len(s) \in Nat /\ s \in Seq(Tokens)
      /\ Len(s) + 1 \in Nat \ {0} /\ (Len(s) + 1) - 1 = Len(s) /\ t <= Len(s) + 1 /\ t + 1 <= Len(s) + 1
  BY DEF OneMore
<1>1. p \in Nat /\ q \in Nat
  BY <1>0, PlaceFacts
<1>2. Place(e, t) = p /\ Place(e, t + 1) = q
  BY <1>0, PlaceStep
<1>3. s2[t] = s[t] /\ (t >= 2 => s2[t-1] = s[t-1])
  BY <1>0 DEF OneMore
<1> HIDE DEF p, q
<1>4. ASSUME NEW a \in DOMAIN b.ins
      PROVE  /\ a \in DOMAIN e.ins /\ e.ins[a].tok = b.ins[a].tok
             /\ e.ins[a].len = b.ins[a].len /\ e.ins[a].val = b.ins[a].val
             /\ Past(e, a) = Past(b, a)
  <2>1. /\ a \in DOMAIN e.ins /\ e.ins[a].tok = b.ins[a].tok
             /\ e.ins[a].len = b.ins[a].len /\ e.ins[a].val = b.ins[a].val
    BY DEF Adds
  <2> QED BY <2>1 DEF Past
<1>5. ASSUME NEW a, NEW op, Is(b, a, op, t), op # "break", s[t].k # "label" \/ op \notin {"ifeq", "if_icmpeq"}
      PROVE  Is(e, a, op, t) /\ (s[t].k = "label" /\ a # BranchAt(b, s, t) => Target(e, a) = Target(b, a))
             /\ Past(e, a) = Past(b, a) /\ e.ins[a].len = b.ins[a].len /\ e.ins[a].val = b.ins[a].val
  <2>1. a \in DOMAIN b.ins /\ b.ins[a].op = op /\ b.ins[a].tok = t
    BY <1>5 DEF Is
  <2>2. e.ins[a].op = op /\ (s[t].k = "label" /\ a # BranchAt(b, s, t) => e.ins[a].off = b.ins[a].off)
    BY <1>5, <2>1 DEF Touches, Turn
  <2> QED BY <1>4, <2>1, <2>2 DEF Is, Target
<1>6. ASSUME NEW op, NEW o2, op # "break", o2 # "break", s[t].k # "label",
             Tests(b, t, op, {o2})
      PROVE  Tests(e, t, op, {o2})
  <2>1. Is(b, p, op, t) /\ Past(b, p) = q - 3 /\ Is(b, q - 3, o2, t) /\ b.ins[q - 3].len = 3
    BY <1>6 DEF Tests, Is, p, q
  <2>2. Is(e, p, op, t) /\ Past(e, p) = q - 3 /\ Is(e, q - 3, o2, t) /\ e.ins[q - 3].len = 3
    BY <1>5, <1>6, <2>1
  <2> QED BY <1>2, <2>2 DEF Tests, Is
<1>7. CASE s[t].k = "stmt"
  <2>1. Is(b, p, "stmt", t) /\ Past(b, p) = q
    BY <1>7 DEF Shape, p, q
  <2> QED BY <1>2, <1>3, <1>5, <1>7, <2>1 DEF Shape
<1>8. CASE s[t].k = "exit"
  <2>1. Is(b, p, "return", t) \/ Is(b, p, "halt", t)
    BY <1>8 DEF Shape, p, q
  <2> QED BY <1>2, <1>3, <1>5, <1>8, <2>1 DEF Shape
<1>9. CASE s[t].k = "break"
  <2>1. (Is(b, p, "break", t) \/ Is(b, p, "goto", t)) /\ q = p + 3
    BY <1>9 DEF Shape, p, q
  <2>2. Is(e, p, "break", t) \/ Is(e, p, "goto", t)
    <3>1. CASE Is(b, p, "goto", t)
      BY <1>5, <1>9, <3>1
    <3>2. CASE Is(b, p, "break", t)
      BY <1>4, <1>9, <3>2 DEF Touches, Is
    <3> QED BY <2>1, <3>1, <3>2
  <2> QED BY <1>2, <1>3, <1>9, <2>1, <2>2 DEF Shape
<1>10. CASE s[t].k \in {"else", "od", "endarm"}
  <2>1. Is(b, p, "goto", t) /\ q = p + 3
    BY <1>10 DEF Shape, p, q
  <2> QED BY <1>2, <1>3, <1>5, <1>10, <2>1 DEF Shape
<1>11. CASE s[t].k \in {"fi", "repeat"}
  BY <1>2, <1>3, <1>11 DEF Shape, p, q
<1>12. CASE s[t].k \in {"if", "while", "until"}
  <2>1. Tests(b, t, "cond", {"ifeq"})
    BY <1>12 DEF Shape
  <2>2. Tests(e, t, "cond", {"ifeq"})
    BY <1>6, <1>12, <2>1
  <2> QED BY <1>3, <1>12, <2>2 DEF Shape
<1>13. CASE s[t].k = "forever"
  <2>1. Tests(b, t, "false", {"ifeq"})
    BY <1>13 DEF Shape
  <2>2. Tests(e, t, "false", {"ifeq"})
    BY <1>6, <1>13, <2>1
  <2> QED BY <1>3, <1>13, <2>2 DEF Shape
<1>14. CASE s[t].k = "rof"
  <2>1. Tests(b, t, "incr", {"goto"})
    BY <1>14 DEF Shape
  <2>2. Tests(e, t, "incr", {"goto"})
    BY <1>6, <1>14, <2>1
  <2> QED BY <1>3, <1>14, <2>2 DEF Shape
<1>15. CASE s[t].k = "for"
  <2> DEFINE op == IF s[t].lo = 1 THEN "if_icmplt" ELSE "if_icmpgt"
  <2>0. op # "break" /\ op \notin {"ifeq", "if_icmpeq"}
    OBVIOUS
  <2> HIDE DEF op
  <2>1. /\ Is(b, p, "init", t) /\ Is(b, Past(b, p), "limit", t)
        /\ b.ins[Past(b, p)].val = s[t].lo /\ Past(b, Past(b, p)) = q - 3
        /\ s[t].lo \in Direction
        /\ Is(b, q - 3, op, t)
        /\ b.ins[q - 3].len = 3
    BY <1>15 DEF Shape, p, q, op
  <2>2. Is(e, p, "init", t) /\ Past(e, p) = Past(b, p)
    BY <1>5, <1>15, <2>1
  <2>3. /\ Is(e, Past(e, p), "limit", t) /\ e.ins[Past(e, p)].val = s[t].lo
        /\ Past(e, Past(e, p)) = q - 3
    BY <1>5, <1>15, <2>1, <2>2
  <2>4. Is(e, q - 3, op, t) /\ e.ins[q - 3].len = 3
    BY <1>5, <1>15, <2>0, <2>1
  <2> QED BY <1>2, <1>3, <1>15, <2>1, <2>2, <2>3, <2>4 DEF Shape, op
<1>16. CASE s[t].k = "case"
  <2>1. Is(b, p, "select", t) /\ Past(b, p) = q
    BY <1>16 DEF Shape, p, q
  <2> QED BY <1>2, <1>3, <1>5, <1>16, <2>1 DEF Shape
<1>17. CASE s[t].k = "label"
  <2>0. BranchAt(b, s, t) = q - 3
    BY <1>17 DEF BranchAt, q
  <2>1. CASE PlainLabel(b, s, t)
    <3>1. ASSUME NEW op, op # "break", op \notin {"ifeq", "if_icmpeq"}, NEW o1, NEW o2, NEW K,
                 K = {o1, o2}, Turn(o1, o2), Tests(b, t, op, K)
          PROVE  Tests(e, t, op, K) /\ e.ins[p].val = b.ins[p].val
      <4>1. Is(b, p, op, t) /\ Past(b, p) = q - 3 /\ q - 3 \in DOMAIN b.ins /\ b.ins[q - 3].op \in K
            /\ b.ins[q - 3].tok = t /\ b.ins[q - 3].len = 3
        BY <3>1 DEF Tests, p, q
      <4>2. Is(e, p, op, t) /\ Past(e, p) = q - 3 /\ e.ins[p].val = b.ins[p].val
        BY <1>5, <3>1, <4>1
      <4>3. q - 3 \in DOMAIN e.ins /\ e.ins[q - 3].tok = t /\ e.ins[q - 3].len = 3
        BY <1>4, <4>1
      <4>4. e.ins[q - 3].op \in K
        <5>1. b.ins[q - 3].op # "break"
          BY <3>1, <4>1 DEF Turn
        <5>2. e.ins[q - 3].op = b.ins[q - 3].op \/ Turn(b.ins[q - 3].op, e.ins[q - 3].op)
          BY <4>1, <5>1 DEF Touches
        <5> QED BY <3>1, <4>1, <5>2 DEF Turn
      <4> QED BY <1>2, <4>2, <4>3, <4>4 DEF Tests
    <3>2. Turn("ifeq", "ifne") /\ Turn("if_icmpeq", "if_icmpne")
      BY DEF Turn
    <3>3. /\ \/ Tests(b, t, "label", {"if_icmpeq", "if_icmpne"})
             \/ Tests(b, t, "strlabel", {"ifeq", "ifne"})
          /\ b.ins[p].val = s[t].lo /\ s[t].hi = s[t].lo
      BY <2>1 DEF PlainLabel, p
    <3>4. Tests(b, t, "label", {"if_icmpeq", "if_icmpne"}) =>
            Tests(e, t, "label", {"if_icmpeq", "if_icmpne"}) /\ e.ins[p].val = b.ins[p].val
      BY <3>1, <3>2
    <3>5. Tests(b, t, "strlabel", {"ifeq", "ifne"}) =>
            Tests(e, t, "strlabel", {"ifeq", "ifne"}) /\ e.ins[p].val = b.ins[p].val
      BY <3>1, <3>2
    <3>6. PlainLabel(e, s2, t)
      BY <1>2, <1>3, <3>3, <3>4, <3>5 DEF PlainLabel
    <3> QED BY <1>3, <1>17, <3>6 DEF Shape
  <2>2. CASE RangeLabel(b, s, t)
    <3> DEFINE x == Past(b, p)
    <3>1. /\ Is(b, p, "label", t) /\ b.ins[p].val = s[t].lo
          /\ Is(b, x, "if_icmplt", t) /\ b.ins[x].len = 3 /\ Target(b, x) = q - 3 + 3
          /\ Is(b, x + 3, "label", t) /\ b.ins[x + 3].val = s[t].hi /\ Past(b, x + 3) = q - 3
          /\ Is(b, q - 3, "if_icmple", t) /\ b.ins[q - 3].len = 3 /\ s[t].lo <= s[t].hi
      BY <2>2 DEF RangeLabel, p, q
    <3>2. x # q - 3
      BY <3>1 DEF Is
    <3>3. Is(e, p, "label", t) /\ e.ins[p].val = s[t].lo /\ Past(e, p) = x
      BY <1>5, <3>1
    <3> HIDE DEF x
    <3>4. Is(e, x, "if_icmplt", t) /\ e.ins[x].len = 3 /\ Target(e, x) = q - 3 + 3
      BY <1>5, <1>17, <2>0, <3>1, <3>2
    <3>5. Is(e, x + 3, "label", t) /\ e.ins[x + 3].val = s[t].hi /\ Past(e, x + 3) = q - 3
      BY <1>5, <3>1
    <3>6. Is(e, q - 3, "if_icmple", t) /\ e.ins[q - 3].len = 3
      BY <1>5, <3>1
    <3>7. RangeLabel(e, s2, t)
      BY <1>2, <1>3, <3>1, <3>3, <3>4, <3>5, <3>6 DEF RangeLabel
    <3> QED BY <1>3, <1>17, <3>7 DEF Shape
  <2> QED BY <1>17, <2>1, <2>2 DEF Shape
<1>18. CASE s[t].k = "colon"
  <2>1. /\ Is(b, q - 1, "pop", t) /\ b.ins[q - 1].len = 1
        /\ p = q - 1 \/ (Is(b, p, "goto", t) /\ p = q - 4)
    BY <1>18 DEF Shape, p, q
  <2>2. Is(e, q - 1, "pop", t) /\ e.ins[q - 1].len = 1
    BY <1>5, <2>1
  <2>3. Is(b, p, "goto", t) => Is(e, p, "goto", t)
    BY <1>5
  <2> QED BY <1>2, <1>3, <1>18, <2>1, <2>2, <2>3 DEF Shape
<1>19. CASE s[t].k = "caseelse"
  <2>1. Is(b, p, "pop", t) /\ Past(b, p) = q
    BY <1>19 DEF Shape, p, q
  <2> QED BY <1>2, <1>3, <1>5, <1>19, <2>1 DEF Shape
<1>20. CASE s[t].k = "esac"
  <2>1. IF s[t-1].k \in Popping THEN Is(b, p, "pop", t) /\ Past(b, p) = q ELSE p = q
    BY <1>20 DEF Shape, p, q
  <2>2. Is(b, p, "pop", t) => Is(e, p, "pop", t) /\ Past(e, p) = Past(b, p)
    BY <1>5
  <2> QED BY <1>2, <1>3, <1>20, <2>1, <2>2 DEF Shape
<1>21. s[t].k \in Kinds
  <2>1. s[t] \in Tokens
    BY <1>0
  <2> QED BY <2>1 DEF Tokens
<1> QED BY <1>7, <1>8, <1>9, <1>10, <1>11, <1>12, <1>13, <1>14, <1>15, <1>16, <1>17,
           <1>18, <1>19, <1>20, <1>21 DEF Kinds

-----------------------------------------------------------------------------
(* What is left of the old tokens: those in T have been pointed at "to",    *)
(* the labels in V have been turned.                                        *)
KeptToken(b, e, s, s2, T, V, to, t) ==
  /\ Place(e, t) = Place(b, t) /\ Place(e, t + 1) = Place(b, t + 1)
  /\ BranchAt(e, s2, t) = BranchAt(b, s, t)
  /\ s[t].k \in LoopKinds => LoopHead(e, s2, t) = LoopHead(b, s, t)
  /\ PopAt(e, t) = PopAt(b, t) /\ (WithGoto(e, t) <=> WithGoto(b, t)) /\ Skipper(e, t) = Skipper(b, t)
  /\ s[t].k = "label" /\ t \notin V => (TurnedAt(e, s2, t) <=> TurnedAt(b, s, t))
  /\ t \in V => TurnedAt(e, s2, t)
  /\ HasBranch(b, s, t) /\ t \notin T => To(e, s2, t) = To(b, s, t)
  /\ t \in T => To(e, s2, t) = to
  /\ s[t].k = "break" =>
       (Is(e, Place(e, t), "break", t) <=> Is(b, Place(b, t), "break", t) /\ t \notin T)
  /\ Shape(e, s2, t)

Kept(b, e, s, s2, k, T, V, to) ==
  /\ OneMore(s, s2, k)
  /\ \A t \in DOMAIN s : KeptToken(b, e, s, s2, T, V, to, t)
  /\ Place(e, Len(s) + 1) = b.pos /\ Place(e, Len(s) + 2) = e.pos
  /\ Tokened(e, Len(s) + 1) /\ IsCode(e)

Rewrites(b, e, s, T, V, to) ==
  /\ T \subseteq DOMAIN s /\ V \subseteq DOMAIN s
  /\ \A t \in V : s[t].k = "label" /\ Turn(b.ins[BranchAt(b, s, t)].op, e.ins[BranchAt(b, s, t)].op)
  /\ \A t \in T : /\ HasBranch(b, s, t) /\ Target(e, BranchAt(b, s, t)) = to
                  /\ s[t].k = "break" => e.ins[BranchAt(b, s, t)].op = "goto"
  /\ \A a \in DOMAIN b.ins :
       \/ e.ins[a] = b.ins[a]
       \/ e.ins[a].op = b.ins[a].op /\ \E t \in T : a = BranchAt(b, s, t)
       \/ e.ins[a].off = b.ins[a].off /\ \E t \in V : a = BranchAt(b, s, t)
       \/ /\ b.ins[a].op = "break" /\ e.ins[a].op = "goto"
          /\ \A t \in DOMAIN s : s[t].k = "break" /\ BranchAt(b, s, t) = a => t \in T

LEMMA KeptBy ==
  ASSUME NEW b, IsCode(b), NEW s, NEW s2, NEW k, OneMore(s, s2, k), NEW e,
         Adds(b, e, Len(s) + 1), Tokened(b, Len(s)), Shaped(b, s),
         \A t \in DOMAIN s : s[t].k = "esac" => t >= 2,
         NEW T, NEW V, NEW to, Rewrites(b, e, s, T, V, to)
  PROVE  Kept(b, e, s, s2, k, T, V, to)
<1>0. /\ Len(s) \in Nat /\ s \in Seq(Tokens) /\ DOMAIN s = 1 .. Len(s)
      /\ Len(s) + 1 \in Nat \ {0} /\ (Len(s) + 1) - 1 = Len(s) /\ Len(s) + 1 + 1 = Len(s) + 2
  BY DEF OneMore
<1>1. /\ \A i \in Int : i <= Len(s) + 1 => Place(e, i) = Place(b, i)
      /\ Place(e, Len(s) + 1) = b.pos /\ Place(e, Len(s) + 2) = e.pos
      /\ Tokened(e, Len(s) + 1)
  BY <1>0, PlaceStep
<1>2. IsCode(e)
  BY DEF Adds
<1>3. ASSUME NEW t \in DOMAIN s PROVE KeptToken(b, e, s, s2, T, V, to, t)
  <2>0. t \in Int /\ t + 1 \in Int /\ t <= Len(s) + 1 /\ t + 1 <= Len(s) + 1 /\ s2[t] = s[t]
    BY <1>0 DEF OneMore
  <2>1. Place(e, t) = Place(b, t) /\ Place(e, t + 1) = Place(b, t + 1)
    BY <1>1, <2>0
  <2>2. Shape(b, s, t)
    BY DEF Shaped
  <2>3. BranchAt(e, s2, t) = BranchAt(b, s, t)
    BY <2>0, <2>1 DEF BranchAt
  <2>4. ASSUME NEW a \in DOMAIN b.ins
        PROVE  /\ a \in DOMAIN e.ins /\ e.ins[a].tok = b.ins[a].tok
               /\ e.ins[a].len = b.ins[a].len /\ e.ins[a].val = b.ins[a].val
               /\ Past(e, a) = Past(b, a)
    <3>1. /\ a \in DOMAIN e.ins /\ e.ins[a].tok = b.ins[a].tok
          /\ e.ins[a].len = b.ins[a].len /\ e.ins[a].val = b.ins[a].val
      BY DEF Adds
    <3> QED BY <3>1 DEF Past
  <2>5. s[t].k \in LoopKinds => LoopHead(e, s2, t) = LoopHead(b, s, t)
    <3>1. CASE s[t].k = "for"
      <4>1. Place(b, t) \in DOMAIN b.ins
        BY <2>2, <3>1 DEF Shape, Is
      <4> QED BY <2>0, <2>1, <2>4, <3>1, <4>1 DEF LoopHead, Limit
    <3>2. CASE s[t].k # "for"
      BY <2>0, <2>1, <3>2 DEF LoopHead
    <3> QED BY <3>1, <3>2
  <2>6. PopAt(e, t) = PopAt(b, t) /\ (WithGoto(e, t) <=> WithGoto(b, t)) /\ Skipper(e, t) = Skipper(b, t)
    <3>1. PopAt(e, t) = PopAt(b, t) /\ (WithGoto(e, t) <=> WithGoto(b, t))
      BY <2>1 DEF PopAt, WithGoto
    <3> QED BY <3>1 DEF Skipper
  <2>7. ASSUME NEW u \in DOMAIN s, HasBranch(b, s, u)
        PROVE  /\ BranchAt(b, s, u) \in DOMAIN b.ins /\ b.ins[BranchAt(b, s, u)].tok = u
               /\ s[u].k = "label" => b.ins[BranchAt(b, s, u)].op # "if_icmplt"
               /\ s[u].k # "break" => b.ins[BranchAt(b, s, u)].op # "break"
    <3>1. Shape(b, s, u)
      BY DEF Shaped
    <3> QED BY <1>0, <2>7, <3>1, BranchFacts
  <2>8. \A u \in T \cup V : HasBranch(b, s, u) /\ u \in DOMAIN s
    BY DEF Rewrites, HasBranch, Branchers
  <2>9. Touches(b, e, s, t)
    <3> SUFFICES ASSUME NEW a \in DOMAIN b.ins, b.ins[a].tok = t
                 PROVE  \/ /\ e.ins[a].op = b.ins[a].op
                           /\ e.ins[a].off = b.ins[a].off \/ a = BranchAt(b, s, t)
                        \/ b.ins[a].op = "break" /\ e.ins[a].op = "goto"
                        \/ s[t].k = "label" /\ a = BranchAt(b, s, t) /\ Turn(b.ins[a].op, e.ins[a].op)
      BY DEF Touches
    <3>1. CASE e.ins[a] = b.ins[a]
      BY <3>1
    <3>2. CASE e.ins[a].op = b.ins[a].op /\ \E u \in T : a = BranchAt(b, s, u)
      <4>1. PICK u \in T : a = BranchAt(b, s, u)
        BY <3>2
      <4>2. u = t
        BY <2>7, <2>8, <4>1
      <4> QED BY <3>2, <4>1, <4>2
    <3>3. CASE e.ins[a].off = b.ins[a].off /\ \E u \in V : a = BranchAt(b, s, u)
      <4>1. PICK u \in V : a = BranchAt(b, s, u)
        BY <3>3
      <4>2. u = t
        BY <2>7, <2>8, <4>1
      <4> QED BY <4>1, <4>2 DEF Rewrites
    <3>4. CASE b.ins[a].op = "break" /\ e.ins[a].op = "goto"
      BY <3>4
    <3> QED BY <3>1, <3>2, <3>3, <3>4 DEF Rewrites
  <2>10. Shape(e, s2, t)
    BY <2>2, <2>9, ShapeStays
  <2>11. ASSUME HasBranch(b, s, t), t \notin T, t \notin V
         PROVE  e.ins[BranchAt(b, s, t)] = b.ins[BranchAt(b, s, t)]
    <3> PICK a : a = BranchAt(b, s, t)
      OBVIOUS
    <3>1. a \in DOMAIN b.ins /\ b.ins[a].tok = t /\ (s[t].k # "break" => b.ins[a].op # "break")
      BY <2>7, <2>11
    <3>2. ~\E u \in T : a = BranchAt(b, s, u)
      BY <2>7, <2>8, <2>11, <3>1
    <3>3. ~\E u \in V : a = BranchAt(b, s, u)
      BY <2>7, <2>8, <2>11, <3>1
    <3>4. ~(b.ins[a].op = "break" /\ e.ins[a].op = "goto"
             /\ \A u \in DOMAIN s : s[u].k = "break" /\ BranchAt(b, s, u) = a => u \in T)
      BY <2>11, <3>1
    <3> QED BY <3>1, <3>2, <3>3, <3>4 DEF Rewrites
  <2>12. ASSUME HasBranch(b, s, t), t \notin T
         PROVE  To(e, s2, t) = To(b, s, t)
    <3>1. CASE t \notin V
      BY <2>3, <2>11, <2>12, <3>1 DEF To, Target
    <3>2. CASE t \in V
      <4> PICK a : a = BranchAt(b, s, t)
        OBVIOUS
      <4>1. a \in DOMAIN b.ins /\ b.ins[a].tok = t
        BY <2>7, <2>12
      <4>2. Turn(b.ins[a].op, e.ins[a].op)
        BY <3>2 DEF Rewrites
      <4>3. ~\E u \in T : a = BranchAt(b, s, u)
        BY <2>7, <2>8, <2>12, <4>1
      <4>4. e.ins[a].off = b.ins[a].off
        BY <4>1, <4>2, <4>3 DEF Rewrites, Turn
      <4> QED BY <2>3, <4>4 DEF To, Target
    <3> QED BY <3>1, <3>2
  <2>13. t \in T => To(e, s2, t) = to
    BY <2>3 DEF To, Rewrites
  <2>14. t \in V => TurnedAt(e, s2, t)
    BY <2>3 DEF Rewrites, TurnedAt, Turn
  <2>15. ASSUME s[t].k = "label", t \notin V PROVE TurnedAt(e, s2, t) <=> TurnedAt(b, s, t)
    <3>0. HasBranch(b, s, t)
      BY <2>15 DEF HasBranch, Branchers
    <3>1. CASE t \notin T
      BY <2>3, <2>11, <2>15, <3>0, <3>1 DEF TurnedAt
    <3>2. CASE t \in T
      <4> PICK a : a = BranchAt(b, s, t)
        OBVIOUS
      <4>1. a \in DOMAIN b.ins /\ b.ins[a].tok = t /\ b.ins[a].op # "break"
        BY <2>7, <2>15, <3>0
      <4>2. ~\E u \in V : a = BranchAt(b, s, u)
        BY <2>7, <2>8, <2>15, <4>1
      <4>3. e.ins[a].op = b.ins[a].op
        BY <4>1, <4>2 DEF Rewrites
      <4> QED BY <2>3, <4>3 DEF TurnedAt
    <3> QED BY <3>1, <3>2
  <2>16. ASSUME s[t].k = "break"
         PROVE  Is(e, Place(e, t), "break", t) <=> Is(b, Place(b, t), "break", t) /\ t \notin T
    <3>0. HasBranch(b, s, t) /\ t \notin V /\ BranchAt(b, s, t) = Place(b, t)
      BY <2>16 DEF HasBranch, Branchers, Rewrites, BranchAt
    <3>1. Place(b, t) \in DOMAIN b.ins /\ b.ins[Place(b, t)].tok = t
      BY <2>7, <3>0
    <3>2. CASE t \notin T
      <4>1. e.ins[Place(b, t)] = b.ins[Place(b, t)]
        BY <2>11, <3>0, <3>2
      <4> QED BY <2>1, <2>4, <3>1, <3>2, <4>1 DEF Is
    <3>3. CASE t \in T
      BY <2>1, <2>16, <3>0, <3>3 DEF Is, Rewrites
    <3> QED BY <3>2, <3>3
  <2> QED BY <2>1, <2>3, <2>5, <2>6, <2>10, <2>12, <2>13, <2>14, <2>15, <2>16 DEF KeptToken
<1> QED BY <1>1, <1>2, <1>3 DEF Kept

LEMMA ClosesKind ==
  ASSUME NEW s \in Seq(Tokens), NEW i, NEW c, Closes(s, i, c)
  PROVE  s[c].k \in Meaning!Closers
<1>1. i \in Int /\ c \in Int /\ i < c /\ Bal(s, i, c) = 0 /\ OpenTo(s, i, c - 1)
  BY ClosesFacts
<1>2. c - 1 \in i .. c - 1
  BY <1>1
<1>3. Bal(s, i, c - 1) >= 1
  BY <1>1, <1>2 DEF OpenTo
<1>4. i <= (c - 1) + 1 /\ (c - 1) + 1 = c /\ c - 1 \in Int
  BY <1>1
<1>5. Bal(s, i, c) = Bal(s, i, c - 1) + Delta(s[c].k) /\ Bal(s, i, c - 1) \in Int
  BY <1>1, <1>4, BalNext
<1> QED BY <1>1, <1>3, <1>5 DEF Delta

LEMMA ClosesEnds ==
  ASSUME NEW s \in Seq(Tokens), NEW f, Owned(s, f), NEW i, NEW c, Closes(s, i, c)
  PROVE  s[c].k \in EndsOf(s[i].k) /\ s[c].k \in Meaning!Closers
<1>1. c \in DOMAIN s /\ s[c].k \in Meaning!Closers
  BY ClosesFacts, ClosesKind
<1>2. PICK j \in DOMAIN s : Closes(s, j, c) /\ s[c].k \in EndsOf(s[j].k)
  BY <1>1 DEF Owned
<1>3. j = i
  BY <1>2, ClosesOwner
<1> QED BY <1>1, <1>2, <1>3

-----------------------------------------------------------------------------
(* The bracket i is not touched by one more token.                          *)
Inward == {"else", "label", "colon", "endarm", "caseelse"}

Aside(s, s2, k, f, f2, T, V, i) ==
  /\ Open(s2, i) <=> Open(s, i)
  /\ Open(s, i) => FrameOf(f2, s2, i) = FrameOf(f, s, i)
  /\ ~Closes(s2, i, Len(s) + 1)
  /\ Direct(s2, i, Len(s) + 1) => k \notin Inward
  /\ i \notin T /\ \A t \in T : s[t].k \notin Meaning!Closers /\ (Direct(s, i, t) => s[t].k = "break")
  /\ \A t \in V : ~Direct(s, i, t)

LEMMA AsideFacts ==
  ASSUME NEW s, NEW s2, NEW k, OneMore(s, s2, k), NEW f, NEW f2, NEW T, NEW V, NEW i \in DOMAIN s,
         Aside(s, s2, k, f, f2, T, V, i)
  PROVE  /\ \A c \in DOMAIN s2 : Closes(s2, i, c) <=> c \in DOMAIN s /\ Closes(s, i, c)
         /\ \A t \in DOMAIN s : Direct(s2, i, t) <=> Direct(s, i, t)
         /\ \A K : \A from \in Nat \ {0}, to \in Int : to <= Len(s) =>
              (NoneOf(s2, i, from, to, K) <=> NoneOf(s, i, from, to, K))
         /\ \A K : \A from \in Nat \ {0} : from <= Len(s) + 1 /\ K \subseteq Inward =>
              (NoneOf(s2, i, from, Len(s2), K) <=> NoneOf(s, i, from, Len(s), K))
         /\ DOMAIN s2 = DOMAIN s \cup {Len(s) + 1} /\ DOMAIN s \subseteq Nat \ {0}
         /\ Len(s) \in Nat /\ DOMAIN s = 1 .. Len(s) /\ Len(s2) = Len(s) + 1
<1>1. DOMAIN s2 = DOMAIN s \cup {Len(s) + 1} /\ DOMAIN s = 1 .. Len(s) /\ Len(s) \in Nat
      /\ Len(s2) = Len(s) + 1
  BY LongerOpens
<1>2. \A c \in DOMAIN s : Closes(s2, i, c) <=> Closes(s, i, c)
  BY LongerOld
<1>3. \A t \in DOMAIN s : Direct(s2, i, t) <=> Direct(s, i, t)
  BY LongerOld
<1>4. \A K : /\ \A from \in Nat \ {0}, to \in Int : to <= Len(s) =>
              (NoneOf(s2, i, from, to, K) <=> NoneOf(s, i, from, to, K))
         /\ \A from \in Nat \ {0} : from <= Len(s) + 1 =>
              (NoneOf(s2, i, from, Len(s) + 1, K)
                 <=> /\ NoneOf(s, i, from, Len(s), K)
                     /\ k \in K => ~Direct(s2, i, Len(s) + 1))
  BY LongerNone
<1>5. ~Closes(s2, i, Len(s) + 1) /\ (Direct(s2, i, Len(s) + 1) => k \notin Inward)
  BY DEF Aside
<1>6. ASSUME NEW c \in DOMAIN s2 PROVE Closes(s2, i, c) <=> c \in DOMAIN s /\ Closes(s, i, c)
  BY <1>1, <1>2, <1>5
<1>7. ASSUME NEW from \in Nat \ {0}, NEW K, from <= Len(s) + 1, K \subseteq Inward
      PROVE  NoneOf(s2, i, from, Len(s2), K) <=> NoneOf(s, i, from, Len(s), K)
  BY <1>1, <1>4, <1>5, <1>7
<1> QED BY <1>1, <1>3, <1>4, <1>6, <1>7

(* Nothing of it changes, its tokens' branches lead where they did.          *)
Undisturbed(b, e, s, s2, i) ==
  /\ \A c \in DOMAIN s2 : Closes(s2, i, c) <=> c \in DOMAIN s /\ Closes(s, i, c)
  /\ \A t \in DOMAIN s : Direct(s2, i, t) <=> Direct(s, i, t)
  /\ \A K : \A from \in Nat \ {0}, m \in Int : m <= Len(s) =>
              (NoneOf(s2, i, from, m, K) <=> NoneOf(s, i, from, m, K))
  /\ \A K : \A from \in Nat \ {0} : from <= Len(s) + 1 /\ K \subseteq Inward =>
              (NoneOf(s2, i, from, Len(s2), K) <=> NoneOf(s, i, from, Len(s), K))
  /\ DOMAIN s2 = DOMAIN s \cup {Len(s) + 1} /\ DOMAIN s \subseteq Nat \ {0}
  /\ Len(s) \in Nat /\ DOMAIN s = 1 .. Len(s) /\ Len(s2) = Len(s) + 1
  /\ HasBranch(b, s, i) => To(e, s2, i) = To(b, s, i)
  /\ \A t \in DOMAIN s : Direct(s, i, t) /\ HasBranch(b, s, t) /\ s[t].k # "break"
              => To(e, s2, t) = To(b, s, t)
  /\ \A c \in DOMAIN s : s[c].k \in Meaning!Closers /\ HasBranch(b, s, c)
              => To(e, s2, c) = To(b, s, c)
  /\ \A t \in DOMAIN s :
       /\ Place(e, t) = Place(b, t) /\ Place(e, t + 1) = Place(b, t + 1)
       /\ BranchAt(e, s2, t) = BranchAt(b, s, t) /\ s2[t] = s[t]
       /\ s[t].k \in LoopKinds => LoopHead(e, s2, t) = LoopHead(b, s, t)
       /\ PopAt(e, t) = PopAt(b, t) /\ (WithGoto(e, t) <=> WithGoto(b, t))
       /\ Skipper(e, t) = Skipper(b, t)
  /\ \A l \in DOMAIN s : Direct(s, i, l) /\ s[l].k = "label" =>
       (TurnedAt(e, s2, l) <=> TurnedAt(b, s, l))

LEMMA AsideMeans ==
  ASSUME NEW b, NEW e, NEW s, NEW s2, NEW k, NEW f, NEW f2, NEW T, NEW V, NEW to,
         Kept(b, e, s, s2, k, T, V, to), NEW i \in DOMAIN s, Aside(s, s2, k, f, f2, T, V, i)
  PROVE  Undisturbed(b, e, s, s2, i)
<1>1. \A t \in DOMAIN s : KeptToken(b, e, s, s2, T, V, to, t)
  BY DEF Kept
<1>2. \A t \in DOMAIN s : s2[t] = s[t]
  BY DEF Kept, OneMore
<1>3. \A t \in DOMAIN s : Direct(s, i, t) /\ s[t].k # "break" => t \notin T
  BY DEF Aside
<1>4. \A t \in DOMAIN s : s[t].k \in Meaning!Closers => t \notin T
  BY DEF Aside
<1>5. i \notin T
  BY DEF Aside
<1>6. \A t \in DOMAIN s : Direct(s, i, t) => t \notin V
  BY DEF Aside
<1>7. \A t \in DOMAIN s : HasBranch(b, s, t) /\ t \notin T => To(e, s2, t) = To(b, s, t)
  BY <1>1 DEF KeptToken
<1>8. \A t \in DOMAIN s :
              /\ Place(e, t) = Place(b, t) /\ Place(e, t + 1) = Place(b, t + 1)
              /\ BranchAt(e, s2, t) = BranchAt(b, s, t) /\ s2[t] = s[t]
              /\ s[t].k \in LoopKinds => LoopHead(e, s2, t) = LoopHead(b, s, t)
              /\ PopAt(e, t) = PopAt(b, t) /\ (WithGoto(e, t) <=> WithGoto(b, t))
              /\ Skipper(e, t) = Skipper(b, t)
  BY <1>1, <1>2 DEF KeptToken
<1>9. \A l \in DOMAIN s : s[l].k = "label" /\ l \notin V =>
              (TurnedAt(e, s2, l) <=> TurnedAt(b, s, l))
  BY <1>1 DEF KeptToken
<1> HIDE <1>1
<1>10. OneMore(s, s2, k)
  BY DEF Kept
<1>11. /\ HasBranch(b, s, i) => To(e, s2, i) = To(b, s, i)
       /\ \A t \in DOMAIN s : Direct(s, i, t) /\ HasBranch(b, s, t) /\ s[t].k # "break"
              => To(e, s2, t) = To(b, s, t)
       /\ \A c \in DOMAIN s : s[c].k \in Meaning!Closers /\ HasBranch(b, s, c)
              => To(e, s2, c) = To(b, s, c)
       /\ \A l \in DOMAIN s : Direct(s, i, l) /\ s[l].k = "label" =>
              (TurnedAt(e, s2, l) <=> TurnedAt(b, s, l))
  BY <1>3, <1>4, <1>5, <1>6, <1>7, <1>9
<1>12.   /\ \A c \in DOMAIN s2 : Closes(s2, i, c) <=> c \in DOMAIN s /\ Closes(s, i, c)
         /\ \A t \in DOMAIN s : Direct(s2, i, t) <=> Direct(s, i, t)
         /\ \A K : \A from \in Nat \ {0}, m \in Int : m <= Len(s) =>
              (NoneOf(s2, i, from, m, K) <=> NoneOf(s, i, from, m, K))
         /\ \A K : \A from \in Nat \ {0} : from <= Len(s) + 1 /\ K \subseteq Inward =>
              (NoneOf(s2, i, from, Len(s2), K) <=> NoneOf(s, i, from, Len(s), K))
         /\ DOMAIN s2 = DOMAIN s \cup {Len(s) + 1} /\ DOMAIN s \subseteq Nat \ {0}
         /\ Len(s) \in Nat /\ DOMAIN s = 1 .. Len(s) /\ Len(s2) = Len(s) + 1
  BY <1>10, AsideFacts
<1> QED BY <1>8, <1>11, <1>12 DEF Undisturbed

LEMMA IfAside ==
  ASSUME NEW b, NEW e, NEW s, NEW s2, NEW k, NEW f, NEW f2, NEW T, NEW V, NEW to,
         Kept(b, e, s, s2, k, T, V, to), NEW i \in DOMAIN s, Aside(s, s2, k, f, f2, T, V, i),
         s[i].k = "if", IfLinked(b, s, f, i)
  PROVE  IfLinked(e, s2, f2, i)
<1>0. OneMore(s, s2, k) /\ s \in Seq(Tokens)
  BY DEF Kept, OneMore
<1>1. Undisturbed(b, e, s, s2, i)
  BY AsideMeans
<1>2. /\ \A c \in DOMAIN s2 : Closes(s2, i, c) <=> c \in DOMAIN s /\ Closes(s, i, c)
      /\ \A t \in DOMAIN s : Direct(s2, i, t) <=> Direct(s, i, t)
      /\ \A K : \A from \in Nat \ {0}, m \in Int : m <= Len(s) =>
           (NoneOf(s2, i, from, m, K) <=> NoneOf(s, i, from, m, K))
      /\ \A K : \A from \in Nat \ {0} : from <= Len(s) + 1 /\ K \subseteq Inward =>
           (NoneOf(s2, i, from, Len(s2), K) <=> NoneOf(s, i, from, Len(s), K))
      /\ DOMAIN s2 = DOMAIN s \cup {Len(s) + 1} /\ DOMAIN s \subseteq Nat \ {0}
      /\ Len(s) \in Nat /\ DOMAIN s = 1 .. Len(s) /\ Len(s2) = Len(s) + 1
      /\ HasBranch(b, s, i) => To(e, s2, i) = To(b, s, i)
      /\ \A t \in DOMAIN s : Direct(s, i, t) /\ HasBranch(b, s, t) /\ s[t].k # "break"
           => To(e, s2, t) = To(b, s, t)
      /\ \A t \in DOMAIN s :
           /\ Place(e, t) = Place(b, t) /\ Place(e, t + 1) = Place(b, t + 1)
           /\ BranchAt(e, s2, t) = BranchAt(b, s, t) /\ s2[t] = s[t]
  BY <1>1 DEF Undisturbed
<1> HIDE <1>1
<1>3. HasBranch(b, s, i) /\ {"else"} \subseteq Inward
  BY DEF HasBranch, Branchers, Inward
<1>4. \A t \in DOMAIN s : s[t].k = "else" => HasBranch(b, s, t)
  BY DEF HasBranch, Branchers
<1>5. /\ Open(s2, i) <=> Open(s, i)
      /\ Open(s, i) => FrameOf(f2, s2, i) = FrameOf(f, s, i)
  BY DEF Aside
<1>6. ASSUME Open(s2, i)
      PROVE LET g == FrameOf(f2, s2, i) IN
       IF g.kind = "if"
       THEN g.hole = BranchAt(e, s2, i) /\ NoneOf(s2, i, i, Len(s2), {"else"})
       ELSE \E x \in DOMAIN s2 : /\ Direct(s2, i, x) /\ s2[x].k = "else" /\ g.hole = BranchAt(e, s2, x)
                 /\ To(e, s2, i) = Place(e, x + 1)
                 /\ NoneOf(s2, i, i, x - 1, {"else"}) /\ NoneOf(s2, i, x + 1, Len(s2), {"else"})
  <2> PICK g : g = FrameOf(f, s, i)
    OBVIOUS
  <2>1. FrameOf(f2, s2, i) = g /\ Open(s, i)
    BY <1>5, <1>6
  <2>2. CASE g.kind = "if"
    <3>1. g.hole = BranchAt(b, s, i) /\ NoneOf(s, i, i, Len(s), {"else"})
      BY <2>1, <2>2 DEF IfLinked
    <3> QED BY <1>2, <1>3, <2>1, <2>2, <3>1
  <2>3. CASE g.kind # "if"
    <3>1. PICK x \in DOMAIN s : /\ Direct(s, i, x) /\ s[x].k = "else" /\ g.hole = BranchAt(b, s, x)
                 /\ To(b, s, i) = Place(b, x + 1)
                 /\ NoneOf(s, i, i, x - 1, {"else"}) /\ NoneOf(s, i, x + 1, Len(s), {"else"})
      BY <2>1, <2>3 DEF IfLinked
    <3>2. /\ Direct(s2, i, x) /\ s2[x].k = "else" /\ g.hole = BranchAt(e, s2, x)
                 /\ To(e, s2, i) = Place(e, x + 1)
      BY <1>2, <1>3, <3>1
    <3>3. x + 1 \in Nat \ {0} /\ x - 1 \in Int /\ x - 1 <= Len(s) /\ x + 1 <= Len(s) + 1 /\ i \in Nat \ {0}
      BY <1>2
    <3>4. NoneOf(s2, i, i, x - 1, {"else"}) /\ NoneOf(s2, i, x + 1, Len(s2), {"else"})
      BY <1>2, <1>3, <3>1, <3>3
    <3>5. x \in DOMAIN s2
      BY <1>2
    <3> QED BY <2>1, <2>3, <3>2, <3>4, <3>5
  <2> QED BY <2>2, <2>3
<1>7. ASSUME NEW c \in DOMAIN s2, Closes(s2, i, c)
      PROVE  \/ To(e, s2, i) = Place(e, c) /\ NoneOf(s2, i, i, c, {"else"})
       \/ \E x \in DOMAIN s2 : /\ Direct(s2, i, x) /\ s2[x].k = "else" /\ x < c
               /\ To(e, s2, i) = Place(e, x + 1) /\ To(e, s2, x) = Place(e, c)
               /\ NoneOf(s2, i, i, x - 1, {"else"}) /\ NoneOf(s2, i, x + 1, c, {"else"})
  <2>1. c \in DOMAIN s /\ Closes(s, i, c) /\ i \in Nat \ {0} /\ c <= Len(s) /\ c \in Int
    BY <1>2, <1>7
  <2>2. CASE To(b, s, i) = Place(b, c) /\ NoneOf(s, i, i, c, {"else"})
    BY <1>2, <1>3, <2>1, <2>2
  <2>3. CASE ~(To(b, s, i) = Place(b, c) /\ NoneOf(s, i, i, c, {"else"}))
    <3>1. PICK x \in DOMAIN s : /\ Direct(s, i, x) /\ s[x].k = "else" /\ x < c
               /\ To(b, s, i) = Place(b, x + 1) /\ To(b, s, x) = Place(b, c)
               /\ NoneOf(s, i, i, x - 1, {"else"}) /\ NoneOf(s, i, x + 1, c, {"else"})
      BY <2>1, <2>3 DEF IfLinked
    <3>2. /\ Direct(s2, i, x) /\ s2[x].k = "else"
          /\ To(e, s2, i) = Place(e, x + 1) /\ To(e, s2, x) = Place(e, c)
      <4>1. s[x].k # "break" /\ HasBranch(b, s, x)
        BY <1>4, <3>1
      <4>2. To(e, s2, x) = To(b, s, x) /\ To(e, s2, i) = To(b, s, i)
        BY <1>2, <1>3, <3>1, <4>1
      <4> QED BY <1>2, <2>1, <3>1, <4>2
    <3>3. x + 1 \in Nat \ {0} /\ x - 1 \in Int /\ x - 1 <= Len(s) /\ x + 1 <= Len(s) + 1
      BY <1>2
    <3>4. NoneOf(s2, i, i, x - 1, {"else"}) /\ NoneOf(s2, i, x + 1, c, {"else"})
      BY <1>2, <2>1, <3>1, <3>3
    <3>5. x \in DOMAIN s2
      BY <1>2
    <3> QED BY <3>1, <3>2, <3>4, <3>5
  <2> QED BY <2>2, <2>3
<1> QED BY <1>6, <1>7 DEF IfLinked

LEMMA LoopAside ==
  ASSUME NEW b, NEW e, NEW s, NEW s2, NEW k, NEW f, NEW f2, NEW T, NEW V, NEW to,
         Kept(b, e, s, s2, k, T, V, to), NEW i \in DOMAIN s, Aside(s, s2, k, f, f2, T, V, i),
         Owned(s, f), s[i].k \in LoopKinds, LoopLinked(b, s, f, i)
  PROVE  LoopLinked(e, s2, f2, i)
<1>0. s \in Seq(Tokens)
  BY DEF Kept, OneMore
<1>1. Undisturbed(b, e, s, s2, i)
  BY AsideMeans
<1>2. /\ \A c \in DOMAIN s2 : Closes(s2, i, c) <=> c \in DOMAIN s /\ Closes(s, i, c)
      /\ HasBranch(b, s, i) => To(e, s2, i) = To(b, s, i)
      /\ \A c \in DOMAIN s : s[c].k \in Meaning!Closers /\ HasBranch(b, s, c)
              => To(e, s2, c) = To(b, s, c)
      /\ \A t \in DOMAIN s :
           /\ Place(e, t) = Place(b, t) /\ Place(e, t + 1) = Place(b, t + 1)
           /\ BranchAt(e, s2, t) = BranchAt(b, s, t) /\ s2[t] = s[t]
           /\ s[t].k \in LoopKinds => LoopHead(e, s2, t) = LoopHead(b, s, t)
  BY <1>1 DEF Undisturbed
<1> HIDE <1>1
<1>3. s[i].k # "repeat" => HasBranch(b, s, i)
  BY DEF HasBranch, Branchers, LoopKinds
<1>4. /\ Open(s2, i) <=> Open(s, i)
      /\ Open(s, i) => FrameOf(f2, s2, i) = FrameOf(f, s, i)
  BY DEF Aside
<1>5. ASSUME Open(s2, i)
      PROVE LET g == FrameOf(f2, s2, i) IN
       /\ g.head = LoopHead(e, s2, i) /\ g.brk = Place(e, i + 1)
       /\ s2[i].k # "repeat" => g.hole = BranchAt(e, s2, i)
  <2> PICK g : g = FrameOf(f, s, i)
    OBVIOUS
  <2>1. /\ g.head = LoopHead(b, s, i) /\ g.brk = Place(b, i + 1)
        /\ s[i].k # "repeat" => g.hole = BranchAt(b, s, i)
    BY <1>4, <1>5 DEF LoopLinked
  <2> QED BY <1>2, <1>4, <1>5, <2>1
<1>6. ASSUME NEW c \in DOMAIN s2, Closes(s2, i, c)
      PROVE /\ To(e, s2, c) = LoopHead(e, s2, i)
            /\ s2[i].k # "repeat" => To(e, s2, i) = Place(e, c + 1)
  <2>1. c \in DOMAIN s /\ Closes(s, i, c)
    BY <1>2, <1>6
  <2>2. s[c].k \in EndsOf(s[i].k) /\ s[c].k \in Meaning!Closers
    BY <1>0, <2>1, ClosesEnds
  <2>3. HasBranch(b, s, c)
    BY <2>2 DEF HasBranch, Branchers, EndsOf, LoopKinds
  <2>4. /\ To(b, s, c) = LoopHead(b, s, i)
        /\ s[i].k # "repeat" => To(b, s, i) = Place(b, c + 1)
    BY <2>1 DEF LoopLinked
  <2> QED BY <1>2, <1>3, <2>1, <2>2, <2>3, <2>4
<1> QED BY <1>5, <1>6 DEF LoopLinked

LEMMA LabelAside ==
  ASSUME NEW b, NEW e, NEW s, NEW s2, NEW k, NEW f, NEW f2, NEW T, NEW V, NEW to,
         Kept(b, e, s, s2, k, T, V, to), NEW i \in DOMAIN s, Aside(s, s2, k, f, f2, T, V, i),
         NEW l \in DOMAIN s, Direct(s, i, l), s[l].k = "label", LabelLinked(b, s, f, i, l)
  PROVE  LabelLinked(e, s2, f2, i, l)
<1>1. Undisturbed(b, e, s, s2, i)
  BY AsideMeans
<1>2. /\ \A t \in DOMAIN s : Direct(s2, i, t) <=> Direct(s, i, t)
      /\ \A K : \A from \in Nat \ {0}, m \in Int : m <= Len(s) =>
           (NoneOf(s2, i, from, m, K) <=> NoneOf(s, i, from, m, K))
      /\ \A K : \A from \in Nat \ {0} : from <= Len(s) + 1 /\ K \subseteq Inward =>
           (NoneOf(s2, i, from, Len(s2), K) <=> NoneOf(s, i, from, Len(s), K))
      /\ DOMAIN s2 = DOMAIN s \cup {Len(s) + 1} /\ DOMAIN s \subseteq Nat \ {0}
      /\ Len(s) \in Nat /\ DOMAIN s = 1 .. Len(s) /\ Len(s2) = Len(s) + 1
      /\ \A t \in DOMAIN s : Direct(s, i, t) /\ HasBranch(b, s, t) /\ s[t].k # "break"
           => To(e, s2, t) = To(b, s, t)
      /\ \A t \in DOMAIN s :
           /\ PopAt(e, t) = PopAt(b, t) /\ (WithGoto(e, t) <=> WithGoto(b, t)) /\ s2[t] = s[t]
      /\ \A x \in DOMAIN s : Direct(s, i, x) /\ s[x].k = "label" =>
           (TurnedAt(e, s2, x) <=> TurnedAt(b, s, x))
  BY <1>1 DEF Undisturbed
<1> HIDE <1>1
<1>3. HasBranch(b, s, l) /\ {"colon"} \subseteq Inward
  BY DEF HasBranch, Branchers, Inward
<1>4. To(e, s2, l) = To(b, s, l) /\ (TurnedAt(e, s2, l) <=> TurnedAt(b, s, l))
  BY <1>2, <1>3
<1>5. CASE /\ Open(s, i) /\ FrameOf(f, s, i).kind = "labels"
           /\ ~TurnedAt(b, s, l) /\ NoneOf(s, i, l, Len(s), {"colon"})
  <2>1. Open(s2, i) /\ FrameOf(f2, s2, i).kind = "labels"
    BY <1>5 DEF Aside
  <2>2. l \in Nat \ {0} /\ l <= Len(s) + 1
    BY <1>2
  <2>3. NoneOf(s2, i, l, Len(s2), {"colon"})
    BY <1>2, <1>3, <1>5, <2>2
  <2> QED BY <1>4, <1>5, <2>1, <2>3 DEF LabelLinked
<1>6. CASE ~(/\ Open(s, i) /\ FrameOf(f, s, i).kind = "labels"
             /\ ~TurnedAt(b, s, l) /\ NoneOf(s, i, l, Len(s), {"colon"}))
  <2>1. PICK c \in DOMAIN s :
       /\ l < c /\ Direct(s, i, c) /\ s[c].k = "colon" /\ NoneOf(s, i, l, c - 1, {"colon"})
       /\ IF TurnedAt(b, s, l) THEN c = l + 1 /\ ~WithGoto(b, c)
          ELSE To(b, s, l) = PopAt(b, c) /\ (c = l + 1 => WithGoto(b, c))
    BY <1>6 DEF LabelLinked
  <2>2. l \in Nat \ {0} /\ c - 1 \in Int /\ c - 1 <= Len(s)
    BY <1>2
  <2>3. c \in DOMAIN s2 /\ Direct(s2, i, c) /\ s2[c].k = "colon" /\ NoneOf(s2, i, l, c - 1, {"colon"})
    BY <1>2, <2>1, <2>2
  <2>4. IF TurnedAt(e, s2, l) THEN c = l + 1 /\ ~WithGoto(e, c)
          ELSE To(e, s2, l) = PopAt(e, c) /\ (c = l + 1 => WithGoto(e, c))
    BY <1>2, <1>4, <2>1
  <2> QED BY <2>1, <2>3, <2>4 DEF LabelLinked
<1> QED BY <1>5, <1>6

LEMMA SkipperBranch ==
  ASSUME NEW b, NEW s \in Seq(Tokens), NEW f, Ordered(s, f), Owned(s, f), NEW i, NEW c, Direct(s, i, c),
         s[c].k = "colon", s[i].k = "case"
  PROVE  /\ Skipper(b, c) \in DOMAIN s /\ HasBranch(b, s, Skipper(b, c))
         /\ Direct(s, i, Skipper(b, c)) /\ s[Skipper(b, c)].k # "break"
         /\ ~WithGoto(b, c) => Skipper(b, c) = c - 1
         /\ c - 1 \in DOMAIN s /\ s[c - 1].k = "label" /\ Direct(s, i, c - 1)
<1>1. i \in Int /\ c \in Int /\ i < c /\ c <= Len(s) /\ 1 <= i /\ c \in DOMAIN s /\ OpenTo(s, i, c)
      /\ Opens(s, i) /\ Bal(s, i, c) = 1 /\ DOMAIN s = 1 .. Len(s)
  BY DirectFacts DEF Direct
<1>2. c - 1 \in DOMAIN s /\ c \in 2 .. Len(s)
  BY <1>1
<1>3. Follows(s[c-1].k, "colon")
  BY <1>2 DEF Ordered
<1>4. s[c - 1].k = "label"
  BY <1>3 DEF Follows, Among, Popping
<1>5. Direct(s, i, c - 1)
  <2>1. c - 1 # i
    BY <1>4
  <2>2. c - 1 \in i + 1 .. Len(s) /\ c - 1 \in Int /\ i <= (c - 1) + 1 /\ (c - 1) + 1 = c /\ c - 1 <= c
    BY <1>1, <2>1
  <2>3. Bal(s, i, c) = Bal(s, i, c - 1) + Delta(s[c].k) /\ Bal(s, i, c - 1) \in Int
    <3> PICK m \in Int : m = c - 1
      BY <2>2
    <3>1. m + 1 = c /\ i <= m + 1
      BY <2>2
    <3>2. Bal(s, i, m + 1) = Bal(s, i, m) + Delta(s[m + 1].k) /\ Bal(s, i, m) \in Int
      BY <1>1, <3>1, BalNext
    <3> QED BY <3>1, <3>2
  <2>4. Delta("colon") = 0
    BY DEF Delta, Meaning!Openers, Meaning!Closers
  <2>5. OpenTo(s, i, c - 1)
    BY <1>1, <2>2, OpenToPrefix
  <2> QED BY <1>1, <2>2, <2>3, <2>4, <2>5 DEF Direct
<1>6. CASE WithGoto(b, c)
  BY <1>1, <1>2, <1>4, <1>5, <1>6 DEF Skipper, HasBranch
<1>7. CASE ~WithGoto(b, c)
  BY <1>1, <1>2, <1>4, <1>5, <1>7 DEF Skipper, HasBranch, Branchers
<1> QED BY <1>6, <1>7

LEMMA ColonAside ==
  ASSUME NEW b, NEW e, NEW s, NEW s2, NEW k, NEW f, NEW f2, NEW T, NEW V, NEW to,
         Kept(b, e, s, s2, k, T, V, to), NEW i \in DOMAIN s, Aside(s, s2, k, f, f2, T, V, i),
         Ordered(s, f), Owned(s, f), s[i].k = "case",
         NEW c \in DOMAIN s, Direct(s, i, c), s[c].k = "colon", ColonLinked(b, s, f, i, c)
  PROVE  ColonLinked(e, s2, f2, i, c)
<1>0. s \in Seq(Tokens)
  BY DEF Kept, OneMore
<1>1. Undisturbed(b, e, s, s2, i)
  BY AsideMeans
<1>2. /\ \A t \in DOMAIN s : Direct(s2, i, t) <=> Direct(s, i, t)
      /\ \A K : \A from \in Nat \ {0}, m \in Int : m <= Len(s) =>
           (NoneOf(s2, i, from, m, K) <=> NoneOf(s, i, from, m, K))
      /\ \A K : \A from \in Nat \ {0} : from <= Len(s) + 1 /\ K \subseteq Inward =>
           (NoneOf(s2, i, from, Len(s2), K) <=> NoneOf(s, i, from, Len(s), K))
      /\ DOMAIN s2 = DOMAIN s \cup {Len(s) + 1} /\ DOMAIN s \subseteq Nat \ {0}
      /\ Len(s) \in Nat /\ DOMAIN s = 1 .. Len(s) /\ Len(s2) = Len(s) + 1
      /\ \A t \in DOMAIN s : Direct(s, i, t) /\ HasBranch(b, s, t) /\ s[t].k # "break"
           => To(e, s2, t) = To(b, s, t)
      /\ \A t \in DOMAIN s :
           /\ Place(e, t) = Place(b, t) /\ Place(e, t + 1) = Place(b, t + 1)
           /\ BranchAt(e, s2, t) = BranchAt(b, s, t) /\ s2[t] = s[t]
           /\ Skipper(e, t) = Skipper(b, t)
  BY <1>1 DEF Undisturbed
<1> HIDE <1>1
<1>3. {"label", "colon", "endarm", "caseelse"} \subseteq Inward
  BY DEF Inward
<1> PICK x : x = Skipper(b, c)
  OBVIOUS
<1>9. x \in DOMAIN s /\ HasBranch(b, s, x) /\ Direct(s, i, x) /\ s[x].k # "break"
  BY <1>0, SkipperBranch
<1>10. Skipper(e, c) = x
  BY <1>2
<1>4. /\ x \in DOMAIN s /\ HasBranch(b, s, x) /\ Direct(s, i, x) /\ s[x].k # "break"
      /\ Skipper(e, c) = x
  BY <1>9, <1>10
<1>5. To(e, s2, x) = To(b, s, x) /\ BranchAt(e, s2, x) = BranchAt(b, s, x)
  BY <1>2, <1>4
<1>6. c \in Nat /\ c + 1 \in Nat \ {0} /\ c + 1 <= Len(s) + 1
  BY <1>2
<1>7. CASE /\ Open(s, i) /\ FrameOf(f, s, i).kind = "arm"
     /\ FrameOf(f, s, i).hole = BranchAt(b, s, Skipper(b, c))
     /\ NoneOf(s, i, c + 1, Len(s), {"label", "colon", "endarm", "caseelse"})
  <2>1. Open(s2, i) /\ FrameOf(f2, s2, i) = FrameOf(f, s, i)
    BY <1>7 DEF Aside
  <2>2. NoneOf(s2, i, c + 1, Len(s2), {"label", "colon", "endarm", "caseelse"})
    BY <1>2, <1>3, <1>6, <1>7
  <2> QED BY <1>4, <1>5, <1>7, <2>1, <2>2 DEF ColonLinked
<1>8. CASE ~(/\ Open(s, i) /\ FrameOf(f, s, i).kind = "arm"
     /\ FrameOf(f, s, i).hole = BranchAt(b, s, Skipper(b, c))
     /\ NoneOf(s, i, c + 1, Len(s), {"label", "colon", "endarm", "caseelse"}))
  <2>1. PICK y \in DOMAIN s :
       /\ c < y /\ Direct(s, i, y) /\ s[y].k = "endarm"
       /\ NoneOf(s, i, c + 1, y, {"label", "colon", "caseelse"})
       /\ To(b, s, Skipper(b, c)) = Place(b, y + 1)
    BY <1>8 DEF ColonLinked
  <2>2. y \in Int /\ y <= Len(s) /\ y \in DOMAIN s2
    BY <1>2
  <2>3. /\ c < y /\ Direct(s2, i, y) /\ s2[y].k = "endarm"
        /\ NoneOf(s2, i, c + 1, y, {"label", "colon", "caseelse"})
        /\ To(e, s2, Skipper(e, c)) = Place(e, y + 1)
    BY <1>2, <1>4, <1>5, <1>6, <2>1, <2>2
  <2> QED BY <2>2, <2>3 DEF ColonLinked
<1> QED BY <1>7, <1>8

LEMMA CaseAside ==
  ASSUME NEW b, NEW e, NEW s, NEW s2, NEW k, NEW f, NEW f2, NEW T, NEW V, NEW to,
         Kept(b, e, s, s2, k, T, V, to), NEW i \in DOMAIN s, Aside(s, s2, k, f, f2, T, V, i),
         Ordered(s, f), Owned(s, f), s[i].k = "case", CaseLinked(b, s, f, i)
  PROVE  CaseLinked(e, s2, f2, i)
<1>0. s \in Seq(Tokens) /\ s2[Len(s) + 1].k = k
  BY DEF Kept, OneMore
<1>1. Undisturbed(b, e, s, s2, i)
  BY AsideMeans
<1>2. /\ \A c \in DOMAIN s2 : Closes(s2, i, c) <=> c \in DOMAIN s /\ Closes(s, i, c)
      /\ \A t \in DOMAIN s : Direct(s2, i, t) <=> Direct(s, i, t)
      /\ \A K : \A from \in Nat \ {0}, m \in Int : m <= Len(s) =>
           (NoneOf(s2, i, from, m, K) <=> NoneOf(s, i, from, m, K))
      /\ \A K : \A from \in Nat \ {0} : from <= Len(s) + 1 /\ K \subseteq Inward =>
           (NoneOf(s2, i, from, Len(s2), K) <=> NoneOf(s, i, from, Len(s), K))
      /\ DOMAIN s2 = DOMAIN s \cup {Len(s) + 1} /\ DOMAIN s \subseteq Nat \ {0}
      /\ Len(s) \in Nat /\ DOMAIN s = 1 .. Len(s) /\ Len(s2) = Len(s) + 1
      /\ \A t \in DOMAIN s : Direct(s, i, t) /\ HasBranch(b, s, t) /\ s[t].k # "break"
           => To(e, s2, t) = To(b, s, t)
      /\ \A t \in DOMAIN s :
           /\ Place(e, t) = Place(b, t) /\ Place(e, t + 1) = Place(b, t + 1)
           /\ BranchAt(e, s2, t) = BranchAt(b, s, t) /\ s2[t] = s[t]
  BY <1>1 DEF Undisturbed
<1> HIDE <1>1
<1>3. /\ Open(s2, i) <=> Open(s, i)
      /\ Open(s, i) => FrameOf(f2, s2, i) = FrameOf(f, s, i)
      /\ Direct(s2, i, Len(s) + 1) => k \notin Inward
  BY DEF Aside
(* Its parts are those it had.                                              *)
<1>4. ASSUME NEW t \in DOMAIN s2, Direct(s2, i, t), s2[t].k \in Inward
      PROVE  t \in DOMAIN s /\ Direct(s, i, t) /\ s[t].k = s2[t].k
  BY <1>0, <1>2, <1>3, <1>4
<1>5. \A K \in {{"colon"}, {"caseelse"}, {"label", "caseelse"},
                {"label", "colon", "endarm", "caseelse"}} : K \subseteq Inward
  BY DEF Inward
<1>6. "label" \in Inward /\ "colon" \in Inward /\ "caseelse" \in Inward /\ "endarm" \in Inward
  BY DEF Inward
<1>7. ASSUME NEW l \in DOMAIN s2, Direct(s2, i, l), s2[l].k = "label"
      PROVE  LabelLinked(e, s2, f2, i, l)
  <2>1. l \in DOMAIN s /\ Direct(s, i, l) /\ s[l].k = "label"
    BY <1>4, <1>6, <1>7
  <2>2. LabelLinked(b, s, f, i, l)
    BY <2>1 DEF CaseLinked
  <2> QED BY <2>1, <2>2, LabelAside
<1>8. ASSUME NEW c \in DOMAIN s2, Direct(s2, i, c), s2[c].k = "colon"
      PROVE  ColonLinked(e, s2, f2, i, c)
  <2>1. c \in DOMAIN s /\ Direct(s, i, c) /\ s[c].k = "colon"
    BY <1>4, <1>6, <1>8
  <2>2. ColonLinked(b, s, f, i, c)
    BY <2>1 DEF CaseLinked
  <2> QED BY <2>1, <2>2, ColonAside
<1>9. ASSUME NEW x \in DOMAIN s2, Direct(s2, i, x), s2[x].k = "caseelse"
      PROVE  /\ Open(s2, i) => FrameOf(f2, s2, i).kind = "caseelse"
             /\ NoneOf(s2, i, i, x - 1, {"caseelse"})
             /\ NoneOf(s2, i, x + 1, Len(s2), {"label", "caseelse"})
  <2>1. x \in DOMAIN s /\ Direct(s, i, x) /\ s[x].k = "caseelse"
    BY <1>4, <1>6, <1>9
  <2>2. /\ Open(s, i) => FrameOf(f, s, i).kind = "caseelse"
        /\ NoneOf(s, i, i, x - 1, {"caseelse"}) /\ NoneOf(s, i, x + 1, Len(s), {"label", "caseelse"})
    BY <2>1 DEF CaseLinked
  <2>3. x + 1 \in Nat \ {0} /\ x - 1 \in Int /\ x - 1 <= Len(s) /\ x + 1 <= Len(s) + 1 /\ i \in Nat \ {0}
    BY <1>2, <2>1
  <2> QED BY <1>2, <1>3, <1>5, <2>2, <2>3
<1>10. ASSUME Open(s2, i)
       PROVE LET g == FrameOf(f2, s2, i) IN
       /\ g.arms = IF g.kind = "labels"
                   THEN {BranchAt(e, s2, l) : l \in {x \in DOMAIN s2 : Direct(s2, i, x) /\ s2[x].k = "label"
                                            /\ NoneOf(s2, i, x, Len(s2), {"colon"})}}
                   ELSE {}
       /\ g.ends = {BranchAt(e, s2, y) : y \in {x \in DOMAIN s2 : Direct(s2, i, x) /\ s2[x].k = "endarm"}}
       /\ g.kind = "arm" => \E c \in DOMAIN s2 : Direct(s2, i, c) /\ s2[c].k = "colon"
                          /\ NoneOf(s2, i, c + 1, Len(s2), {"label", "colon", "endarm", "caseelse"})
       /\ g.kind = "caseelse" => \E y \in DOMAIN s2 : Direct(s2, i, y) /\ s2[y].k = "caseelse"
  <2> PICK g : g = FrameOf(f, s, i)
    OBVIOUS
  <2>0. Open(s, i) /\ FrameOf(f2, s2, i) = g
    BY <1>3, <1>10
  <2> DEFINE A == {x \in DOMAIN s : Direct(s, i, x) /\ s[x].k = "label"
                                            /\ NoneOf(s, i, x, Len(s), {"colon"})}
             E == {x \in DOMAIN s : Direct(s, i, x) /\ s[x].k = "endarm"}
             A2 == {x \in DOMAIN s2 : Direct(s2, i, x) /\ s2[x].k = "label"
                                            /\ NoneOf(s2, i, x, Len(s2), {"colon"})}
             E2 == {x \in DOMAIN s2 : Direct(s2, i, x) /\ s2[x].k = "endarm"}
  <2>1. /\ g.arms = IF g.kind = "labels" THEN {BranchAt(b, s, l) : l \in A} ELSE {}
        /\ g.ends = {BranchAt(b, s, y) : y \in E}
        /\ g.kind = "arm" => \E c \in DOMAIN s : Direct(s, i, c) /\ s[c].k = "colon"
                          /\ NoneOf(s, i, c + 1, Len(s), {"label", "colon", "endarm", "caseelse"})
        /\ g.kind = "caseelse" => \E y \in DOMAIN s : Direct(s, i, y) /\ s[y].k = "caseelse"
    BY <2>0 DEF CaseLinked
  <2>2. ASSUME NEW x \in DOMAIN s
        PROVE  NoneOf(s2, i, x, Len(s2), {"colon"}) <=> NoneOf(s, i, x, Len(s), {"colon"})
    <3>1. x \in Nat \ {0} /\ x <= Len(s) + 1 /\ {"colon"} \subseteq Inward
      BY <1>2, <1>5
    <3> QED BY <1>2, <3>1
  <2>3. A2 = A
    <3>1. A2 \subseteq A
      BY <1>4, <1>6, <2>2
    <3>2. A \subseteq A2
      BY <1>2, <2>2
    <3> QED BY <3>1, <3>2
  <2>4. E2 = E
    <3>1. E2 \subseteq E
      BY <1>4, <1>6
    <3>2. E \subseteq E2
      BY <1>2
    <3> QED BY <3>1, <3>2
  <2>5. A \subseteq DOMAIN s /\ E \subseteq DOMAIN s
    OBVIOUS
  <2>6. g.kind = "arm" => \E c \in DOMAIN s2 : Direct(s2, i, c) /\ s2[c].k = "colon"
                          /\ NoneOf(s2, i, c + 1, Len(s2), {"label", "colon", "endarm", "caseelse"})
    <3> SUFFICES ASSUME g.kind = "arm"
                 PROVE \E c \in DOMAIN s2 : Direct(s2, i, c) /\ s2[c].k = "colon"
                          /\ NoneOf(s2, i, c + 1, Len(s2), {"label", "colon", "endarm", "caseelse"})
      OBVIOUS
    <3>1. PICK c \in DOMAIN s : Direct(s, i, c) /\ s[c].k = "colon"
                          /\ NoneOf(s, i, c + 1, Len(s), {"label", "colon", "endarm", "caseelse"})
      BY <2>1
    <3>2. c + 1 \in Nat \ {0} /\ c + 1 <= Len(s) + 1
          /\ {"label", "colon", "endarm", "caseelse"} \subseteq Inward
      BY <1>2, <1>5
    <3>3. NoneOf(s2, i, c + 1, Len(s2), {"label", "colon", "endarm", "caseelse"})
      BY <1>2, <3>1, <3>2
    <3> QED BY <1>2, <3>1, <3>3
  <2>7. g.kind = "caseelse" => \E y \in DOMAIN s2 : Direct(s2, i, y) /\ s2[y].k = "caseelse"
    BY <1>2, <2>1
  <2> HIDE DEF A, A2, E, E2
  <2>8. {BranchAt(e, s2, l) : l \in A2} = {BranchAt(b, s, l) : l \in A}
    BY <1>2, <2>3, <2>5
  <2>9. {BranchAt(e, s2, l) : l \in E2} = {BranchAt(b, s, l) : l \in E}
    BY <1>2, <2>4, <2>5
  <2> QED BY <2>0, <2>1, <2>6, <2>7, <2>8, <2>9 DEF A2, E2
<1>11. ASSUME NEW c \in DOMAIN s2, Closes(s2, i, c)
       PROVE /\ \A y \in DOMAIN s2 : Direct(s2, i, y) /\ s2[y].k = "endarm" => To(e, s2, y) = Place(e, c + 1)
             /\ s2[c-1].k \in Popping <=> NoneOf(s2, i, i, c, {"caseelse"})
  <2>1. c \in DOMAIN s /\ Closes(s, i, c)
    BY <1>2, <1>11
  <2>2. /\ \A y \in DOMAIN s : Direct(s, i, y) /\ s[y].k = "endarm" => To(b, s, y) = Place(b, c + 1)
        /\ s[c-1].k \in Popping <=> NoneOf(s, i, i, c, {"caseelse"})
    BY <2>1 DEF CaseLinked
  <2>3. ASSUME NEW y \in DOMAIN s2, Direct(s2, i, y), s2[y].k = "endarm"
        PROVE  To(e, s2, y) = Place(e, c + 1)
    <3>1. y \in DOMAIN s /\ Direct(s, i, y) /\ s[y].k = "endarm"
      BY <1>4, <1>6, <2>3
    <3>2. HasBranch(b, s, y)
      BY <3>1 DEF HasBranch, Branchers
    <3>3. To(b, s, y) = Place(b, c + 1)
      BY <2>2, <3>1
    <3> QED BY <1>2, <2>1, <3>1, <3>2, <3>3
  <2>4. c - 1 \in DOMAIN s
    <3>1. i \in Int /\ c \in Int /\ i < c /\ c <= Len(s) /\ 1 <= i
      BY <1>0, <2>1, ClosesFacts
    <3> QED BY <1>2, <3>1
  <2>5. c \in Int /\ c <= Len(s) /\ i \in Nat \ {0}
    BY <1>2, <2>1
  <2>6. NoneOf(s2, i, i, c, {"caseelse"}) <=> NoneOf(s, i, i, c, {"caseelse"})
    BY <1>2, <2>5
  <2> QED BY <1>2, <2>2, <2>3, <2>4, <2>6
<1> QED BY <1>7, <1>8, <1>9, <1>10, <1>11 DEF CaseLinked

-----------------------------------------------------------------------------
(* A break mark waits for the end of its loop.                              *)
LEMMA BreakKept ==
  ASSUME NEW b, NEW e, NEW s, NEW s2, NEW k, NEW T, NEW V, NEW to,
         Kept(b, e, s, s2, k, T, V, to), NEW t \in DOMAIN s,
         s[t].k = "break", BreakLinked(b, s, t),
         t \in T => Is(b, Place(b, t), "break", t),
         \A i \in DOMAIN s : Inner(s, i, t, LoopKinds) /\ Is(b, Place(b, t), "break", t) /\ Open(s, i) =>
           IF t \in T THEN Closes(s2, i, Len(s) + 1) /\ to = e.pos ELSE Open(s2, i)
  PROVE  BreakLinked(e, s2, t)
<1>0. OneMore(s, s2, k) /\ s \in Seq(Tokens) /\ KeptToken(b, e, s, s2, T, V, to, t)
      /\ Place(e, Len(s) + 2) = e.pos /\ \A x \in DOMAIN s : KeptToken(b, e, s, s2, T, V, to, x)
  BY DEF Kept, OneMore
<1>1. DOMAIN s2 = DOMAIN s \cup {Len(s) + 1} /\ Len(s) \in Nat
  BY <1>0, LongerOpens
<1>2. PICK i \in DOMAIN s :
    /\ Inner(s, i, t, LoopKinds)
    /\ IF Is(b, Place(b, t), "break", t) THEN Open(s, i)
       ELSE \E c \in DOMAIN s : Closes(s, i, c) /\ To(b, s, t) = Place(b, c + 1)
  BY DEF BreakLinked
<1>3. Inner(s2, i, t, LoopKinds) /\ i \in DOMAIN s2
  BY <1>0, <1>1, <1>2, LongerInner
<1>4. Is(e, Place(e, t), "break", t) <=> Is(b, Place(b, t), "break", t) /\ t \notin T
  BY <1>0 DEF KeptToken
<1>5. CASE Is(b, Place(b, t), "break", t) /\ t \notin T
  BY <1>2, <1>3, <1>4, <1>5 DEF BreakLinked
<1>6. CASE Is(b, Place(b, t), "break", t) /\ t \in T
  <2>1. Closes(s2, i, Len(s) + 1) /\ to = e.pos
    BY <1>2, <1>6
  <2>2. To(e, s2, t) = to
    BY <1>0, <1>6 DEF KeptToken
  <2>3. Len(s) + 1 \in DOMAIN s2 /\ Place(e, (Len(s) + 1) + 1) = e.pos
    BY <1>0, <1>1
  <2> QED BY <1>3, <1>4, <1>6, <2>1, <2>2, <2>3 DEF BreakLinked
<1>7. CASE ~Is(b, Place(b, t), "break", t)
  <2>1. PICK c \in DOMAIN s : Closes(s, i, c) /\ To(b, s, t) = Place(b, c + 1)
    BY <1>2, <1>7
  <2>2. Closes(s2, i, c) /\ c \in DOMAIN s2
    BY <1>0, <1>1, <2>1, LongerOld
  <2>3. HasBranch(b, s, t) /\ t \notin T
    BY <1>7 DEF HasBranch, Branchers
  <2>4. To(e, s2, t) = To(b, s, t)
    BY <1>0, <2>3 DEF KeptToken
  <2>5. Place(e, c + 1) = Place(b, c + 1)
    BY <1>0 DEF KeptToken
  <2> QED BY <1>3, <1>4, <1>7, <2>1, <2>2, <2>4, <2>5 DEF BreakLinked
<1> QED BY <1>5, <1>6, <1>7

LEMMA Innermost ==
  ASSUME NEW s \in Seq(Tokens), NEW f \in Seq(Frame), Owned(s, f), f # <<>>
  PROVE  \E o \in DOMAIN s : /\ Open(s, o) /\ Bal(s, o, Len(s)) = 1 /\ FrameOf(f, s, o) = f[Len(f)]
                             /\ f[Len(f)].kind \in KindsOf(s[o].k) /\ s[o].k \in Meaning!Openers
<1>1. Len(f) \in DOMAIN f /\ Len(f) \in Nat
  OBVIOUS
<1>2. PICK o \in DOMAIN s : Open(s, o) /\ Rank(f, s, o) = Len(f)
  BY <1>1 DEF Owned
<1>3. Bal(s, o, Len(s)) \in Nat
  BY <1>2, OpenOrder
<1>4. Bal(s, o, Len(s)) = 1
  BY <1>1, <1>2, <1>3 DEF Rank
<1>5. FrameOf(f, s, o) = f[Len(f)]
  BY <1>2 DEF FrameOf
<1>6. f[Len(f)].kind \in KindsOf(s[o].k)
  BY <1>2, <1>5 DEF Owned
<1> QED BY <1>2, <1>4, <1>5, <1>6 DEF Open, Opens

LEMMA DirectInside ==
  ASSUME NEW s \in Seq(Tokens), NEW i, NEW t, Direct(s, i, t)
  PROVE  s[t].k \notin Meaning!Openers
<1>1. i \in Int /\ t \in Int /\ i < t /\ OpenTo(s, i, t) /\ Bal(s, i, t) = 1
  BY DirectFacts
<1>2. OpenTo(s, i, t - 1) /\ t <= t + 1
  BY <1>1, OpenToPrefix
<1>3. Bal(s, i, t) >= 1 + Bal(s, t, t) /\ Bal(s, t, t) \in Int
  BY <1>1, <1>2, Nested
<1>4. Bal(s, t, t) = Delta(s[t].k)
  BY <1>1, BalOne
<1> QED BY <1>1, <1>3, <1>4 DEF Delta

(* Which brackets one more token does not touch: all of them,               *)
LEMMA AsideAll ==
  ASSUME NEW s, NEW s2, NEW k, OneMore(s, s2, k), NEW f \in Seq(Frame), NEW f2 \in Seq(Frame), Owned(s, f),
         k \notin Inward, Delta(k) \in {0, 1}, Len(f2) = Len(f) + Delta(k), SameUpTo(f, f2, Len(f)),
         NEW i \in DOMAIN s
  PROVE  Aside(s, s2, k, f, f2, {}, {}, i)
<1>1. Open(s, i) => Bal(s, i, Len(s)) \in Nat \ {0}
  BY OpenOrder DEF OneMore
<1>2. /\ Open(s2, i) <=> Open(s, i) /\ Bal(s, i, Len(s)) + Delta(k) >= 1
      /\ Closes(s2, i, Len(s) + 1) <=> Open(s, i) /\ Bal(s, i, Len(s)) + Delta(k) = 0
      /\ Direct(s2, i, Len(s) + 1) <=> Open(s, i) /\ Bal(s, i, Len(s)) + Delta(k) = 1
  BY LongerOld
<1>3. Open(s, i) => FrameOf(f2, s2, i) = FrameOf(f, s, i)
  <2>1. Rank(f2, s2, i) = Rank(f, s, i)
    BY RankStep
  <2>2. Open(s, i) => Rank(f, s, i) \in 1 .. Len(f)
    BY DEF Owned
  <2> QED BY <2>1, <2>2 DEF FrameOf, SameUpTo
<1> QED BY <1>1, <1>2, <1>3 DEF Aside

(* or all but the innermost.                                                *)
LEMMA AsideOthers ==
  ASSUME NEW s, NEW s2, NEW k, OneMore(s, s2, k), NEW f \in Seq(Frame), NEW f2 \in Seq(Frame), Owned(s, f),
         Delta(k) \in {0, -1}, Delta(k) = -1 => k \notin Inward,
         Len(f2) = Len(f) + Delta(k), SameUpTo(f, f2, Len(f) - 1),
         NEW o \in DOMAIN s, Open(s, o), Bal(s, o, Len(s)) = 1,
         NEW T, NEW V,
         \A t \in T : t = o \/ (Direct(s, o, t) /\ s[t].k \in Inward) \/ s[t].k = "break",
         \A t \in V : Direct(s, o, t),
         NEW i \in DOMAIN s, s[i].k \in Meaning!Openers, i # o
  PROVE  Aside(s, s2, k, f, f2, T, V, i)
<1>0. s \in Seq(Tokens) /\ Len(f) \in Nat
  BY DEF OneMore
<1>1. Open(s, i) => Bal(s, i, Len(s)) \in Nat \ {0, 1}
  BY <1>0, OpenOrder
<1>2. /\ Open(s2, i) <=> Open(s, i) /\ Bal(s, i, Len(s)) + Delta(k) >= 1
      /\ Closes(s2, i, Len(s) + 1) <=> Open(s, i) /\ Bal(s, i, Len(s)) + Delta(k) = 0
      /\ Direct(s2, i, Len(s) + 1) <=> Open(s, i) /\ Bal(s, i, Len(s)) + Delta(k) = 1
  BY LongerOld
<1>3. Open(s, i) => FrameOf(f2, s2, i) = FrameOf(f, s, i)
  <2>1. Rank(f2, s2, i) = Rank(f, s, i)
    BY RankStep
  <2>2. Open(s, i) => Rank(f, s, i) \in 1 .. Len(f)
    BY DEF Owned
  <2>3. Open(s, i) => Rank(f, s, i) # Len(f)
    BY <1>0, <1>1 DEF Rank
  <2>4. Open(s, i) => Rank(f, s, i) \in 1 .. Len(f) - 1
    BY <1>0, <2>2, <2>3
  <2> QED BY <2>1, <2>4 DEF FrameOf, SameUpTo
<1>4. s[o].k \in Meaning!Openers
  BY DEF Open, Opens
<1>5. i \notin T
  BY DEF Inward, Meaning!Openers
<1>6. ASSUME NEW t \in T PROVE s[t].k \notin Meaning!Closers /\ (Direct(s, i, t) => s[t].k = "break")
  <2>1. s[t].k \notin Meaning!Closers
    BY <1>4 DEF Inward, Meaning!Closers, Meaning!Openers
  <2>2. ASSUME Direct(s, i, t), s[t].k # "break" PROVE FALSE
    <3>1. t # o
      BY <1>0, <1>4, <2>2, DirectInside
    <3>2. Direct(s, o, t)
      BY <2>2, <3>1
    <3> QED BY <1>0, <2>2, <3>2, DirectOwner
  <2> QED BY <2>1, <2>2
<1>7. ASSUME NEW t \in V PROVE ~Direct(s, i, t)
  BY <1>0, DirectOwner
<1> QED BY <1>1, <1>2, <1>3, <1>5, <1>6, <1>7 DEF Aside

LEMMA LinkedAside ==
  ASSUME NEW b, NEW e, NEW s, NEW s2, NEW k, NEW f, NEW f2, NEW T, NEW V, NEW to,
         Kept(b, e, s, s2, k, T, V, to), Bracketed(s, f), Linked(b, s, f),
         NEW i \in DOMAIN s, Aside(s, s2, k, f, f2, T, V, i)
  PROVE  /\ s2[i].k = "if" => IfLinked(e, s2, f2, i)
         /\ s2[i].k \in LoopKinds => LoopLinked(e, s2, f2, i)
         /\ s2[i].k = "case" => CaseLinked(e, s2, f2, i)
<1>1. s2[i] = s[i]
  BY DEF Kept, OneMore
<1>2. Owned(s, f) /\ Ordered(s, f)
  BY DEF Bracketed
<1>3. s[i].k = "if" => IfLinked(e, s2, f2, i)
  BY IfAside DEF Linked
<1>4. s[i].k \in LoopKinds => LoopLinked(e, s2, f2, i)
  BY <1>2, LoopAside DEF Linked
<1>5. s[i].k = "case" => CaseLinked(e, s2, f2, i)
  BY <1>2, CaseAside DEF Linked
<1> QED BY <1>1, <1>3, <1>4, <1>5

(* The break marks, when no loop ends and when the innermost bracket is a   *)
(* loop that does.                                                          *)
LEMMA BreaksWait ==
  ASSUME NEW b, NEW e, NEW s, NEW s2, NEW k, NEW T, NEW V, NEW to,
         Kept(b, e, s, s2, k, T, V, to), \A t \in T : s[t].k # "break",
         \A i \in DOMAIN s : s[i].k \in LoopKinds /\ Open(s, i) => Open(s2, i),
         NEW t \in DOMAIN s, s[t].k = "break", BreakLinked(b, s, t)
  PROVE  BreakLinked(e, s2, t)
<1>1. t \notin T
  OBVIOUS
<1>2. \A i \in DOMAIN s : Inner(s, i, t, LoopKinds) => s[i].k \in LoopKinds
  BY DEF Inner
<1> QED BY <1>1, <1>2, BreakKept

(* T has the break marks behind o.                                          *)
Leaving(b, s, o, T) ==
  \A x \in DOMAIN s : s[x].k = "break" => (x \in T <=> x > o /\ Is(b, Place(b, x), "break", x))

LEMMA BreaksEnd ==
  ASSUME NEW b, NEW e, NEW s, NEW s2, NEW k, NEW T, NEW V, NEW to,
         Kept(b, e, s, s2, k, T, V, to), Delta(k) = -1, to = e.pos,
         NEW o \in DOMAIN s, Open(s, o), Bal(s, o, Len(s)) = 1, s[o].k \in LoopKinds,
         Leaving(b, s, o, T), NEW t \in DOMAIN s, s[t].k = "break", BreakLinked(b, s, t)
  PROVE  BreakLinked(e, s2, t)
<1>0. OneMore(s, s2, k) /\ s \in Seq(Tokens) /\ DOMAIN s = 1 .. Len(s) /\ Len(s) \in Nat
  BY DEF Kept, OneMore
<1>1. ASSUME NEW i \in DOMAIN s, Inner(s, i, t, LoopKinds), Is(b, Place(b, t), "break", t), Open(s, i)
      PROVE  IF t \in T THEN Closes(s2, i, Len(s) + 1) /\ to = e.pos ELSE Open(s2, i)
  <2>1. t \in T <=> t > o
    BY <1>1 DEF Leaving
  <2>2. /\ Open(s2, i) <=> Bal(s, i, Len(s)) + (-1) >= 1
        /\ Closes(s2, i, Len(s) + 1) <=> Bal(s, i, Len(s)) + (-1) = 0
    BY <1>0, <1>1, LongerOld
  <2>3. Bal(s, i, Len(s)) \in Nat \ {0} /\ (i < o => Bal(s, i, Len(s)) > 1)
        /\ (i > o => Bal(s, i, Len(s)) < 1) /\ (Bal(s, i, Len(s)) = 1 => i = o)
    BY <1>0, <1>1, OpenOrder
  <2>4. i <= t /\ i \in Int /\ o \in Int /\ t \in Int /\ t <= Len(s)
    BY <1>0, <1>1 DEF Inner
  <2>5. CASE t > o
    <3>1. OpenTo(s, o, t)
      <4>1. OpenTo(s, o, Len(s))
        BY DEF Open
      <4> QED BY <1>0, <2>4, <4>1, OpenToPrefix
    <3>2. i >= o
      <4>1. i < o => o \in i + 1 .. t
        BY <2>4, <2>5
      <4> QED BY <1>1, <2>4, <3>1, <4>1 DEF Inner
    <3>3. i = o
      BY <2>3, <2>4, <3>2
    <3> QED BY <2>1, <2>2, <2>5, <3>3
  <2>6. CASE ~(t > o)
    <3>1. i # o
      <4>1. t # o
        BY DEF LoopKinds
      <4> QED BY <2>4, <2>6, <4>1
    <3>2. Bal(s, i, Len(s)) # 1
      BY <2>3, <3>1
    <3> QED BY <2>1, <2>2, <2>3, <2>6, <3>2
  <2> QED BY <2>5, <2>6
<1>2. t \in T => Is(b, Place(b, t), "break", t)
  BY DEF Leaving
<1> QED BY <1>1, <1>2, BreakKept

(* The innermost bracket and one more token that opens none.                *)
OwnParts(s, s2, k, f2, o) ==
  /\ \A t \in DOMAIN s : Direct(s2, o, t) <=> Direct(s, o, t)
  /\ Direct(s2, o, Len(s) + 1) <=> Delta(k) = 0
  /\ Open(s2, o) <=> Delta(k) = 0
  /\ \A c \in DOMAIN s2 : Closes(s2, o, c) <=> c = Len(s) + 1 /\ Delta(k) = -1
  /\ Delta(k) = 0 => FrameOf(f2, s2, o) = f2[Len(f2)]
  /\ \A K : \A from \in Nat \ {0}, m \in Int : m <= Len(s) =>
       (NoneOf(s2, o, from, m, K) <=> NoneOf(s, o, from, m, K))
  /\ \A K : \A from \in Nat \ {0} : from <= Len(s) + 1 =>
       (NoneOf(s2, o, from, Len(s) + 1, K)
          <=> NoneOf(s, o, from, Len(s), K) /\ (k \in K => Delta(k) # 0))
  /\ \A K : NoneOf(s2, o, Len(s) + 2, Len(s) + 1, K)
  /\ DOMAIN s2 = DOMAIN s \cup {Len(s) + 1} /\ DOMAIN s \subseteq Nat \ {0}
  /\ Len(s) \in Nat /\ DOMAIN s = 1 .. Len(s) /\ Len(s2) = Len(s) + 1
  /\ s2[Len(s) + 1].k = k /\ \A t \in DOMAIN s : s2[t] = s[t]

LEMMA OwnFacts ==
  ASSUME NEW s, NEW s2, NEW k, OneMore(s, s2, k), NEW f2 \in Seq(Frame),
         NEW o \in DOMAIN s, Open(s, o), Bal(s, o, Len(s)) = 1, Delta(k) \in {0, -1}
  PROVE  OwnParts(s, s2, k, f2, o)
<1>0. s \in Seq(Tokens)
  BY DEF OneMore
<1>10. /\ DOMAIN s2 = DOMAIN s \cup {Len(s) + 1}
      /\ Len(s) \in Nat /\ DOMAIN s = 1 .. Len(s) /\ Len(s2) = Len(s) + 1
      /\ s2[Len(s) + 1].k = k /\ \A t \in DOMAIN s : s2[t] = s[t]
  BY LongerOpens, ZenonT(60)
<1>1. /\ DOMAIN s2 = DOMAIN s \cup {Len(s) + 1} /\ DOMAIN s \subseteq Nat \ {0}
      /\ Len(s) \in Nat /\ DOMAIN s = 1 .. Len(s) /\ Len(s2) = Len(s) + 1
      /\ s2[Len(s) + 1].k = k /\ \A t \in DOMAIN s : s2[t] = s[t]
  BY <1>10
<1>2. /\ Open(s2, o) <=> Bal(s, o, Len(s)) + Delta(k) >= 1
      /\ Closes(s2, o, Len(s) + 1) <=> Bal(s, o, Len(s)) + Delta(k) = 0
      /\ Direct(s2, o, Len(s) + 1) <=> Bal(s, o, Len(s)) + Delta(k) = 1
      /\ \A t \in DOMAIN s : Direct(s2, o, t) <=> Direct(s, o, t)
      /\ \A c \in DOMAIN s : Closes(s2, o, c) <=> Closes(s, o, c)
      /\ Bal(s2, o, Len(s2)) = Bal(s, o, Len(s)) + Delta(k)
  BY LongerOld
<1>3. \A c \in DOMAIN s : ~Closes(s, o, c)
  BY <1>0, ClosesOnce
<1>4. \A K : /\ \A from \in Nat \ {0}, m \in Int : m <= Len(s) =>
              (NoneOf(s2, o, from, m, K) <=> NoneOf(s, o, from, m, K))
             /\ \A from \in Nat \ {0} : from <= Len(s) + 1 =>
              (NoneOf(s2, o, from, Len(s) + 1, K)
                 <=> /\ NoneOf(s, o, from, Len(s), K)
                     /\ k \in K => ~Direct(s2, o, Len(s) + 1))
  BY LongerNone
<1>5. Delta(k) = 0 => FrameOf(f2, s2, o) = f2[Len(f2)]
  BY <1>2 DEF FrameOf, Rank
<1>6. \A K : NoneOf(s2, o, Len(s) + 2, Len(s) + 1, K)
  BY <1>1 DEF NoneOf
<1>7. /\ Direct(s2, o, Len(s) + 1) <=> Delta(k) = 0
      /\ Open(s2, o) <=> Delta(k) = 0
      /\ \A c \in DOMAIN s2 : Closes(s2, o, c) <=> c = Len(s) + 1 /\ Delta(k) = -1
  BY <1>1, <1>2, <1>3
<1>8. \A K : \A from \in Nat \ {0} : from <= Len(s) + 1 =>
       (NoneOf(s2, o, from, Len(s) + 1, K)
          <=> NoneOf(s, o, from, Len(s), K) /\ (k \in K => Delta(k) # 0))
  BY <1>4, <1>7
<1>9. \A K : \A from \in Nat \ {0}, m \in Int : m <= Len(s) =>
       (NoneOf(s2, o, from, m, K) <=> NoneOf(s, o, from, m, K))
  BY <1>4
<1> QED BY <1>1, <1>2, <1>5, <1>6, <1>7, <1>8, <1>9 DEF OwnParts

-----------------------------------------------------------------------------
(* A loop is open wherever there is the frame of one.                       *)
LEMMA LoopAround ==
  ASSUME NEW s, NEW s2, NEW k, OneMore(s, s2, k), Delta(k) = 0, k \notin LoopKinds,
         NEW f \in Seq(Frame), Owned(s, f), \E m \in DOMAIN f : f[m].kind \in LoopKinds
  PROVE  \E i \in DOMAIN s2 : Inner(s2, i, Len(s) + 1, LoopKinds) /\ Open(s2, i)
<1>0. s \in Seq(Tokens) /\ DOMAIN s = 1 .. Len(s) /\ Len(s) \in Nat
      /\ DOMAIN s2 = DOMAIN s \cup {Len(s) + 1} /\ Len(s2) = Len(s) + 1 /\ s2[Len(s) + 1].k = k
      /\ \A i \in DOMAIN s : s2[i] = s[i]
  BY LongerOpens DEF OneMore
<1> DEFINE S == {i \in DOMAIN s : s[i].k \in LoopKinds /\ Open(s, i)}
           D == {Len(s) - i : i \in S}
<1>1. S # {}
  <2>1. PICK m \in DOMAIN f : f[m].kind \in LoopKinds
    OBVIOUS
  <2>2. PICK i \in DOMAIN s : Open(s, i) /\ Rank(f, s, i) = m
    BY DEF Owned
  <2>3. f[m].kind \in KindsOf(s[i].k) /\ s[i].k \in Meaning!Openers
    BY <2>2 DEF Owned, FrameOf, Open, Opens
  <2>4. s[i].k \in LoopKinds
    BY <2>1, <2>3 DEF KindsOf, LoopKinds, Meaning!Openers
  <2> QED BY <2>2, <2>4
<1>2. D \in SUBSET Nat /\ D # {}
  BY <1>0, <1>1
<1>3. Meaning!First(D) \in D /\ \A d \in D : Meaning!First(D) <= d
  BY <1>2, FirstOf
<1>4. PICK i \in S : Meaning!First(D) = Len(s) - i
  BY <1>3
<1>5. \A j \in S : j <= i
  <2> SUFFICES ASSUME NEW j \in S PROVE j <= i
    OBVIOUS
  <2>1. Len(s) - j \in D
    OBVIOUS
  <2>2. i \in Int /\ j \in Int
    BY <1>0
  <2>3. Len(s) - i <= Len(s) - j
    BY <1>3, <1>4, <2>1
  <2> QED BY <1>0, <2>2, <2>3
<1>6. \A j \in DOMAIN s : Open(s, j) => Open(s2, j)
  <2> SUFFICES ASSUME NEW j \in DOMAIN s, Open(s, j) PROVE Open(s2, j)
    OBVIOUS
  <2>1. Open(s2, j) <=> Open(s, j) /\ Bal(s, j, Len(s)) + 0 >= 1
    BY LongerOld
  <2> QED BY <1>0, <2>1, OpenOrder
<1>7. \A j \in DOMAIN s : OpenTo(s2, j, Len(s2)) => OpenTo(s, j, Len(s))
  <2> SUFFICES ASSUME NEW j \in DOMAIN s, OpenTo(s2, j, Len(s2)) PROVE OpenTo(s, j, Len(s))
    OBVIOUS
  <2>1. OpenTo(s2, j, Len(s))
    BY <1>0, OpenToPrefix
  <2>2. j \in Nat \ {0} /\ Len(s) \in Int /\ Len(s) <= Len(s)
    BY <1>0
  <2> QED BY <2>1, <2>2, LongerBal
<1>8. OpenTo(s2, i, Len(s) + 1) /\ s2[i].k \in LoopKinds /\ Open(s2, i)
  BY <1>0, <1>4, <1>6 DEF Open
<1>9. ASSUME NEW j \in i + 1 .. Len(s) + 1, s2[j].k \in LoopKinds PROVE ~OpenTo(s2, j, Len(s) + 1)
  <2>1. j \in DOMAIN s /\ j > i
    BY <1>0, <1>4, <1>9
  <2>2. s[j].k \in LoopKinds /\ j \notin S
    BY <1>0, <1>4, <1>5, <1>9, <2>1
  <2>3. ~Open(s, j)
    BY <2>1, <2>2
  <2>4. Opens(s, j)
    BY <2>1, <2>2 DEF Opens, LoopKinds, Meaning!Openers
  <2>5. ~OpenTo(s, j, Len(s))
    BY <2>3, <2>4 DEF Open
  <2> QED BY <1>0, <1>7, <2>1, <2>5
<1>10. i \in DOMAIN s2 /\ i \in 1 .. Len(s) + 1 /\ Len(s) + 1 \in DOMAIN s2
  BY <1>0, <1>4
<1> QED BY <1>8, <1>9, <1>10 DEF Inner

(* A statement that opens and closes nothing.                               *)
LEMMA PlainLinked ==
  ASSUME NEW b, NEW e, NEW s, NEW s2, NEW k, NEW f \in Seq(Frame), NEW to,
         Kept(b, e, s, s2, k, {}, {}, to), Bracketed(s, f), Linked(b, s, f),
         k \in {"stmt", "exit", "break"},
         k = "break" => /\ Is(e, Place(e, Len(s) + 1), "break", Len(s) + 1)
                        /\ \E m \in DOMAIN f : f[m].kind \in LoopKinds
  PROVE  Linked(e, s2, f)
<1>0. OneMore(s, s2, k) /\ s \in Seq(Tokens) /\ Owned(s, f)
  BY DEF Kept, OneMore, Bracketed
<1>1. DOMAIN s2 = DOMAIN s \cup {Len(s) + 1} /\ s2[Len(s) + 1].k = k /\ Len(s) \in Nat
      /\ \A i \in DOMAIN s : s2[i] = s[i]
  BY <1>0, LongerOpens
<1>2. Delta(k) = 0 /\ k \notin Inward /\ k \notin LoopKinds /\ k # "if" /\ k # "case"
  BY DEF Delta, Meaning!Openers, Meaning!Closers, Inward, LoopKinds
<1>3. ASSUME NEW i \in DOMAIN s PROVE Aside(s, s2, k, f, f, {}, {}, i)
  <2>1. Len(f) = Len(f) + Delta(k) /\ SameUpTo(f, f, Len(f))
    BY <1>2 DEF SameUpTo
  <2> QED BY <1>0, <1>2, <2>1, AsideAll
<1>4. ASSUME NEW i \in DOMAIN s
      PROVE  /\ s2[i].k = "if" => IfLinked(e, s2, f, i)
             /\ s2[i].k \in LoopKinds => LoopLinked(e, s2, f, i)
             /\ s2[i].k = "case" => CaseLinked(e, s2, f, i)
  BY <1>3, LinkedAside
<1>5. ASSUME NEW t \in DOMAIN s, s[t].k = "break" PROVE BreakLinked(e, s2, t)
  <2>1. BreakLinked(b, s, t)
    BY <1>5 DEF Linked
  <2>2. \A i \in DOMAIN s : s[i].k \in LoopKinds /\ Open(s, i) => Open(s2, i)
    BY <1>3 DEF Aside
  <2> QED BY <1>5, <2>1, <2>2, BreaksWait
<1>6. k = "break" => BreakLinked(e, s2, Len(s) + 1)
  <2> SUFFICES ASSUME k = "break" PROVE BreakLinked(e, s2, Len(s) + 1)
    OBVIOUS
  <2>1. \E i \in DOMAIN s2 : Inner(s2, i, Len(s) + 1, LoopKinds) /\ Open(s2, i)
    BY <1>0, <1>2, LoopAround
  <2> QED BY <2>1 DEF BreakLinked
<1> QED BY <1>1, <1>2, <1>4, <1>5, <1>6 DEF Linked

(* A statement that is opened.                                              *)
Fresh(e, s2, g, n) ==
  CASE s2[n].k = "if"   -> g.kind = "if" /\ g.hole = BranchAt(e, s2, n)
    [] s2[n].k = "case" -> g.kind = "labels" /\ g.arms = {} /\ g.ends = {}
    [] OTHER            -> /\ g.kind = s2[n].k /\ g.head = LoopHead(e, s2, n) /\ g.brk = Place(e, n + 1)
                           /\ s2[n].k # "repeat" => g.hole = BranchAt(e, s2, n)

LEMMA OpenLinked ==
  ASSUME NEW b, NEW e, NEW s, NEW s2, NEW k, NEW f \in Seq(Frame), NEW f2 \in Seq(Frame), NEW to,
         Kept(b, e, s, s2, k, {}, {}, to), Bracketed(s, f), Linked(b, s, f),
         k \in Meaning!Openers, Len(f2) = Len(f) + 1, SameUpTo(f, f2, Len(f)),
         Fresh(e, s2, f2[Len(f) + 1], Len(s) + 1)
  PROVE  Linked(e, s2, f2)
<1>0. OneMore(s, s2, k) /\ s \in Seq(Tokens) /\ Owned(s, f)
  BY DEF Kept, OneMore, Bracketed
<1>21. DOMAIN s2 = DOMAIN s \cup {Len(s) + 1} /\ s2[Len(s) + 1].k = k /\ Len(s) \in Nat
        /\ \A i \in DOMAIN s : s2[i] = s[i]
  BY <1>0 DEF OneMore
<1> PICK n : n = Len(s) + 1
  OBVIOUS
<1>1. DOMAIN s2 = DOMAIN s \cup {n} /\ s2[n].k = k /\ Len(s) \in Nat
      /\ \A i \in DOMAIN s : s2[i] = s[i]
  BY <1>21
<1>2. Delta(k) = 1 /\ k \notin Inward /\ k # "break"
  BY DEF Delta, Meaning!Openers, Inward
<1>3. ASSUME NEW i \in DOMAIN s PROVE Aside(s, s2, k, f, f2, {}, {}, i)
  BY <1>0, <1>2, AsideAll
<1>4. ASSUME NEW i \in DOMAIN s
      PROVE  /\ s2[i].k = "if" => IfLinked(e, s2, f2, i)
             /\ s2[i].k \in LoopKinds => LoopLinked(e, s2, f2, i)
             /\ s2[i].k = "case" => CaseLinked(e, s2, f2, i)
  BY <1>3, LinkedAside
<1>5. ASSUME NEW t \in DOMAIN s, s[t].k = "break" PROVE BreakLinked(e, s2, t)
  <2>1. BreakLinked(b, s, t)
    BY <1>5 DEF Linked
  <2>2. \A i \in DOMAIN s : s[i].k \in LoopKinds /\ Open(s, i) => Open(s2, i)
    BY <1>3 DEF Aside
  <2> QED BY <1>5, <2>1, <2>2, BreaksWait
<1>6. /\ Open(s2, n) /\ Bal(s2, n, Len(s2)) = 1
      /\ \A c \in DOMAIN s2 : ~Closes(s2, n, c) /\ ~Direct(s2, n, c)
  BY <1>0, LongerNew
<1>7. FrameOf(f2, s2, n) = f2[Len(f) + 1]
  BY <1>6 DEF FrameOf, Rank
<1>8. \A from, m, K : NoneOf(s2, n, from, m, K)
  <2> SUFFICES ASSUME NEW x, Direct(s2, n, x) PROVE FALSE
    BY DEF NoneOf
  <2>1. x \in DOMAIN s2
    BY <1>0, DirectFacts DEF OneMore
  <2> QED BY <1>6, <2>1
<1>9. k = "if" => IfLinked(e, s2, f2, n)
  BY <1>1, <1>6, <1>7, <1>8 DEF IfLinked, Fresh
<1>10. k \in LoopKinds => LoopLinked(e, s2, f2, n)
  BY <1>1, <1>6, <1>7 DEF LoopLinked, Fresh, LoopKinds
<1>11. k = "case" => CaseLinked(e, s2, f2, n)
  <2> SUFFICES ASSUME k = "case" PROVE CaseLinked(e, s2, f2, n)
    OBVIOUS
  <2> PICK g : g = f2[Len(f) + 1]
    OBVIOUS
  <2>1. g.kind = "labels" /\ g.arms = {} /\ g.ends = {}
    BY <1>1 DEF Fresh
  <2>2. {x \in DOMAIN s2 : Direct(s2, n, x) /\ s2[x].k = "label" /\ NoneOf(s2, n, x, Len(s2), {"colon"})} = {}
        /\ {x \in DOMAIN s2 : Direct(s2, n, x) /\ s2[x].k = "endarm"} = {}
    BY <1>6
  <2> QED BY <1>6, <1>7, <2>1, <2>2 DEF CaseLinked
<1> QED BY <1>1, <1>2, <1>4, <1>5, <1>9, <1>10, <1>11 DEF Linked

(* T and V lie in the bracket o; what is left to be shown of it.            *)
Within(s, o, T, V) ==
  /\ \A t \in T : t = o \/ (Direct(s, o, t) /\ s[t].k \in Inward) \/ s[t].k = "break"
  /\ \A t \in V : Direct(s, o, t)

OwnDone(e, s, s2, f2, o) ==
  /\ s[o].k = "if" => IfLinked(e, s2, f2, o)
  /\ s[o].k \in LoopKinds => LoopLinked(e, s2, f2, o)
  /\ s[o].k = "case" => CaseLinked(e, s2, f2, o)
  /\ \A t \in DOMAIN s : s[t].k = "break" => BreakLinked(e, s2, t)

LEMMA OwnLinked ==
  ASSUME NEW b, NEW e, NEW s, NEW s2, NEW k, NEW f \in Seq(Frame), NEW f2 \in Seq(Frame),
         NEW T, NEW V, NEW to, Kept(b, e, s, s2, k, T, V, to), Bracketed(s, f), Linked(b, s, f),
         Delta(k) \in {0, -1}, Delta(k) = -1 => k \notin Inward, k # "break",
         Len(f2) = Len(f) + Delta(k), SameUpTo(f, f2, Len(f) - 1),
         NEW o \in DOMAIN s, Open(s, o), Bal(s, o, Len(s)) = 1,
         Within(s, o, T, V), OwnDone(e, s, s2, f2, o)
  PROVE  Linked(e, s2, f2)
<1>0. OneMore(s, s2, k) /\ s \in Seq(Tokens) /\ Owned(s, f)
  BY DEF Kept, OneMore, Bracketed
<1>1. DOMAIN s2 = DOMAIN s \cup {Len(s) + 1} /\ s2[Len(s) + 1].k = k /\ Len(s) \in Nat
      /\ \A i \in DOMAIN s : s2[i] = s[i]
  BY <1>0 DEF OneMore
<1>2. k # "if" /\ k \notin LoopKinds /\ k # "case"
  BY DEF Delta, Meaning!Openers, LoopKinds
<1>3. ASSUME NEW i \in DOMAIN s, s[i].k \in Meaning!Openers, i # o
      PROVE  /\ s2[i].k = "if" => IfLinked(e, s2, f2, i)
             /\ s2[i].k \in LoopKinds => LoopLinked(e, s2, f2, i)
             /\ s2[i].k = "case" => CaseLinked(e, s2, f2, i)
  <2>1. Aside(s, s2, k, f, f2, T, V, i)
    BY <1>0, <1>3, AsideOthers DEF Within
  <2> QED BY <2>1, LinkedAside
<1>4. ASSUME NEW i \in DOMAIN s
      PROVE  /\ s2[i].k = "if" => IfLinked(e, s2, f2, i)
             /\ s2[i].k \in LoopKinds => LoopLinked(e, s2, f2, i)
             /\ s2[i].k = "case" => CaseLinked(e, s2, f2, i)
  <2>1. s2[i] = s[i]
    BY <1>1
  <2>2. CASE i = o
    BY <2>1, <2>2 DEF OwnDone
  <2>3. CASE i # o /\ s[i].k \in Meaning!Openers
    BY <1>3, <2>3
  <2>4. CASE s[i].k \notin Meaning!Openers
    BY <2>1, <2>4 DEF Meaning!Openers, LoopKinds
  <2> QED BY <2>2, <2>3, <2>4
<1>5. \A i \in DOMAIN s2 : i = Len(s) + 1 \/ i \in DOMAIN s
  BY <1>1
<1>6. \A i \in DOMAIN s2 : s2[i].k = "if" => IfLinked(e, s2, f2, i)
  BY <1>1, <1>2, <1>4, <1>5
<1>7. \A i \in DOMAIN s2 : s2[i].k \in LoopKinds => LoopLinked(e, s2, f2, i)
  BY <1>1, <1>2, <1>4, <1>5
<1>8. \A i \in DOMAIN s2 : s2[i].k = "case" => CaseLinked(e, s2, f2, i)
  BY <1>1, <1>2, <1>4, <1>5
<1>9. \A i \in DOMAIN s2 : s2[i].k = "break" => BreakLinked(e, s2, i)
  BY <1>1, <1>5 DEF OwnDone
<1> QED BY <1>6, <1>7, <1>8, <1>9 DEF Linked

(* The breaks, if the bracket is not a loop.                                *)
LEMMA OwnBreaks ==
  ASSUME NEW b, NEW e, NEW s, NEW s2, NEW k, NEW f, NEW T, NEW V, NEW to,
         Kept(b, e, s, s2, k, T, V, to), Linked(b, s, f),
         Delta(k) \in {0, -1}, \A t \in T : s[t].k # "break",
         NEW o \in DOMAIN s, Open(s, o), Bal(s, o, Len(s)) = 1, s[o].k \notin LoopKinds
  PROVE  \A t \in DOMAIN s : s[t].k = "break" => BreakLinked(e, s2, t)
<1>0. OneMore(s, s2, k) /\ s \in Seq(Tokens)
  BY DEF Kept, OneMore
<1>1. ASSUME NEW i \in DOMAIN s, s[i].k \in LoopKinds, Open(s, i) PROVE Open(s2, i)
  <2>1. Bal(s, i, Len(s)) \in Nat \ {0} /\ (Bal(s, i, Len(s)) = 1 => i = o)
    BY <1>0, <1>1, OpenOrder
  <2>2. Bal(s, i, Len(s)) \in Nat \ {0, 1}
    BY <1>1, <2>1
  <2>3. Open(s2, i) <=> Open(s, i) /\ Bal(s, i, Len(s)) + Delta(k) >= 1
    BY <1>0, LongerOld
  <2> QED BY <1>1, <2>2, <2>3
<1>2. SUFFICES ASSUME NEW t \in DOMAIN s, s[t].k = "break" PROVE BreakLinked(e, s2, t)
  OBVIOUS
<1>3. BreakLinked(b, s, t)
  BY <1>2 DEF Linked
<1> QED BY <1>1, <1>2, <1>3, BreaksWait

-----------------------------------------------------------------------------
(* if                                                                       *)

LEMMA ElseLinked ==
  ASSUME NEW b, NEW e, NEW s, NEW s2, NEW f \in Seq(Frame), NEW f2 \in Seq(Frame), NEW to,
         NEW o \in DOMAIN s, Open(s, o), Bal(s, o, Len(s)) = 1, s[o].k = "if",
         Kept(b, e, s, s2, "else", {o}, {}, to), Bracketed(s, f), Linked(b, s, f),
         FrameOf(f, s, o).kind = "if",
         Len(f2) = Len(f), SameUpTo(f, f2, Len(f) - 1),
         f2[Len(f2)].kind = "else", f2[Len(f2)].hole = BranchAt(e, s2, Len(s) + 1), to = e.pos
  PROVE  Linked(e, s2, f2)
<1>0. OneMore(s, s2, "else") /\ s \in Seq(Tokens) /\ KeptToken(b, e, s, s2, {o}, {}, to, o)
      /\ Place(e, Len(s) + 2) = e.pos
  BY DEF Kept, OneMore
<1>1. Delta("else") = 0
  BY DEF Delta, Meaning!Openers, Meaning!Closers
<1>2. OwnParts(s, s2, "else", f2, o)
  BY <1>0, <1>1, OwnFacts
<1>3. NoneOf(s, o, o, Len(s), {"else"})
  BY DEF Linked, IfLinked
<1>4. To(e, s2, o) = e.pos
  BY <1>0 DEF KeptToken
<1> PICK n : n = Len(s) + 1
  OBVIOUS
<1>5. n \in DOMAIN s2 /\ n \in Nat /\ s2[n].k = "else" /\ Direct(s2, o, n) /\ Len(s2) = n /\ o \in Nat \ {0}
      /\ n - 1 = Len(s) /\ n + 1 = Len(s) + 2 /\ Len(s) \in Int /\ Len(s) <= Len(s)
  BY <1>1, <1>2 DEF OwnParts
<1>6. NoneOf(s2, o, o, n - 1, {"else"}) /\ NoneOf(s2, o, n + 1, Len(s2), {"else"})
  <2>1. NoneOf(s2, o, o, Len(s), {"else"})
    BY <1>2, <1>3, <1>5 DEF OwnParts
  <2>2. NoneOf(s2, o, Len(s) + 2, Len(s) + 1, {"else"})
    BY <1>2 DEF OwnParts
  <2> QED BY <1>5, <2>1, <2>2
<1>7. FrameOf(f2, s2, o) = f2[Len(f2)] /\ \A c \in DOMAIN s2 : ~Closes(s2, o, c)
  BY <1>1, <1>2 DEF OwnParts
<1>8. IfLinked(e, s2, f2, o)
  BY <1>0, <1>4, <1>5, <1>6, <1>7 DEF IfLinked
<1>9. \A t \in DOMAIN s : s[t].k = "break" => BreakLinked(e, s2, t)
  <2>1. s[o].k \notin LoopKinds /\ \A t \in {o} : s[t].k # "break"
    BY DEF LoopKinds
  <2> QED BY <1>1, <2>1, OwnBreaks
<1>10. s[o].k \notin LoopKinds /\ s[o].k # "case"
  BY DEF LoopKinds
<1>11. Within(s, o, {o}, {})
  BY DEF Within, Inward
<1>12. Len(f2) = Len(f) + 0
  OBVIOUS
<1>13. OwnDone(e, s, s2, f2, o)
  BY <1>8, <1>9, <1>10 DEF OwnDone
<1> QED BY <1>1, <1>11, <1>12, <1>13, OwnLinked

(* The token whose branch the if statement still holds.                     *)
HeldBy(b, s, f, o, x) ==
  /\ x \in DOMAIN s
  /\ FrameOf(f, s, o).kind = "if" => x = o
  /\ FrameOf(f, s, o).kind # "if" =>
       /\ Direct(s, o, x) /\ s[x].k = "else" /\ To(b, s, o) = Place(b, x + 1)
       /\ NoneOf(s, o, o, x - 1, {"else"}) /\ NoneOf(s, o, x + 1, Len(s), {"else"})

LEMMA EndIfLinked ==
  ASSUME NEW b, NEW e, NEW s, NEW s2, NEW f \in Seq(Frame), NEW f2 \in Seq(Frame), NEW to,
         NEW o \in DOMAIN s, Open(s, o), Bal(s, o, Len(s)) = 1, s[o].k = "if", NEW x,
         Kept(b, e, s, s2, "fi", {x}, {}, to), Bracketed(s, f), Linked(b, s, f),
         HeldBy(b, s, f, o, x),
         Len(f2) = Len(f) - 1, SameUpTo(f, f2, Len(f) - 1), to = b.pos
  PROVE  Linked(e, s2, f2)
<1>0. OneMore(s, s2, "fi") /\ s \in Seq(Tokens) /\ \A t \in DOMAIN s : KeptToken(b, e, s, s2, {x}, {}, to, t)
      /\ Place(e, Len(s) + 1) = b.pos
  BY DEF Kept, OneMore
<1>1. Delta("fi") = -1
  BY DEF Delta, Meaning!Openers, Meaning!Closers
<1>2. OwnParts(s, s2, "fi", f2, o)
  BY <1>0, <1>1, OwnFacts
<1> PICK n : n = Len(s) + 1
  OBVIOUS
<1>3. n \in Nat /\ n - 1 = Len(s) /\ o \in Nat \ {0} /\ ~Open(s2, o) /\ DOMAIN s = 1 .. Len(s)
      /\ Place(e, n) = to /\ Len(s) \in Nat /\ DOMAIN s2 = DOMAIN s \cup {n} /\ o <= Len(s)
  BY <1>0, <1>1, <1>2 DEF OwnParts
<1>4. ASSUME NEW c \in DOMAIN s2, Closes(s2, o, c)
      PROVE  \/ To(e, s2, o) = Place(e, c) /\ NoneOf(s2, o, o, c, {"else"})
       \/ \E y \in DOMAIN s2 : /\ Direct(s2, o, y) /\ s2[y].k = "else" /\ y < c
               /\ To(e, s2, o) = Place(e, y + 1) /\ To(e, s2, y) = Place(e, c)
               /\ NoneOf(s2, o, o, y - 1, {"else"}) /\ NoneOf(s2, o, y + 1, c, {"else"})
  <2>1. c = n
    BY <1>2, <1>4 DEF OwnParts
  <2>2. CASE FrameOf(f, s, o).kind = "if"
    <3>1. x = o
      BY <2>2 DEF HeldBy
    <3>2. NoneOf(s, o, o, Len(s), {"else"})
      BY <2>2 DEF Linked, IfLinked
    <3>3. NoneOf(s2, o, o, n, {"else"})
      <4>1. o <= Len(s) + 1 /\ "fi" \notin {"else"}
        BY <1>3
      <4>2. NoneOf(s2, o, o, Len(s) + 1, {"else"})
        BY <1>2, <1>3, <3>2, <4>1 DEF OwnParts
      <4> QED BY <4>2
    <3>4. To(e, s2, o) = to
      BY <1>0, <3>1 DEF KeptToken
    <3> QED BY <1>3, <2>1, <3>3, <3>4
  <2>3. CASE FrameOf(f, s, o).kind # "if"
    <3>1. /\ Direct(s, o, x) /\ s[x].k = "else" /\ To(b, s, o) = Place(b, x + 1)
          /\ NoneOf(s, o, o, x - 1, {"else"}) /\ NoneOf(s, o, x + 1, Len(s), {"else"})
      BY <2>3 DEF HeldBy
    <3>2. x \in DOMAIN s /\ x # o /\ x \in Int /\ 1 <= x /\ x <= Len(s)
      BY <1>0, <1>3, <3>1, DirectFacts
    <3>3. To(e, s2, o) = To(b, s, o) /\ Place(e, x + 1) = Place(b, x + 1) /\ To(e, s2, x) = to
      <4>1. HasBranch(b, s, o) /\ o \notin {x}
        BY <3>2 DEF HasBranch, Branchers
      <4>2. KeptToken(b, e, s, s2, {x}, {}, to, o) /\ KeptToken(b, e, s, s2, {x}, {}, to, x)
        BY <1>0, <3>2
      <4> QED BY <4>1, <4>2 DEF KeptToken
    <3>4. Direct(s2, o, x) /\ s2[x].k = "else" /\ x \in DOMAIN s2
      BY <1>2, <3>1, <3>2 DEF OwnParts
    <3>5. x + 1 \in Nat \ {0} /\ x + 1 <= Len(s) + 1 /\ x - 1 \in Int /\ x - 1 <= Len(s)
      BY <1>3, <3>2
    <3>6. NoneOf(s2, o, o, x - 1, {"else"})
      BY <1>2, <1>3, <3>1, <3>5 DEF OwnParts
    <3>7. NoneOf(s2, o, x + 1, Len(s) + 1, {"else"})
      BY <1>2, <3>1, <3>5 DEF OwnParts
    <3>8. x < n
      BY <1>3, <3>2
    <3> QED BY <1>3, <2>1, <3>1, <3>3, <3>4, <3>6, <3>7, <3>8
  <2> QED BY <2>2, <2>3
<1>5. IfLinked(e, s2, f2, o)
  BY <1>3, <1>4 DEF IfLinked
<1>6. s[o].k \notin LoopKinds /\ s[o].k # "case" /\ s[x].k # "break"
  BY DEF LoopKinds, HeldBy
<1>7. \A t \in DOMAIN s : s[t].k = "break" => BreakLinked(e, s2, t)
  <2>1. \A t \in {x} : s[t].k # "break"
    BY <1>6
  <2> QED BY <1>1, <1>6, <2>1, OwnBreaks
<1>8. Within(s, o, {x}, {})
  BY DEF Within, Inward, HeldBy
<1>9. Len(f2) = Len(f) + (-1) /\ "fi" \notin Inward
  BY DEF Inward
<1>10. OwnDone(e, s, s2, f2, o)
  BY <1>5, <1>6, <1>7 DEF OwnDone
<1> QED BY <1>1, <1>8, <1>9, <1>10, OwnLinked

-----------------------------------------------------------------------------
(* The loops                                                                *)

(* T has what the end of the loop resolves.                                 *)
Loosens(b, s, o, T) ==
  /\ \A t \in T : t = o \/ s[t].k = "break"
  /\ s[o].k # "repeat" => o \in T
  /\ Leaving(b, s, o, T)

LEMMA LoopEndLinked ==
  ASSUME NEW b, NEW e, NEW s, NEW s2, NEW f \in Seq(Frame), NEW f2 \in Seq(Frame), NEW to,
         NEW k \in {"od", "until", "forever", "rof"},
         NEW o \in DOMAIN s, Open(s, o), Bal(s, o, Len(s)) = 1, s[o].k \in LoopKinds,
         NEW T, Kept(b, e, s, s2, k, T, {}, to), Bracketed(s, f), Linked(b, s, f),
         Loosens(b, s, o, T),
         To(e, s2, Len(s) + 1) = LoopHead(b, s, o),
         Len(f2) = Len(f) - 1, SameUpTo(f, f2, Len(f) - 1), to = e.pos
  PROVE  Linked(e, s2, f2)
<1>0. OneMore(s, s2, k) /\ s \in Seq(Tokens) /\ KeptToken(b, e, s, s2, T, {}, to, o)
      /\ Place(e, Len(s) + 2) = e.pos
  BY DEF Kept, OneMore
<1>1. Delta(k) = -1 /\ k \notin Inward /\ k # "break"
  BY DEF Delta, Meaning!Openers, Meaning!Closers, Inward
<1>2. OwnParts(s, s2, k, f2, o)
  BY <1>0, <1>1, OwnFacts
<1>3. Len(s) \in Nat /\ s2[o] = s[o] /\ ~Open(s2, o)
  BY <1>1, <1>2 DEF OwnParts
<1>4. LoopLinked(e, s2, f2, o)
  <2> SUFFICES ASSUME NEW c \in DOMAIN s2, Closes(s2, o, c)
               PROVE  /\ To(e, s2, c) = LoopHead(e, s2, o)
                      /\ s2[o].k # "repeat" => To(e, s2, o) = Place(e, c + 1)
    BY <1>3 DEF LoopLinked
  <2>1. c = Len(s) + 1
    BY <1>2 DEF OwnParts
  <2>2. c + 1 = Len(s) + 2
    BY <1>3, <2>1
  <2>3. LoopHead(e, s2, o) = LoopHead(b, s, o)
    BY <1>0 DEF KeptToken
  <2>4. s[o].k # "repeat" => To(e, s2, o) = to
    BY <1>0 DEF KeptToken, Loosens
  <2> QED BY <1>0, <1>3, <2>1, <2>2, <2>3, <2>4
<1>5. ASSUME NEW t \in DOMAIN s, s[t].k = "break" PROVE BreakLinked(e, s2, t)
  <2>1. BreakLinked(b, s, t)
    BY <1>5 DEF Linked
  <2> QED BY <1>1, <1>5, <2>1, BreaksEnd DEF Loosens
<1>9. \A t \in DOMAIN s : s[t].k = "break" => BreakLinked(e, s2, t)
  BY <1>5
<1>6. s[o].k # "if" /\ s[o].k # "case"
  BY DEF LoopKinds
<1>7. Within(s, o, T, {})
  BY DEF Within, Inward, Loosens
<1>8. Len(f2) = Len(f) + Delta(k) /\ Delta(k) \in {0, -1}
  BY <1>1
<1>10. OwnDone(e, s, s2, f2, o)
  BY <1>4, <1>6, <1>9 DEF OwnDone
<1> QED BY <1>1, <1>7, <1>8, <1>10, OwnLinked

(* A step inside the innermost statement o, or at its end.                  *)
Stands(b, e, s, s2, k, f, f2, T, V, to, o) ==
  /\ Kept(b, e, s, s2, k, T, V, to) /\ Bracketed(s, f) /\ Linked(b, s, f)
  /\ f \in Seq(Frame) /\ f2 \in Seq(Frame)
  /\ o \in DOMAIN s /\ Open(s, o) /\ Bal(s, o, Len(s)) = 1 /\ s[o].k = "case"
  /\ Delta(k) \in {0, -1} /\ FrameOf(f, s, o) = f[Len(f)]

LabelDone(b, s, i, l) ==
  \E c \in DOMAIN s :
       /\ l < c /\ Direct(s, i, c) /\ s[c].k = "colon" /\ NoneOf(s, i, l, c - 1, {"colon"})
       /\ IF TurnedAt(b, s, l) THEN c = l + 1 /\ ~WithGoto(b, c)
          ELSE To(b, s, l) = PopAt(b, c) /\ (c = l + 1 => WithGoto(b, c))

ColonDone(b, s, i, c) ==
  \E e \in DOMAIN s :
       /\ c < e /\ Direct(s, i, e) /\ s[e].k = "endarm"
       /\ NoneOf(s, i, c + 1, e, {"label", "colon", "caseelse"})
       /\ To(b, s, Skipper(b, c)) = Place(b, e + 1)

LEMMA AtFacts ==
  ASSUME NEW b, NEW e, NEW s, NEW s2, NEW k, NEW f, NEW f2, NEW T, NEW V, NEW to, NEW o,
         Stands(b, e, s, s2, k, f, f2, T, V, to, o)
  PROVE  /\ OwnParts(s, s2, k, f2, o) /\ CaseLinked(b, s, f, o)
         /\ \A t \in DOMAIN s : KeptToken(b, e, s, s2, T, V, to, t)
         /\ Place(e, Len(s) + 1) = b.pos /\ Place(e, Len(s) + 2) = e.pos
         /\ s \in Seq(Tokens) /\ s2 \in Seq(Tokens) /\ OneMore(s, s2, k) /\ Ordered(s, f) /\ Owned(s, f)
<1>1. OneMore(s, s2, k) /\ s \in Seq(Tokens) /\ s2 \in Seq(Tokens)
  BY DEF Stands, Kept, OneMore
<1>2. OwnParts(s, s2, k, f2, o)
  BY <1>1, OwnFacts DEF Stands
<1>3. CaseLinked(b, s, f, o)
  BY DEF Stands, Linked
<1> QED BY <1>1, <1>2, <1>3 DEF Stands, Kept, Bracketed

LEMMA LabelStays ==
  ASSUME NEW b, NEW e, NEW s, NEW s2, NEW k, NEW f, NEW f2, NEW T, NEW V, NEW to, NEW o,
         Stands(b, e, s, s2, k, f, f2, T, V, to, o),
         NEW l \in DOMAIN s, s[l].k = "label", l \in T => TurnedAt(b, s, l), l \notin V, LabelDone(b, s, o, l)
  PROVE  LabelDone(e, s2, o, l)
<1>1. PICK c \in DOMAIN s :
       /\ l < c /\ Direct(s, o, c) /\ s[c].k = "colon" /\ NoneOf(s, o, l, c - 1, {"colon"})
       /\ IF TurnedAt(b, s, l) THEN c = l + 1 /\ ~WithGoto(b, c)
          ELSE To(b, s, l) = PopAt(b, c) /\ (c = l + 1 => WithGoto(b, c))
  BY DEF LabelDone
<1>2. OwnParts(s, s2, k, f2, o) /\ KeptToken(b, e, s, s2, T, V, to, l) /\ KeptToken(b, e, s, s2, T, V, to, c)
  BY AtFacts
<1>3. /\ TurnedAt(e, s2, l) <=> TurnedAt(b, s, l)
      /\ PopAt(e, c) = PopAt(b, c) /\ (WithGoto(e, c) <=> WithGoto(b, c))
  BY <1>2 DEF KeptToken
<1>4. ~TurnedAt(b, s, l) => To(e, s2, l) = To(b, s, l)
  <2>1. HasBranch(b, s, l)
    BY DEF HasBranch, Branchers
  <2> QED BY <1>2, <2>1 DEF KeptToken
<1>5. /\ Direct(s2, o, c) /\ s2[c].k = "colon" /\ c \in DOMAIN s2
      /\ c - 1 \in Int /\ c - 1 <= Len(s) /\ l \in Nat \ {0}
  BY <1>1, <1>2 DEF OwnParts
<1>6. NoneOf(s2, o, l, c - 1, {"colon"})
  BY <1>1, <1>2, <1>5 DEF OwnParts
<1> QED BY <1>1, <1>3, <1>4, <1>5, <1>6 DEF LabelDone

LEMMA ColonStays ==
  ASSUME NEW b, NEW e, NEW s, NEW s2, NEW k, NEW f, NEW f2, NEW T, NEW V, NEW to, NEW o,
         Stands(b, e, s, s2, k, f, f2, T, V, to, o),
         NEW c \in DOMAIN s, s[c].k = "colon", Direct(s, o, c), Skipper(b, c) \notin T, ColonDone(b, s, o, c)
  PROVE  ColonDone(e, s2, o, c)
<1>1. PICK d \in DOMAIN s :
       /\ c < d /\ Direct(s, o, d) /\ s[d].k = "endarm"
       /\ NoneOf(s, o, c + 1, d, {"label", "colon", "caseelse"})
       /\ To(b, s, Skipper(b, c)) = Place(b, d + 1)
  BY DEF ColonDone
<1>2. /\ OwnParts(s, s2, k, f2, o) /\ KeptToken(b, e, s, s2, T, V, to, c) /\ KeptToken(b, e, s, s2, T, V, to, d)
      /\ s \in Seq(Tokens) /\ Ordered(s, f) /\ Owned(s, f)
      /\ \A t \in DOMAIN s : KeptToken(b, e, s, s2, T, V, to, t)
  BY AtFacts
<1>3. Skipper(b, c) \in DOMAIN s /\ HasBranch(b, s, Skipper(b, c))
  BY <1>2, SkipperBranch DEF Stands
<1>4. To(e, s2, Skipper(b, c)) = To(b, s, Skipper(b, c))
  BY <1>2, <1>3 DEF KeptToken
<1>5. Skipper(e, c) = Skipper(b, c) /\ Place(e, d + 1) = Place(b, d + 1)
  BY <1>2 DEF KeptToken
<1>6. /\ Direct(s2, o, d) /\ s2[d].k = "endarm" /\ d \in DOMAIN s2
      /\ d \in Int /\ d <= Len(s) /\ c + 1 \in Nat \ {0}
  BY <1>1, <1>2 DEF OwnParts
<1>7. NoneOf(s2, o, c + 1, d, {"label", "colon", "caseelse"})
  BY <1>1, <1>2, <1>6 DEF OwnParts
<1> QED BY <1>1, <1>4, <1>5, <1>6, <1>7 DEF ColonDone

(* What the parts of a case statement say when it is not in an arm.         *)
LEMMA CaseBefore ==
  ASSUME NEW b, NEW s, NEW f, NEW o, Open(s, o), CaseLinked(b, s, f, o), FrameOf(f, s, o).kind # "arm",
         NEW c \in DOMAIN s, Direct(s, o, c), s[c].k = "colon"
  PROVE  ColonDone(b, s, o, c)
BY DEF CaseLinked, ColonLinked, ColonDone

LEMMA LabelBefore ==
  ASSUME NEW b, NEW s, NEW f, NEW o, Open(s, o), CaseLinked(b, s, f, o),
         NEW l \in DOMAIN s, Direct(s, o, l), s[l].k = "label"
  PROVE  \/ LabelDone(b, s, o, l)
         \/ /\ FrameOf(f, s, o).kind = "labels" /\ ~TurnedAt(b, s, l) /\ NoneOf(s, o, l, Len(s), {"colon"})
BY DEF CaseLinked, LabelLinked, LabelDone

LEMMA ElseBefore ==
  ASSUME NEW b, NEW s, NEW f, NEW o, Open(s, o), CaseLinked(b, s, f, o),
         FrameOf(f, s, o).kind # "caseelse"
  PROVE  \A x \in DOMAIN s : Direct(s, o, x) => s[x].k # "caseelse"
BY DEF CaseLinked

(* What is left of a step at o, once its own tokens are linked.             *)
LEMMA AtLinked ==
  ASSUME NEW b, NEW e, NEW s, NEW s2, NEW k, NEW f, NEW f2, NEW T, NEW V, NEW to, NEW o,
         Stands(b, e, s, s2, k, f, f2, T, V, to, o), Within(s, o, T, V), \A t \in T : s[t].k # "break",
         k \in {"label", "colon", "endarm", "caseelse", "esac"},
         Len(f2) = Len(f) + Delta(k), SameUpTo(f, f2, Len(f) - 1), CaseLinked(e, s2, f2, o)
  PROVE  Linked(e, s2, f2)
<1>1. s[o].k \notin LoopKinds /\ s[o].k # "if" /\ s[o].k = "case"
  BY DEF LoopKinds, Stands
<1>2. Delta(k) = -1 => k \notin Inward
  BY DEF Delta, Meaning!Openers, Meaning!Closers, Inward
<1>3. \A t \in DOMAIN s : s[t].k = "break" => BreakLinked(e, s2, t)
  BY <1>1, OwnBreaks DEF Stands
<1>4. OwnDone(e, s, s2, f2, o)
  BY <1>1, <1>3 DEF OwnDone
<1> QED BY <1>2, <1>4, OwnLinked DEF Stands

WaitingLabels(b, s, o) == {x \in DOMAIN s : Direct(s, o, x) /\ s[x].k = "label" /\ NoneOf(s, o, x, Len(s), {"colon"})}
EndArms(s, o)    == {x \in DOMAIN s : Direct(s, o, x) /\ s[x].k = "endarm"}
BranchesOf(b, s, S) == {BranchAt(b, s, x) : x \in S}

(* What o's frame holds.                                                    *)
Holds(b, s, o, g) ==
  /\ g.arms = IF g.kind = "labels" THEN BranchesOf(b, s, WaitingLabels(b, s, o)) ELSE {}
  /\ g.ends = BranchesOf(b, s, EndArms(s, o))
  /\ g.kind = "arm" => \E c \in DOMAIN s : Direct(s, o, c) /\ s[c].k = "colon"
                         /\ NoneOf(s, o, c + 1, Len(s), {"label", "colon", "endarm", "caseelse"})
  /\ g.kind = "caseelse" => \E d \in DOMAIN s : Direct(s, o, d) /\ s[d].k = "caseelse"

LEMMA CaseHolds ==
  ASSUME NEW b, NEW s, NEW f, NEW o, Open(s, o), CaseLinked(b, s, f, o)
  PROVE  Holds(b, s, o, FrameOf(f, s, o))
BY DEF CaseLinked, Holds, BranchesOf, WaitingLabels, EndArms

(* A case statement that stays open.                                        *)
LEMMA CaseInside ==
  ASSUME NEW b, NEW s, NEW f, NEW o, Open(s, o), \A c \in DOMAIN s : ~Closes(s, o, c),
         \A l \in DOMAIN s : Direct(s, o, l) /\ s[l].k = "label" => LabelLinked(b, s, f, o, l),
         \A c \in DOMAIN s : Direct(s, o, c) /\ s[c].k = "colon" => ColonLinked(b, s, f, o, c),
         \A d \in DOMAIN s : Direct(s, o, d) /\ s[d].k = "caseelse" =>
             /\ FrameOf(f, s, o).kind = "caseelse"
             /\ NoneOf(s, o, o, d - 1, {"caseelse"}) /\ NoneOf(s, o, d + 1, Len(s), {"label", "caseelse"}),
         Holds(b, s, o, FrameOf(f, s, o))
  PROVE  CaseLinked(b, s, f, o)
BY DEF CaseLinked, Holds, BranchesOf, WaitingLabels, EndArms

LEMMA BranchesKept ==
  ASSUME NEW b, NEW e, NEW s, NEW s2, NEW k, NEW f, NEW f2, NEW T, NEW V, NEW to, NEW o,
         Stands(b, e, s, s2, k, f, f2, T, V, to, o), NEW S, S \subseteq DOMAIN s
  PROVE  BranchesOf(e, s2, S) = BranchesOf(b, s, S)
<1>1. \A t \in S : BranchAt(e, s2, t) = BranchAt(b, s, t)
  BY AtFacts DEF KeptToken
<1> QED BY <1>1 DEF BranchesOf

LEMMA EndArmsStep ==
  ASSUME NEW b, NEW e, NEW s, NEW s2, NEW k, NEW f, NEW f2, NEW T, NEW V, NEW to, NEW o,
         Stands(b, e, s, s2, k, f, f2, T, V, to, o), Delta(k) = 0
  PROVE  BranchesOf(e, s2, EndArms(s2, o))
           = BranchesOf(b, s, EndArms(s, o)) \cup {BranchAt(e, s2, x) : x \in {y \in {Len(s) + 1} : k = "endarm"}}
<1>1. OwnParts(s, s2, k, f2, o)
  BY AtFacts
<1>2. EndArms(s2, o) = EndArms(s, o) \cup {y \in {Len(s) + 1} : k = "endarm"}
  BY <1>1 DEF OwnParts, EndArms
<1>3. BranchesOf(e, s2, EndArms(s, o)) = BranchesOf(b, s, EndArms(s, o))
  BY BranchesKept DEF EndArms
<1>4. BranchesOf(e, s2, EndArms(s2, o))
        = BranchesOf(e, s2, EndArms(s, o))
            \cup BranchesOf(e, s2, {y \in {Len(s) + 1} : k = "endarm"})
  BY <1>2 DEF BranchesOf
<1> QED BY <1>3, <1>4 DEF BranchesOf

LEMMA LabelStep ==
  ASSUME NEW b, NEW e, NEW s, NEW s2, NEW f, NEW f2, NEW T, NEW V, NEW to, NEW o, T = {}, V = {},
         Stands(b, e, s, s2, "label", f, f2, T, V, to, o),
         Len(f2) = Len(f), SameUpTo(f, f2, Len(f) - 1),
         f[Len(f)].kind = "labels", f2[Len(f2)].kind = "labels",
         f2[Len(f2)].arms = f[Len(f)].arms \cup {BranchAt(e, s2, Len(s) + 1)},
         f2[Len(f2)].ends = f[Len(f)].ends, ~TurnedAt(e, s2, Len(s) + 1)
  PROVE  Linked(e, s2, f2)
<1> DEFINE n == Len(s) + 1
<1>0. FrameOf(f, s, o) = f[Len(f)] /\ Open(s, o)
  BY DEF Stands
<1>1. Delta("label") = 0
  BY DEF Delta, Meaning!Openers, Meaning!Closers
<1>2. OwnParts(s, s2, "label", f2, o) /\ CaseLinked(b, s, f, o)
  BY AtFacts
<1>3. /\ Open(s2, o) /\ FrameOf(f2, s2, o) = f2[Len(f2)] /\ \A c \in DOMAIN s2 : ~Closes(s2, o, c)
      /\ DOMAIN s2 = DOMAIN s \cup {n} /\ Len(s2) = n /\ n \in Nat /\ s2[n].k = "label"
      /\ \A t \in DOMAIN s : s2[t] = s[t] /\ t \in Nat \ {0} /\ t <= n /\ t <= Len(s)
      /\ \A t \in DOMAIN s : Direct(s2, o, t) <=> Direct(s, o, t)
      /\ Direct(s2, o, n)
  BY <1>1, <1>2 DEF OwnParts
<1>4. \A t \in DOMAIN s : NoneOf(s2, o, t, Len(s2), {"colon"}) <=> NoneOf(s, o, t, Len(s), {"colon"})
  <2> TAKE t \in DOMAIN s
  <2>1. NoneOf(s2, o, t, Len(s) + 1, {"colon"}) <=> NoneOf(s, o, t, Len(s), {"colon"})
    BY <1>2, <1>3 DEF OwnParts
  <2> QED BY <1>3, <2>1
<1>5. NoneOf(s2, o, n, Len(s2), {"colon"})
  BY <1>3 DEF NoneOf
<1>6. ASSUME NEW l \in DOMAIN s2, Direct(s2, o, l), s2[l].k = "label" PROVE LabelLinked(e, s2, f2, o, l)
  <2>1. CASE l \in DOMAIN s
    <3>1. Direct(s, o, l) /\ s[l].k = "label"
      BY <1>3, <1>6, <2>1
    <3>2. CASE LabelDone(b, s, o, l)
      <4>1. LabelDone(e, s2, o, l)
        BY <2>1, <3>1, <3>2, LabelStays
      <4> QED BY <4>1 DEF LabelLinked, LabelDone
    <3>3. CASE ~TurnedAt(b, s, l) /\ NoneOf(s, o, l, Len(s), {"colon"})
      <4>1. KeptToken(b, e, s, s2, T, V, to, l)
        BY <2>1, AtFacts
      <4>2. ~TurnedAt(e, s2, l)
        BY <3>1, <3>3, <4>1 DEF KeptToken
      <4> QED BY <1>3, <1>4, <2>1, <3>3, <4>2 DEF LabelLinked
    <3> QED BY <1>0, <1>2, <2>1, <3>1, <3>2, <3>3, LabelBefore
  <2>2. CASE l = n
    BY <1>3, <1>5, <2>2 DEF LabelLinked
  <2> QED BY <1>3, <2>1, <2>2
<1>7. ASSUME NEW c \in DOMAIN s2, Direct(s2, o, c), s2[c].k = "colon" PROVE ColonLinked(e, s2, f2, o, c)
  <2>1. c \in DOMAIN s /\ Direct(s, o, c) /\ s[c].k = "colon"
    BY <1>3, <1>7
  <2>2. ColonDone(b, s, o, c)
    BY <1>0, <1>2, <2>1, CaseBefore
  <2>3. ColonDone(e, s2, o, c)
    BY <2>1, <2>2, ColonStays
  <2> QED BY <2>3 DEF ColonLinked, ColonDone
<1>8. \A d \in DOMAIN s2 : ~(Direct(s2, o, d) /\ s2[d].k = "caseelse")
  <2>1. \A d \in DOMAIN s : Direct(s, o, d) => s[d].k # "caseelse"
    BY <1>0, <1>2, ElseBefore
  <2> QED BY <1>3, <2>1
<1>9. Holds(e, s2, o, f2[Len(f2)])
  <2>1. Holds(b, s, o, f[Len(f)])
    BY <1>0, <1>2, CaseHolds
  <2>2. f2[Len(f2)].ends = BranchesOf(e, s2, EndArms(s2, o))
    <3>1. BranchesOf(e, s2, EndArms(s2, o))
            = BranchesOf(b, s, EndArms(s, o)) \cup {BranchAt(e, s2, x) : x \in {y \in {Len(s) + 1} : "label" = "endarm"}}
      BY <1>1, EndArmsStep
    <3> QED BY <2>1, <3>1 DEF Holds
  <2>3. WaitingLabels(e, s2, o) = WaitingLabels(b, s, o) \cup {n}
    <3>1. \A t \in DOMAIN s : t \in WaitingLabels(e, s2, o) <=> t \in WaitingLabels(b, s, o)
      BY <1>3, <1>4 DEF WaitingLabels
    <3>2. n \in WaitingLabels(e, s2, o)
      BY <1>3, <1>5 DEF WaitingLabels
    <3>3. WaitingLabels(e, s2, o) \subseteq DOMAIN s \cup {n} /\ WaitingLabels(b, s, o) \subseteq DOMAIN s
      BY <1>3 DEF WaitingLabels
    <3> QED BY <3>1, <3>2, <3>3
  <2>4. BranchesOf(e, s2, WaitingLabels(b, s, o)) = BranchesOf(b, s, WaitingLabels(b, s, o))
    BY BranchesKept DEF WaitingLabels
  <2>5. BranchesOf(e, s2, WaitingLabels(e, s2, o)) = BranchesOf(e, s2, WaitingLabels(b, s, o)) \cup {BranchAt(e, s2, n)}
    BY <2>3 DEF BranchesOf
  <2>6. f2[Len(f2)].arms = BranchesOf(e, s2, WaitingLabels(e, s2, o))
    BY <2>1, <2>4, <2>5 DEF Holds
  <2> QED BY <2>2, <2>6 DEF Holds
<1>10. CaseLinked(e, s2, f2, o)
  <2>1. \A l \in DOMAIN s2 : Direct(s2, o, l) /\ s2[l].k = "label" => LabelLinked(e, s2, f2, o, l)
    BY <1>6
  <2>2. \A c \in DOMAIN s2 : Direct(s2, o, c) /\ s2[c].k = "colon" => ColonLinked(e, s2, f2, o, c)
    BY <1>7
  <2>3. Holds(e, s2, o, FrameOf(f2, s2, o))
    BY <1>3, <1>9
  <2> HIDE DEF n
  <2> QED BY <1>3, <1>8, <2>1, <2>2, <2>3, CaseInside
<1>11. Within(s, o, T, V) /\ Len(f2) = Len(f) + Delta("label")
  <2>1. Len(f2) \in Nat
    BY DEF Stands
  <2> QED BY <1>1, <2>1 DEF Within
<1>12. (\A t \in T : s[t].k # "break") /\ "label" \in {"label", "colon", "endarm", "caseelse", "esac"}
  OBVIOUS
<1> HIDE DEF n
<1> QED BY <1>10, <1>11, <1>12, AtLinked

(* Labels and arms are all complete.                                        *)
AllDone(b, s, o) ==
  /\ \A l \in DOMAIN s : Direct(s, o, l) /\ s[l].k = "label" => LabelDone(b, s, o, l)
  /\ \A c \in DOMAIN s : Direct(s, o, c) /\ s[c].k = "colon" => ColonDone(b, s, o, c)

LEMMA BetweenDone ==
  ASSUME NEW b, NEW s, NEW f, NEW o, Open(s, o), CaseLinked(b, s, f, o),
         \/ FrameOf(f, s, o).kind = "caseelse"
         \/ FrameOf(f, s, o).kind = "labels" /\ FrameOf(f, s, o).arms = {}
  PROVE  AllDone(b, s, o)
<1>1. ASSUME NEW l \in DOMAIN s, Direct(s, o, l), s[l].k = "label" PROVE LabelDone(b, s, o, l)
  <2>1. SUFFICES ASSUME FrameOf(f, s, o).kind = "labels", NoneOf(s, o, l, Len(s), {"colon"}) PROVE FALSE
    BY <1>1, LabelBefore
  <2>2. l \in WaitingLabels(b, s, o)
    BY <1>1, <2>1 DEF WaitingLabels
  <2>3. BranchAt(b, s, l) \in BranchesOf(b, s, WaitingLabels(b, s, o))
    BY <2>2 DEF BranchesOf
  <2>4. Holds(b, s, o, FrameOf(f, s, o))
    BY CaseHolds
  <2> QED BY <2>1, <2>3, <2>4 DEF Holds
<1>2. ASSUME NEW c \in DOMAIN s, Direct(s, o, c), s[c].k = "colon" PROVE ColonDone(b, s, o, c)
  BY <1>2, CaseBefore
<1> QED BY <1>1, <1>2 DEF AllDone

LEMMA DoneStays ==
  ASSUME NEW b, NEW e, NEW s, NEW s2, NEW k, NEW f, NEW f2, NEW T, NEW V, NEW to, NEW o,
         Stands(b, e, s, s2, k, f, f2, T, V, to, o), AllDone(b, s, o), k \notin {"label", "colon"},
         \A t \in T : s[t].k = "endarm", V = {}
  PROVE  AllDone(e, s2, o)
<1>1. /\ OwnParts(s, s2, k, f2, o) /\ s \in Seq(Tokens) /\ Ordered(s, f) /\ Owned(s, f)
  BY AtFacts
<1>2. /\ DOMAIN s2 = DOMAIN s \cup {Len(s) + 1} /\ s2[Len(s) + 1].k = k
      /\ \A t \in DOMAIN s : s2[t] = s[t]
      /\ \A t \in DOMAIN s : Direct(s2, o, t) <=> Direct(s, o, t)
  BY <1>1 DEF OwnParts
<1>3. ASSUME NEW l \in DOMAIN s2, Direct(s2, o, l), s2[l].k = "label" PROVE LabelDone(e, s2, o, l)
  <2>1. l \in DOMAIN s /\ Direct(s, o, l) /\ s[l].k = "label"
    BY <1>2, <1>3
  <2>2. LabelDone(b, s, o, l) /\ l \notin T
    BY <2>1 DEF AllDone
  <2> QED BY <2>1, <2>2, LabelStays
<1>4. ASSUME NEW c \in DOMAIN s2, Direct(s2, o, c), s2[c].k = "colon" PROVE ColonDone(e, s2, o, c)
  <2>1. c \in DOMAIN s /\ Direct(s, o, c) /\ s[c].k = "colon"
    BY <1>2, <1>4
  <2>2. ColonDone(b, s, o, c)
    BY <2>1 DEF AllDone
  <2>3. Skipper(b, c) = c \/ (Skipper(b, c) = c - 1 /\ s[c - 1].k = "label")
    BY <1>1, <2>1, SkipperBranch DEF Skipper, Stands
  <2>4. Skipper(b, c) \notin T
    BY <2>1, <2>3
  <2> QED BY <2>1, <2>2, <2>4, ColonStays
<1> QED BY <1>3, <1>4 DEF AllDone

LEMMA DoneLinked ==
  ASSUME NEW b, NEW s, NEW f, NEW o, AllDone(b, s, o)
  PROVE  /\ \A l \in DOMAIN s : Direct(s, o, l) /\ s[l].k = "label" => LabelLinked(b, s, f, o, l)
         /\ \A c \in DOMAIN s : Direct(s, o, c) /\ s[c].k = "colon" => ColonLinked(b, s, f, o, c)
BY DEF AllDone, LabelLinked, LabelDone, ColonLinked, ColonDone

LEMMA CaseElseStep ==
  ASSUME NEW b, NEW e, NEW s, NEW s2, NEW f, NEW f2, NEW T, NEW V, NEW to, NEW o, T = {}, V = {},
         Stands(b, e, s, s2, "caseelse", f, f2, T, V, to, o),
         Len(f2) = Len(f), SameUpTo(f, f2, Len(f) - 1),
         f[Len(f)].kind = "labels", f[Len(f)].arms = {}, f2[Len(f2)].kind = "caseelse",
         f2[Len(f2)].arms = {}, f2[Len(f2)].ends = f[Len(f)].ends
  PROVE  Linked(e, s2, f2)
<1>0. FrameOf(f, s, o) = f[Len(f)] /\ Open(s, o) /\ "caseelse" \notin {"label", "colon"}
  BY DEF Stands
<1>1. Delta("caseelse") = 0
  BY DEF Delta, Meaning!Openers, Meaning!Closers
<1>2. OwnParts(s, s2, "caseelse", f2, o) /\ CaseLinked(b, s, f, o)
  BY AtFacts
<1> PICK n : n = Len(s) + 1
  OBVIOUS
<1>3. /\ Open(s2, o) /\ FrameOf(f2, s2, o) = f2[Len(f2)] /\ \A c \in DOMAIN s2 : ~Closes(s2, o, c)
      /\ DOMAIN s2 = DOMAIN s \cup {n} /\ Len(s2) = n /\ n \in Nat /\ s2[n].k = "caseelse"
      /\ \A t \in DOMAIN s : s2[t] = s[t]
      /\ \A t \in DOMAIN s : Direct(s2, o, t) <=> Direct(s, o, t)
      /\ Direct(s2, o, n) /\ DOMAIN s = 1 .. (n - 1) /\ o \in DOMAIN s
  BY <1>1, <1>2 DEF OwnParts, Stands
<1>4. AllDone(e, s2, o)
  <2>1. AllDone(b, s, o)
    BY <1>0, <1>2, BetweenDone
  <2>2. \A t \in T : s[t].k = "endarm"
    OBVIOUS
  <2> QED BY <1>0, <2>1, <2>2, DoneStays
<1>5. \A d \in DOMAIN s : Direct(s, o, d) => s[d].k # "caseelse"
  BY <1>0, <1>2, ElseBefore
<1>6. ASSUME NEW d \in DOMAIN s2, Direct(s2, o, d), s2[d].k = "caseelse"
      PROVE  /\ FrameOf(f2, s2, o).kind = "caseelse"
             /\ NoneOf(s2, o, o, d - 1, {"caseelse"}) /\ NoneOf(s2, o, d + 1, Len(s2), {"label", "caseelse"})
  <2>1. d = n
    BY <1>3, <1>5, <1>6
  <2>2. NoneOf(s2, o, o, n - 1, {"caseelse"})
    BY <1>3, <1>5 DEF NoneOf
  <2>3. NoneOf(s2, o, n + 1, n, {"label", "caseelse"})
    BY <1>3 DEF NoneOf
  <2> QED BY <1>3, <2>1, <2>2, <2>3
<1>7. Holds(e, s2, o, f2[Len(f2)])
  <2>1. Holds(b, s, o, f[Len(f)])
    BY <1>0, <1>2, CaseHolds
  <2>2. BranchesOf(e, s2, EndArms(s2, o))
           = BranchesOf(b, s, EndArms(s, o)) \cup {BranchAt(e, s2, x) : x \in {y \in {Len(s) + 1} : "caseelse" = "endarm"}}
    BY <1>1, EndArmsStep
  <2> QED BY <1>3, <2>1, <2>2 DEF Holds
<1>8. CaseLinked(e, s2, f2, o)
  <2>1. \A d \in DOMAIN s2 : Direct(s2, o, d) /\ s2[d].k = "caseelse" =>
             /\ FrameOf(f2, s2, o).kind = "caseelse"
             /\ NoneOf(s2, o, o, d - 1, {"caseelse"}) /\ NoneOf(s2, o, d + 1, Len(s2), {"label", "caseelse"})
    BY <1>6
  <2>2. Holds(e, s2, o, FrameOf(f2, s2, o))
    BY <1>3, <1>7
  <2> QED BY <1>3, <1>4, <2>1, <2>2, DoneLinked, CaseInside
<1>9. Within(s, o, T, V) /\ Len(f2) = Len(f) + Delta("caseelse")
  <2>1. Len(f2) \in Nat
    BY DEF Stands
  <2> QED BY <1>1, <2>1 DEF Within
<1>10. (\A t \in T : s[t].k # "break") /\ "caseelse" \in {"label", "colon", "endarm", "caseelse", "esac"}
  OBVIOUS
<1> QED BY <1>8, <1>9, <1>10, AtLinked

LEMMA EndCaseStep ==
  ASSUME NEW b, NEW e, NEW s, NEW s2, NEW f, NEW f2, NEW T, NEW V, NEW to, NEW o, T = EndArms(s, o), V = {},
         Stands(b, e, s, s2, "esac", f, f2, T, V, to, o), to = e.pos, f # <<>>,
         Len(f2) = Len(f) - 1, SameUpTo(f, f2, Len(f) - 1),
         \/ f[Len(f)].kind = "caseelse"
         \/ f[Len(f)].kind = "labels" /\ f[Len(f)].arms = {}
  PROVE  Linked(e, s2, f2)
<1>0. FrameOf(f, s, o) = f[Len(f)] /\ Open(s, o) /\ "esac" \notin {"label", "colon"}
  BY DEF Stands
<1>1. Delta("esac") = -1
  BY DEF Delta, Meaning!Openers, Meaning!Closers
<1>2. /\ OwnParts(s, s2, "esac", f2, o) /\ CaseLinked(b, s, f, o) /\ Ordered(s, f) /\ Place(e, Len(s) + 2) = e.pos
      /\ \A t \in DOMAIN s : KeptToken(b, e, s, s2, T, V, to, t)
  BY AtFacts
<1> PICK n : n = Len(s) + 1
  OBVIOUS
<1>3. /\ ~Open(s2, o) /\ \A c \in DOMAIN s2 : Closes(s2, o, c) <=> c = n
      /\ DOMAIN s2 = DOMAIN s \cup {n} /\ Len(s2) = n /\ n \in Nat /\ s2[n].k = "esac"
      /\ \A t \in DOMAIN s : s2[t] = s[t]
      /\ \A t \in DOMAIN s : Direct(s2, o, t) <=> Direct(s, o, t)
      /\ ~Direct(s2, o, n) /\ DOMAIN s = 1 .. (n - 1) /\ o \in DOMAIN s /\ Len(s) = n - 1 /\ n + 1 = Len(s) + 2
  BY <1>1, <1>2 DEF OwnParts, Stands
<1>4. AllDone(e, s2, o)
  <2>1. AllDone(b, s, o)
    BY <1>0, <1>2, BetweenDone
  <2>2. \A t \in T : s[t].k = "endarm"
    BY DEF EndArms
  <2> QED BY <1>0, <2>1, <2>2, DoneStays
<1>6. ASSUME NEW d \in DOMAIN s2, Direct(s2, o, d), s2[d].k = "caseelse"
      PROVE  NoneOf(s2, o, o, d - 1, {"caseelse"}) /\ NoneOf(s2, o, d + 1, Len(s2), {"label", "caseelse"})
  <2>1. d \in DOMAIN s /\ Direct(s, o, d) /\ s[d].k = "caseelse"
    BY <1>3, <1>6
  <2>2. NoneOf(s, o, o, d - 1, {"caseelse"}) /\ NoneOf(s, o, d + 1, Len(s), {"label", "caseelse"})
    BY <1>2, <2>1 DEF CaseLinked
  <2>3. o \in Nat \ {0} /\ d - 1 \in Int /\ d - 1 <= Len(s) /\ d + 1 \in Nat \ {0} /\ d + 1 <= Len(s) + 1
    BY <1>3, <2>1
  <2>4. NoneOf(s2, o, o, d - 1, {"caseelse"})
    BY <1>2, <2>2, <2>3 DEF OwnParts
  <2>5. NoneOf(s2, o, d + 1, Len(s) + 1, {"label", "caseelse"})
    BY <1>1, <1>2, <2>2, <2>3 DEF OwnParts
  <2> QED BY <1>3, <2>4, <2>5
<1>7. ASSUME NEW x \in DOMAIN s2, Direct(s2, o, x), s2[x].k = "endarm" PROVE To(e, s2, x) = Place(e, n + 1)
  <2>1. x \in DOMAIN s /\ x \in T
    BY <1>3, <1>7 DEF EndArms
  <2>2. To(e, s2, x) = to
    BY <1>2, <2>1 DEF KeptToken
  <2> QED BY <1>2, <1>3, <2>2
<1>8. s2[n - 1].k \in Popping <=> NoneOf(s2, o, o, n, {"caseelse"})
  <2>1. s2[n - 1] = s[Len(s)] /\ s # <<>>
    <3>1. Len(s) >= 1 /\ Len(s) \in DOMAIN s
      BY <1>3
    <3>2. Len(<<>>) = 0
      OBVIOUS
    <3>3. s # <<>>
      BY <3>1, <3>2
    <3> QED BY <1>3, <3>1, <3>3
  <2>2. s2[n - 1].k \in Popping <=> Between(f)
    BY <1>2, <2>1 DEF Ordered, LastKind
  <2>3. CASE f[Len(f)].kind = "caseelse"
    <3>1. ~Between(f)
      BY <2>3 DEF Between, Labels
    <3>2. Holds(b, s, o, f[Len(f)])
      BY <1>0, <1>2, CaseHolds
    <3>3. PICK d \in DOMAIN s : Direct(s, o, d) /\ s[d].k = "caseelse"
      BY <2>3, <3>2 DEF Holds
    <3>4. d \in o .. n /\ Direct(s2, o, d) /\ s2[d].k = "caseelse"
      BY <1>3, <3>3 DEF Direct
    <3> QED BY <2>2, <3>1, <3>4 DEF NoneOf
  <2>4. CASE f[Len(f)].kind # "caseelse"
    <3>1. Between(f)
      BY <2>4 DEF Between, Labels
    <3>2. \A d \in DOMAIN s : Direct(s, o, d) => s[d].k # "caseelse"
      BY <1>0, <1>2, <2>4, ElseBefore
    <3>3. NoneOf(s2, o, o, n, {"caseelse"})
      BY <1>3, <3>2 DEF NoneOf
    <3> QED BY <2>2, <3>1, <3>3
  <2> QED BY <2>3, <2>4
<1>9. CaseLinked(e, s2, f2, o)
  <2>1. \A c \in DOMAIN s2 : Closes(s2, o, c) =>
          /\ \A x \in DOMAIN s2 : Direct(s2, o, x) /\ s2[x].k = "endarm" => To(e, s2, x) = Place(e, c + 1)
          /\ s2[c-1].k \in Popping <=> NoneOf(s2, o, o, c, {"caseelse"})
    BY <1>3, <1>7, <1>8
  <2>2. \A d \in DOMAIN s2 : Direct(s2, o, d) /\ s2[d].k = "caseelse" =>
          NoneOf(s2, o, o, d - 1, {"caseelse"}) /\ NoneOf(s2, o, d + 1, Len(s2), {"label", "caseelse"})
    BY <1>6
  <2>3. /\ \A l \in DOMAIN s2 : Direct(s2, o, l) /\ s2[l].k = "label" => LabelLinked(e, s2, f2, o, l)
        /\ \A c \in DOMAIN s2 : Direct(s2, o, c) /\ s2[c].k = "colon" => ColonLinked(e, s2, f2, o, c)
    BY <1>4, DoneLinked
  <2> QED BY <1>3, <2>1, <2>2, <2>3 DEF CaseLinked
<1>10. Within(s, o, T, V) /\ Len(f2) = Len(f) + Delta("esac")
  <2>1. Len(f) \in Nat
    BY DEF Stands
  <2> QED BY <1>1, <2>1 DEF Within, EndArms, Inward
<1>11. (\A t \in T : s[t].k # "break") /\ "esac" \in {"label", "colon", "endarm", "caseelse", "esac"}
  BY DEF EndArms
<1> QED BY <1>9, <1>10, <1>11, AtLinked

(* The arm that is open, and the branch that leads past it.                 *)
Arm(s, o, c) ==
  /\ c \in DOMAIN s /\ Direct(s, o, c) /\ s[c].k = "colon"
  /\ NoneOf(s, o, c + 1, Len(s), {"label", "colon", "endarm", "caseelse"})

LEMMA ArmOpen ==
  ASSUME NEW b, NEW s \in Seq(Tokens), NEW f, NEW o, Open(s, o), CaseLinked(b, s, f, o),
         FrameOf(f, s, o).kind = "arm"
  PROVE  \E c : Arm(s, o, c) /\ FrameOf(f, s, o).hole = BranchAt(b, s, Skipper(b, c))
<1>1. PICK c \in DOMAIN s : Arm(s, o, c)
  <2>1. Holds(b, s, o, FrameOf(f, s, o))
    BY CaseHolds
  <2> QED BY <2>1 DEF Holds, Arm
<1>2. ColonLinked(b, s, f, o, c)
  BY <1>1 DEF CaseLinked, Arm
<1>3. ~ColonDone(b, s, o, c)
  <2> SUFFICES ASSUME NEW d \in DOMAIN s, c < d, Direct(s, o, d), s[d].k = "endarm" PROVE FALSE
    BY DEF ColonDone
  <2>1. d \in c + 1 .. Len(s)
    BY DEF Direct
  <2> QED BY <1>1, <2>1 DEF Arm, NoneOf
<1>4. FrameOf(f, s, o).hole = BranchAt(b, s, Skipper(b, c))
  BY <1>2, <1>3 DEF ColonLinked, ColonDone
<1> QED BY <1>1, <1>4

LEMMA ArmOnce ==
  ASSUME NEW s \in Seq(Tokens), NEW o, NEW c, NEW d, Arm(s, o, c), d \in DOMAIN s, Direct(s, o, d), s[d].k = "colon",
         NoneOf(s, o, d + 1, Len(s), {"label", "colon", "endarm", "caseelse"})
  PROVE  d = c
<1>1. c \in Int /\ d \in Int /\ c <= Len(s) /\ d <= Len(s) /\ Len(s) \in Nat
  BY DEF Arm
<1>2. ~(c < d) /\ ~(d < c)
  <2>1. ASSUME c < d PROVE FALSE
    <3>1. d \in c + 1 .. Len(s)
      BY <1>1, <2>1
    <3> QED BY <3>1 DEF Arm, NoneOf
  <2>2. ASSUME d < c PROVE FALSE
    <3>1. c \in d + 1 .. Len(s)
      BY <1>1, <2>2
    <3> QED BY <3>1 DEF Arm, NoneOf
  <2> QED BY <2>1, <2>2
<1> QED BY <1>1, <1>2

LEMMA EndArmStep ==
  ASSUME NEW b, NEW e, NEW s, NEW s2, NEW f, NEW f2, NEW T, NEW V, NEW to, NEW o, NEW m,
         Arm(s, o, m), T = {Skipper(b, m)}, V = {},
         Stands(b, e, s, s2, "endarm", f, f2, T, V, to, o), to = e.pos,
         Len(f2) = Len(f), SameUpTo(f, f2, Len(f) - 1),
         f[Len(f)].kind = "arm", f2[Len(f2)].kind = "labels", f2[Len(f2)].arms = {},
         f2[Len(f2)].ends = f[Len(f)].ends \cup {BranchAt(e, s2, Len(s) + 1)}
  PROVE  Linked(e, s2, f2)
<1>0. FrameOf(f, s, o) = f[Len(f)] /\ Open(s, o)
  BY DEF Stands
<1>1. Delta("endarm") = 0
  BY DEF Delta, Meaning!Openers, Meaning!Closers
<1>2. /\ OwnParts(s, s2, "endarm", f2, o) /\ CaseLinked(b, s, f, o) /\ Place(e, Len(s) + 2) = e.pos
      /\ \A t \in DOMAIN s : KeptToken(b, e, s, s2, T, V, to, t)
      /\ s \in Seq(Tokens) /\ Ordered(s, f) /\ Owned(s, f)
  BY AtFacts
<1> PICK n : n = Len(s) + 1
  OBVIOUS
<1>3. /\ Open(s2, o) /\ FrameOf(f2, s2, o) = f2[Len(f2)] /\ \A c \in DOMAIN s2 : ~Closes(s2, o, c)
      /\ DOMAIN s2 = DOMAIN s \cup {n} /\ Len(s2) = n /\ n \in Nat /\ s2[n].k = "endarm"
      /\ \A t \in DOMAIN s : s2[t] = s[t]
      /\ \A t \in DOMAIN s : Direct(s2, o, t) <=> Direct(s, o, t)
      /\ Direct(s2, o, n) /\ DOMAIN s = 1 .. (n - 1) /\ o \in DOMAIN s /\ n + 1 = Len(s) + 2 /\ Len(s) = n - 1
  BY <1>1, <1>2 DEF OwnParts, Stands
<1>4. /\ Skipper(b, m) \in DOMAIN s /\ HasBranch(b, s, Skipper(b, m)) /\ Direct(s, o, Skipper(b, m))
      /\ s[Skipper(b, m)].k \in {"label", "colon"}
      /\ Skipper(b, m) = m \/ (Skipper(b, m) = m - 1 /\ ~WithGoto(b, m) /\ s[m - 1].k = "label")
      /\ Skipper(b, m) = m => s[m].k = "colon"
  <2>1. Direct(s, o, m) /\ s[m].k = "colon" /\ s[o].k = "case"
    BY DEF Arm, Stands
  <2>2. /\ Skipper(b, m) \in DOMAIN s /\ HasBranch(b, s, Skipper(b, m)) /\ Direct(s, o, Skipper(b, m))
        /\ s[m - 1].k = "label"
    BY <1>2, <2>1, SkipperBranch
  <2> QED BY <2>1, <2>2 DEF Skipper
<1>5. ASSUME NEW l \in DOMAIN s, Direct(s, o, l), s[l].k = "label" PROVE LabelDone(e, s2, o, l)
  <2>1. LabelDone(b, s, o, l)
    BY <1>0, <1>2, <1>5, LabelBefore
  <2>2. ASSUME l \in T PROVE TurnedAt(b, s, l)
    <3>1. l = m - 1 /\ ~WithGoto(b, m)
      BY <1>4, <1>5, <2>2
    <3>2. PICK c \in DOMAIN s :
       /\ l < c /\ Direct(s, o, c) /\ s[c].k = "colon" /\ NoneOf(s, o, l, c - 1, {"colon"})
       /\ IF TurnedAt(b, s, l) THEN c = l + 1 /\ ~WithGoto(b, c)
          ELSE To(b, s, l) = PopAt(b, c) /\ (c = l + 1 => WithGoto(b, c))
      BY <2>1 DEF LabelDone
    <3>3. m \in DOMAIN s /\ Direct(s, o, m) /\ s[m].k = "colon"
      BY DEF Arm
    <3>4. c = m
      <4>1. m \in Int /\ c \in Int /\ m <= c
        BY <1>3, <3>1, <3>2, <3>3
      <4>2. ASSUME m < c PROVE FALSE
        <5>1. m \in l .. c - 1
          BY <3>1, <4>1, <4>2
        <5> QED BY <3>2, <3>3, <5>1 DEF NoneOf
      <4> QED BY <4>1, <4>2
    <3>5. c = l + 1
      BY <1>3, <3>1, <3>3, <3>4
    <3> QED BY <3>1, <3>2, <3>4, <3>5
  <2> QED BY <1>5, <2>1, <2>2, LabelStays
<1>6. ASSUME NEW c \in DOMAIN s, Direct(s, o, c), s[c].k = "colon", c # m PROVE ColonDone(e, s2, o, c)
  <2>1. ~NoneOf(s, o, c + 1, Len(s), {"label", "colon", "endarm", "caseelse"})
    BY <1>2, <1>6, ArmOnce
  <2>2. ColonDone(b, s, o, c)
    BY <1>2, <1>6, <2>1 DEF CaseLinked, ColonLinked, ColonDone
  <2>3. Skipper(b, c) = c \/ (Skipper(b, c) = c - 1 /\ s[c - 1].k = "label")
    BY <1>2, <1>6, SkipperBranch DEF Skipper, Stands
  <2>4. m \in Int /\ c \in Int /\ s[m].k = "colon"
    BY <1>3 DEF Arm
  <2>5. Skipper(b, c) # Skipper(b, m)
    BY <1>4, <1>6, <2>3, <2>4
  <2> QED BY <1>6, <2>2, <2>5, ColonStays
<1>7. ColonDone(e, s2, o, m)
  <2>1. m \in DOMAIN s /\ m < n /\ m \in Nat /\ m + 1 \in Nat \ {0} /\ m + 1 <= n
    BY <1>3 DEF Arm
  <2>2. NoneOf(s2, o, m + 1, n, {"label", "colon", "caseelse"})
    <3>1. NoneOf(s, o, m + 1, Len(s), {"label", "colon", "caseelse"})
      BY DEF Arm, NoneOf
    <3>2. NoneOf(s2, o, m + 1, Len(s) + 1, {"label", "colon", "caseelse"})
      BY <1>2, <2>1, <3>1 DEF OwnParts
    <3> QED BY <3>2
  <2>3. KeptToken(b, e, s, s2, T, V, to, m) /\ KeptToken(b, e, s, s2, T, V, to, Skipper(b, m))
    BY <1>2, <1>4, <2>1
  <2>4. Skipper(e, m) = Skipper(b, m) /\ To(e, s2, Skipper(b, m)) = to
    BY <2>3 DEF KeptToken
  <2> QED BY <1>2, <1>3, <2>1, <2>2, <2>4 DEF ColonDone
<1>8. AllDone(e, s2, o)
  <2>1. ASSUME NEW l \in DOMAIN s2, Direct(s2, o, l), s2[l].k = "label" PROVE LabelDone(e, s2, o, l)
    BY <1>3, <1>5, <2>1
  <2>2. ASSUME NEW c \in DOMAIN s2, Direct(s2, o, c), s2[c].k = "colon" PROVE ColonDone(e, s2, o, c)
    BY <1>3, <1>6, <1>7, <2>2
  <2> QED BY <2>1, <2>2 DEF AllDone
<1>9. \A d \in DOMAIN s2 : ~(Direct(s2, o, d) /\ s2[d].k = "caseelse")
  <2>1. \A d \in DOMAIN s : Direct(s, o, d) => s[d].k # "caseelse"
    BY <1>0, <1>2, ElseBefore
  <2> QED BY <1>3, <2>1
<1>10. Holds(e, s2, o, f2[Len(f2)])
  <2>1. Holds(b, s, o, f[Len(f)])
    BY <1>0, <1>2, CaseHolds
  <2>2. BranchesOf(e, s2, EndArms(s2, o))
           = BranchesOf(b, s, EndArms(s, o)) \cup {BranchAt(e, s2, x) : x \in {y \in {Len(s) + 1} : "endarm" = "endarm"}}
    BY <1>1, EndArmsStep
  <2>3. WaitingLabels(e, s2, o) = {}
    <3> SUFFICES ASSUME NEW l \in DOMAIN s2, Direct(s2, o, l), s2[l].k = "label", NoneOf(s2, o, l, Len(s2), {"colon"})
                 PROVE FALSE
      BY DEF WaitingLabels
    <3>1. PICK c \in DOMAIN s2 : l < c /\ Direct(s2, o, c) /\ s2[c].k = "colon"
      BY <1>8 DEF AllDone, LabelDone
    <3>2. c \in l .. Len(s2)
      BY <1>3, <3>1
    <3> QED BY <3>1, <3>2 DEF NoneOf
  <2>4. BranchesOf(e, s2, WaitingLabels(e, s2, o)) = {}
    BY <2>3 DEF BranchesOf
  <2> QED BY <1>3, <2>1, <2>2, <2>4 DEF Holds
<1>11. CaseLinked(e, s2, f2, o)
  <2>1. \A d \in DOMAIN s2 : Direct(s2, o, d) /\ s2[d].k = "caseelse" =>
             /\ FrameOf(f2, s2, o).kind = "caseelse"
             /\ NoneOf(s2, o, o, d - 1, {"caseelse"}) /\ NoneOf(s2, o, d + 1, Len(s2), {"label", "caseelse"})
    BY <1>9
  <2>2. Holds(e, s2, o, FrameOf(f2, s2, o))
    BY <1>3, <1>10
  <2> QED BY <1>3, <1>8, <2>1, <2>2, DoneLinked, CaseInside
<1>12. Within(s, o, T, V) /\ Len(f2) = Len(f) + Delta("endarm")
  <2>1. Len(f2) \in Nat
    BY DEF Stands
  <2>2. Within(s, o, T, V)
    BY <1>4 DEF Within, Inward
  <2> QED BY <1>1, <2>1, <2>2
<1>13. (\A t \in T : s[t].k # "break") /\ "endarm" \in {"label", "colon", "endarm", "caseelse", "esac"}
  BY <1>4
<1> QED BY <1>11, <1>12, <1>13, AtLinked

LEMMA ColonStep ==
  ASSUME NEW b, NEW e, NEW s, NEW s2, NEW f, NEW f2, NEW T, NEW V, NEW to, NEW o, NEW turned \in BOOLEAN,
         V = (IF turned THEN {Len(s)} ELSE {}), T = WaitingLabels(b, s, o) \ V,
         Stands(b, e, s, s2, "colon", f, f2, T, V, to, o), f # <<>>,
         to = PopAt(e, Len(s) + 1), WithGoto(e, Len(s) + 1) <=> ~turned,
         Len(f2) = Len(f), SameUpTo(f, f2, Len(f) - 1),
         f[Len(f)].kind = "labels", f[Len(f)].arms # {}, f2[Len(f2)].kind = "arm", f2[Len(f2)].arms = {},
         f2[Len(f2)].ends = f[Len(f)].ends, f2[Len(f2)].hole = BranchAt(e, s2, Skipper(e, Len(s) + 1))
  PROVE  Linked(e, s2, f2)
<1>0. FrameOf(f, s, o) = f[Len(f)] /\ Open(s, o)
  BY DEF Stands
<1>1. Delta("colon") = 0
  BY DEF Delta, Meaning!Openers, Meaning!Closers
<1>2. /\ OwnParts(s, s2, "colon", f2, o) /\ CaseLinked(b, s, f, o)
      /\ \A t \in DOMAIN s : KeptToken(b, e, s, s2, T, V, to, t)
      /\ s \in Seq(Tokens) /\ Ordered(s, f) /\ Owned(s, f)
  BY AtFacts
<1> PICK n : n = Len(s) + 1
  OBVIOUS
<1>3. /\ Open(s2, o) /\ FrameOf(f2, s2, o) = f2[Len(f2)] /\ \A c \in DOMAIN s2 : ~Closes(s2, o, c)
      /\ DOMAIN s2 = DOMAIN s \cup {n} /\ Len(s2) = n /\ n \in Nat /\ s2[n].k = "colon"
      /\ \A t \in DOMAIN s : s2[t] = s[t]
      /\ \A t \in DOMAIN s : Direct(s2, o, t) <=> Direct(s, o, t)
      /\ Direct(s2, o, n) /\ DOMAIN s = 1 .. (n - 1) /\ o \in DOMAIN s /\ Len(s) = n - 1
  BY <1>1, <1>2 DEF OwnParts, Stands
<1>4. V \subseteq {n - 1} /\ (n - 1 \in V <=> turned) /\ T \subseteq WaitingLabels(b, s, o)
  BY <1>3
<1>5. ASSUME NEW l \in DOMAIN s, Direct(s, o, l), s[l].k = "label" PROVE LabelDone(e, s2, o, l)
  <2>1. KeptToken(b, e, s, s2, T, V, to, l)
    BY <1>2
  <2>2. CASE l \in WaitingLabels(b, s, o)
    <3>1. NoneOf(s, o, l, Len(s), {"colon"}) /\ ~LabelDone(b, s, o, l)
      <4>1. NoneOf(s, o, l, Len(s), {"colon"})
        BY <2>2 DEF WaitingLabels
      <4>2. ASSUME NEW c \in DOMAIN s, l < c, Direct(s, o, c), s[c].k = "colon" PROVE FALSE
        <5>1. c \in l .. Len(s)
          BY <1>3, <4>2
        <5> QED BY <4>1, <4>2, <5>1 DEF NoneOf
      <4> QED BY <4>1, <4>2 DEF LabelDone
    <3>2. ~TurnedAt(b, s, l)
      BY <1>0, <1>2, <1>5, <3>1, LabelBefore
    <3>3. NoneOf(s2, o, l, n - 1, {"colon"})
      <4>1. l \in Nat \ {0} /\ Len(s) \in Int /\ Len(s) <= Len(s)
        BY <1>3
      <4>2. NoneOf(s2, o, l, Len(s), {"colon"})
        BY <1>2, <3>1, <4>1 DEF OwnParts
      <4> QED BY <1>3, <4>2
    <3>4. l < n
      BY <1>3
    <3>5. CASE l \in V
      <4>1. TurnedAt(e, s2, l) /\ n = l + 1 /\ ~WithGoto(e, n)
        BY <1>3, <1>4, <2>1, <3>5 DEF KeptToken
      <4> QED BY <1>3, <3>3, <3>4, <4>1 DEF LabelDone
    <3>6. CASE l \notin V
      <4>1. l \in T
        BY <2>2, <3>6
      <4>2. ~TurnedAt(e, s2, l) /\ To(e, s2, l) = PopAt(e, n)
        BY <1>5, <2>1, <3>2, <3>6, <4>1 DEF KeptToken
      <4>3. n = l + 1 => WithGoto(e, n)
        BY <1>3, <1>4, <3>6
      <4> QED BY <1>3, <3>3, <3>4, <4>2, <4>3 DEF LabelDone
    <3> QED BY <3>5, <3>6
  <2>3. CASE l \notin WaitingLabels(b, s, o)
    <3>1. LabelDone(b, s, o, l)
      BY <1>0, <1>2, <1>5, <2>3, LabelBefore DEF WaitingLabels
    <3>2. l \notin T
      BY <1>4, <2>3
    <3>3. l \notin V
      <4>1. ASSUME l = n - 1 PROVE FALSE
        <5>1. PICK c \in DOMAIN s : l < c
          BY <3>1 DEF LabelDone
        <5> QED BY <1>3, <4>1, <5>1
      <4> QED BY <1>4, <4>1
    <3> QED BY <1>5, <3>1, <3>2, <3>3, LabelStays
  <2> QED BY <2>2, <2>3
<1>6. ASSUME NEW c \in DOMAIN s, Direct(s, o, c), s[c].k = "colon" PROVE ColonDone(e, s2, o, c)
  <2>1. ColonDone(b, s, o, c)
    BY <1>0, <1>2, <1>6, CaseBefore
  <2>2. c - 1 \in DOMAIN s /\ s[c - 1].k = "label" /\ Direct(s, o, c - 1)
    BY <1>2, <1>6, SkipperBranch DEF Stands
  <2>3. c - 1 \notin WaitingLabels(b, s, o)
    <3>1. c \in c - 1 .. Len(s)
      BY <1>3
    <3> QED BY <1>6, <3>1 DEF WaitingLabels, NoneOf
  <2>4. c \notin WaitingLabels(b, s, o)
    BY <1>6 DEF WaitingLabels
  <2>5. Skipper(b, c) \notin T
    BY <1>4, <2>3, <2>4 DEF Skipper
  <2> QED BY <1>6, <2>1, <2>5, ColonStays
<1>7. ColonLinked(e, s2, f2, o, n)
  <2>1. NoneOf(s2, o, Len(s) + 2, Len(s) + 1, {"label", "colon", "endarm", "caseelse"})
    BY <1>2 DEF OwnParts
  <2>2. Len(s) + 2 = n + 1 /\ Len(s) + 1 = Len(s2)
    BY <1>3
  <2> QED BY <1>3, <2>1, <2>2 DEF ColonLinked
<1>8. \A d \in DOMAIN s2 : ~(Direct(s2, o, d) /\ s2[d].k = "caseelse")
  <2>1. \A d \in DOMAIN s : Direct(s, o, d) => s[d].k # "caseelse"
    BY <1>0, <1>2, ElseBefore
  <2> QED BY <1>3, <2>1
<1>9. Holds(e, s2, o, f2[Len(f2)])
  <2>1. Holds(b, s, o, f[Len(f)])
    BY <1>0, <1>2, CaseHolds
  <2>2. BranchesOf(e, s2, EndArms(s2, o))
           = BranchesOf(b, s, EndArms(s, o)) \cup {BranchAt(e, s2, x) : x \in {y \in {Len(s) + 1} : "colon" = "endarm"}}
    BY <1>1, EndArmsStep
  <2>3. NoneOf(s2, o, n + 1, Len(s2), {"label", "colon", "endarm", "caseelse"})
    BY <1>3 DEF NoneOf
  <2> QED BY <1>3, <2>1, <2>2, <2>3 DEF Holds
<1>10. CaseLinked(e, s2, f2, o)
  <2>1. \A l \in DOMAIN s2 : Direct(s2, o, l) /\ s2[l].k = "label" => LabelLinked(e, s2, f2, o, l)
    <3>1. ASSUME NEW l \in DOMAIN s2, Direct(s2, o, l), s2[l].k = "label" PROVE LabelDone(e, s2, o, l)
      BY <1>3, <1>5, <3>1
    <3> QED BY <3>1 DEF LabelLinked, LabelDone
  <2>2. \A c \in DOMAIN s2 : Direct(s2, o, c) /\ s2[c].k = "colon" => ColonLinked(e, s2, f2, o, c)
    <3>1. ASSUME NEW c \in DOMAIN s, Direct(s2, o, c), s2[c].k = "colon" PROVE ColonLinked(e, s2, f2, o, c)
      <4>1. ColonDone(e, s2, o, c)
        BY <1>3, <1>6, <3>1
      <4> QED BY <4>1 DEF ColonLinked, ColonDone
    <3> QED BY <1>3, <1>7, <3>1
  <2>3. Holds(e, s2, o, FrameOf(f2, s2, o))
    BY <1>3, <1>9
  <2>4. \A d \in DOMAIN s2 : Direct(s2, o, d) /\ s2[d].k = "caseelse" =>
             /\ FrameOf(f2, s2, o).kind = "caseelse"
             /\ NoneOf(s2, o, o, d - 1, {"caseelse"}) /\ NoneOf(s2, o, d + 1, Len(s2), {"label", "caseelse"})
    BY <1>8
  <2> QED BY <1>3, <2>1, <2>2, <2>3, <2>4, CaseInside
<1>11. s[n - 1].k = "label" /\ Direct(s, o, n - 1)
  <2>1. Listing(f)
    BY DEF Listing, Labels
  <2>2. LastKind(s) = "label"
    BY <1>2, <2>1 DEF Ordered
  <2>3. s[n - 1].k = "label"
    BY <1>3, <2>2 DEF LastKind
  <2>4. n - 1 # o
    BY <2>3 DEF Stands
  <2> QED BY <1>0, <1>3, <2>3, <2>4 DEF Direct, Open, OpenTo, Stands
<1>12. Within(s, o, T, V)
  BY <1>4, <1>11 DEF Within, Inward, WaitingLabels
<1>13. Len(f2) = Len(f) + Delta("colon")
  <2>1. Len(f2) \in Nat
    BY DEF Stands
  <2> QED BY <1>1, <2>1
<1>14. (\A t \in T : s[t].k # "break") /\ "colon" \in {"label", "colon", "endarm", "caseelse", "esac"}
  BY <1>4 DEF WaitingLabels
<1> QED BY <1>10, <1>12, <1>13, <1>14, AtLinked

(* Only the innermost statement can be among the labels of a case.          *)
Topmost(f) == \A m \in DOMAIN f : m < Len(f) => f[m].kind # "labels"

Laid(b, s, f) ==
  Bracketed(s, f) /\ Topmost(f) /\ Tokened(b, Len(s)) /\ Shaped(b, s) /\ Linked(b, s, f)

(* A token k is read: the code grows from b to e.                           *)
Scene(b, e, s, s2, k, f, f2) ==
  /\ IsCode(b) /\ Laid(b, s, f) /\ f \in Seq(Frame) /\ f2 \in Seq(Frame)
  /\ OneMore(s, s2, k) /\ Adds(b, e, Len(s) + 1)

Starting == {"else", "od", "endarm", "break", "colon"}

(* Where the code of the new token n lies.                                  *)
Placed(b, e, s, s2, k, n) ==
  /\ n = Len(s) + 1 /\ Place(e, n) = b.pos /\ Place(e, n + 1) = e.pos /\ IsCode(e) /\ Tokened(e, n)
  /\ n \in Nat \ {0} /\ n \in DOMAIN s2 /\ s2[n].k = k /\ n \notin DOMAIN s
  /\ DOMAIN s2 = DOMAIN s \cup {n} /\ s \in Seq(Tokens) /\ s2 \in Seq(Tokens) /\ Len(s2) = n
  /\ b.pos \in Nat /\ e.pos \in Nat
  /\ k \in Starting => BranchAt(e, s2, n) = b.pos
  /\ k \notin Starting => BranchAt(e, s2, n) = e.pos - 3
  /\ PopAt(e, n) = e.pos - 1 /\ (WithGoto(e, n) <=> e.pos = b.pos + 4)

LEMMA ScenePlaces ==
  ASSUME NEW b, NEW e, NEW s, NEW s2, NEW k, NEW f, NEW f2, Scene(b, e, s, s2, k, f, f2)
  PROVE  Placed(b, e, s, s2, k, Len(s) + 1)
<1> PICK n : n = Len(s) + 1
  OBVIOUS
<1>1. s \in Seq(Tokens) /\ s2 \in Seq(Tokens) /\ Len(s) \in Nat /\ DOMAIN s = 1 .. Len(s)
      /\ DOMAIN s2 = 1 .. Len(s2) /\ Len(s2) = Len(s) + 1 /\ s2[Len(s) + 1].k = k
  BY DEF Scene, OneMore
<1>2. n \in Nat \ {0} /\ n - 1 = Len(s)
  BY <1>1
<1>3. IsCode(b) /\ Adds(b, e, n) /\ Tokened(b, n - 1)
  BY <1>2 DEF Scene, Laid
<1>4. Place(e, n) = b.pos /\ Place(e, n + 1) = e.pos /\ Tokened(e, n)
  BY <1>2, <1>3, PlaceStep
<1>5. IsCode(e) /\ b.pos \in Nat /\ e.pos \in Nat
  BY <1>3 DEF Adds, IsCode
<1> QED BY <1>1, <1>2, <1>4, <1>5 DEF BranchAt, PopAt, WithGoto, Starting, Placed

LEMMA SceneKept ==
  ASSUME NEW b, NEW e, NEW s, NEW s2, NEW k, NEW f, NEW f2, Scene(b, e, s, s2, k, f, f2),
         NEW T, NEW V, NEW to, Rewrites(b, e, s, T, V, to)
  PROVE  Kept(b, e, s, s2, k, T, V, to)
<1>1. ASSUME NEW t \in DOMAIN s, s[t].k = "esac" PROVE t >= 2
  <2>1. s \in Seq(Tokens) /\ Owned(s, f)
    BY DEF Scene, OneMore, Laid, Bracketed
  <2>2. PICK i \in DOMAIN s : Closes(s, i, t)
    BY <1>1, <2>1 DEF Owned, Meaning!Closers
  <2>3. i < t /\ 1 <= i /\ i \in Int /\ t \in Int
    BY <2>1, <2>2, ClosesFacts
  <2> QED BY <2>3
<1>2. IsCode(b) /\ OneMore(s, s2, k) /\ Adds(b, e, Len(s) + 1) /\ Tokened(b, Len(s)) /\ Shaped(b, s)
  BY DEF Scene, Laid
<1> QED BY <1>1, <1>2, KeptBy

LEMMA SceneLaid ==
  ASSUME NEW b, NEW e, NEW s, NEW s2, NEW k, NEW f, NEW f2, Scene(b, e, s, s2, k, f, f2),
         NEW T, NEW V, NEW to, Kept(b, e, s, s2, k, T, V, to),
         Shape(e, s2, Len(s) + 1), Bracketed(s2, f2), Topmost(f2), Linked(e, s2, f2)
  PROVE  Laid(e, s2, f2)
<1> PICK n : n = Len(s) + 1
  OBVIOUS
<1>0. Placed(b, e, s, s2, k, n)
  BY ScenePlaces
<1>1. DOMAIN s2 = DOMAIN s \cup {n} /\ Len(s2) = n /\ Tokened(e, n)
  BY <1>0 DEF Placed
<1>2. \A t \in DOMAIN s : Shape(e, s2, t)
  BY DEF Kept, KeptToken
<1>3. Shaped(e, s2)
  BY <1>1, <1>2 DEF Shaped
<1> QED BY <1>1, <1>3 DEF Laid

LEMMA Unchanged ==
  ASSUME NEW b, NEW e, NEW s, NEW to, \A a \in DOMAIN b.ins : e.ins[a] = b.ins[a]
  PROVE  Rewrites(b, e, s, {}, {}, to)
BY DEF Rewrites

-----------------------------------------------------------------------------
(* The open statements.                                                     *)

Pushes(s2, f, f2, g) ==
  /\ Bracketed(s2, f2) /\ Topmost(f2) /\ Len(f2) = Len(f) + 1 /\ SameUpTo(f, f2, Len(f))
  /\ f2[Len(f) + 1] = g

Popped(s2, f, f2) ==
  Bracketed(s2, f2) /\ Topmost(f2) /\ Len(f2) = Len(f) - 1 /\ SameUpTo(f, f2, Len(f) - 1)

TurnedTo(s2, f, f2, g) ==
  /\ Bracketed(s2, f2) /\ Topmost(f2) /\ Len(f2) = Len(f) /\ SameUpTo(f, f2, Len(f) - 1)
  /\ f2[Len(f2)] = g

LEMMA PushedBrackets ==
  ASSUME NEW b, NEW e, NEW s, NEW s2, NEW k \in Meaning!Openers, NEW f, NEW f2,
         Scene(b, e, s, s2, k, f, f2), ~Labels(f), NEW g, f2 = Append(f, g),
         g.kind \in KindsOf(k), k = "case" => g.kind = "labels" /\ g.arms = {}
  PROVE  Pushes(s2, f, f2, g)
<1>1. f \in Seq(Frame) /\ f2 \in Seq(Frame) /\ OneMore(s, s2, k) /\ Owned(s, f) /\ Ordered(s, f) /\ Topmost(f)
  BY DEF Scene, Laid, Bracketed
<1>2. Len(f2) = Len(f) + 1 /\ f2[Len(f) + 1] = g /\ DOMAIN f = 1 .. Len(f) /\ DOMAIN f2 = 1 .. Len(f) + 1
      /\ Len(f) \in Nat /\ \A m \in 1 .. Len(f) : f2[m] = f[m]
  BY <1>1
<1>3. SameUpTo(f, f2, Len(f)) /\ f2 # <<>>
  <2>1. Len(<<>>) = 0
    OBVIOUS
  <2> QED BY <1>2, <2>1 DEF SameUpTo
<1>4. Owned(s2, f2)
  BY <1>1, <1>2, <1>3, OwnedPush
<1>5. Guarded(f, k)
  BY DEF Guarded, Between, Listing, Among, Meaning!Openers
<1>6. f2[Len(f2)] = g /\ f2[Len(f2)].kind = g.kind /\ f2[Len(f2)].arms = g.arms
  BY <1>2
<1>7. g.kind = "labels" <=> k = "case"
  BY DEF KindsOf, Meaning!Openers
<1>8. (k \in Popping <=> Between(f2)) /\ (k = "label" <=> Listing(f2))
  BY <1>3, <1>6, <1>7 DEF Popping, Between, Listing, Labels, Meaning!Openers
<1>9. Ordered(s2, f2)
  BY <1>1, <1>5, <1>8, OrderedStep
<1>10. Topmost(f2)
  <2> SUFFICES ASSUME NEW m \in 1 .. Len(f) PROVE f2[m].kind # "labels"
    BY <1>2 DEF Topmost
  <2>1. f[m].kind # "labels"
    <3>1. CASE m < Len(f)
      BY <1>1, <1>2, <3>1 DEF Topmost
    <3>2. CASE m = Len(f)
      <4>1. f # <<>>
        BY <1>2, <3>2
      <4> QED BY <3>2, <4>1 DEF Labels
    <3>3. m \in Int /\ m <= Len(f) /\ Len(f) \in Int
      BY <1>2
    <3> QED BY <3>1, <3>2, <3>3
  <2> QED BY <1>2, <2>1
<1> QED BY <1>2, <1>3, <1>4, <1>9, <1>10 DEF Bracketed, Pushes

LEMMA PoppedBrackets ==
  ASSUME NEW b, NEW e, NEW s, NEW s2, NEW k \in Meaning!Closers, NEW f, NEW f2,
         Scene(b, e, s, s2, k, f, f2), Guarded(f, k), f # <<>>, f2 = SubSeq(f, 1, Len(f) - 1),
         \A o \in Meaning!Openers : f[Len(f)].kind \in KindsOf(o) => k \in EndsOf(o)
  PROVE  Popped(s2, f, f2)
<1>1. f \in Seq(Frame) /\ f2 \in Seq(Frame) /\ OneMore(s, s2, k) /\ Owned(s, f) /\ Ordered(s, f) /\ Topmost(f)
  BY DEF Scene, Laid, Bracketed
<1>2. Len(f) \in Nat \ {0} /\ DOMAIN f = 1 .. Len(f)
  BY <1>1
<1>3. Len(f2) = Len(f) - 1 /\ DOMAIN f2 = 1 .. Len(f) - 1 /\ \A m \in 1 .. Len(f) - 1 : f2[m] = f[m]
  BY <1>1, <1>2
<1>4. SameUpTo(f, f2, Len(f) - 1)
  BY <1>3 DEF SameUpTo
<1>5. Owned(s2, f2)
  BY <1>1, <1>3, <1>4, OwnedPop
<1>6. Topmost(f2) /\ ~Labels(f2)
  <2>1. \A m \in DOMAIN f2 : f2[m].kind # "labels"
    BY <1>1, <1>2, <1>3 DEF Topmost
  <2>2. f2 # <<>> => Len(f2) \in DOMAIN f2
    BY <1>1
  <2> QED BY <2>1, <2>2 DEF Topmost, Labels
<1>7. (k \in Popping <=> Between(f2)) /\ (k = "label" <=> Listing(f2))
  BY <1>6 DEF Popping, Between, Listing, Meaning!Closers
<1>8. Ordered(s2, f2)
  BY <1>1, <1>7, OrderedStep
<1> QED BY <1>3, <1>4, <1>5, <1>6, <1>8 DEF Bracketed, Popped

LEMMA SameBrackets ==
  ASSUME NEW b, NEW e, NEW s, NEW s2, NEW k \in {"stmt", "exit", "break"}, NEW f,
         Scene(b, e, s, s2, k, f, f), ~Labels(f)
  PROVE  Bracketed(s2, f) /\ Topmost(f)
<1>1. f \in Seq(Frame) /\ OneMore(s, s2, k) /\ Owned(s, f) /\ Ordered(s, f) /\ Topmost(f)
  BY DEF Scene, Laid, Bracketed
<1>2. Turns(f, f)
  BY DEF Turns, SameUpTo
<1>3. Delta(k) = 0
  BY DEF Delta, Meaning!Openers, Meaning!Closers
<1>4. Owned(s2, f)
  BY <1>1, <1>2, <1>3, OwnedInside
<1>5. Guarded(f, k) /\ (k \in Popping <=> Between(f)) /\ (k = "label" <=> Listing(f))
  BY DEF Guarded, Between, Listing, Popping, Among
<1>6. Ordered(s2, f)
  BY <1>1, <1>5, OrderedStep
<1> QED BY <1>1, <1>4, <1>6 DEF Bracketed

LEMMA TurnedBrackets ==
  ASSUME NEW b, NEW e, NEW s, NEW s2, NEW k \in Inward, NEW f, NEW f2,
         Scene(b, e, s, s2, k, f, f2), Guarded(f, k), f # <<>>, NEW g, f2 = [f EXCEPT ![Len(f)] = g],
         \A o \in Meaning!Openers : f[Len(f)].kind \in KindsOf(o) => g.kind \in KindsOf(o),
         k \in Popping <=> g.kind = "labels" /\ g.arms = {},
         k = "label" <=> g.kind = "labels" /\ g.arms # {}
  PROVE  TurnedTo(s2, f, f2, g)
<1>1. f \in Seq(Frame) /\ f2 \in Seq(Frame) /\ OneMore(s, s2, k) /\ Owned(s, f) /\ Ordered(s, f) /\ Topmost(f)
  BY DEF Scene, Laid, Bracketed
<1>2. Len(f) \in Nat \ {0} /\ DOMAIN f = 1 .. Len(f)
  BY <1>1
<1>3. Len(f2) = Len(f) /\ DOMAIN f2 = DOMAIN f /\ f2[Len(f)] = g /\ \A m \in 1 .. Len(f) - 1 : f2[m] = f[m]
  BY <1>1, <1>2
<1>4. SameUpTo(f, f2, Len(f) - 1) /\ f2 # <<>>
  <2>1. Len(<<>>) = 0
    OBVIOUS
  <2> QED BY <1>2, <1>3, <2>1 DEF SameUpTo
<1>5. Turns(f, f2) /\ Delta(k) = 0
  BY <1>3, <1>4 DEF Turns, Delta, Meaning!Openers, Meaning!Closers, Inward
<1>6. Owned(s2, f2)
  BY <1>1, <1>5, OwnedInside
<1>7. (k \in Popping <=> Between(f2)) /\ (k = "label" <=> Listing(f2))
  BY <1>3, <1>4 DEF Between, Listing, Labels
<1>8. Ordered(s2, f2)
  BY <1>1, <1>7, OrderedStep
<1>9. Topmost(f2)
  BY <1>1, <1>2, <1>3 DEF Topmost
<1> QED BY <1>3, <1>4, <1>6, <1>8, <1>9 DEF Bracketed, TurnedTo

LEMMA PlainLaid ==
  ASSUME NEW b, NEW e, NEW s, NEW s2, NEW k \in {"stmt", "exit", "break"}, NEW f,
         Scene(b, e, s, s2, k, f, f), ~Labels(f), \A a \in DOMAIN b.ins : e.ins[a] = b.ins[a],
         Shape(e, s2, Len(s) + 1),
         k = "break" => /\ Is(e, b.pos, "break", Len(s) + 1)
                        /\ \E m \in DOMAIN f : f[m].kind \in LoopKinds
  PROVE  Laid(e, s2, f)
<1> PICK n : n = Len(s) + 1
  OBVIOUS
<1> PICK to : to = 0
  OBVIOUS
<1>1. Rewrites(b, e, s, {}, {}, to)
  BY Unchanged
<1>2. Kept(b, e, s, s2, k, {}, {}, to)
  BY <1>1, SceneKept
<1>3. Placed(b, e, s, s2, k, n)
  BY ScenePlaces
<1>4. Bracketed(s2, f) /\ Topmost(f)
  BY SameBrackets
<1>5. f \in Seq(Frame) /\ Bracketed(s, f) /\ Linked(b, s, f)
  BY DEF Scene, Laid
<1>6. k = "break" => /\ Is(e, Place(e, Len(s) + 1), "break", Len(s) + 1)
                     /\ \E m \in DOMAIN f : f[m].kind \in LoopKinds
  BY <1>3 DEF Placed
<1>7. Linked(e, s2, f)
  BY <1>2, <1>5, <1>6, PlainLinked
<1> QED BY <1>2, <1>4, <1>7, SceneLaid

LEMMA OpenLaid ==
  ASSUME NEW b, NEW e, NEW s, NEW s2, NEW k \in Meaning!Openers, NEW f, NEW f2,
         Scene(b, e, s, s2, k, f, f2), ~Labels(f), \A a \in DOMAIN b.ins : e.ins[a] = b.ins[a],
         Shape(e, s2, Len(s) + 1), NEW g, f2 = Append(f, g), Fresh(e, s2, g, Len(s) + 1)
  PROVE  Laid(e, s2, f2)
<1> PICK n : n = Len(s) + 1
  OBVIOUS
<1> PICK to : to = 0
  OBVIOUS
<1>1. Rewrites(b, e, s, {}, {}, to)
  BY Unchanged
<1>2. Kept(b, e, s, s2, k, {}, {}, to)
  BY <1>1, SceneKept
<1>3. Placed(b, e, s, s2, k, n)
  BY ScenePlaces
<1>4. g.kind \in KindsOf(k) /\ (k = "case" => g.kind = "labels" /\ g.arms = {})
  BY <1>3 DEF Placed, Fresh, KindsOf, Meaning!Openers
<1>5. /\ Bracketed(s2, f2) /\ Topmost(f2) /\ Len(f2) = Len(f) + 1 /\ SameUpTo(f, f2, Len(f))
      /\ f2[Len(f) + 1] = g
  <2>1. Pushes(s2, f, f2, g)
    BY <1>4, PushedBrackets
  <2> QED BY <2>1 DEF Pushes
<1>6. f \in Seq(Frame) /\ f2 \in Seq(Frame) /\ Bracketed(s, f) /\ Linked(b, s, f)
  BY DEF Scene, Laid
<1>7. Linked(e, s2, f2)
  BY <1>2, <1>5, <1>6, OpenLinked
<1> QED BY <1>2, <1>5, <1>7, SceneLaid

-----------------------------------------------------------------------------
Before == Inductive /\ Inductive' /\ Laid(code, prog, frames)

LEMMA BeforeFacts ==
  ASSUME Before
  PROVE  /\ IsCode(code) /\ code.pos \in Nat /\ prog \in Seq(Tokens) /\ Len(prog) \in Nat
         /\ frames \in Seq(Frame) /\ frames' \in Seq(Frame)
         /\ Len(prog) + 1 \in Nat
         /\ Tokened(code, Len(prog)) /\ Bracketed(prog, frames) /\ Linked(code, prog, frames) /\ Shaped(code, prog)
BY DEF Before, Inductive, TypeOK, IsCode, Laid

LEMMA Consumed ==
  ASSUME prog \in Seq(Tokens), NEW k \in Kinds, NEW lo \in Int, NEW hi \in Int, Consume(k, lo, hi)
  PROVE  /\ OneMore(prog, prog', k) /\ prog'[Len(prog) + 1].k = k
         /\ prog'[Len(prog) + 1].lo = lo /\ prog'[Len(prog) + 1].hi = hi
<1> PICK tk : tk = [k |-> k, lo |-> lo, hi |-> hi]
  OBVIOUS
<1>1. tk \in Tokens /\ tk.k = k /\ tk.lo = lo /\ tk.hi = hi
  BY DEF Tokens
<1>2. prog' = Append(prog, tk)
  BY DEF Consume
<1> QED BY <1>1, <1>2, AppendLonger

LEMMA SetScene ==
  ASSUME Before, NEW k, OneMore(prog, prog', k), Adds(code, code', Len(prog) + 1)
  PROVE  Scene(code, code', prog, prog', k, frames, frames')
BY BeforeFacts DEF Scene, Before

LEMMA OutsideLabels ==
  ASSUME StatementPoint
  PROVE  ~Labels(frames)
BY DEF StatementPoint, TopIs, Top, Labels

LEMMA StmtLaid ==
  ASSUME Before, NEW n \in ChunkSizes, Stmt(n)
  PROVE  Laid(code', prog', frames')
<1>1. n \in Nat \ {0} /\ "stmt" \in Ops /\ "stmt" \in Kinds /\ 0 \in Int
  BY ChunkAssumption DEF Ops, Events, Kinds
<1>2. /\ Adds(code, code', Len(prog) + 1) /\ code'.pos = code.pos + n
      /\ \A a \in DOMAIN code.ins : code'.ins[a] = code.ins[a]
      /\ Is(code', code.pos, "stmt", Len(prog) + 1) /\ code'.ins[code.pos].len = n
  BY <1>1, BeforeFacts, ChunkAdds DEF Stmt
<1>3. OneMore(prog, prog', "stmt")
  BY <1>1, BeforeFacts, Consumed DEF Stmt, ConsumeWord
<1>4. frames' = frames /\ ~Labels(frames)
  BY OutsideLabels DEF Stmt
<1>5. Scene(code, code', prog, prog', "stmt", frames, frames)
  BY <1>2, <1>3, <1>4, SetScene
<1>6. Placed(code, code', prog, prog', "stmt", Len(prog) + 1)
  BY <1>5, ScenePlaces
<1>7. Shape(code', prog', Len(prog) + 1)
  BY <1>2, <1>6 DEF Shape, Placed, Past
<1> QED BY <1>2, <1>4, <1>5, <1>7, PlainLaid

LEMMA ExitLaid ==
  ASSUME Before, NEW n \in ChunkSizes, Exit(n)
  PROVE  Laid(code', prog', frames')
<1> PICK op : op = IF inRoutine THEN "return" ELSE "halt"
  OBVIOUS
<1>1. n \in Nat \ {0} /\ op \in Ops /\ op \in {"return", "halt"} /\ "exit" \in Kinds /\ 0 \in Int
  BY ChunkAssumption DEF Ops, Kinds
<1>2. /\ Adds(code, code', Len(prog) + 1)
      /\ \A a \in DOMAIN code.ins : code'.ins[a] = code.ins[a]
      /\ Is(code', code.pos, op, Len(prog) + 1)
  BY <1>1, BeforeFacts, ChunkAdds DEF Exit
<1>3. OneMore(prog, prog', "exit")
  BY <1>1, BeforeFacts, Consumed DEF Exit, ConsumeWord
<1>4. frames' = frames /\ ~Labels(frames)
  BY OutsideLabels DEF Exit
<1>5. Scene(code, code', prog, prog', "exit", frames, frames)
  BY <1>2, <1>3, <1>4, SetScene
<1>6. Placed(code, code', prog, prog', "exit", Len(prog) + 1)
  BY <1>5, ScenePlaces
<1>7. Shape(code', prog', Len(prog) + 1)
  BY <1>1, <1>2, <1>6 DEF Shape, Placed
<1> QED BY <1>2, <1>4, <1>5, <1>7, PlainLaid

LEMMA BreakLaid ==
  ASSUME Before, Break, ~errors'
  PROVE  Laid(code', prog', frames')
<1>1. "break" \in Ops /\ "break" \in Kinds /\ 0 \in Int /\ insideLoop > 0 /\ code' = EmitHole(code, "break")
  <2>1. insideLoop \in Int
    BY DEF Before, Inductive, TypeOK
  <2> QED BY <2>1 DEF Ops, Kinds, Break
<1>2. /\ Adds(code, code', Len(prog) + 1) /\ code'.pos = code.pos + 3
      /\ \A a \in DOMAIN code.ins : code'.ins[a] = code.ins[a]
      /\ Is(code', code.pos, "break", Len(prog) + 1)
  BY <1>1, BeforeFacts, HoleAdds
<1>3. OneMore(prog, prog', "break")
  BY <1>1, BeforeFacts, Consumed DEF Break, ConsumeWord
<1>4. frames' = frames /\ ~Labels(frames)
  BY OutsideLabels DEF Break
<1>5. Scene(code, code', prog, prog', "break", frames, frames)
  BY <1>2, <1>3, <1>4, SetScene
<1>6. Placed(code, code', prog, prog', "break", Len(prog) + 1)
  BY <1>5, ScenePlaces
<1>7. Shape(code', prog', Len(prog) + 1)
  BY <1>2, <1>6 DEF Shape, Placed
<1>8. \E m \in DOMAIN frames : frames[m].kind \in LoopKinds
  <2>1. LoopFrames # {}
    <3>1. insideLoop = Cardinality(LoopFrames) /\ Cardinality({}) = 0
      BY FS_EmptySet DEF Before, Inductive, LoopsCounted
    <3> QED BY <1>1, <3>1
  <2> QED BY <2>1 DEF LoopFrames
<1> QED BY <1>2, <1>4, <1>5, <1>7, <1>8, PlainLaid

(* One instruction of n bytes was appended.                                 *)
Emitted(b, e, N, op, n) ==
  /\ Adds(b, e, N) /\ IsCode(e)
  /\ e.pos = b.pos + n /\ DOMAIN e.ins = DOMAIN b.ins \cup {b.pos}
  /\ b.pos \notin DOMAIN b.ins
  /\ \A a \in DOMAIN b.ins : e.ins[a] = b.ins[a]
  /\ Is(e, b.pos, op, N) /\ e.ins[b.pos].len = n

LEMMA ChunkEmitted ==
  ASSUME NEW b, IsCode(b), NEW op \in Ops, NEW n \in Nat \ {0}, prog \in Seq(Tokens)
  PROVE  Emitted(b, EmitChunk(b, op, n), Len(prog) + 1, op, n)
BY ChunkAdds DEF Emitted

LEMMA HoleEmitted ==
  ASSUME NEW b, IsCode(b), NEW op \in Ops, prog \in Seq(Tokens)
  PROVE  Emitted(b, EmitHole(b, op), Len(prog) + 1, op, 3)
BY HoleAdds DEF Emitted

LEMMA JumpEmitted ==
  ASSUME NEW b, IsCode(b), NEW op \in Ops, NEW to \in Nat, to <= b.pos, b.pos < ShortHalf,
         prog \in Seq(Tokens)
  PROVE  /\ Emitted(b, EmitJump(b, op, to), Len(prog) + 1, op, 3)
         /\ Target(EmitJump(b, op, to), b.pos) = to
BY JumpAdds DEF Emitted

LEMMA ConstEmitted ==
  ASSUME NEW b, IsCode(b), NEW op \in Ops, NEW n \in Nat \ {0}, NEW val \in Int, prog \in Seq(Tokens)
  PROVE  /\ Emitted(b, Emit(b, op, n, 0, val), Len(prog) + 1, op, n)
         /\ Emit(b, op, n, 0, val).ins[b.pos].val = val
<1>1. 0 \in Int
  OBVIOUS
<1> QED BY <1>1, EmitAdds DEF Emitted

(* Straight-line code and a branch behind it.                               *)
TestLaid(b, e, N, op, n, jop) ==
  /\ Adds(b, e, N) /\ IsCode(e) /\ e.pos = b.pos + n + 3 /\ b.pos \in Nat /\ b.pos + n + 3 \in Nat
  /\ \A a \in DOMAIN b.ins : e.ins[a] = b.ins[a]
  /\ DOMAIN e.ins = DOMAIN b.ins \cup {b.pos, b.pos + n} /\ b.pos \notin DOMAIN b.ins
  /\ b.pos + n \notin DOMAIN b.ins /\ b.pos # b.pos + n
  /\ Is(e, b.pos, op, N) /\ e.ins[b.pos].len = n
  /\ Is(e, b.pos + n, jop, N) /\ e.ins[b.pos + n].len = 3

LEMMA TestAdds ==
  ASSUME NEW b, IsCode(b), NEW op \in Ops, NEW jop \in Ops, NEW n \in Nat \ {0}, prog \in Seq(Tokens)
  PROVE  /\ TestLaid(b, EmitHole(EmitChunk(b, op, n), jop), Len(prog) + 1, op, n, jop)
         /\ EmitChunk(b, op, n).pos = b.pos + n
<1> PICK c : c = EmitChunk(b, op, n)
  OBVIOUS
<1> PICK e : e = EmitHole(c, jop)
  OBVIOUS
<1> PICK N : N = Len(prog) + 1
  OBVIOUS
<1>1. Emitted(b, c, N, op, n) /\ IsCode(c)
  <2>1. Emitted(b, c, N, op, n)
    BY ChunkEmitted
  <2> QED BY <2>1 DEF Emitted
<1>2. Emitted(c, e, N, jop, 3)
  BY <1>1, HoleEmitted
<1>3. Adds(b, e, N)
  BY <1>1, <1>2, AddsTwice DEF Emitted
<1>4. b.pos \in Nat /\ b.pos + n + 3 \in Nat /\ b.pos # b.pos + n
  BY DEF IsCode
<1>5. Is(e, b.pos, op, N) /\ e.ins[b.pos].len = n
  BY <1>1, <1>2 DEF Is, Emitted
<1>6. TestLaid(b, e, N, op, n, jop)
  BY <1>1, <1>2, <1>3, <1>4, <1>5 DEF TestLaid, Emitted
<1> QED BY <1>1, <1>6 DEF Emitted

LEMMA TestedShape ==
  ASSUME NEW b, NEW e, NEW s, NEW s2, NEW k, NEW op, NEW n \in Nat \ {0}, NEW jop,
         NEW N, Placed(b, e, s, s2, k, N), TestLaid(b, e, N, op, n, jop)
  PROVE  Tests(e, N, op, {jop}) /\ e.pos - 3 = b.pos + n
<1>1. e.pos - 3 = b.pos + n
  BY DEF TestLaid
<1>2. Place(e, N) = b.pos /\ Place(e, N + 1) - 3 = b.pos + n
  BY <1>1 DEF Placed
<1>3. Past(e, b.pos) = b.pos + n
  BY DEF TestLaid, Past
<1> QED BY <1>1, <1>2, <1>3 DEF TestLaid, Tests, Is

LEMMA IfThenLaid ==
  ASSUME Before, NEW n \in ChunkSizes, IfThen(n)
  PROVE  Laid(code', prog', frames')
<1> PICK g : g = NewFrame("if", 0, code.pos + n, 0)
  OBVIOUS
<1>1. n \in Nat \ {0} /\ "cond" \in Ops /\ "ifeq" \in Ops /\ "if" \in Kinds /\ 0 \in Int /\ "if" \in Meaning!Openers
  BY ChunkAssumption DEF Ops, Events, Branches, Kinds, Meaning!Openers
<1>2. TestLaid(code, code', Len(prog) + 1, "cond", n, "ifeq") /\ frames' = Append(frames, g)
  BY <1>1, BeforeFacts, TestAdds DEF IfThen, Push
<1>3. OneMore(prog, prog', "if")
  BY <1>1, BeforeFacts, Consumed DEF IfThen, ConsumeWord
<1>4. ~Labels(frames)
  BY OutsideLabels DEF IfThen
<1>5. Scene(code, code', prog, prog', "if", frames, frames')
  BY <1>2, <1>3, SetScene DEF TestLaid
<1>6. Placed(code, code', prog, prog', "if", Len(prog) + 1)
  BY <1>5, ScenePlaces
<1>7. Tests(code', Len(prog) + 1, "cond", {"ifeq"}) /\ code'.pos - 3 = code.pos + n
  BY <1>1, <1>2, <1>6, TestedShape
<1>8. Shape(code', prog', Len(prog) + 1)
  BY <1>6, <1>7 DEF Shape, Placed
<1>9. Fresh(code', prog', g, Len(prog) + 1)
  <2>1. g.kind = "if" /\ g.hole = code.pos + n
    BY DEF NewFrame
  <2> QED BY <1>6, <1>7, <2>1 DEF Placed, Fresh, Starting
<1>10. \A a \in DOMAIN code.ins : code'.ins[a] = code.ins[a]
  BY <1>2 DEF TestLaid
<1> QED BY <1>1, <1>2, <1>4, <1>5, <1>8, <1>9, <1>10, OpenLaid

LEMMA WhileDoLaid ==
  ASSUME Before, NEW n \in ChunkSizes, WhileDo(n)
  PROVE  Laid(code', prog', frames')
<1> PICK g : g = NewFrame("while", code.pos, code.pos + n, code'.pos)
  OBVIOUS
<1>1. n \in Nat \ {0} /\ "cond" \in Ops /\ "ifeq" \in Ops /\ "while" \in Kinds /\ 0 \in Int /\ "while" \in Meaning!Openers
  BY ChunkAssumption DEF Ops, Events, Branches, Kinds, Meaning!Openers
<1>2. TestLaid(code, code', Len(prog) + 1, "cond", n, "ifeq") /\ frames' = Append(frames, g)
  BY <1>1, BeforeFacts, TestAdds DEF WhileDo, Push
<1>3. OneMore(prog, prog', "while")
  BY <1>1, BeforeFacts, Consumed DEF WhileDo, ConsumeWord
<1>4. ~Labels(frames)
  BY OutsideLabels DEF WhileDo
<1>5. Scene(code, code', prog, prog', "while", frames, frames')
  BY <1>2, <1>3, SetScene DEF TestLaid
<1>6. Placed(code, code', prog, prog', "while", Len(prog) + 1)
  BY <1>5, ScenePlaces
<1>7. Tests(code', Len(prog) + 1, "cond", {"ifeq"}) /\ code'.pos - 3 = code.pos + n
  BY <1>1, <1>2, <1>6, TestedShape
<1>8. Shape(code', prog', Len(prog) + 1)
  BY <1>6, <1>7 DEF Shape, Placed
<1>9. Fresh(code', prog', g, Len(prog) + 1)
  <2>1. g.kind = "while" /\ g.hole = code.pos + n /\ g.head = code.pos /\ g.brk = code'.pos
    BY DEF NewFrame
  <2>2. LoopHead(code', prog', Len(prog) + 1) = code.pos
    BY <1>6 DEF Placed, LoopHead
  <2> QED BY <1>6, <1>7, <2>1, <2>2 DEF Placed, Fresh, Starting
<1>10. \A a \in DOMAIN code.ins : code'.ins[a] = code.ins[a]
  BY <1>2 DEF TestLaid
<1> QED BY <1>1, <1>2, <1>4, <1>5, <1>8, <1>9, <1>10, OpenLaid

LEMMA RepeatLaid ==
  ASSUME Before, Repeat
  PROVE  Laid(code', prog', frames')
<1> PICK g : g = NewFrame("repeat", code.pos, -1, code.pos)
  OBVIOUS
<1>1. "repeat" \in Kinds /\ 0 \in Int /\ "repeat" \in Meaning!Openers
  BY DEF Kinds, Meaning!Openers
<1>2. code' = code /\ frames' = Append(frames, g) /\ Adds(code, code', Len(prog) + 1)
  BY BeforeFacts, AddsNothing DEF Repeat, Push
<1>3. OneMore(prog, prog', "repeat")
  BY <1>1, BeforeFacts, Consumed DEF Repeat, ConsumeWord
<1>4. ~Labels(frames)
  BY OutsideLabels DEF Repeat
<1>5. Scene(code, code', prog, prog', "repeat", frames, frames')
  BY <1>2, <1>3, SetScene
<1>6. Placed(code, code', prog, prog', "repeat", Len(prog) + 1)
  BY <1>5, ScenePlaces
<1>8. Shape(code', prog', Len(prog) + 1)
  BY <1>2, <1>6 DEF Shape, Placed
<1>9. Fresh(code', prog', g, Len(prog) + 1)
  <2>1. g.kind = "repeat" /\ g.head = code.pos /\ g.brk = code.pos
    BY DEF NewFrame
  <2>2. LoopHead(code', prog', Len(prog) + 1) = code.pos
    BY <1>6 DEF Placed, LoopHead
  <2> QED BY <1>2, <1>6, <2>1, <2>2 DEF Placed, Fresh
<1>10. \A a \in DOMAIN code.ins : code'.ins[a] = code.ins[a]
  BY <1>2
<1> QED BY <1>1, <1>2, <1>4, <1>5, <1>8, <1>9, <1>10, OpenLaid

LEMMA CaseOfLaid ==
  ASSUME Before, NEW n \in ChunkSizes, NEW str \in BOOLEAN, CaseOf(n, str)
  PROVE  Laid(code', prog', frames')
<1> PICK g : g = [NewFrame("labels", 0, -1, 0) EXCEPT !.str = str]
  OBVIOUS
<1> PICK lo : lo = IF str THEN 1 ELSE 0
  OBVIOUS
<1>1. n \in Nat \ {0} /\ "select" \in Ops /\ "case" \in Kinds /\ 0 \in Int /\ lo \in Int /\ "case" \in Meaning!Openers
  BY ChunkAssumption DEF Ops, Events, Kinds, Meaning!Openers
<1>2. /\ Adds(code, code', Len(prog) + 1) /\ code'.pos = code.pos + n
      /\ \A a \in DOMAIN code.ins : code'.ins[a] = code.ins[a]
      /\ Is(code', code.pos, "select", Len(prog) + 1) /\ code'.ins[code.pos].len = n
  BY <1>1, BeforeFacts, ChunkAdds DEF CaseOf
<1>3. OneMore(prog, prog', "case") /\ frames' = Append(frames, g)
  BY <1>1, BeforeFacts, Consumed DEF CaseOf, Push
<1>4. ~Labels(frames)
  BY OutsideLabels DEF CaseOf
<1>5. Scene(code, code', prog, prog', "case", frames, frames')
  BY <1>2, <1>3, SetScene
<1>6. Placed(code, code', prog, prog', "case", Len(prog) + 1)
  BY <1>5, ScenePlaces
<1>8. Shape(code', prog', Len(prog) + 1)
  BY <1>2, <1>6 DEF Shape, Placed, Past
<1>9. Fresh(code', prog', g, Len(prog) + 1)
  <2>1. g.kind = "labels" /\ g.arms = {} /\ g.ends = {}
    BY DEF NewFrame
  <2> QED BY <1>6, <2>1 DEF Placed, Fresh
<1> QED BY <1>1, <1>2, <1>3, <1>4, <1>5, <1>8, <1>9, OpenLaid

LEMMA ForDoLaid ==
  ASSUME Before, NEW n \in ChunkSizes, NEW dir \in Direction, ForDo(n, dir)
  PROVE  Laid(code', prog', frames')
<1> PICK jop : jop = IF dir = 1 THEN "if_icmplt" ELSE "if_icmpgt"
  OBVIOUS
<1> PICK N : N = Len(prog) + 1
  OBVIOUS
<1> PICK b1 : b1 = EmitChunk(code, "init", n)
  OBVIOUS
<1> PICK b2 : b2 = Emit(b1, "limit", n, 0, dir)
  OBVIOUS
<1> PICK g : g = NewFrame("for", b1.pos, b2.pos, code'.pos)
  OBVIOUS
<1>1. n \in Nat \ {0} /\ {"init", "limit", jop} \subseteq Ops /\ "for" \in Kinds /\ 0 \in Int /\ "for" \in Meaning!Openers
      /\ dir \in Int
  BY ChunkAssumption DEF Ops, Events, Branches, Kinds, Meaning!Openers, Direction
<1>2. code' = EmitHole(b2, jop) /\ frames' = Append(frames, g)
  BY DEF ForDo, Push
<1>3. Emitted(code, b1, N, "init", n) /\ IsCode(b1)
  <2>1. Emitted(code, b1, N, "init", n)
    BY <1>1, BeforeFacts, ChunkEmitted
  <2> QED BY <2>1 DEF Emitted
<1>4. Emitted(b1, b2, N, "limit", n) /\ IsCode(b2) /\ b2.ins[b1.pos].val = dir
  <2>1. Emitted(b1, b2, N, "limit", n) /\ b2.ins[b1.pos].val = dir
    BY <1>1, <1>3, BeforeFacts, ConstEmitted
  <2> QED BY <2>1 DEF Emitted
<1>5. Emitted(b2, code', N, jop, 3)
  BY <1>1, <1>2, <1>4, BeforeFacts, HoleEmitted
<1>6. Adds(code, code', N)
  <2>1. Adds(code, b2, N)
    BY <1>3, <1>4, BeforeFacts, AddsTwice DEF Emitted
  <2> QED BY <1>5, <2>1, BeforeFacts, AddsTwice DEF Emitted
<1>7. OneMore(prog, prog', "for") /\ prog'[N].lo = dir /\ ~Labels(frames)
  BY <1>1, BeforeFacts, Consumed, OutsideLabels DEF ForDo
<1>8. Scene(code, code', prog, prog', "for", frames, frames')
  BY <1>6, <1>7, SetScene
<1>9. Placed(code, code', prog, prog', "for", N)
  BY <1>8, ScenePlaces
<1>10. /\ Is(code', code.pos, "init", N) /\ Past(code', code.pos) = b1.pos
       /\ Is(code', b1.pos, "limit", N) /\ code'.ins[b1.pos].val = dir /\ Past(code', b1.pos) = b2.pos
  BY <1>3, <1>4, <1>5 DEF Is, Past, Emitted
<1>11. code'.pos - 3 = b2.pos /\ b2.pos \in Nat /\ Place(code', N) = code.pos /\ Place(code', N + 1) - 3 = b2.pos
  <2>1. b2.pos \in Nat
    BY <1>4 DEF IsCode, Emitted
  <2> QED BY <1>5, <1>9, <2>1 DEF Placed, Emitted
<1>12. Shape(code', prog', N)
  BY <1>5, <1>7, <1>9, <1>10, <1>11 DEF Shape, Placed, Emitted
<1>13. Fresh(code', prog', g, N)
  <2>1. g.kind = "for" /\ g.hole = b2.pos /\ g.head = b1.pos /\ g.brk = code'.pos
    BY DEF NewFrame
  <2>2. LoopHead(code', prog', N) = b1.pos
    BY <1>9, <1>10, <1>11 DEF Placed, LoopHead, Limit
  <2> QED BY <1>9, <1>11, <2>1, <2>2 DEF Placed, Fresh, Starting
<1>14. \A a \in DOMAIN code.ins : code'.ins[a] = code.ins[a]
  BY <1>3, <1>4, <1>5 DEF Emitted
<1>15. Shape(code', prog', Len(prog) + 1) /\ Fresh(code', prog', g, Len(prog) + 1)
  BY <1>12, <1>13
<1>16. "for" \in Meaning!Openers /\ frames' = Append(frames, g) /\ ~Labels(frames)
  BY <1>1, <1>2, <1>7
<1> QED BY <1>8, <1>14, <1>15, <1>16, OpenLaid

(* The branches at S were pointed at "to", and nothing else was changed.    *)
Patched(b, e, S, to) ==
  \A a \in DOMAIN b.ins :
    /\ e.ins[a].op = b.ins[a].op
    /\ a \notin S => e.ins[a] = b.ins[a]
    /\ a \in S => Target(e, a) = to

Branch(b, s, t) == t \in DOMAIN s /\ HasBranch(b, s, t) /\ s[t].k # "break"

LEMMA PatchedRewrites ==
  ASSUME NEW b, IsCode(b), NEW s \in Seq(Tokens), Shaped(b, s), NEW T, \A t \in T : Branch(b, s, t),
         NEW e, NEW to, Patched(b, e, BranchesOf(b, s, T), to)
  PROVE  Rewrites(b, e, s, T, {}, to)
<1>1. ASSUME NEW t \in T
      PROVE  /\ t \in DOMAIN s /\ HasBranch(b, s, t) /\ s[t].k # "break"
             /\ Target(e, BranchAt(b, s, t)) = to
  <2>1. t \in DOMAIN s /\ HasBranch(b, s, t) /\ s[t].k # "break"
    BY <1>1 DEF Branch
  <2>2. BranchAt(b, s, t) \in DOMAIN b.ins
    BY <2>1, BranchFacts DEF Shaped
  <2> QED BY <2>1, <2>2 DEF Patched, BranchesOf
<1>2. ASSUME NEW a \in DOMAIN b.ins
      PROVE  \/ e.ins[a] = b.ins[a]
             \/ e.ins[a].op = b.ins[a].op /\ \E t \in T : a = BranchAt(b, s, t)
  BY <1>2 DEF Patched, BranchesOf
<1> QED BY <1>1, <1>2 DEF Rewrites

(* An instruction was appended and branches before it were patched.         *)
Lengthened(b, e, N, op, n, S, to) ==
  /\ Adds(b, e, N) /\ IsCode(e) /\ e.pos = b.pos + n
  /\ Is(e, b.pos, op, N) /\ e.ins[b.pos].len = n /\ Patched(b, e, S, to)

LEMMA EmitThenPatch ==
  ASSUME NEW b, IsCode(b), NEW c, NEW N, NEW op, NEW n \in Nat, Emitted(b, c, N, op, n),
         NEW S, S \subseteq DOMAIN b.ins, NEW to \in Nat, to < ShortHalf, c.pos < ShortHalf
  PROVE  /\ Lengthened(b, Patch(c, S, to), N, op, n, S, to) /\ Patch(c, S, to).ins[b.pos] = c.ins[b.pos]
<1> PICK e : e = Patch(c, S, to)
  OBVIOUS
<1>1. IsCode(c) /\ b.pos \in DOMAIN c.ins /\ b.pos \notin S
  BY DEF Emitted
<1>2. /\ Adds(c, e, N) /\ IsCode(e) /\ e.pos = c.pos /\ DOMAIN e.ins = DOMAIN c.ins
      /\ \A a \in DOMAIN c.ins :
              /\ e.ins[a].op = c.ins[a].op
              /\ a \notin S => e.ins[a] = c.ins[a]
              /\ a \in S => Target(e, a) = to
  BY <1>1, PatchAdds
<1>3. Adds(b, e, N)
  BY <1>2, AddsTwice DEF Emitted
<1>4. Patched(b, e, S, to)
  BY <1>2 DEF Patched, Emitted
<1>5. Is(e, b.pos, op, N) /\ e.ins[b.pos] = c.ins[b.pos]
  BY <1>1, <1>2 DEF Is, Emitted
<1>6. e.pos = b.pos + n /\ e.ins[b.pos].len = n
  BY <1>2, <1>5 DEF Emitted
<1> QED BY <1>2, <1>3, <1>4, <1>5, <1>6 DEF Lengthened

LEMMA PatchThenEmit ==
  ASSUME NEW b, IsCode(b), NEW S, NEW to \in Nat, to < ShortHalf, b.pos < ShortHalf,
         NEW e, NEW N, NEW op, NEW n \in Nat, Emitted(Patch(b, S, to), e, N, op, n)
  PROVE  Lengthened(b, e, N, op, n, S, to)
<1> PICK c : c = Patch(b, S, to)
  OBVIOUS
<1>1. /\ Adds(b, c, N) /\ IsCode(c) /\ c.pos = b.pos /\ DOMAIN c.ins = DOMAIN b.ins
      /\ \A a \in DOMAIN b.ins :
              /\ c.ins[a].op = b.ins[a].op
              /\ a \notin S => c.ins[a] = b.ins[a]
              /\ a \in S => Target(c, a) = to
  BY PatchAdds
<1>2. Emitted(c, e, N, op, n)
  OBVIOUS
<1>3. Adds(b, e, N)
  BY <1>1, <1>2, AddsTwice DEF Emitted
<1>4. \A a \in DOMAIN b.ins : e.ins[a] = c.ins[a]
  BY <1>1, <1>2 DEF Emitted
<1>5. Patched(b, e, S, to)
  BY <1>1, <1>4 DEF Patched, Target
<1> QED BY <1>1, <1>2, <1>3, <1>5 DEF Lengthened, Emitted

-----------------------------------------------------------------------------
(* The innermost statement.                                                 *)
Inmost(b, s, f, o) ==
  /\ o \in DOMAIN s /\ Open(s, o) /\ Bal(s, o, Len(s)) = 1 /\ FrameOf(f, s, o) = f[Len(f)]
  /\ f[Len(f)].kind \in KindsOf(s[o].k) /\ s[o].k \in Meaning!Openers

LEMMA InmostIs ==
  ASSUME NEW b, NEW s, NEW f, Laid(b, s, f), s \in Seq(Tokens), f \in Seq(Frame), f # <<>>
  PROVE  \E o : Inmost(b, s, f, o)
BY Innermost DEF Laid, Bracketed, Inmost

LEMMA SceneParts ==
  ASSUME NEW b, NEW e, NEW s, NEW s2, NEW k, NEW f, NEW f2, Scene(b, e, s, s2, k, f, f2)
  PROVE  /\ s \in Seq(Tokens) /\ s2 \in Seq(Tokens) /\ f \in Seq(Frame) /\ f2 \in Seq(Frame)
         /\ IsCode(b) /\ IsCode(e) /\ Adds(b, e, Len(s) + 1) /\ OneMore(s, s2, k)
         /\ Laid(b, s, f) /\ Bracketed(s, f) /\ Linked(b, s, f) /\ Shaped(b, s) /\ Owned(s, f) /\ Ordered(s, f)
BY DEF Scene, OneMore, Laid, Bracketed, Adds

LEMMA ElseLaidBy ==
  ASSUME NEW b, NEW e, NEW s, NEW s2, NEW f, NEW f2, Scene(b, e, s, s2, "else", f, f2),
         f # <<>>, f[Len(f)].kind = "if", NEW g, f2 = [f EXCEPT ![Len(f)] = g],
         g.kind = "else", g.hole = b.pos,
         Lengthened(b, e, Len(s) + 1, "goto", 3, {f[Len(f)].hole}, e.pos)
  PROVE  Laid(e, s2, f2)
<1> PICK N : N = Len(s) + 1
  OBVIOUS
<1> PICK to : to = e.pos
  OBVIOUS
<1>1. Placed(b, e, s, s2, "else", N)
  BY ScenePlaces
<1>2. /\ s \in Seq(Tokens) /\ f \in Seq(Frame) /\ f2 \in Seq(Frame) /\ IsCode(b)
      /\ Laid(b, s, f) /\ Bracketed(s, f) /\ Linked(b, s, f) /\ Shaped(b, s)
  BY SceneParts
<1>3. PICK o : Inmost(b, s, f, o)
  BY <1>2, InmostIs
<1>4. s[o].k = "if" /\ o \in DOMAIN s /\ Open(s, o) /\ Bal(s, o, Len(s)) = 1 /\ FrameOf(f, s, o).kind = "if"
  BY <1>3 DEF Inmost, KindsOf, Meaning!Openers
<1>5. f[Len(f)].hole = BranchAt(b, s, o)
  BY <1>2, <1>3, <1>4 DEF Linked, IfLinked, Inmost
<1>6. \A t \in {o} : Branch(b, s, t)
  BY <1>4 DEF Branch, HasBranch, Branchers
<1>7. Patched(b, e, BranchesOf(b, s, {o}), to)
  <2>1. BranchesOf(b, s, {o}) = {f[Len(f)].hole}
    BY <1>5 DEF BranchesOf
  <2> QED BY <2>1 DEF Lengthened
<1>8. Rewrites(b, e, s, {o}, {}, to)
  BY <1>2, <1>6, <1>7, PatchedRewrites
<1>9. Kept(b, e, s, s2, "else", {o}, {}, to)
  BY <1>8, SceneKept
<1>10. TurnedTo(s2, f, f2, g)
  <2>1. Guarded(f, "else")
    BY DEF Guarded, Between, Listing, Labels, Among
  <2>2. \A x : f[Len(f)].kind \in KindsOf(x) => g.kind \in KindsOf(x)
    BY DEF KindsOf
  <2>3. "else" \in Inward /\ "else" \notin Popping
    BY DEF Inward, Popping
  <2> QED BY <2>1, <2>2, <2>3, TurnedBrackets
<1>11. Shape(e, s2, Len(s) + 1)
  BY <1>1 DEF Shape, Placed, Lengthened
<1>12. Bracketed(s2, f2) /\ Topmost(f2) /\ Len(f2) = Len(f) /\ SameUpTo(f, f2, Len(f) - 1) /\ f2[Len(f2)] = g
  BY <1>10 DEF TurnedTo
<1>13. g.hole = BranchAt(e, s2, Len(s) + 1)
  BY <1>1 DEF Placed, Starting
<1>14. Linked(e, s2, f2)
  BY <1>2, <1>4, <1>9, <1>12, <1>13, ElseLinked
<1> QED BY <1>9, <1>11, <1>12, <1>14, SceneLaid

Shorter(f, f2) == f2 = SubSeq(f, 1, Len(f) - 1)

LEMMA EndIfLaidBy ==
  ASSUME NEW b, NEW e, NEW s, NEW s2, NEW f, NEW f2, Scene(b, e, s, s2, "fi", f, f2),
         f # <<>>, f[Len(f)].kind \in {"if", "else"}, Shorter(f, f2),
         Patched(b, e, {f[Len(f)].hole}, b.pos), e.pos = b.pos
  PROVE  Laid(e, s2, f2)
<1> PICK N : N = Len(s) + 1
  OBVIOUS
<1> PICK to : to = b.pos
  OBVIOUS
<1>1. Placed(b, e, s, s2, "fi", N)
  BY ScenePlaces
<1>2. /\ s \in Seq(Tokens) /\ f \in Seq(Frame) /\ f2 \in Seq(Frame) /\ IsCode(b)
      /\ Laid(b, s, f) /\ Bracketed(s, f) /\ Linked(b, s, f) /\ Shaped(b, s)
  BY SceneParts
<1>3. PICK o : Inmost(b, s, f, o)
  BY <1>2, InmostIs
<1>4. s[o].k = "if" /\ o \in DOMAIN s /\ Open(s, o) /\ Bal(s, o, Len(s)) = 1 /\ FrameOf(f, s, o) = f[Len(f)]
  BY <1>3 DEF Inmost, KindsOf, Meaning!Openers
<1>5. IfLinked(b, s, f, o)
  BY <1>2, <1>4 DEF Linked
<1>6. \E x : HeldBy(b, s, f, o, x) /\ f[Len(f)].hole = BranchAt(b, s, x)
  <2>1. CASE FrameOf(f, s, o).kind = "if"
    <3>1. f[Len(f)].hole = BranchAt(b, s, o)
      BY <1>4, <1>5, <2>1 DEF IfLinked
    <3>2. HeldBy(b, s, f, o, o)
      BY <1>4, <2>1 DEF HeldBy
    <3> QED BY <3>1, <3>2
  <2>2. CASE FrameOf(f, s, o).kind # "if"
    <3>1. PICK x \in DOMAIN s :
            /\ Direct(s, o, x) /\ s[x].k = "else" /\ f[Len(f)].hole = BranchAt(b, s, x)
            /\ To(b, s, o) = Place(b, x + 1)
            /\ NoneOf(s, o, o, x - 1, {"else"}) /\ NoneOf(s, o, x + 1, Len(s), {"else"})
      BY <1>4, <1>5, <2>2 DEF IfLinked
    <3>2. HeldBy(b, s, f, o, x)
      BY <2>2, <3>1 DEF HeldBy
    <3> QED BY <3>1, <3>2
  <2> QED BY <2>1, <2>2
<1>7. PICK x : HeldBy(b, s, f, o, x) /\ f[Len(f)].hole = BranchAt(b, s, x)
  BY <1>6
<1>8. \A t \in {x} : Branch(b, s, t)
  BY <1>4, <1>7 DEF Branch, HasBranch, Branchers, HeldBy
<1>9. Patched(b, e, BranchesOf(b, s, {x}), to)
  <2>1. BranchesOf(b, s, {x}) = {f[Len(f)].hole}
    BY <1>7 DEF BranchesOf
  <2> QED BY <2>1
<1>10. Rewrites(b, e, s, {x}, {}, to)
  BY <1>2, <1>8, <1>9, PatchedRewrites
<1>11. Kept(b, e, s, s2, "fi", {x}, {}, to)
  BY <1>10, SceneKept
<1>12. Popped(s2, f, f2)
  <2>1. Guarded(f, "fi") /\ "fi" \in Meaning!Closers
    BY DEF Guarded, Between, Listing, Labels, Among, Meaning!Closers
  <2>2. \A y \in Meaning!Openers : f[Len(f)].kind \in KindsOf(y) => "fi" \in EndsOf(y)
    BY DEF KindsOf, EndsOf, Meaning!Openers
  <2> QED BY <2>1, <2>2, PoppedBrackets DEF Shorter
<1>13. Shape(e, s2, Len(s) + 1)
  BY <1>1 DEF Shape, Placed
<1>14. Bracketed(s2, f2) /\ Topmost(f2) /\ Len(f2) = Len(f) - 1 /\ SameUpTo(f, f2, Len(f) - 1)
  BY <1>12 DEF Popped
<1>15. Linked(e, s2, f2)
  BY <1>2, <1>4, <1>7, <1>11, <1>14, EndIfLinked
<1> QED BY <1>11, <1>13, <1>14, <1>15, SceneLaid

(* The end of a loop: the branches at S and the break marks from brk on     *)
(* lead to "to" now.                                                        *)
Escaped(b, e, S, brk, to) ==
  \A a \in DOMAIN b.ins :
    /\ a \in S => e.ins[a].op = b.ins[a].op /\ Target(e, a) = to
    /\ b.ins[a].op = "break" /\ a >= brk => e.ins[a].op = "goto" /\ Target(e, a) = to
    /\ a \notin S /\ ~(b.ins[a].op = "break" /\ a >= brk) => e.ins[a] = b.ins[a]

Escapes(b, c, e, N, S, brk) ==
  /\ Adds(b, e, N) /\ IsCode(e) /\ e.pos = c.pos /\ Escaped(b, e, S, brk, c.pos)
  /\ DOMAIN e.ins = DOMAIN c.ins
  /\ \A a \in DOMAIN c.ins : a >= b.pos => e.ins[a] = c.ins[a]

LEMMA EscapesBy ==
  ASSUME NEW b, IsCode(b), NEW c, IsCode(c), NEW N, Adds(b, c, N), NEW S, Patched(b, c, S, c.pos),
         c.pos < ShortHalf, NEW brk \in Nat, \A a \in S : a \in DOMAIN b.ins => b.ins[a].op # "break"
  PROVE  Escapes(b, c, TransformBreaks(c, brk, b.pos, c.pos), N, S, brk)
<1> PICK e : e = TransformBreaks(c, brk, b.pos, c.pos)
  OBVIOUS
<1>1. c.pos \in Nat /\ b.pos \in Nat /\ \A a \in DOMAIN b.ins : a \in Nat /\ a <= b.pos - 1 /\ a \in DOMAIN c.ins
  BY DEF IsCode, Adds
<1>2. /\ Adds(c, e, N) /\ IsCode(e) /\ e.pos = c.pos /\ DOMAIN e.ins = DOMAIN c.ins
      /\ \A a \in DOMAIN c.ins :
           /\ ~(a \in brk .. b.pos - 1 /\ c.ins[a].op = "break") => e.ins[a] = c.ins[a]
           /\ a \in brk .. b.pos - 1 /\ c.ins[a].op = "break" => e.ins[a].op = "goto" /\ Target(e, a) = c.pos
  <2>1. Transformed(c, e, N, brk, b.pos, c.pos)
    BY <1>1, TransformAdds
  <2> QED BY <2>1 DEF Transformed
<1>3. Adds(b, e, N)
  BY <1>2, AddsTwice
<1>4. \A a \in DOMAIN c.ins : a >= b.pos => e.ins[a] = c.ins[a]
  <2> SUFFICES ASSUME NEW a \in DOMAIN c.ins, a >= b.pos PROVE a \notin brk .. b.pos - 1
    BY <1>2
  <2> QED BY <1>1
<1>5. ASSUME NEW a \in DOMAIN b.ins
      PROVE  /\ a \in S => e.ins[a].op = b.ins[a].op /\ Target(e, a) = c.pos
             /\ b.ins[a].op = "break" /\ a >= brk => e.ins[a].op = "goto" /\ Target(e, a) = c.pos
             /\ a \notin S /\ ~(b.ins[a].op = "break" /\ a >= brk) => e.ins[a] = b.ins[a]
  <2>1. /\ c.ins[a].op = b.ins[a].op
        /\ a \notin S => c.ins[a] = b.ins[a]
        /\ a \in S => Target(c, a) = c.pos
    BY DEF Patched
  <2>2. a \in brk .. b.pos - 1 <=> a >= brk
    BY <1>1
  <2>3. a \in S => e.ins[a] = c.ins[a]
    BY <1>1, <1>2, <2>1
  <2>4. a \in S => Target(e, a) = c.pos
    BY <2>1, <2>3 DEF Target
  <2> QED BY <1>1, <1>2, <2>1, <2>2, <2>3, <2>4
<1>6. Escaped(b, e, S, brk, c.pos)
  BY <1>5 DEF Escaped
<1> QED BY <1>2, <1>3, <1>4, <1>6 DEF Escapes

Left(b, s, o) ==
  {t \in DOMAIN s : \/ t = o /\ s[o].k # "repeat"
                    \/ s[t].k = "break" /\ t > o /\ Is(b, Place(b, t), "break", t)}

LEMMA LeftRewrites ==
  ASSUME NEW b, IsCode(b), NEW s \in Seq(Tokens), Shaped(b, s), NEW o \in DOMAIN s, s[o].k \in LoopKinds,
         NEW S, s[o].k = "repeat" => S = {}, s[o].k # "repeat" => S = {BranchAt(b, s, o)},
         NEW e, NEW to, Escaped(b, e, S, Place(b, o + 1), to)
  PROVE  Rewrites(b, e, s, Left(b, s, o), {}, to)
<1> PICK T : T = Left(b, s, o)
  OBVIOUS
<1> PICK brk : brk = Place(b, o + 1)
  OBVIOUS
<1>0. o \in Int /\ o + 1 \in Int /\ DOMAIN s \subseteq Int /\ brk \in Nat /\ Escaped(b, e, S, brk, to)
  <2>1. o \in Int /\ o + 1 \in Int /\ DOMAIN s \subseteq Int
    OBVIOUS
  <2> QED BY <2>1, PlaceFacts
<1>1. ASSUME NEW t \in DOMAIN s, s[t].k = "break"
      PROVE  /\ BranchAt(b, s, t) = Place(b, t) /\ HasBranch(b, s, t) /\ Place(b, t) \in Nat
             /\ Is(b, Place(b, t), "break", t) \/ Is(b, Place(b, t), "goto", t)
             /\ Place(b, t) >= brk <=> t > o
  <2>1. BranchAt(b, s, t) = Place(b, t) /\ HasBranch(b, s, t)
    BY <1>1 DEF BranchAt, HasBranch, Branchers
  <2>2. (Is(b, Place(b, t), "break", t) \/ Is(b, Place(b, t), "goto", t)) /\ Place(b, t + 1) = Place(b, t) + 3
    BY <1>1 DEF Shaped, Shape
  <2>3. t \in Int /\ t + 1 \in Int
    BY <1>0
  <2>4. Place(b, t) \in Nat
    BY <2>3, PlaceFacts
  <2>5. t > o => Place(b, t) >= brk
    <3> SUFFICES ASSUME t > o PROVE Place(b, o + 1) <= Place(b, t)
      BY <1>0, <2>4
    <3>1. o + 1 <= t
      BY <1>0, <2>3
    <3> QED BY <1>0, <2>3, <3>1, PlaceMono
  <2>6. ~(t > o) => ~(Place(b, t) >= brk)
    <3> SUFFICES ASSUME ~(t > o) PROVE Place(b, t + 1) <= Place(b, o + 1)
      BY <1>0, <2>2, <2>4
    <3>1. t + 1 <= o + 1
      BY <1>0, <2>3
    <3> QED BY <1>0, <2>3, <3>1, PlaceMono
  <2> QED BY <2>1, <2>2, <2>4, <2>5, <2>6
<1>2. ASSUME s[o].k # "repeat"
      PROVE  HasBranch(b, s, o) /\ BranchAt(b, s, o) \in DOMAIN b.ins /\ s[o].k # "break"
  <2>1. HasBranch(b, s, o) /\ s[o].k # "break"
    BY <1>2 DEF HasBranch, Branchers, LoopKinds
  <2> QED BY <2>1, BranchFacts DEF Shaped
<1>3. T \subseteq DOMAIN s
  BY DEF Left
<1>4. ASSUME NEW t \in T
      PROVE  /\ HasBranch(b, s, t) /\ Target(e, BranchAt(b, s, t)) = to
             /\ s[t].k = "break" => e.ins[BranchAt(b, s, t)].op = "goto"
  <2>1. CASE t = o /\ s[o].k # "repeat"
    <3>1. BranchAt(b, s, o) \in S
      BY <2>1
    <3> QED BY <1>0, <1>2, <2>1, <3>1 DEF Escaped
  <2>2. CASE s[t].k = "break" /\ t > o /\ Is(b, Place(b, t), "break", t)
    <3>1. t \in DOMAIN s
      BY <1>3
    <3>2. BranchAt(b, s, t) = Place(b, t) /\ HasBranch(b, s, t) /\ Place(b, t) >= brk
      BY <1>1, <2>2, <3>1
    <3> QED BY <1>0, <2>2, <3>2 DEF Escaped, Is
  <2> QED BY <2>1, <2>2 DEF Left
<1>5. ASSUME NEW a \in DOMAIN b.ins
      PROVE  \/ e.ins[a] = b.ins[a]
             \/ e.ins[a].op = b.ins[a].op /\ \E t \in T : a = BranchAt(b, s, t)
             \/ /\ b.ins[a].op = "break" /\ e.ins[a].op = "goto"
                /\ \A t \in DOMAIN s : s[t].k = "break" /\ BranchAt(b, s, t) = a => t \in T
  <2>1. CASE a \in S
    <3>1. s[o].k # "repeat" /\ a = BranchAt(b, s, o)
      BY <2>1
    <3>2. o \in T
      BY <3>1 DEF Left
    <3> QED BY <1>0, <2>1, <3>1, <3>2 DEF Escaped
  <2>2. CASE b.ins[a].op = "break" /\ a >= brk
    <3>1. ASSUME NEW t \in DOMAIN s, s[t].k = "break", BranchAt(b, s, t) = a PROVE t \in T
      <4>1. a = Place(b, t) /\ t > o
        BY <1>1, <2>2, <3>1
      <4>2. Is(b, Place(b, t), "break", t)
        BY <1>1, <2>2, <3>1, <4>1 DEF Is
      <4> QED BY <3>1, <4>1, <4>2 DEF Left
    <3> QED BY <1>0, <2>2, <3>1 DEF Escaped
  <2>3. CASE a \notin S /\ ~(b.ins[a].op = "break" /\ a >= brk)
    BY <1>0, <2>3 DEF Escaped
  <2> QED BY <2>1, <2>2, <2>3
<1> QED BY <1>3, <1>4, <1>5 DEF Rewrites

LoopEnd(b, e, s, s2, k, f, f2, o, T, to) ==
  /\ k \in {"od", "until", "forever", "rof"}
  /\ o \in DOMAIN s /\ Open(s, o) /\ Bal(s, o, Len(s)) = 1 /\ s[o].k \in LoopKinds
  /\ f \in Seq(Frame) /\ f2 \in Seq(Frame) /\ Bracketed(s, f) /\ Linked(b, s, f)
  /\ Len(f2) = Len(f) - 1 /\ SameUpTo(f, f2, Len(f) - 1) /\ to = e.pos
  /\ Kept(b, e, s, s2, k, T, {}, to) /\ Loosens(b, s, o, T)
  /\ To(e, s2, Len(s) + 1) = LoopHead(b, s, o)

LEMMA LoopEndDone ==
  ASSUME NEW b, NEW e, NEW s, NEW s2, NEW k, NEW f, NEW f2, NEW o, NEW T, NEW to,
         LoopEnd(b, e, s, s2, k, f, f2, o, T, to)
  PROVE  Linked(e, s2, f2)
<1>1. /\ k \in {"od", "until", "forever", "rof"}
      /\ o \in DOMAIN s /\ Open(s, o) /\ Bal(s, o, Len(s)) = 1 /\ s[o].k \in LoopKinds
      /\ f \in Seq(Frame) /\ f2 \in Seq(Frame) /\ Bracketed(s, f) /\ Linked(b, s, f)
      /\ Len(f2) = Len(f) - 1 /\ SameUpTo(f, f2, Len(f) - 1) /\ to = e.pos
      /\ Kept(b, e, s, s2, k, T, {}, to) /\ Loosens(b, s, o, T)
      /\ To(e, s2, Len(s) + 1) = LoopHead(b, s, o)
  BY DEF LoopEnd
<1> QED BY <1>1, LoopEndLinked

LEMMA LoopLaidBy ==
  ASSUME NEW b, NEW e, NEW s, NEW s2, NEW k \in {"od", "until", "forever", "rof"}, NEW f, NEW f2,
         Scene(b, e, s, s2, k, f, f2),
         f # <<>>, f[Len(f)].kind \in LoopKinds, k \in EndsOf(f[Len(f)].kind), Shorter(f, f2),
         NEW S, f[Len(f)].kind = "repeat" => S = {}, f[Len(f)].kind # "repeat" => S = {f[Len(f)].hole},
         Escaped(b, e, S, f[Len(f)].brk, e.pos),
         Shape(e, s2, Len(s) + 1), To(e, s2, Len(s) + 1) = f[Len(f)].head
  PROVE  Laid(e, s2, f2)
<1> PICK to : to = e.pos
  OBVIOUS
<1>1. /\ s \in Seq(Tokens) /\ f \in Seq(Frame) /\ f2 \in Seq(Frame) /\ IsCode(b)
      /\ Laid(b, s, f) /\ Bracketed(s, f) /\ Linked(b, s, f) /\ Shaped(b, s)
  BY SceneParts
<1>2. PICK o : Inmost(b, s, f, o)
  BY <1>1, InmostIs
<1>3. s[o].k \in LoopKinds /\ o \in DOMAIN s /\ Open(s, o) /\ Bal(s, o, Len(s)) = 1 /\ FrameOf(f, s, o) = f[Len(f)]
      /\ s[o].k = f[Len(f)].kind
  BY <1>2 DEF Inmost, KindsOf, Meaning!Openers, LoopKinds
<1>4. f[Len(f)].head = LoopHead(b, s, o) /\ f[Len(f)].brk = Place(b, o + 1)
      /\ (s[o].k # "repeat" => f[Len(f)].hole = BranchAt(b, s, o))
  BY <1>1, <1>3 DEF Linked, LoopLinked
<1>5. Rewrites(b, e, s, Left(b, s, o), {}, to)
  <2>1. Escaped(b, e, S, Place(b, o + 1), to)
    BY <1>4
  <2>2. (s[o].k = "repeat" => S = {}) /\ (s[o].k # "repeat" => S = {BranchAt(b, s, o)})
    BY <1>3, <1>4
  <2> QED BY <1>1, <1>3, <2>1, <2>2, LeftRewrites
<1>9. Loosens(b, s, o, Left(b, s, o))
  BY <1>3 DEF Left, Leaving, LoopKinds, Loosens
<1>12. PICK T : Rewrites(b, e, s, T, {}, to) /\ Loosens(b, s, o, T)
  BY <1>5, <1>9
<1>6. Kept(b, e, s, s2, k, T, {}, to)
  BY <1>12, SceneKept
<1>7. Popped(s2, f, f2)
  <2>1. Guarded(f, k) /\ k \in Meaning!Closers
    BY DEF Guarded, Between, Listing, Labels, Among, Meaning!Closers, LoopKinds
  <2>2. \A y \in Meaning!Openers : f[Len(f)].kind \in KindsOf(y) => k \in EndsOf(y)
    BY DEF KindsOf, Meaning!Openers, LoopKinds
  <2> QED BY <2>1, <2>2, PoppedBrackets DEF Shorter
<1>8. Bracketed(s2, f2) /\ Topmost(f2) /\ Len(f2) = Len(f) - 1 /\ SameUpTo(f, f2, Len(f) - 1)
  BY <1>7 DEF Popped
<1>10. To(e, s2, Len(s) + 1) = LoopHead(b, s, o)
  BY <1>4
<1>11. Linked(e, s2, f2)
  <2>1. LoopEnd(b, e, s, s2, k, f, f2, o, T, to)
    BY <1>1, <1>3, <1>6, <1>8, <1>10, <1>12 DEF LoopEnd
  <2> QED BY <2>1, LoopEndDone
<1> QED BY <1>6, <1>8, <1>11, SceneLaid

-----------------------------------------------------------------------------
(* What the innermost statement is known to hold.                           *)
LEMMA TopFacts ==
  ASSUME Before, frames # <<>>
  PROVE  Top \in Frame /\ FrameShaped(Top) /\ Len(frames) \in DOMAIN frames
<1>1. Len(frames) \in DOMAIN frames
  BY BeforeFacts
<1> QED BY <1>1 DEF Before, Inductive, TypeOK, Top

LEMMA AddsRoom ==
  ASSUME NEW b, NEW e, NEW n, IsCode(b), Adds(b, e, n), e.pos < ShortHalf
  PROVE  b.pos < ShortHalf
BY ShortAssumption DEF Adds, IsCode

LEMMA ElseLaid ==
  ASSUME Before, InRange', Else
  PROVE  Laid(code', prog', frames')
<1> PICK g : g = [Top EXCEPT !.kind = "else", !.hole = code.pos]
  OBVIOUS
<1> PICK c : c = Patch(code, {Top.hole}, code.pos + 3)
  OBVIOUS
<1>1. "goto" \in Ops /\ "else" \in Kinds /\ 0 \in Int /\ frames # <<>> /\ Top.kind = "if" /\ code'.pos < ShortHalf
  BY DEF Ops, Branches, Kinds, Else, TopIs, InRange
<1>2. IsCode(c) /\ c.pos = code.pos
  BY BeforeFacts, PatchCode
<1>3. Emitted(c, code', Len(prog) + 1, "goto", 3)
  BY <1>1, <1>2, BeforeFacts, HoleEmitted DEF Else
<1>4. code'.pos = code.pos + 3 /\ code.pos + 3 \in Nat /\ code.pos < ShortHalf
  BY <1>1, <1>2, <1>3, BeforeFacts, ShortAssumption DEF Emitted
<1>5. Lengthened(code, code', Len(prog) + 1, "goto", 3, {Top.hole}, code.pos + 3)
  BY <1>1, <1>3, <1>4, BeforeFacts, PatchThenEmit
<1>6. OneMore(prog, prog', "else")
  BY <1>1, BeforeFacts, Consumed DEF Else, ConsumeWord
<1>7. Scene(code, code', prog, prog', "else", frames, frames')
  BY <1>5, <1>6, SetScene DEF Lengthened
<1>8. frames' = [frames EXCEPT ![Len(frames)] = g] /\ g.kind = "else" /\ g.hole = code.pos
  BY <1>1, TopFacts DEF Else, SetTop, Frame
<1>9. Lengthened(code, code', Len(prog) + 1, "goto", 3, {frames[Len(frames)].hole}, code'.pos)
  BY <1>4, <1>5 DEF Top
<1> QED BY <1>1, <1>7, <1>8, <1>9, ElseLaidBy DEF Top

Repatched(b, e, n, S, to) ==
  Adds(b, e, n) /\ IsCode(e) /\ e.pos = b.pos /\ DOMAIN e.ins = DOMAIN b.ins /\ Patched(b, e, S, to)

LEMMA PatchOnly ==
  ASSUME NEW b, IsCode(b), NEW S, NEW to \in Nat, to < ShortHalf, b.pos < ShortHalf, NEW n
  PROVE  Repatched(b, Patch(b, S, to), n, S, to)
BY PatchAdds DEF Repatched, Patched

LEMMA EndIfLaid ==
  ASSUME Before, InRange', EndIf
  PROVE  Laid(code', prog', frames')
<1> PICK c : c = Patch(code, {Top.hole}, code.pos)
  OBVIOUS
<1>1. "fi" \in Kinds /\ 0 \in Int /\ frames # <<>> /\ Top.kind \in {"if", "else"} /\ code'.pos < ShortHalf /\ code' = c
  BY DEF Kinds, EndIf, TopIs, InRange, PatchHere
<1>2. c.pos = code.pos /\ code.pos < ShortHalf /\ code.pos \in Nat
  <2>1. c.pos = code.pos
    BY BeforeFacts, PatchCode
  <2> QED BY <1>1, <2>1, BeforeFacts
<1>3. Repatched(code, code', Len(prog) + 1, {Top.hole}, code.pos)
  <2>1. Repatched(code, c, Len(prog) + 1, {Top.hole}, code.pos)
    BY <1>2, BeforeFacts, PatchOnly
  <2> QED BY <1>1, <2>1
<1>4. OneMore(prog, prog', "fi")
  BY <1>1, BeforeFacts, Consumed DEF EndIf, ConsumeWord
<1>5. Scene(code, code', prog, prog', "fi", frames, frames')
  BY <1>3, <1>4, SetScene DEF Repatched
<1>6. Patched(code, code', {frames[Len(frames)].hole}, code.pos) /\ code'.pos = code.pos
  BY <1>3 DEF Repatched, Top
<1>7. Shorter(frames, frames')
  BY DEF EndIf, Pop, Shorter
<1> QED BY <1>1, <1>5, <1>6, <1>7, EndIfLaidBy DEF Top

(* Code was appended.                                                       *)
Attached(b, e, N) ==
  Adds(b, e, N) /\ IsCode(e) /\ \A a \in DOMAIN b.ins : e.ins[a] = b.ins[a]

(* What was appended is still there when the loop has been closed.          *)
LoopTail(b, c, e, N, S, brk) ==
  /\ Adds(b, e, N) /\ e.pos = c.pos /\ Escaped(b, e, S, brk, e.pos) /\ DOMAIN e.ins = DOMAIN c.ins
  /\ \A a \in DOMAIN c.ins : a >= b.pos => e.ins[a] = c.ins[a]

LEMMA TailKept ==
  ASSUME NEW b, IsCode(b), NEW c, NEW N, Attached(b, c, N), c.pos < ShortHalf, NEW brk \in Nat
  PROVE  LoopTail(b, c, TransformBreaks(c, brk, b.pos, c.pos), N, {}, brk)
<1>1. Patched(b, c, {}, c.pos) /\ IsCode(c) /\ Adds(b, c, N)
  BY DEF Patched, Attached
<1>2. \A a \in {} : a \in DOMAIN b.ins => b.ins[a].op # "break"
  OBVIOUS
<1>3. Escapes(b, c, TransformBreaks(c, brk, b.pos, c.pos), N, {}, brk)
  BY <1>1, <1>2, EscapesBy
<1> QED BY <1>3 DEF Escapes, LoopTail

LEMMA TailPatched ==
  ASSUME NEW b, IsCode(b), NEW c, NEW N, Attached(b, c, N), c.pos < ShortHalf, NEW brk \in Nat,
         NEW S, S \subseteq DOMAIN b.ins, \A a \in S : b.ins[a].op # "break"
  PROVE  LoopTail(b, c, TransformBreaks(PatchHere(c, S), brk, b.pos, PatchHere(c, S).pos), N, S, brk)
<1> PICK d : d = PatchHere(c, S)
  OBVIOUS
<1> PICK e : e = TransformBreaks(d, brk, b.pos, d.pos)
  OBVIOUS
<1>1. c.pos \in Nat /\ b.pos \in Nat /\ IsCode(c) /\ Adds(b, c, N)
      /\ \A a \in DOMAIN b.ins : a \in Nat /\ a < b.pos
  BY DEF Attached, IsCode
<1>2. Repatched(c, d, N, S, c.pos)
  BY <1>1, PatchOnly DEF PatchHere
<1>3. IsCode(d) /\ d.pos = c.pos /\ DOMAIN d.ins = DOMAIN c.ins
  BY <1>2 DEF Repatched
<1>4. Adds(b, d, N)
  BY <1>1, <1>2, AddsTwice DEF Repatched
<1>5. Patched(b, d, S, d.pos)
  BY <1>2, <1>3 DEF Patched, Attached, Adds, Repatched
<1>6. \A a \in S : a \in DOMAIN b.ins => b.ins[a].op # "break"
  OBVIOUS
<1>7. d.pos < ShortHalf
  BY <1>3
<1>8. Escapes(b, d, e, N, S, brk)
  BY <1>3, <1>4, <1>5, <1>6, <1>7, EscapesBy
<1>9. \A a \in DOMAIN c.ins : a >= b.pos => d.ins[a] = c.ins[a]
  <2> SUFFICES ASSUME NEW a \in DOMAIN c.ins, a >= b.pos PROVE a \notin S
    BY <1>2 DEF Repatched, Patched
  <2>1. a \notin DOMAIN b.ins
    BY <1>1
  <2> QED BY <2>1
<1>10. LoopTail(b, c, e, N, S, brk)
  BY <1>3, <1>8, <1>9 DEF Escapes, LoopTail
<1> QED BY <1>10

(* Straight-line code, and a jump back.                                     *)
Jumps(b, e, N, op, n, jop, to) ==
  /\ TestLaid(b, e, N, op, n, jop) /\ Target(e, b.pos + n) = to

LEMMA JumpBack ==
  ASSUME NEW b, IsCode(b), NEW op \in Ops, NEW jop \in Ops, NEW n \in Nat \ {0}, prog \in Seq(Tokens),
         NEW to \in Nat, to <= b.pos, EmitJump(EmitChunk(b, op, n), jop, to).pos < ShortHalf
  PROVE  Jumps(b, EmitJump(EmitChunk(b, op, n), jop, to), Len(prog) + 1, op, n, jop, to)
<1> PICK c : c = EmitChunk(b, op, n)
  OBVIOUS
<1> PICK e : e = EmitJump(c, jop, to)
  OBVIOUS
<1> PICK N : N = Len(prog) + 1
  OBVIOUS
<1>1. Emitted(b, c, N, op, n) /\ IsCode(c)
  <2>1. Emitted(b, c, N, op, n)
    BY ChunkEmitted
  <2> QED BY <2>1 DEF Emitted
<1>4. b.pos \in Nat /\ b.pos + n + 3 \in Nat /\ b.pos # b.pos + n /\ c.pos = b.pos + n /\ to <= c.pos /\ c.pos \in Nat
  BY <1>1 DEF IsCode, Emitted
<1>2. Emitted(c, e, N, jop, 3) /\ Target(e, c.pos) = to
  <2>1. e.pos = c.pos + 3
    BY DEF EmitJump, Emit
  <2>2. c.pos < ShortHalf
    BY <1>4, <2>1, ShortAssumption
  <2> QED BY <1>1, <1>4, <2>2, JumpEmitted
<1>3. Adds(b, e, N)
  BY <1>1, <1>2, AddsTwice DEF Emitted
<1>5. Is(e, b.pos, op, N) /\ e.ins[b.pos].len = n
  BY <1>1, <1>2 DEF Is, Emitted
<1>6. TestLaid(b, e, N, op, n, jop)
  BY <1>1, <1>2, <1>3, <1>4, <1>5 DEF TestLaid, Emitted
<1>7. Target(e, b.pos + n) = to
  BY <1>2, <1>4
<1> QED BY <1>6, <1>7 DEF Jumps

LEMMA JumpsGrown ==
  ASSUME NEW b, NEW e, NEW N, NEW op, NEW n, NEW jop, NEW to, Jumps(b, e, N, op, n, jop, to)
  PROVE  Attached(b, e, N)
BY DEF Jumps, TestLaid, Attached

(* The shape of a token that ends with the jump back.                       *)
LEMMA TailTests ==
  ASSUME NEW b, NEW c, NEW e, NEW N, NEW op, NEW n \in Nat \ {0}, NEW jop, NEW to, Jumps(b, c, N, op, n, jop, to),
         NEW S, NEW brk, LoopTail(b, c, e, N, S, brk),
         NEW s, NEW s2, NEW k, Placed(b, e, s, s2, k, N), k \notin Starting
  PROVE  Tests(e, N, op, {jop}) /\ To(e, s2, N) = to
<1>1. b.pos \in Nat /\ c.pos = b.pos + n + 3 /\ e.pos - 3 = b.pos + n
  BY DEF Jumps, TestLaid, LoopTail
<1>2. b.pos \in DOMAIN c.ins /\ b.pos + n \in DOMAIN c.ins /\ DOMAIN e.ins = DOMAIN c.ins
  BY DEF Jumps, TestLaid, LoopTail
<1>3. e.ins[b.pos] = c.ins[b.pos] /\ e.ins[b.pos + n] = c.ins[b.pos + n]
  <2>1. b.pos >= b.pos /\ b.pos + n >= b.pos
    BY <1>1
  <2> QED BY <1>2, <2>1 DEF LoopTail
<1>4. Is(e, b.pos, op, N) /\ e.ins[b.pos].len = n /\ Is(e, b.pos + n, jop, N) /\ e.ins[b.pos + n].len = 3
  BY <1>2, <1>3 DEF Jumps, TestLaid, Is
<1>5. Place(e, N) = b.pos /\ Place(e, N + 1) - 3 = b.pos + n /\ BranchAt(e, s2, N) = b.pos + n
  BY <1>1 DEF Placed
<1>6. Past(e, b.pos) = b.pos + n
  BY <1>4 DEF Past
<1>7. Tests(e, N, op, {jop})
  BY <1>4, <1>5, <1>6 DEF Tests, Is
<1>8. To(e, s2, N) = to
  BY <1>3, <1>5 DEF To, Target, Jumps
<1> QED BY <1>7, <1>8

LoopHolds(b, g) ==
  /\ g.head \in Nat /\ g.head <= b.pos /\ g.brk \in Nat
  /\ g.kind # "repeat" => g.hole \in DOMAIN b.ins /\ b.ins[g.hole].op # "break"

LEMMA InLoopTop ==
  ASSUME Before, frames # <<>>, Top.kind \in LoopKinds
  PROVE  LoopHolds(code, Top)
<1>1. Top.head \in Nat /\ Top.brk \in Nat /\ Top.head \in DOMAIN code.ins \cup {code.pos}
  <2>1. Top \in Frame /\ FrameShaped(Top)
    BY TopFacts
  <2>2. Top.head \in Nat /\ Top.brk \in Nat
    BY <2>1 DEF Frame
  <2>3. Top.head \in DOMAIN code.ins \cup {code.pos}
    BY <2>1 DEF FrameShaped
  <2> QED BY <2>2, <2>3
<1>2. Top.head <= code.pos
  BY <1>1, BeforeFacts DEF IsCode
<1>3. ASSUME Top.kind # "repeat" PROVE Top.hole \in DOMAIN code.ins /\ code.ins[Top.hole].op # "break"
  <2>1. PICK o : Inmost(code, prog, frames, o)
    BY BeforeFacts, InmostIs DEF Before
  <2>2. o \in DOMAIN prog /\ Open(prog, o) /\ FrameOf(frames, prog, o) = Top /\ prog[o].k = Top.kind
    BY <2>1 DEF Inmost, Top, KindsOf, Meaning!Openers, LoopKinds
  <2>3. Top.hole = BranchAt(code, prog, o)
    BY <1>3, <2>2, BeforeFacts DEF Linked, LoopLinked
  <2>4. HasBranch(code, prog, o) /\ prog[o].k # "break"
    BY <1>3, <2>2 DEF HasBranch, Branchers, LoopKinds
  <2>5. Shape(code, prog, o) /\ IsCode(code) /\ prog \in Seq(Tokens)
    BY <2>2, BeforeFacts DEF Shaped
  <2> QED BY <2>2, <2>3, <2>4, <2>5, BranchFacts
<1> QED BY <1>1, <1>2, <1>3 DEF LoopHolds

LEMMA EndWhileLaid ==
  ASSUME Before, InRange', EndWhile
  PROVE  Laid(code', prog', frames')
<1> PICK c : c = EmitJump(code, "goto", Top.head)
  OBVIOUS
<1> PICK d : d = PatchHere(c, {Top.hole})
  OBVIOUS
<1> PICK N : N = Len(prog) + 1
  OBVIOUS
<1> PICK S : S = {Top.hole}
  OBVIOUS
<1>1. /\ "goto" \in Ops /\ "od" \in Kinds /\ 0 \in Int /\ frames # <<>> /\ Top.kind = "while"
      /\ code'.pos < ShortHalf /\ code' = TransformBreaks(d, Top.brk, code.pos, d.pos)
  BY DEF Ops, Branches, Kinds, EndWhile, TopIs, InRange
<1>2. Top.head \in Nat /\ Top.head <= code.pos /\ Top.brk \in Nat
      /\ Top.hole \in DOMAIN code.ins /\ code.ins[Top.hole].op # "break"
  <2>1. Top.kind \in LoopKinds
    BY <1>1 DEF LoopKinds
  <2>2. LoopHolds(code, Top)
    BY <1>1, <2>1, InLoopTop
  <2> QED BY <1>1, <2>2 DEF LoopHolds
<1>3. c.pos = code.pos + 3 /\ c.pos < ShortHalf /\ code.pos < ShortHalf
  <2>1. c.pos = code.pos + 3 /\ d.pos = c.pos /\ code'.pos = d.pos
    BY <1>1 DEF EmitJump, Emit, PatchHere, Patch, TransformBreaks
  <2> QED BY <1>1, <2>1, BeforeFacts, ShortAssumption
<1>4. Emitted(code, c, N, "goto", 3) /\ Target(c, code.pos) = Top.head
  BY <1>1, <1>2, <1>3, BeforeFacts, JumpEmitted
<1>5. Attached(code, c, N)
  BY <1>4 DEF Emitted, Attached
<1>6. LoopTail(code, c, code', N, S, Top.brk)
  <2>1. S \subseteq DOMAIN code.ins /\ \A a \in S : code.ins[a].op # "break"
    BY <1>2
  <2>2. LoopTail(code, c, TransformBreaks(PatchHere(c, S), Top.brk, code.pos, PatchHere(c, S).pos), N, S, Top.brk)
    BY <1>2, <1>3, <1>5, <2>1, BeforeFacts, TailPatched
  <2> QED BY <1>1, <2>2
<1>7. OneMore(prog, prog', "od")
  BY <1>1, BeforeFacts, Consumed DEF EndWhile, ConsumeWord
<1>8. Scene(code, code', prog, prog', "od", frames, frames')
  BY <1>6, <1>7, SetScene DEF LoopTail
<1>9. Placed(code, code', prog, prog', "od", N)
  BY <1>8, ScenePlaces
<1>10. code'.pos = code.pos + 3 /\ code'.ins[code.pos] = c.ins[code.pos] /\ code.pos \in DOMAIN code'.ins
  BY <1>3, <1>4, <1>6, BeforeFacts, SMTT(20) DEF LoopTail, Emitted, Is
<1>11. Shape(code', prog', N)
  BY <1>4, <1>9, <1>10 DEF Shape, Placed, Emitted, Is
<1>12. To(code', prog', N) = Top.head
  BY <1>4, <1>9, <1>10 DEF To, Placed, Starting, Target
<1>13. Shorter(frames, frames') /\ Escaped(code, code', S, Top.brk, code'.pos)
  BY <1>6 DEF EndWhile, Pop, Shorter, LoopTail
<1>14. "od" \in {"od", "until", "forever", "rof"} /\ "od" \in EndsOf(Top.kind) /\ Top.kind \in LoopKinds
       /\ Top.kind # "repeat"
  BY <1>1 DEF EndsOf, LoopKinds
<1> QED BY <1>1, <1>8, <1>11, <1>12, <1>13, <1>14, LoopLaidBy DEF Top

LEMMA EndForLaid ==
  ASSUME Before, InRange', NEW n \in ChunkSizes, EndFor(n)
  PROVE  Laid(code', prog', frames')
<1> PICK c : c = EmitJump(EmitChunk(code, "incr", n), "goto", Top.head)
  OBVIOUS
<1> PICK d : d = PatchHere(c, {Top.hole})
  OBVIOUS
<1> PICK N : N = Len(prog) + 1
  OBVIOUS
<1> PICK S : S = {Top.hole}
  OBVIOUS
<1>1. /\ "goto" \in Ops /\ "incr" \in Ops /\ "rof" \in Kinds /\ 0 \in Int /\ frames # <<>> /\ Top.kind = "for"
      /\ code'.pos < ShortHalf /\ code' = TransformBreaks(d, Top.brk, code.pos, d.pos) /\ n \in Nat \ {0}
  BY ChunkAssumption DEF Ops, Branches, Events, Kinds, EndFor, TopIs, InRange
<1>2. Top.head \in Nat /\ Top.head <= code.pos /\ Top.brk \in Nat
      /\ Top.hole \in DOMAIN code.ins /\ code.ins[Top.hole].op # "break"
  <2>1. Top.kind \in LoopKinds
    BY <1>1 DEF LoopKinds
  <2>2. LoopHolds(code, Top)
    BY <1>1, <2>1, InLoopTop
  <2> QED BY <1>1, <2>2 DEF LoopHolds
<1>3. c.pos < ShortHalf
  <2>1. d.pos = c.pos /\ code'.pos = d.pos
    BY <1>1 DEF PatchHere, Patch, TransformBreaks
  <2> QED BY <1>1, <2>1
<1>4. Jumps(code, c, N, "incr", n, "goto", Top.head)
  BY <1>1, <1>2, <1>3, BeforeFacts, JumpBack
<1>5. Attached(code, c, N)
  BY <1>4, JumpsGrown
<1>6. LoopTail(code, c, code', N, S, Top.brk)
  <2>1. S \subseteq DOMAIN code.ins /\ \A a \in S : code.ins[a].op # "break"
    BY <1>2
  <2>2. LoopTail(code, c, TransformBreaks(PatchHere(c, S), Top.brk, code.pos, PatchHere(c, S).pos), N, S, Top.brk)
    BY <1>2, <1>3, <1>5, <2>1, BeforeFacts, TailPatched
  <2> QED BY <1>1, <2>2
<1>7. OneMore(prog, prog', "rof")
  BY <1>1, BeforeFacts, Consumed DEF EndFor, ConsumeWord
<1>8. Scene(code, code', prog, prog', "rof", frames, frames')
  BY <1>6, <1>7, SetScene DEF LoopTail
<1>9. Placed(code, code', prog, prog', "rof", N)
  BY <1>8, ScenePlaces
<1>10. Tests(code', N, "incr", {"goto"}) /\ To(code', prog', N) = Top.head
  <2>1. "rof" \notin Starting
    BY DEF Starting
  <2> QED BY <1>1, <1>4, <1>6, <1>9, <2>1, TailTests
<1>11. Shape(code', prog', N)
  BY <1>9, <1>10 DEF Shape, Placed
<1>13. Shorter(frames, frames') /\ Escaped(code, code', S, Top.brk, code'.pos)
  BY <1>6 DEF EndFor, Pop, Shorter, LoopTail
<1>14. "rof" \in {"od", "until", "forever", "rof"} /\ "rof" \in EndsOf(Top.kind) /\ Top.kind \in LoopKinds
       /\ Top.kind # "repeat"
  BY <1>1 DEF EndsOf, LoopKinds
<1> QED BY <1>1, <1>8, <1>10, <1>11, <1>13, <1>14, LoopLaidBy DEF Top

LEMMA CloseRepeatLaid ==
  ASSUME Before, InRange', NEW n \in Nat \ {0}, NEW word, NEW op, CloseRepeat(word, op, n),
         (word = "until" /\ op = "cond") \/ (word = "forever" /\ op = "false")
  PROVE  Laid(code', prog', frames')
<1> PICK c : c = EmitJump(EmitChunk(code, op, n), "ifeq", Top.head)
  OBVIOUS
<1> PICK N : N = Len(prog) + 1
  OBVIOUS
<1>1. /\ "ifeq" \in Ops /\ op \in Ops /\ word \in Kinds /\ 0 \in Int /\ frames # <<>> /\ Top.kind = "repeat"
      /\ code'.pos < ShortHalf /\ code' = TransformBreaks(c, Top.brk, code.pos, c.pos)
  BY DEF Ops, Branches, Events, Silent, Kinds, CloseRepeat, TopIs, InRange
<1>2. Top.head \in Nat /\ Top.head <= code.pos /\ Top.brk \in Nat
  <2>1. Top.kind \in LoopKinds
    BY <1>1 DEF LoopKinds
  <2>2. LoopHolds(code, Top)
    BY <1>1, <2>1, InLoopTop
  <2> QED BY <1>1, <2>2 DEF LoopHolds
<1>3. c.pos < ShortHalf
  <2>1. TransformBreaks(c, Top.brk, code.pos, c.pos).pos = c.pos
    <3>1. c = [ins |-> c.ins, pos |-> c.pos, depth |-> c.depth]
      BY DEF EmitJump, Emit
    <3> QED BY <3>1 DEF TransformBreaks
  <2> QED BY <1>1, <2>1
<1>4. Jumps(code, c, N, op, n, "ifeq", Top.head)
  BY <1>1, <1>2, <1>3, BeforeFacts, JumpBack
<1>5. Attached(code, c, N)
  BY <1>4, JumpsGrown
<1>6. LoopTail(code, c, code', N, {}, Top.brk)
  <2>2. LoopTail(code, c, TransformBreaks(c, Top.brk, code.pos, c.pos), N, {}, Top.brk)
    BY <1>2, <1>3, <1>5, BeforeFacts, TailKept
  <2> QED BY <1>1, <2>2
<1>7. OneMore(prog, prog', word)
  BY <1>1, BeforeFacts, Consumed DEF CloseRepeat, ConsumeWord
<1>8. Scene(code, code', prog, prog', word, frames, frames')
  BY <1>6, <1>7, SetScene DEF LoopTail
<1>9. Placed(code, code', prog, prog', word, N)
  BY <1>8, ScenePlaces
<1>10. Tests(code', N, op, {"ifeq"}) /\ To(code', prog', N) = Top.head
  <2>1. word \notin Starting
    BY DEF Starting
  <2> QED BY <1>1, <1>4, <1>6, <1>9, <2>1, TailTests
<1>11. Shape(code', prog', N)
  BY <1>9, <1>10 DEF Shape, Placed
<1>13. Shorter(frames, frames') /\ Escaped(code, code', {}, Top.brk, code'.pos)
  BY <1>6 DEF CloseRepeat, Pop, Shorter, LoopTail
<1>14. word \in {"od", "until", "forever", "rof"} /\ word \in EndsOf(Top.kind) /\ Top.kind \in LoopKinds
  BY <1>1 DEF EndsOf, LoopKinds
<1> QED BY <1>1, <1>8, <1>10, <1>11, <1>13, <1>14, LoopLaidBy DEF Top

(* The innermost statement is g now.                                        *)
Retopped(f, f2, g) == f2 = [f EXCEPT ![Len(f)] = g]

LEMMA CaseTurn ==
  ASSUME NEW b, NEW e, NEW s, NEW s2, NEW k \in Inward, NEW f, NEW f2, Scene(b, e, s, s2, k, f, f2),
         NEW o, Inmost(b, s, f, o), s[o].k = "case", NEW T, NEW V, NEW to, Rewrites(b, e, s, T, V, to)
  PROVE  Stands(b, e, s, s2, k, f, f2, T, V, to, o)
<1>1. Kept(b, e, s, s2, k, T, V, to)
  BY SceneKept
<1>2. Bracketed(s, f) /\ Linked(b, s, f) /\ f \in Seq(Frame) /\ f2 \in Seq(Frame)
  BY SceneParts
<1>3. Delta(k) = 0
  BY DEF Delta, Inward, Meaning!Openers, Meaning!Closers
<1> QED BY <1>1, <1>2, <1>3 DEF Stands, Inmost

(* A frame of a case statement belongs to one.                              *)
LEMMA InmostCase ==
  ASSUME NEW b, NEW s, NEW f, NEW o, Inmost(b, s, f, o), f[Len(f)].kind \in {"labels", "arm", "caseelse"}
  PROVE  s[o].k = "case"
BY DEF Inmost, KindsOf, Meaning!Openers

LEMMA LabelLaidBy ==
  ASSUME NEW b, NEW e, NEW s, NEW s2, NEW f, NEW f2, Scene(b, e, s, s2, "label", f, f2),
         f # <<>>, f[Len(f)].kind = "labels", NEW g, Retopped(f, f2, g),
         g.kind = "labels", g.arms = f[Len(f)].arms \cup {e.pos - 3}, g.ends = f[Len(f)].ends,
         \A a \in DOMAIN b.ins : e.ins[a] = b.ins[a],
         Shape(e, s2, Len(s) + 1), e.ins[e.pos - 3].op \notin {"ifne", "if_icmpne"}
  PROVE  Laid(e, s2, f2)
<1> PICK to : to = 0
  OBVIOUS
<1> PICK T : T = {}
  OBVIOUS
<1> PICK V : V = {}
  OBVIOUS
<1>1. Rewrites(b, e, s, T, V, to)
  BY Unchanged
<1>2. Bracketed(s, f) /\ Linked(b, s, f) /\ f \in Seq(Frame) /\ f2 \in Seq(Frame) /\ s \in Seq(Tokens) /\ Laid(b, s, f)
  BY SceneParts
<1>3. PICK o : Inmost(b, s, f, o)
  BY <1>2, InmostIs
<1>4. s[o].k = "case"
  BY <1>3, InmostCase
<1>5. Stands(b, e, s, s2, "label", f, f2, T, V, to, o)
  BY <1>1, <1>3, <1>4, CaseTurn DEF Inward
<1>6. TurnedTo(s2, f, f2, g)
  <2>1. Guarded(f, "label")
    BY DEF Guarded, Labels, Between, Listing, Among
  <2>2. \A x : f[Len(f)].kind \in KindsOf(x) => g.kind \in KindsOf(x)
    OBVIOUS
  <2>3. "label" \in Inward /\ ("label" \in Popping <=> g.kind = "labels" /\ g.arms = {})
        /\ ("label" = "label" <=> g.kind = "labels" /\ g.arms # {})
    BY DEF Inward, Popping
  <2> QED BY <2>1, <2>2, <2>3, TurnedBrackets DEF Retopped
<1>7. Len(f2) = Len(f) /\ SameUpTo(f, f2, Len(f) - 1) /\ f2[Len(f2)] = g /\ Bracketed(s2, f2) /\ Topmost(f2)
  BY <1>6 DEF TurnedTo
<1>8. BranchAt(e, s2, Len(s) + 1) = e.pos - 3
  <2>1. Placed(b, e, s, s2, "label", Len(s) + 1)
    BY ScenePlaces
  <2> QED BY <2>1 DEF Placed, Starting
<1>9. Linked(e, s2, f2)
  <2>1. f2[Len(f2)].kind = "labels" /\ f2[Len(f2)].arms = f[Len(f)].arms \cup {BranchAt(e, s2, Len(s) + 1)}
        /\ f2[Len(f2)].ends = f[Len(f)].ends
    BY <1>7, <1>8
  <2>2. ~TurnedAt(e, s2, Len(s) + 1)
    BY <1>8 DEF TurnedAt
  <2> QED BY <1>5, <1>7, <2>1, <2>2, LabelStep
<1>10. Kept(b, e, s, s2, "label", T, V, to)
  BY <1>5 DEF Stands
<1> QED BY <1>7, <1>9, <1>10, SceneLaid

-----------------------------------------------------------------------------
LEMMA LabelLaid ==
  ASSUME Before, ~errors', NEW n \in ChunkSizes, NEW v \in Values, Label(n, v)
  PROVE  Laid(code', prog', frames')
<1> PICK op : op = IF Top.str THEN "strlabel" ELSE "label"
  OBVIOUS
<1> PICK jop : jop = IF Top.str THEN "ifeq" ELSE "if_icmpeq"
  OBVIOUS
<1> PICK c : c = Emit(code, op, n, 0, v)
  OBVIOUS
<1> PICK N : N = Len(prog) + 1
  OBVIOUS
<1>1. /\ op \in Ops /\ jop \in Ops /\ "label" \in Kinds /\ v \in Int /\ n \in Nat \ {0}
      /\ frames # <<>> /\ Top.kind = "labels" /\ jop \notin {"ifne", "if_icmpne"}
      /\ (op = "label" /\ jop \in {"if_icmpeq", "if_icmpne"}) \/ (op = "strlabel" /\ jop \in {"ifeq", "ifne"})
  BY ChunkAssumption, ValuesAssumption DEF Ops, Branches, Silent, Kinds, Label, TopIs
<1>2. Emitted(code, c, N, op, n) /\ c.ins[code.pos].val = v /\ IsCode(c)
  <2>1. Emitted(code, c, N, op, n) /\ c.ins[code.pos].val = v
    BY <1>1, BeforeFacts, ConstEmitted
  <2> QED BY <2>1 DEF Emitted
<1>3. Emitted(c, code', N, jop, 3)
  <2>1. code' = EmitHole(c, jop)
    BY DEF Label
  <2> QED BY <1>1, <1>2, <2>1, BeforeFacts, HoleEmitted
<1>4. TestLaid(code, code', N, op, n, jop) /\ code'.ins[code.pos].val = v
  <2>1. Adds(code, code', N)
    BY <1>2, <1>3, BeforeFacts, AddsTwice DEF Emitted
  <2>2. Is(code', code.pos, op, N) /\ code'.ins[code.pos].len = n /\ code'.ins[code.pos].val = v
    BY <1>2, <1>3 DEF Is, Emitted
  <2>3. code.pos \in Nat /\ code.pos + n + 3 \in Nat /\ code.pos # code.pos + n
    BY <1>1, BeforeFacts
  <2> QED BY <1>2, <1>3, <2>1, <2>2, <2>3 DEF TestLaid, Emitted
<1>5. /\ OneMore(prog, prog', "label") /\ prog'[N].lo = v /\ prog'[N].hi = v
  BY <1>1, BeforeFacts, Consumed DEF Label
<1>6. Scene(code, code', prog, prog', "label", frames, frames')
  BY <1>4, <1>5, SetScene DEF TestLaid
<1>7. Placed(code, code', prog, prog', "label", N)
  BY <1>6, ScenePlaces
<1>8. Tests(code', N, op, {jop}) /\ code'.pos - 3 = code.pos + n
  BY <1>1, <1>4, <1>7, TestedShape
<1>9. Shape(code', prog', N)
  <2>1. PlainLabel(code', prog', N)
    BY <1>1, <1>4, <1>5, <1>7, <1>8 DEF PlainLabel, Tests, Placed
  <2> QED BY <1>7, <2>1 DEF Shape, Placed
<1>10. c.pos = code'.pos - 3 /\ code'.ins[code'.pos - 3].op = jop
  BY <1>2, <1>4, <1>8 DEF Emitted, TestLaid, Is
<1>11. \E g : /\ Retopped(frames, frames', g) /\ g.kind = "labels" /\ g.arms = Top.arms \cup {c.pos}
              /\ g.ends = Top.ends
  <2>1. Top \in Frame
    BY <1>1, TopFacts
  <2>2. frames' = [frames EXCEPT ![Len(frames)] =
             IF Clashes(v, v) THEN [Top EXCEPT !.arms = @ \cup {c.pos}]
             ELSE Remember([Top EXCEPT !.arms = @ \cup {c.pos}], v, v)]
    BY DEF Label, SetTop
  <2> PICK h : h = [Top EXCEPT !.arms = @ \cup {c.pos}]
    OBVIOUS
  <2>3. h.kind = "labels" /\ h.arms = Top.arms \cup {c.pos} /\ h.ends = Top.ends
    BY <1>1, <2>1 DEF Frame
  <2>4. /\ Remember(h, v, v).kind = h.kind /\ Remember(h, v, v).arms = h.arms
        /\ Remember(h, v, v).ends = h.ends
    <3>1. h \in [DOMAIN h -> {h[x] : x \in DOMAIN h}]
      BY <2>1 DEF Frame
    <3> QED BY <3>1 DEF Remember
  <2>5. CASE Clashes(v, v)
    <3>1. Retopped(frames, frames', h)
      BY <2>2, <2>5 DEF Retopped
    <3> QED BY <2>3, <3>1
  <2>6. CASE ~Clashes(v, v)
    <3>1. Retopped(frames, frames', Remember(h, v, v))
      BY <2>2, <2>6 DEF Retopped
    <3> QED BY <2>3, <2>4, <3>1
  <2> QED BY <2>5, <2>6
<1>12. PICK g : /\ Retopped(frames, frames', g) /\ g.kind = "labels" /\ g.arms = Top.arms \cup {c.pos}
                /\ g.ends = Top.ends
  BY <1>11
<1>13. \A a \in DOMAIN code.ins : code'.ins[a] = code.ins[a]
  BY <1>4 DEF TestLaid
<1>14. g.arms = frames[Len(frames)].arms \cup {code'.pos - 3} /\ g.ends = frames[Len(frames)].ends
       /\ frames[Len(frames)].kind = "labels"
  BY <1>1, <1>10, <1>12 DEF Top
<1>15. code'.ins[code'.pos - 3].op \notin {"ifne", "if_icmpne"}
  BY <1>1, <1>10
<1> QED BY <1>1, <1>6, <1>9, <1>12, <1>13, <1>14, <1>15, LabelLaidBy

(* The code of a range of labels, before the branch at x is patched.        *)
Ranged(b, e, N, n, lo, hi) ==
  LET x == b.pos + n
      y == x + 3
      j == y + n
  IN /\ Adds(b, e, N) /\ IsCode(e) /\ e.pos = j + 3
     /\ \A a \in DOMAIN b.ins : e.ins[a] = b.ins[a]
     /\ Is(e, b.pos, "label", N) /\ e.ins[b.pos].len = n /\ e.ins[b.pos].val = lo
     /\ Is(e, x, "if_icmplt", N) /\ e.ins[x].len = 3
     /\ Is(e, y, "label", N) /\ e.ins[y].len = n /\ e.ins[y].val = hi
     /\ Is(e, j, "if_icmple", N) /\ e.ins[j].len = 3

EmitRange(b, n, lo, hi) ==
  EmitHole(Emit(EmitHole(Emit(b, "label", n, 0, lo), "if_icmplt"), "label", n, 0, hi), "if_icmple")

LEMMA RangeEmitted ==
  ASSUME NEW b, IsCode(b), NEW n \in Nat \ {0}, NEW lo \in Int, NEW hi \in Int, prog \in Seq(Tokens)
  PROVE  /\ Ranged(b, EmitRange(b, n, lo, hi), Len(prog) + 1, n, lo, hi)
         /\ Emit(b, "label", n, 0, lo).pos = b.pos + n
         /\ Emit(EmitHole(Emit(b, "label", n, 0, lo), "if_icmplt"), "label", n, 0, hi).pos = b.pos + n + 3 + n
<1> PICK N : N = Len(prog) + 1
  OBVIOUS
<1> PICK b1 : b1 = Emit(b, "label", n, 0, lo)
  OBVIOUS
<1> PICK b2 : b2 = EmitHole(b1, "if_icmplt")
  OBVIOUS
<1> PICK b3 : b3 = Emit(b2, "label", n, 0, hi)
  OBVIOUS
<1> PICK e : e = EmitHole(b3, "if_icmple")
  OBVIOUS
<1>0. "label" \in Ops /\ "if_icmplt" \in Ops /\ "if_icmple" \in Ops
  BY DEF Ops, Silent, Branches
<1>1. Emitted(b, b1, N, "label", n) /\ b1.ins[b.pos].val = lo /\ IsCode(b1)
  <2>1. Emitted(b, b1, N, "label", n) /\ b1.ins[b.pos].val = lo
    BY <1>0, ConstEmitted
  <2> QED BY <2>1 DEF Emitted
<1>2. Emitted(b1, b2, N, "if_icmplt", 3) /\ IsCode(b2)
  <2>1. Emitted(b1, b2, N, "if_icmplt", 3)
    BY <1>0, <1>1, HoleEmitted
  <2> QED BY <2>1 DEF Emitted
<1>3. Emitted(b2, b3, N, "label", n) /\ b3.ins[b2.pos].val = hi /\ IsCode(b3)
  <2>1. Emitted(b2, b3, N, "label", n) /\ b3.ins[b2.pos].val = hi
    BY <1>0, <1>2, ConstEmitted
  <2> QED BY <2>1 DEF Emitted
<1>4. Emitted(b3, e, N, "if_icmple", 3) /\ IsCode(e)
  <2>1. Emitted(b3, e, N, "if_icmple", 3)
    BY <1>0, <1>3, HoleEmitted
  <2> QED BY <2>1 DEF Emitted
<1>5. b1.pos = b.pos + n /\ b2.pos = b.pos + n + 3 /\ b3.pos = b.pos + n + 3 + n /\ e.pos = b.pos + n + 3 + n + 3
  BY <1>1, <1>2, <1>3, <1>4 DEF Emitted, IsCode
<1>6. Adds(b, e, N)
  <2>1. Adds(b, b2, N)
    BY <1>1, <1>2, AddsTwice DEF Emitted
  <2>2. Adds(b, b3, N)
    BY <1>3, <2>1, AddsTwice DEF Emitted
  <2> QED BY <1>4, <2>2, AddsTwice DEF Emitted
<1>7. \A a \in DOMAIN b3.ins : e.ins[a] = b3.ins[a] /\ a \in DOMAIN e.ins
  BY <1>4 DEF Emitted
<1>8. \A a \in DOMAIN b2.ins : e.ins[a] = b2.ins[a] /\ a \in DOMAIN e.ins
  BY <1>3, <1>7 DEF Emitted
<1>9. \A a \in DOMAIN b1.ins : e.ins[a] = b1.ins[a] /\ a \in DOMAIN e.ins
  BY <1>2, <1>8 DEF Emitted
<1>10. \A a \in DOMAIN b.ins : e.ins[a] = b.ins[a] /\ a \in DOMAIN e.ins
  BY <1>1, <1>9 DEF Emitted
<1>11. Is(e, b.pos, "label", N) /\ e.ins[b.pos].len = n /\ e.ins[b.pos].val = lo
  BY <1>1, <1>9 DEF Emitted, Is
<1>12. Is(e, b1.pos, "if_icmplt", N) /\ e.ins[b1.pos].len = 3
  BY <1>2, <1>8 DEF Emitted, Is
<1>13. Is(e, b2.pos, "label", N) /\ e.ins[b2.pos].len = n /\ e.ins[b2.pos].val = hi
  BY <1>3, <1>7 DEF Emitted, Is
<1>14. Is(e, b3.pos, "if_icmple", N) /\ e.ins[b3.pos].len = 3
  BY <1>4 DEF Emitted, Is
<1>15. Ranged(b, e, N, n, lo, hi)
  BY <1>4, <1>5, <1>6, <1>10, <1>11, <1>12, <1>13, <1>14 DEF Ranged
<1> QED BY <1>5, <1>15 DEF EmitRange

LowPatched(b, e, N, n, lo, hi) == Ranged(b, e, N, n, lo, hi) /\ Target(e, b.pos + n) = e.pos

LEMMA RangePatched ==
  ASSUME NEW b, IsCode(b), NEW z, NEW N, NEW n \in Nat \ {0}, NEW lo, NEW hi, Ranged(b, z, N, n, lo, hi),
         z.pos < ShortHalf
  PROVE  LowPatched(b, PatchHere(z, {b.pos + n}), N, n, lo, hi)
<1> PICK x : x = b.pos + n
  OBVIOUS
<1> PICK e : e = PatchHere(z, {x})
  OBVIOUS
<1> PICK S : S = {x}
  OBVIOUS
<1>1. IsCode(z) /\ z.pos \in Nat /\ b.pos \in Nat /\ \A a \in DOMAIN b.ins : a \in Nat /\ a < b.pos
  BY DEF Ranged, IsCode
<1>2. Repatched(z, e, N, S, z.pos)
  BY <1>1, PatchOnly DEF PatchHere
<1>3. /\ Adds(z, e, N) /\ IsCode(e) /\ e.pos = z.pos /\ DOMAIN e.ins = DOMAIN z.ins
      /\ \A a \in DOMAIN z.ins :
           /\ e.ins[a].op = z.ins[a].op /\ e.ins[a].tok = z.ins[a].tok /\ e.ins[a].len = z.ins[a].len
           /\ e.ins[a].val = z.ins[a].val
           /\ a \notin S => e.ins[a] = z.ins[a]
           /\ a \in S => Target(e, a) = z.pos
  BY <1>2 DEF Repatched, Patched, Adds
<1>4. \A a : (\A op : Is(z, a, op, N) => Is(e, a, op, N)) /\ (a \in DOMAIN z.ins => e.ins[a].len = z.ins[a].len /\ e.ins[a].val = z.ins[a].val)
  BY <1>3 DEF Is
<1>5. \A a \in DOMAIN b.ins : a \notin S /\ a \in DOMAIN z.ins /\ z.ins[a] = b.ins[a]
  <2> SUFFICES ASSUME NEW a \in DOMAIN b.ins PROVE a # x
    BY DEF Ranged, Adds
  <2> QED BY <1>1
<1>6. \A a \in DOMAIN b.ins : e.ins[a] = b.ins[a]
  BY <1>3, <1>5
<1>7. Adds(b, e, N)
  BY <1>3, AddsTwice DEF Ranged
<1>8. Ranged(b, e, N, n, lo, hi)
  <2>1. /\ Is(z, b.pos, "label", N) /\ z.ins[b.pos].len = n /\ z.ins[b.pos].val = lo
        /\ Is(z, b.pos + n, "if_icmplt", N) /\ z.ins[b.pos + n].len = 3
        /\ Is(z, b.pos + n + 3, "label", N) /\ z.ins[b.pos + n + 3].len = n /\ z.ins[b.pos + n + 3].val = hi
        /\ Is(z, b.pos + n + 3 + n, "if_icmple", N) /\ z.ins[b.pos + n + 3 + n].len = 3
        /\ z.pos = b.pos + n + 3 + n + 3
    BY DEF Ranged
  <2>2. /\ b.pos \in DOMAIN z.ins /\ b.pos + n \in DOMAIN z.ins /\ b.pos + n + 3 \in DOMAIN z.ins
        /\ b.pos + n + 3 + n \in DOMAIN z.ins
    BY <2>1 DEF Is
  <2>3. /\ Is(e, b.pos, "label", N) /\ e.ins[b.pos].len = n /\ e.ins[b.pos].val = lo
        /\ Is(e, b.pos + n, "if_icmplt", N) /\ e.ins[b.pos + n].len = 3
        /\ Is(e, b.pos + n + 3, "label", N) /\ e.ins[b.pos + n + 3].len = n /\ e.ins[b.pos + n + 3].val = hi
        /\ Is(e, b.pos + n + 3 + n, "if_icmple", N) /\ e.ins[b.pos + n + 3 + n].len = 3
    BY <1>4, <2>1, <2>2
  <2> QED BY <1>3, <1>6, <1>7, <2>1, <2>3 DEF Ranged
<1>9. x \in DOMAIN z.ins
  BY DEF Ranged, Is
<1> QED BY <1>3, <1>8, <1>9 DEF LowPatched

LEMMA LabelRangeLaid ==
  ASSUME Before, InRange', ~errors', NEW n \in ChunkSizes, NEW lo \in Values, NEW hi \in Values, LabelRange(n, lo, hi)
  PROVE  Laid(code', prog', frames')
<1> PICK x : x = code.pos + n
  OBVIOUS
<1> PICK N : N = Len(prog) + 1
  OBVIOUS
<1> PICK z : z = EmitRange(code, n, lo, hi)
  OBVIOUS
<1>1. /\ "label" \in Kinds /\ lo \in Int /\ hi \in Int /\ n \in Nat \ {0} /\ code'.pos < ShortHalf
      /\ frames # <<>> /\ Top.kind = "labels" /\ code.pos \in Nat
  BY ChunkAssumption, ValuesAssumption, BeforeFacts DEF Kinds, LabelRange, TopIs, InRange
<1>2. Ranged(code, z, N, n, lo, hi) /\ Emit(code, "label", n, 0, lo).pos = x
      /\ Emit(EmitHole(Emit(code, "label", n, 0, lo), "if_icmplt"), "label", n, 0, hi).pos = x + 3 + n
  BY <1>1, BeforeFacts, RangeEmitted
<1>3. code' = PatchHere(z, {x}) /\ ~Top.str /\ lo <= hi /\ ~Clashes(lo, hi)
      /\ frames' = [frames EXCEPT ![Len(frames)] = Remember([Top EXCEPT !.arms = @ \cup {x + 3 + n}], lo, hi)]
  BY <1>2 DEF LabelRange, EmitRange, SetTop
<1>4. Ranged(code, code', N, n, lo, hi) /\ Target(code', x) = code'.pos
  <2>1. z.pos < ShortHalf
    BY <1>1, <1>3 DEF PatchHere, Patch
  <2>2. LowPatched(code, PatchHere(z, {code.pos + n}), N, n, lo, hi)
    BY <1>1, <1>2, <2>1, BeforeFacts, RangePatched
  <2> QED BY <1>3, <2>2 DEF LowPatched
<1>5. /\ OneMore(prog, prog', "label") /\ prog'[N].lo = lo /\ prog'[N].hi = hi
  BY <1>1, BeforeFacts, Consumed DEF LabelRange
<1>6. Scene(code, code', prog, prog', "label", frames, frames')
  BY <1>4, <1>5, SetScene DEF Ranged
<1>7. Placed(code, code', prog, prog', "label", N)
  BY <1>6, ScenePlaces
<1>8. code'.pos - 3 = x + 3 + n /\ x + 3 + n + 3 = code'.pos
  BY <1>1, <1>4 DEF Ranged
<1>9. Shape(code', prog', N)
  <2>1. Place(code', N) = code.pos /\ Place(code', N + 1) - 3 = x + 3 + n
    BY <1>7, <1>8 DEF Placed
  <2>2. /\ Is(code', code.pos, "label", N) /\ code'.ins[code.pos].val = lo /\ Past(code', code.pos) = x
        /\ Is(code', x, "if_icmplt", N) /\ code'.ins[x].len = 3 /\ Target(code', x) = x + 3 + n + 3
        /\ Is(code', x + 3, "label", N) /\ code'.ins[x + 3].val = hi /\ Past(code', x + 3) = x + 3 + n
        /\ Is(code', x + 3 + n, "if_icmple", N) /\ code'.ins[x + 3 + n].len = 3
    BY <1>4, <1>8 DEF Ranged, Past
  <2>3. RangeLabel(code', prog', N)
    BY <1>3, <1>5, <2>1, <2>2, ZenonT(60) DEF RangeLabel
  <2> QED BY <1>7, <2>3 DEF Shape, Placed
<1>11. \E g : /\ Retopped(frames, frames', g) /\ g.kind = "labels" /\ g.arms = Top.arms \cup {x + 3 + n}
              /\ g.ends = Top.ends
  <2>1. Top \in Frame
    BY <1>1, TopFacts
  <2> PICK h : h = [Top EXCEPT !.arms = @ \cup {x + 3 + n}]
    OBVIOUS
  <2>3. h.kind = "labels" /\ h.arms = Top.arms \cup {x + 3 + n} /\ h.ends = Top.ends
    BY <1>1, <2>1 DEF Frame
  <2>4. /\ Remember(h, lo, hi).kind = h.kind /\ Remember(h, lo, hi).arms = h.arms
        /\ Remember(h, lo, hi).ends = h.ends
    <3>1. h \in [DOMAIN h -> {h[y] : y \in DOMAIN h}]
      BY <2>1 DEF Frame
    <3> QED BY <3>1 DEF Remember
  <2>5. Retopped(frames, frames', Remember(h, lo, hi))
    BY <1>3 DEF Retopped
  <2> QED BY <2>3, <2>4, <2>5
<1>12. PICK g : /\ Retopped(frames, frames', g) /\ g.kind = "labels" /\ g.arms = Top.arms \cup {x + 3 + n}
                /\ g.ends = Top.ends
  BY <1>11
<1>13. \A a \in DOMAIN code.ins : code'.ins[a] = code.ins[a]
  BY <1>4 DEF Ranged
<1>14. g.arms = frames[Len(frames)].arms \cup {code'.pos - 3} /\ g.ends = frames[Len(frames)].ends
       /\ frames[Len(frames)].kind = "labels"
  BY <1>1, <1>8, <1>12 DEF Top
<1>15. code'.ins[code'.pos - 3].op \notin {"ifne", "if_icmpne"}
  BY <1>4, <1>8 DEF Ranged, Is
<1> QED BY <1>1, <1>6, <1>9, <1>12, <1>13, <1>14, <1>15, LabelLaidBy

(* The code of a colon: the branches at S lead to the pop, and either the   *)
(* last label has been turned or a goto of the colon's own was appended.    *)
ColonCode(b, e, N, turned, S, last, to) ==
  /\ Adds(b, e, N) /\ IsCode(e) /\ e.pos = to + 1 /\ to \in Nat
  /\ turned => to = b.pos
  /\ ~turned => to = b.pos + 3 /\ Is(e, b.pos, "goto", N)
  /\ Is(e, to, "pop", N) /\ e.ins[to].len = 1
  /\ \A a \in DOMAIN b.ins :
       /\ a \in S => e.ins[a].op = b.ins[a].op /\ Target(e, a) = to
       /\ turned /\ a = last => e.ins[a].op = Opposite(b.ins[a].op) /\ e.ins[a].off = b.ins[a].off
       /\ a \notin S /\ ~(turned /\ a = last) => e.ins[a] = b.ins[a]

TurnOne(b, last) == [b EXCEPT !.ins[last].op = Opposite(@)]

LEMMA TurnAdds ==
  ASSUME NEW b, IsCode(b), NEW last \in DOMAIN b.ins, NEW N
  PROVE  /\ Adds(b, TurnOne(b, last), N) /\ IsCode(TurnOne(b, last)) /\ TurnOne(b, last).pos = b.pos
         /\ DOMAIN TurnOne(b, last).ins = DOMAIN b.ins
         /\ TurnOne(b, last).ins[last].op = Opposite(b.ins[last].op)
         /\ TurnOne(b, last).ins[last].off = b.ins[last].off
         /\ \A a \in DOMAIN b.ins : a # last => TurnOne(b, last).ins[a] = b.ins[a]
<1> PICK i : i = [b.ins[last] EXCEPT !.op = Opposite(b.ins[last].op)]
  OBVIOUS
<1>1. b.ins[last] \in Instr
  BY DEF IsCode
<1>2. Opposite(b.ins[last].op) \in Ops
  BY DEF Opposite, Ops, Branches
<1>3. /\ i \in Instr /\ i.op = Opposite(b.ins[last].op) /\ i.off = b.ins[last].off /\ i.len = b.ins[last].len
      /\ i.val = b.ins[last].val /\ i.tok = b.ins[last].tok
  BY <1>1, <1>2 DEF Instr
<1>4. b = [ins |-> b.ins, pos |-> b.pos, depth |-> b.depth] /\ b.ins \in [DOMAIN b.ins -> Instr]
  BY DEF IsCode
<1>5. TurnOne(b, last) = [b EXCEPT !.ins = [b.ins EXCEPT ![last] = i]]
  BY <1>4 DEF TurnOne
<1>6. /\ TurnOne(b, last).ins = [b.ins EXCEPT ![last] = i] /\ TurnOne(b, last).pos = b.pos
      /\ TurnOne(b, last).depth = b.depth
      /\ TurnOne(b, last) = [ins |-> TurnOne(b, last).ins, pos |-> TurnOne(b, last).pos, depth |-> TurnOne(b, last).depth]
  BY <1>4, <1>5
<1> PICK e : e = TurnOne(b, last)
  OBVIOUS
<1>7. DOMAIN e.ins = DOMAIN b.ins /\ e.ins[last] = i /\ \A a \in DOMAIN b.ins : a # last => e.ins[a] = b.ins[a]
  BY <1>4, <1>6
<1>8. e.ins \in [DOMAIN e.ins -> Instr]
  BY <1>3, <1>4, <1>6
<1>9. IsCode(e)
  BY <1>6, <1>7, <1>8 DEF IsCode
<1>10. \A a \in DOMAIN b.ins : e.ins[a].tok = b.ins[a].tok /\ e.ins[a].len = b.ins[a].len /\ e.ins[a].val = b.ins[a].val
  BY <1>3, <1>7
<1>11. Adds(b, e, N)
  BY <1>6, <1>7, <1>9, <1>10 DEF Adds, IsCode
<1> QED BY <1>3, <1>6, <1>7, <1>9, <1>11

(* The end of both: the labels are patched, and the selector is popped.     *)
LEMMA PopAfter ==
  ASSUME NEW b, IsCode(b), NEW c, IsCode(c), Adds(b, c, Len(prog) + 1), NEW S, S \subseteq DOMAIN b.ins,
         c.pos < ShortHalf, prog \in Seq(Tokens)
  PROVE  \E e : /\ e = EmitChunk(PatchHere(c, S), "pop", 1)
                /\ Adds(b, e, Len(prog) + 1) /\ IsCode(e) /\ e.pos = c.pos + 1 /\ c.pos \in Nat
                /\ Is(e, c.pos, "pop", Len(prog) + 1) /\ e.ins[c.pos].len = 1
                /\ \A a \in DOMAIN c.ins :
                     /\ a \in DOMAIN e.ins
                     /\ a \in S => e.ins[a].op = c.ins[a].op /\ Target(e, a) = c.pos
                     /\ a \notin S => e.ins[a] = c.ins[a]
<1> PICK d : d = PatchHere(c, S)
  OBVIOUS
<1> PICK e : e = EmitChunk(d, "pop", 1)
  OBVIOUS
<1> PICK N : N = Len(prog) + 1
  OBVIOUS
<1>1. c.pos \in Nat
  BY DEF IsCode
<1>2. Repatched(c, d, N, S, c.pos)
  BY <1>1, PatchOnly DEF PatchHere
<1>3. IsCode(d) /\ d.pos = c.pos /\ DOMAIN d.ins = DOMAIN c.ins /\ Adds(c, d, N) /\ Patched(c, d, S, c.pos)
  BY <1>2 DEF Repatched
<1>4. Emitted(d, e, N, "pop", 1)
  <2>1. "pop" \in Ops /\ 1 \in Nat \ {0}
    BY DEF Ops, Silent
  <2> QED BY <1>3, <2>1, ChunkEmitted
<1>5. Adds(b, e, N)
  <2>1. Adds(b, d, N)
    BY <1>3, AddsTwice
  <2> QED BY <1>4, <2>1, AddsTwice DEF Emitted
<1>6. \A a \in DOMAIN c.ins : e.ins[a] = d.ins[a] /\ a \in DOMAIN e.ins
  BY <1>3, <1>4 DEF Emitted
<1>7. ASSUME NEW a \in DOMAIN c.ins
      PROVE  /\ a \in DOMAIN e.ins
             /\ a \in S => e.ins[a].op = c.ins[a].op /\ Target(e, a) = c.pos
             /\ a \notin S => e.ins[a] = c.ins[a]
  BY <1>3, <1>6 DEF Patched, Target
<1>8. e.pos = c.pos + 1 /\ IsCode(e) /\ Is(e, c.pos, "pop", N) /\ e.ins[c.pos].len = 1
  BY <1>3, <1>4 DEF Emitted
<1> QED BY <1>1, <1>5, <1>7, <1>8

LEMMA ColonTurned ==
  ASSUME NEW b, IsCode(b), NEW last \in DOMAIN b.ins, NEW S, S \subseteq DOMAIN b.ins, last \notin S,
         b.pos < ShortHalf, prog \in Seq(Tokens)
  PROVE  ColonCode(b, EmitChunk(PatchHere(TurnOne(b, last), S), "pop", 1), Len(prog) + 1, TRUE, S, last, b.pos)
<1> PICK N : N = Len(prog) + 1
  OBVIOUS
<1> PICK c : c = TurnOne(b, last)
  OBVIOUS
<1>1. /\ Adds(b, c, N) /\ IsCode(c) /\ c.pos = b.pos
      /\ DOMAIN c.ins = DOMAIN b.ins
      /\ c.ins[last].op = Opposite(b.ins[last].op)
      /\ c.ins[last].off = b.ins[last].off
      /\ \A a \in DOMAIN b.ins : a # last => c.ins[a] = b.ins[a]
  BY TurnAdds
<1>2. PICK e : /\ e = EmitChunk(PatchHere(c, S), "pop", 1)
               /\ Adds(b, e, N) /\ IsCode(e) /\ e.pos = c.pos + 1 /\ c.pos \in Nat
               /\ Is(e, c.pos, "pop", N) /\ e.ins[c.pos].len = 1
               /\ \A a \in DOMAIN c.ins :
                    /\ a \in DOMAIN e.ins
                    /\ a \in S => e.ins[a].op = c.ins[a].op /\ Target(e, a) = c.pos
                    /\ a \notin S => e.ins[a] = c.ins[a]
  BY <1>1, PopAfter
<1>3. ColonCode(b, e, N, TRUE, S, last, b.pos)
  BY <1>1, <1>2 DEF ColonCode
<1> QED BY <1>2, <1>3

LEMMA ColonGoto ==
  ASSUME NEW b, IsCode(b), NEW S, S \subseteq DOMAIN b.ins, NEW last,
         b.pos + 3 < ShortHalf, prog \in Seq(Tokens)
  PROVE  ColonCode(b, EmitChunk(PatchHere(EmitHole(b, "goto"), S), "pop", 1), Len(prog) + 1, FALSE, S, last, b.pos + 3)
<1> PICK N : N = Len(prog) + 1
  OBVIOUS
<1> PICK c : c = EmitHole(b, "goto")
  OBVIOUS
<1>1. Emitted(b, c, N, "goto", 3)
  <2>1. "goto" \in Ops
    BY DEF Ops, Branches
  <2> QED BY <2>1, HoleEmitted
<1>3. Adds(b, c, N) /\ IsCode(c) /\ c.pos = b.pos + 3 /\ Is(c, b.pos, "goto", N)
      /\ \A a \in DOMAIN b.ins : c.ins[a] = b.ins[a] /\ a \in DOMAIN c.ins
  BY <1>1 DEF Emitted
<1>2. PICK e : /\ e = EmitChunk(PatchHere(c, S), "pop", 1)
               /\ Adds(b, e, N) /\ IsCode(e) /\ e.pos = c.pos + 1 /\ c.pos \in Nat
               /\ Is(e, c.pos, "pop", N) /\ e.ins[c.pos].len = 1
               /\ \A a \in DOMAIN c.ins :
                    /\ a \in DOMAIN e.ins
                    /\ a \in S => e.ins[a].op = c.ins[a].op /\ Target(e, a) = c.pos
                    /\ a \notin S => e.ins[a] = c.ins[a]
  BY <1>3, PopAfter
<1>4. Is(e, b.pos, "goto", N)
  <2>1. b.pos \notin S /\ b.pos \in DOMAIN c.ins
    BY <1>1 DEF Emitted, Is
  <2> QED BY <1>2, <1>3, <2>1 DEF Is
<1>5. \A a \in DOMAIN b.ins :
         /\ a \in S => e.ins[a].op = b.ins[a].op /\ Target(e, a) = b.pos + 3
         /\ a \notin S => e.ins[a] = b.ins[a]
  BY <1>2, <1>3
<1>6. ColonCode(b, e, N, FALSE, S, last, b.pos + 3)
  BY <1>2, <1>3, <1>4, <1>5 DEF ColonCode
<1> QED BY <1>2, <1>6

(* The token before the colon is the last label of the list.                *)
LEMMA LastLabel ==
  ASSUME NEW b, NEW e, NEW s, NEW s2, NEW k, NEW f, NEW f2, Scene(b, e, s, s2, k, f, f2),
         f # <<>>, f[Len(f)].kind = "labels", f[Len(f)].arms # {}
  PROVE  /\ Len(s) \in DOMAIN s /\ s[Len(s)].k = "label" /\ BranchAt(b, s, Len(s)) = b.pos - 3
         /\ HasBranch(b, s, Len(s)) /\ b.pos - 3 \in DOMAIN b.ins /\ b.ins[b.pos - 3].tok = Len(s)
<1>1. s \in Seq(Tokens) /\ IsCode(b) /\ Ordered(s, f) /\ Shaped(b, s) /\ Adds(b, e, Len(s) + 1) /\ Tokened(b, Len(s))
  BY SceneParts DEF Laid
<1>2. LastKind(s) = "label"
  BY <1>1 DEF Ordered, Listing, Labels
<1>3. s # <<>> /\ s[Len(s)].k = "label"
  BY <1>2 DEF LastKind
<1>4. Len(s) \in DOMAIN s /\ Len(s) \in Nat \ {0}
  BY <1>1, <1>3
<1>5. Place(b, Len(s) + 1) = b.pos
  <2>1. Len(s) + 1 \in Nat \ {0} /\ (Len(s) + 1) - 1 = Len(s)
    BY <1>4
  <2> QED BY <1>1, <2>1, PlaceStep
<1>6. BranchAt(b, s, Len(s)) = b.pos - 3
  BY <1>3, <1>5 DEF BranchAt
<1>7. HasBranch(b, s, Len(s))
  BY <1>3 DEF HasBranch, Branchers
<1>8. Shape(b, s, Len(s))
  BY <1>1, <1>4 DEF Shaped
<1>9. BranchAt(b, s, Len(s)) \in DOMAIN b.ins /\ b.ins[BranchAt(b, s, Len(s))].tok = Len(s)
  BY <1>1, <1>4, <1>7, <1>8, BranchFacts
<1> QED BY <1>3, <1>4, <1>6, <1>7, <1>9

Turning(s, turned) == IF turned THEN {Len(s)} ELSE {}

(* What the colon patches, and what it turns.                               *)
LEMMA ColonRewrites ==
  ASSUME NEW b, NEW e, NEW s, NEW s2, NEW f, NEW f2, Scene(b, e, s, s2, "colon", f, f2),
         f # <<>>, f[Len(f)].kind = "labels", f[Len(f)].arms # {}, NEW o,
         f[Len(f)].arms = BranchesOf(b, s, WaitingLabels(b, s, o)),
         NEW turned \in BOOLEAN, turned => b.ins[b.pos - 3].op \in {"if_icmpeq", "ifeq"},
         NEW next, turned => next = b.pos - 3, ~turned => next = b.pos,
         NEW S, S = f[Len(f)].arms \ {next}, NEW to,
         ColonCode(b, e, Len(s) + 1, turned, S, b.pos - 3, to)
  PROVE  Rewrites(b, e, s, WaitingLabels(b, s, o) \ Turning(s, turned), Turning(s, turned), to)
<1> PICK L : L = Len(s)
  OBVIOUS
<1> PICK V : V = Turning(s, turned)
  OBVIOUS
<1> PICK T : T = WaitingLabels(b, s, o) \ V
  OBVIOUS
<1>0. s \in Seq(Tokens) /\ IsCode(b) /\ Shaped(b, s)
  BY SceneParts
<1>1. L \in DOMAIN s /\ s[L].k = "label" /\ BranchAt(b, s, L) = b.pos - 3
      /\ b.pos - 3 \in DOMAIN b.ins /\ b.ins[b.pos - 3].tok = L
  BY LastLabel
<1>2. (turned => V = {L}) /\ (~turned => V = {})
  BY DEF Turning
<1>3. ASSUME NEW t \in WaitingLabels(b, s, o)
      PROVE  /\ t \in DOMAIN s /\ s[t].k = "label" /\ HasBranch(b, s, t)
             /\ BranchAt(b, s, t) \in DOMAIN b.ins /\ b.ins[BranchAt(b, s, t)].tok = t
  <2>1. t \in DOMAIN s /\ s[t].k = "label"
    BY DEF WaitingLabels
  <2>2. HasBranch(b, s, t) /\ Shape(b, s, t)
    BY <1>0, <2>1 DEF HasBranch, Branchers, Shaped
  <2> QED BY <1>0, <2>1, <2>2, BranchFacts
<1>4. b.pos \notin DOMAIN b.ins
  BY <1>0 DEF IsCode
<1>5. ASSUME NEW t \in T PROVE BranchAt(b, s, t) \in S
  <2>1. t \in WaitingLabels(b, s, o) /\ t \notin V
    OBVIOUS
  <2>2. BranchAt(b, s, t) \in f[Len(f)].arms
    BY <2>1 DEF BranchesOf
  <2>3. BranchAt(b, s, t) # next
    <3>1. CASE turned
      <4>1. t # L
        BY <1>2, <2>1, <3>1
      <4>2. b.ins[BranchAt(b, s, t)].tok = t
        BY <1>3, <2>1
      <4> QED BY <1>1, <3>1, <4>1, <4>2
    <3>2. CASE ~turned
      BY <1>3, <1>4, <2>1, <3>2
    <3> QED BY <3>1, <3>2
  <2> QED BY <2>2, <2>3
<1>6. ASSUME NEW a \in S PROVE \E t \in T : a = BranchAt(b, s, t)
  <2>1. PICK t \in WaitingLabels(b, s, o) : a = BranchAt(b, s, t)
    BY DEF BranchesOf
  <2>2. t \notin V
    BY <1>1, <1>2, <2>1
  <2> QED BY <2>1, <2>2
<1>7. T \subseteq DOMAIN s /\ V \subseteq DOMAIN s
  BY <1>1, <1>2, <1>3
<1>8. ASSUME NEW t \in V
      PROVE  s[t].k = "label" /\ Turn(b.ins[BranchAt(b, s, t)].op, e.ins[BranchAt(b, s, t)].op)
  <2>1. turned /\ t = L
    BY <1>2
  <2>2. e.ins[b.pos - 3].op = Opposite(b.ins[b.pos - 3].op)
    BY <1>1, <2>1 DEF ColonCode
  <2> QED BY <1>1, <2>1, <2>2 DEF Turn, Opposite
<1>9. ASSUME NEW t \in T
      PROVE  /\ HasBranch(b, s, t) /\ Target(e, BranchAt(b, s, t)) = to /\ s[t].k # "break"
  <2>1. HasBranch(b, s, t) /\ s[t].k = "label" /\ BranchAt(b, s, t) \in DOMAIN b.ins
    BY <1>3
  <2>2. BranchAt(b, s, t) \in S
    BY <1>5
  <2> QED BY <2>1, <2>2 DEF ColonCode
<1>10. ASSUME NEW a \in DOMAIN b.ins
       PROVE  \/ e.ins[a] = b.ins[a]
              \/ e.ins[a].op = b.ins[a].op /\ \E t \in T : a = BranchAt(b, s, t)
              \/ e.ins[a].off = b.ins[a].off /\ \E t \in V : a = BranchAt(b, s, t)
  <2>1. CASE a \in S
    BY <1>6, <2>1 DEF ColonCode
  <2>2. CASE turned /\ a = b.pos - 3
    BY <1>1, <1>2, <2>2 DEF ColonCode
  <2>3. CASE a \notin S /\ ~(turned /\ a = b.pos - 3)
    BY <2>3 DEF ColonCode
  <2> QED BY <2>1, <2>2, <2>3
<1>11. Rewrites(b, e, s, T, V, to)
  BY <1>7, <1>8, <1>9, <1>10 DEF Rewrites
<1> QED BY <1>11

LEMMA ColonLaidBy ==
  ASSUME NEW b, NEW e, NEW s, NEW s2, NEW f, NEW f2, Scene(b, e, s, s2, "colon", f, f2),
         f # <<>>, f[Len(f)].kind = "labels", f[Len(f)].arms # {}, NEW g, Retopped(f, f2, g),
         g.kind = "arm", g.arms = {}, g.ends = f[Len(f)].ends,
         NEW turned \in BOOLEAN, turned => b.ins[b.pos - 3].op \in {"if_icmpeq", "ifeq"},
         turned => g.hole = b.pos - 3, ~turned => g.hole = b.pos,
         NEW S, S = f[Len(f)].arms \ {g.hole}, NEW to,
         ColonCode(b, e, Len(s) + 1, turned, S, b.pos - 3, to)
  PROVE  Laid(e, s2, f2)
<1> PICK N : N = Len(s) + 1
  OBVIOUS
<1> PICK V : V = Turning(s, turned)
  OBVIOUS
<1>1. Placed(b, e, s, s2, "colon", N)
  BY ScenePlaces
<1>2. Bracketed(s, f) /\ Linked(b, s, f) /\ f \in Seq(Frame) /\ f2 \in Seq(Frame) /\ s \in Seq(Tokens) /\ Laid(b, s, f)
  BY SceneParts
<1>3. PICK o : Inmost(b, s, f, o)
  BY <1>2, InmostIs
<1>4. s[o].k = "case"
  BY <1>3, InmostCase
<1> PICK T : T = WaitingLabels(b, s, o) \ V
  OBVIOUS
<1>5. Rewrites(b, e, s, T, V, to)
  <2>1. CaseLinked(b, s, f, o) /\ Open(s, o) /\ FrameOf(f, s, o) = f[Len(f)]
    BY <1>2, <1>3, <1>4 DEF Linked, Inmost
  <2>2. Holds(b, s, o, f[Len(f)])
    BY <2>1, CaseHolds
  <2>3. f[Len(f)].arms = BranchesOf(b, s, WaitingLabels(b, s, o))
    BY <2>2 DEF Holds
  <2> QED BY <2>3, ColonRewrites
<1>6. Stands(b, e, s, s2, "colon", f, f2, T, V, to, o)
  BY <1>5, <1>3, <1>4, CaseTurn DEF Inward
<1>7. TurnedTo(s2, f, f2, g)
  <2>1. Guarded(f, "colon")
    BY DEF Guarded, Labels, Between, Listing, Among
  <2>2. \A x \in Meaning!Openers : f[Len(f)].kind \in KindsOf(x) => g.kind \in KindsOf(x)
    BY DEF KindsOf, Meaning!Openers
  <2>3. "colon" \in Inward /\ ("colon" \in Popping <=> g.kind = "labels" /\ g.arms = {})
        /\ ("colon" = "label" <=> g.kind = "labels" /\ g.arms # {})
    BY DEF Inward, Popping
  <2> QED BY <2>1, <2>2, <2>3, TurnedBrackets DEF Retopped
<1>8. Len(f2) = Len(f) /\ SameUpTo(f, f2, Len(f) - 1) /\ f2[Len(f2)] = g /\ Bracketed(s2, f2) /\ Topmost(f2)
  BY <1>7 DEF TurnedTo
<1>9. e.pos = to + 1 /\ to = e.pos - 1 /\ (turned => to = b.pos) /\ (~turned => to = b.pos + 3) /\ to \in Nat
      /\ Is(e, to, "pop", N) /\ e.ins[to].len = 1 /\ (~turned => Is(e, b.pos, "goto", N))
      /\ b.pos \in Nat /\ e.pos \in Nat
  BY <1>1 DEF ColonCode, Placed
<1>10. to = PopAt(e, N) /\ (WithGoto(e, N) <=> ~turned)
  BY <1>1, <1>9 DEF Placed
<1>11. g.hole = BranchAt(e, s2, Skipper(e, N))
  <2>1. CASE ~turned
    BY <1>1, <1>10, <2>1 DEF Skipper, Placed, Starting
  <2>2. CASE turned
    <3>1. Len(s) \in DOMAIN s /\ s[Len(s)].k = "label" /\ Len(s) \in Nat /\ N - 1 = Len(s) /\ N = Len(s) + 1
      BY <1>2, LastLabel
    <3>2. s2[N - 1].k = "label"
      BY <3>1, SceneParts DEF OneMore
    <3>3. BranchAt(e, s2, N - 1) = b.pos - 3
      <4>1. Place(e, N - 1 + 1) = b.pos
        <5>1. N - 1 + 1 = N
          BY <3>1
        <5> QED BY <1>1, <5>1 DEF Placed
      <4> QED BY <3>2, <4>1 DEF BranchAt
    <3> QED BY <1>10, <2>2, <3>3 DEF Skipper
  <2> QED BY <2>1, <2>2
<1>12. Shape(e, s2, N)
  <2>1. Place(e, N) = b.pos /\ Place(e, N + 1) = e.pos /\ s2[N].k = "colon"
    BY <1>1 DEF Placed
  <2>2. e.pos - 1 = to /\ (turned => b.pos = e.pos - 1) /\ (~turned => b.pos = e.pos - 4)
    BY <1>9
  <2> QED BY <1>9, <2>1, <2>2 DEF Shape
<1>13. Linked(e, s2, f2)
  <2>1. f2[Len(f2)].kind = "arm" /\ f2[Len(f2)].arms = {}
        /\ f2[Len(f2)].ends = f[Len(f)].ends /\ f2[Len(f2)].hole = BranchAt(e, s2, Skipper(e, N))
    BY <1>8, <1>11
  <2>2. V = (IF turned THEN {Len(s)} ELSE {})
    BY DEF Turning
  <2> QED BY <1>6, <1>8, <1>10, <2>1, <2>2, ColonStep
<1>14. Kept(b, e, s, s2, "colon", T, V, to)
  BY <1>6 DEF Stands
<1> QED BY <1>8, <1>12, <1>13, <1>14, SceneLaid

(* What the frame of a case statement holds is in the code.                 *)
LEMMA CaseTop ==
  ASSUME NEW b, NEW s, NEW f, Laid(b, s, f), IsCode(b), s \in Seq(Tokens), f \in Seq(Frame), f # <<>>,
         f[Len(f)].kind \in {"labels", "arm", "caseelse"}
  PROVE  \E o : /\ Inmost(b, s, f, o) /\ s[o].k = "case" /\ Holds(b, s, o, f[Len(f)]) /\ CaseLinked(b, s, f, o)
                /\ f[Len(f)].arms \subseteq DOMAIN b.ins /\ f[Len(f)].ends \subseteq DOMAIN b.ins
<1>1. PICK o : Inmost(b, s, f, o)
  BY InmostIs
<1>2. s[o].k = "case"
  BY <1>1, InmostCase
<1>3. CaseLinked(b, s, f, o) /\ Open(s, o) /\ FrameOf(f, s, o) = f[Len(f)]
  BY <1>1, <1>2 DEF Laid, Linked, Inmost
<1>4. Holds(b, s, o, f[Len(f)])
  BY <1>3, CaseHolds
<1>5. ASSUME NEW t \in DOMAIN s, s[t].k \in {"label", "endarm"} PROVE BranchAt(b, s, t) \in DOMAIN b.ins
  <2>1. Shape(b, s, t) /\ HasBranch(b, s, t)
    BY <1>5 DEF Laid, Shaped, HasBranch, Branchers
  <2> QED BY <2>1, BranchFacts
<1>6. ASSUME NEW a \in f[Len(f)].arms PROVE a \in DOMAIN b.ins
  <2>1. f[Len(f)].kind = "labels" /\ a \in BranchesOf(b, s, WaitingLabels(b, s, o))
    BY <1>4 DEF Holds
  <2>2. PICK t \in WaitingLabels(b, s, o) : a = BranchAt(b, s, t)
    BY <2>1 DEF BranchesOf
  <2> QED BY <1>5, <2>2 DEF WaitingLabels
<1>7. ASSUME NEW a \in f[Len(f)].ends PROVE a \in DOMAIN b.ins
  <2>1. a \in BranchesOf(b, s, EndArms(s, o))
    BY <1>4 DEF Holds
  <2>2. PICK t \in EndArms(s, o) : a = BranchAt(b, s, t)
    BY <2>1 DEF BranchesOf
  <2> QED BY <1>5, <2>2 DEF EndArms
<1> QED BY <1>1, <1>2, <1>3, <1>4, <1>6, <1>7

LEMMA ColonLaid ==
  ASSUME Before, InRange', Colon
  PROVE  Laid(code', prog', frames')
<1> PICK N : N = Len(prog) + 1
  OBVIOUS
<1> PICK last : last = code.pos - 3
  OBVIOUS
<1> PICK turned \in BOOLEAN : turned <=> last \in Top.arms /\ code.ins[last].op \in {"if_icmpeq", "ifeq"}
  OBVIOUS
<1> PICK next : (turned => next = last) /\ (~turned => next = code.pos)
  OBVIOUS
<1> PICK S : S = Top.arms \ {next}
  OBVIOUS
<1> PICK b : (turned => b = TurnOne(code, last)) /\ (~turned => b = EmitHole(code, "goto"))
  OBVIOUS
<1>1. /\ "colon" \in Kinds /\ 0 \in Int /\ frames # <<>> /\ Top.kind = "labels" /\ Top.arms # {}
      /\ code'.pos < ShortHalf
  BY SMTT(20) DEF Kinds, Colon, TopIs, InRange
<1>2. /\ code' = EmitChunk(PatchHere(b, S), "pop", 1)
      /\ frames' = [frames EXCEPT ![Len(frames)] = [Top EXCEPT !.kind = "arm", !.hole = next, !.arms = {}]]
  <2>1. CASE turned
    BY <2>1 DEF Colon, SetTop, TurnOne
  <2>2. CASE ~turned
    BY <2>2 DEF Colon, SetTop
  <2> QED BY <2>1, <2>2
<1>3. Top.arms \subseteq DOMAIN code.ins
  BY <1>1, BeforeFacts, CaseTop DEF Before, Top
<1>4. S \subseteq DOMAIN code.ins /\ code.pos \in Nat
  BY <1>3, BeforeFacts
<1>5. PICK to : ColonCode(code, code', N, turned, S, last, to)
  <2>1. CASE turned
    <3>1. last \in DOMAIN code.ins /\ last \notin S /\ b = TurnOne(code, last)
      BY <1>3, <2>1
    <3>7. IsCode(b) /\ b.pos = code.pos
      BY <3>1, BeforeFacts, TurnAdds
    <3>8. PatchHere(b, S).pos = b.pos
      <4>1. b.pos \in Int
        BY <1>4, <3>7
      <4> QED BY <3>7, <4>1, PatchCode DEF PatchHere
    <3>2. code'.pos = code.pos + 1
      BY <1>2, <3>7, <3>8 DEF EmitChunk, Emit
    <3>3. code.pos < ShortHalf
      BY <1>1, <1>4, <3>2, ShortAssumption
    <3>4. ColonCode(code, EmitChunk(PatchHere(TurnOne(code, last), S), "pop", 1), Len(prog) + 1, TRUE, S, last, code.pos)
      BY <1>4, <3>1, <3>3, BeforeFacts, ColonTurned
    <3>5. ColonCode(code, code', N, TRUE, S, last, code.pos)
      BY <1>2, <3>1, <3>4
    <3>6. turned = TRUE
      BY <2>1
    <3> QED BY <3>5, <3>6
  <2>2. CASE ~turned
    <3>1. b = EmitHole(code, "goto")
      BY <2>2
    <3>2. code'.pos = code.pos + 3 + 1
      BY <1>2, <3>1 DEF EmitChunk, Emit, PatchHere, Patch, EmitHole
    <3>3. code.pos + 3 < ShortHalf
      BY <1>1, <1>4, <3>2, ShortAssumption
    <3>4. ColonCode(code, EmitChunk(PatchHere(EmitHole(code, "goto"), S), "pop", 1), Len(prog) + 1, FALSE, S, last, code.pos + 3)
      BY <1>4, <3>3, BeforeFacts, ColonGoto
    <3>5. ColonCode(code, code', N, FALSE, S, last, code.pos + 3)
      BY <1>2, <3>1, <3>4
    <3>6. turned = FALSE
      BY <2>2
    <3> QED BY <3>5, <3>6
  <2> QED BY <2>1, <2>2
<1>6. OneMore(prog, prog', "colon")
  BY <1>1, BeforeFacts, Consumed DEF Colon, ConsumeWord
<1>7. Scene(code, code', prog, prog', "colon", frames, frames')
  BY <1>5, <1>6, SetScene DEF ColonCode
<1>8. \E g : Retopped(frames, frames', g) /\ g.kind = "arm" /\ g.arms = {} /\ g.ends = Top.ends /\ g.hole = next
  <2>1. Top \in Frame
    BY <1>1, TopFacts
  <2> PICK g : g = [Top EXCEPT !.kind = "arm", !.hole = next, !.arms = {}]
    OBVIOUS
  <2>2. g.kind = "arm" /\ g.arms = {} /\ g.ends = Top.ends /\ g.hole = next
    BY <2>1 DEF Frame
  <2> QED BY <1>2, <2>2 DEF Retopped
<1>9. PICK g : Retopped(frames, frames', g) /\ g.kind = "arm" /\ g.arms = {} /\ g.ends = Top.ends /\ g.hole = next
  BY <1>8
<1>10. /\ frames[Len(frames)].kind = "labels" /\ frames[Len(frames)].arms # {} /\ g.ends = frames[Len(frames)].ends
       /\ S = frames[Len(frames)].arms \ {g.hole}
  BY <1>1, <1>9 DEF Top
<1>11. (turned => code.ins[code.pos - 3].op \in {"if_icmpeq", "ifeq"}) /\ (turned => g.hole = code.pos - 3)
       /\ (~turned => g.hole = code.pos)
  BY <1>9
<1>12. ColonCode(code, code', Len(prog) + 1, turned, S, code.pos - 3, to)
  BY <1>5
<1> QED BY <1>1, <1>7, <1>9, <1>10, <1>11, <1>12, ColonLaidBy

LEMMA EndArmLaidBy ==
  ASSUME NEW b, NEW e, NEW s, NEW s2, NEW f, NEW f2, Scene(b, e, s, s2, "endarm", f, f2),
         f # <<>>, f[Len(f)].kind = "arm", NEW g, Retopped(f, f2, g),
         g.kind = "labels", g.arms = {}, g.ends = f[Len(f)].ends \cup {b.pos},
         Lengthened(b, e, Len(s) + 1, "goto", 3, {f[Len(f)].hole}, e.pos)
  PROVE  Laid(e, s2, f2)
<1> PICK N : N = Len(s) + 1
  OBVIOUS
<1> PICK to : to = e.pos
  OBVIOUS
<1> PICK V : V = {}
  OBVIOUS
<1>1. Placed(b, e, s, s2, "endarm", N)
  BY ScenePlaces
<1>2. /\ Bracketed(s, f) /\ Linked(b, s, f) /\ f \in Seq(Frame) /\ f2 \in Seq(Frame) /\ s \in Seq(Tokens)
      /\ Laid(b, s, f) /\ IsCode(b) /\ Shaped(b, s) /\ Ordered(s, f) /\ Owned(s, f)
  BY SceneParts
<1>3. PICK o : Inmost(b, s, f, o)
  BY <1>2, InmostIs
<1>4. s[o].k = "case"
  BY <1>3, InmostCase
<1>5. PICK m : Arm(s, o, m) /\ f[Len(f)].hole = BranchAt(b, s, Skipper(b, m))
  <2>1. CaseLinked(b, s, f, o) /\ Open(s, o) /\ FrameOf(f, s, o) = f[Len(f)] /\ FrameOf(f, s, o).kind = "arm"
    BY <1>2, <1>3, <1>4 DEF Linked, Inmost
  <2> QED BY <1>2, <2>1, ArmOpen
<1> PICK T : T = {Skipper(b, m)}
  OBVIOUS
<1>6. Branch(b, s, Skipper(b, m))
  <2>1. Direct(s, o, m) /\ s[m].k = "colon"
    BY <1>5 DEF Arm
  <2>2. /\ Skipper(b, m) \in DOMAIN s /\ HasBranch(b, s, Skipper(b, m)) /\ s[Skipper(b, m)].k # "break"
    BY <1>2, <1>4, <2>1, SkipperBranch, SMTT(20)
  <2> QED BY <2>2 DEF Branch
<1>7. Patched(b, e, BranchesOf(b, s, T), to)
  <2>1. BranchesOf(b, s, T) = {f[Len(f)].hole}
    BY <1>5 DEF BranchesOf
  <2> QED BY <2>1 DEF Lengthened
<1>8. Rewrites(b, e, s, T, V, to)
  <2>1. \A t \in T : Branch(b, s, t)
    BY <1>6
  <2> QED BY <1>2, <1>7, <2>1, PatchedRewrites
<1>9. Stands(b, e, s, s2, "endarm", f, f2, T, V, to, o)
  BY <1>8, <1>3, <1>4, CaseTurn DEF Inward
<1>10. TurnedTo(s2, f, f2, g)
  <2>1. Guarded(f, "endarm")
    BY DEF Guarded, Labels, Between, Listing, Among
  <2>2. \A x \in Meaning!Openers : f[Len(f)].kind \in KindsOf(x) => g.kind \in KindsOf(x)
    BY DEF KindsOf, Meaning!Openers
  <2>3. "endarm" \in Inward /\ ("endarm" \in Popping <=> g.kind = "labels" /\ g.arms = {})
        /\ ("endarm" = "label" <=> g.kind = "labels" /\ g.arms # {})
    BY DEF Inward, Popping
  <2> QED BY <2>1, <2>2, <2>3, TurnedBrackets DEF Retopped
<1>11. Len(f2) = Len(f) /\ SameUpTo(f, f2, Len(f) - 1) /\ f2[Len(f2)] = g /\ Bracketed(s2, f2) /\ Topmost(f2)
  BY <1>10 DEF TurnedTo
<1>12. Shape(e, s2, N)
  BY <1>1 DEF Shape, Placed, Lengthened
<1>13. Linked(e, s2, f2)
  <2>1. BranchAt(e, s2, N) = b.pos
    BY <1>1 DEF Placed, Starting
  <2>2. f2[Len(f2)].kind = "labels" /\ f2[Len(f2)].arms = {}
        /\ f2[Len(f2)].ends = f[Len(f)].ends \cup {BranchAt(e, s2, Len(s) + 1)}
    BY <1>11, <2>1
  <2> QED BY <1>5, <1>9, <1>11, <2>2, EndArmStep
<1>14. Kept(b, e, s, s2, "endarm", T, V, to)
  BY <1>9 DEF Stands
<1> QED BY <1>11, <1>12, <1>13, <1>14, SceneLaid

(* The branch that leads past the open arm is in the code.                  *)
LEMMA ArmHole ==
  ASSUME NEW b, NEW s, NEW f, Laid(b, s, f), IsCode(b), s \in Seq(Tokens), f \in Seq(Frame), f # <<>>,
         f[Len(f)].kind = "arm"
  PROVE  f[Len(f)].hole \in DOMAIN b.ins
<1>1. PICK o : Inmost(b, s, f, o)
  BY InmostIs
<1>2. s[o].k = "case"
  BY <1>1, InmostCase
<1>3. CaseLinked(b, s, f, o) /\ Open(s, o) /\ FrameOf(f, s, o) = f[Len(f)] /\ FrameOf(f, s, o).kind = "arm"
  BY <1>1, <1>2 DEF Laid, Linked, Inmost
<1>4. PICK m : Arm(s, o, m) /\ f[Len(f)].hole = BranchAt(b, s, Skipper(b, m))
  BY <1>3, ArmOpen
<1>5. Direct(s, o, m) /\ s[m].k = "colon"
  BY <1>4 DEF Arm
<1>6. Ordered(s, f) /\ Owned(s, f) /\ Shaped(b, s)
  BY DEF Laid, Bracketed
<1>7. /\ Skipper(b, m) \in DOMAIN s /\ HasBranch(b, s, Skipper(b, m))
  BY <1>2, <1>5, <1>6, SkipperBranch
<1>8. Shape(b, s, Skipper(b, m))
  BY <1>6, <1>7 DEF Shaped
<1> QED BY <1>4, <1>7, <1>8, BranchFacts

LEMMA EndArmLaid ==
  ASSUME Before, InRange', EndArm
  PROVE  Laid(code', prog', frames')
<1> PICK c : c = EmitHole(code, "goto")
  OBVIOUS
<1> PICK N : N = Len(prog) + 1
  OBVIOUS
<1> PICK S : S = {frames[Len(frames)].hole}
  OBVIOUS
<1>1. /\ "goto" \in Ops /\ "endarm" \in Kinds /\ 0 \in Int /\ frames # <<>> /\ Top.kind = "arm"
      /\ frames[Len(frames)].kind = "arm" /\ code'.pos < ShortHalf
  BY DEF Ops, Branches, Kinds, EndArm, TopIs, InRange, Top
<1>2. S \subseteq DOMAIN code.ins
  BY <1>1, BeforeFacts, ArmHole DEF Before
<1>3. Emitted(code, c, N, "goto", 3) /\ IsCode(c) /\ c.pos = code.pos + 3 /\ c.pos \in Nat
  <2>1. Emitted(code, c, N, "goto", 3)
    BY <1>1, BeforeFacts, HoleEmitted
  <2> QED BY <2>1 DEF Emitted, IsCode
<1>4. code' = Patch(c, S, c.pos)
  BY DEF EndArm, PatchHere, Top
<1>5. c.pos < ShortHalf /\ code'.pos = c.pos
  <2>1. Patch(c, S, c.pos).pos = c.pos
    BY <1>3, PatchCode
  <2> QED BY <1>1, <1>4, <2>1
<1>6. Lengthened(code, code', N, "goto", 3, S, code'.pos)
  <2>1. Lengthened(code, Patch(c, S, c.pos), N, "goto", 3, S, c.pos)
    BY <1>2, <1>3, <1>5, BeforeFacts, EmitThenPatch
  <2> QED BY <1>4, <1>5, <2>1
<1>7. OneMore(prog, prog', "endarm")
  BY <1>1, BeforeFacts, Consumed DEF EndArm, ConsumeWord
<1>8. Scene(code, code', prog, prog', "endarm", frames, frames')
  BY <1>6, <1>7, SetScene DEF Lengthened
<1>9. \E g : Retopped(frames, frames', g) /\ g.kind = "labels" /\ g.arms = {} /\ g.ends = Top.ends \cup {code.pos}
  <2>1. Top \in Frame /\ Top.arms = {}
    BY <1>1, TopFacts DEF FrameShaped
  <2> PICK g : g = [Top EXCEPT !.kind = "labels", !.hole = -1, !.ends = @ \cup {code.pos}]
    OBVIOUS
  <2>2. g.kind = "labels" /\ g.arms = {} /\ g.ends = Top.ends \cup {code.pos}
    BY <2>1 DEF Frame
  <2>3. Retopped(frames, frames', g)
    BY DEF EndArm, SetTop, Retopped
  <2> QED BY <2>2, <2>3
<1>10. PICK g : Retopped(frames, frames', g) /\ g.kind = "labels" /\ g.arms = {} /\ g.ends = Top.ends \cup {code.pos}
  BY <1>9
<1>11. /\ g.ends = frames[Len(frames)].ends \cup {code.pos}
       /\ Lengthened(code, code', Len(prog) + 1, "goto", 3, {frames[Len(frames)].hole}, code'.pos)
  BY <1>6, <1>10 DEF Top
<1> QED BY <1>1, <1>8, <1>10, <1>11, EndArmLaidBy

-----------------------------------------------------------------------------
LEMMA CaseElseLaidBy ==
  ASSUME NEW b, NEW e, NEW s, NEW s2, NEW f, NEW f2, Scene(b, e, s, s2, "caseelse", f, f2),
         f # <<>>, f[Len(f)].kind = "labels", f[Len(f)].arms = {}, NEW g, Retopped(f, f2, g),
         g.kind = "caseelse", g.arms = {}, g.ends = f[Len(f)].ends,
         Emitted(b, e, Len(s) + 1, "pop", 1)
  PROVE  Laid(e, s2, f2)
<1> PICK to : to = 0
  OBVIOUS
<1> PICK T : T = {}
  OBVIOUS
<1> PICK V : V = {}
  OBVIOUS
<1> PICK N : N = Len(s) + 1
  OBVIOUS
<1>1. Rewrites(b, e, s, T, V, to)
  BY Unchanged DEF Emitted
<1>2. Bracketed(s, f) /\ Linked(b, s, f) /\ f \in Seq(Frame) /\ f2 \in Seq(Frame) /\ s \in Seq(Tokens) /\ Laid(b, s, f)
  BY SceneParts
<1>3. PICK o : Inmost(b, s, f, o)
  BY <1>2, InmostIs
<1>4. s[o].k = "case"
  BY <1>3, InmostCase
<1>5. Stands(b, e, s, s2, "caseelse", f, f2, T, V, to, o)
  BY <1>1, <1>3, <1>4, CaseTurn DEF Inward
<1>6. TurnedTo(s2, f, f2, g)
  <2>1. Guarded(f, "caseelse")
    BY DEF Guarded, Labels, Between, Listing, Among
  <2>2. \A x \in Meaning!Openers : f[Len(f)].kind \in KindsOf(x) => g.kind \in KindsOf(x)
    BY DEF KindsOf, Meaning!Openers
  <2>3. "caseelse" \in Inward /\ ("caseelse" \in Popping <=> g.kind = "labels" /\ g.arms = {})
        /\ ("caseelse" = "label" <=> g.kind = "labels" /\ g.arms # {})
    BY DEF Inward, Popping
  <2> QED BY <2>1, <2>2, <2>3, TurnedBrackets DEF Retopped
<1>7. Len(f2) = Len(f) /\ SameUpTo(f, f2, Len(f) - 1) /\ f2[Len(f2)] = g /\ Bracketed(s2, f2) /\ Topmost(f2)
  BY <1>6 DEF TurnedTo
<1>8. Shape(e, s2, N)
  <2>1. Placed(b, e, s, s2, "caseelse", N)
    BY ScenePlaces
  <2> QED BY <2>1 DEF Shape, Placed, Emitted, Past
<1>9. Linked(e, s2, f2)
  <2>1. f2[Len(f2)].kind = "caseelse" /\ f2[Len(f2)].arms = {} /\ f2[Len(f2)].ends = f[Len(f)].ends
    BY <1>7
  <2> QED BY <1>5, <1>7, <2>1, CaseElseStep
<1>10. Kept(b, e, s, s2, "caseelse", T, V, to)
  BY <1>5 DEF Stands
<1> QED BY <1>7, <1>8, <1>9, <1>10, SceneLaid

LEMMA CaseElseLaid ==
  ASSUME Before, CaseElse
  PROVE  Laid(code', prog', frames')
<1>1. /\ "pop" \in Ops /\ 1 \in Nat \ {0} /\ "caseelse" \in Kinds /\ 0 \in Int /\ frames # <<>>
      /\ frames[Len(frames)].kind = "labels" /\ frames[Len(frames)].arms = {}
  BY DEF Ops, Silent, Kinds, CaseElse, TopIs, Top
<1>2. Emitted(code, code', Len(prog) + 1, "pop", 1)
  <2>1. code' = EmitChunk(code, "pop", 1)
    BY DEF CaseElse
  <2> QED BY <1>1, <2>1, BeforeFacts, ChunkEmitted
<1>3. OneMore(prog, prog', "caseelse")
  BY <1>1, BeforeFacts, Consumed DEF CaseElse, ConsumeWord
<1>4. Scene(code, code', prog, prog', "caseelse", frames, frames')
  BY <1>2, <1>3, SetScene DEF Emitted
<1>5. \E g : Retopped(frames, frames', g) /\ g.kind = "caseelse" /\ g.arms = {} /\ g.ends = Top.ends
  <2>1. Top \in Frame /\ Top.arms = {}
    BY <1>1, TopFacts DEF Top
  <2> PICK g : g = [Top EXCEPT !.kind = "caseelse"]
    OBVIOUS
  <2>2. g.kind = "caseelse" /\ g.arms = {} /\ g.ends = Top.ends
    BY <2>1 DEF Frame
  <2>3. Retopped(frames, frames', g)
    BY DEF CaseElse, SetTop, Retopped
  <2> QED BY <2>2, <2>3
<1>6. PICK g : Retopped(frames, frames', g) /\ g.kind = "caseelse" /\ g.arms = {} /\ g.ends = Top.ends
  BY <1>5
<1>7. g.ends = frames[Len(frames)].ends
  BY <1>6 DEF Top
<1> QED BY <1>1, <1>2, <1>4, <1>6, <1>7, CaseElseLaidBy

(* The code at the end of a case statement: a pop if there is no else part. *)
EsacCode(b, e, N, popped, S) ==
  /\ Adds(b, e, N) /\ IsCode(e) /\ Patched(b, e, S, e.pos)
  /\ popped => Is(e, b.pos, "pop", N) /\ e.ins[b.pos].len = 1 /\ e.pos = b.pos + 1
  /\ ~popped => e.pos = b.pos

LEMMA EndCaseLaidBy ==
  ASSUME NEW b, NEW e, NEW s, NEW s2, NEW f, NEW f2, Scene(b, e, s, s2, "esac", f, f2),
         f # <<>>, f[Len(f)].kind = "caseelse" \/ (f[Len(f)].kind = "labels" /\ f[Len(f)].arms = {}),
         Shorter(f, f2), NEW popped \in BOOLEAN, popped <=> f[Len(f)].kind = "labels",
         EsacCode(b, e, Len(s) + 1, popped, f[Len(f)].ends)
  PROVE  Laid(e, s2, f2)
<1> PICK N : N = Len(s) + 1
  OBVIOUS
<1> PICK to : to = e.pos
  OBVIOUS
<1> PICK V : V = {}
  OBVIOUS
<1>1. Placed(b, e, s, s2, "esac", N)
  BY ScenePlaces
<1>2. /\ Bracketed(s, f) /\ Linked(b, s, f) /\ f \in Seq(Frame) /\ f2 \in Seq(Frame) /\ s \in Seq(Tokens)
      /\ Laid(b, s, f) /\ IsCode(b) /\ Shaped(b, s) /\ Ordered(s, f) /\ Owned(s, f) /\ OneMore(s, s2, "esac")
  BY SceneParts
<1>3. PICK o : Inmost(b, s, f, o)
  BY <1>2, InmostIs
<1>4. s[o].k = "case"
  BY <1>3, InmostCase
<1>5. Holds(b, s, o, f[Len(f)])
  <2>1. CaseLinked(b, s, f, o) /\ Open(s, o) /\ FrameOf(f, s, o) = f[Len(f)]
    BY <1>2, <1>3, <1>4 DEF Linked, Inmost
  <2> QED BY <2>1, CaseHolds
<1> PICK T : T = EndArms(s, o)
  OBVIOUS
<1>7. Patched(b, e, BranchesOf(b, s, T), to)
  BY <1>5 DEF Holds, EsacCode
<1>8. Rewrites(b, e, s, T, V, to)
  <2>1. \A t \in T : Branch(b, s, t)
    BY DEF Branch, EndArms, HasBranch, Branchers
  <2> QED BY <1>2, <1>7, <2>1, PatchedRewrites
<1>9. Stands(b, e, s, s2, "esac", f, f2, T, V, to, o)
  <2>1. Kept(b, e, s, s2, "esac", T, V, to)
    BY <1>8, SceneKept
  <2>2. Delta("esac") = -1
    BY DEF Delta, Meaning!Openers, Meaning!Closers
  <2> QED BY <1>2, <1>3, <1>4, <2>1, <2>2 DEF Stands, Inmost
<1>10. Popped(s2, f, f2)
  <2>1. Guarded(f, "esac") /\ "esac" \in Meaning!Closers
    BY DEF Guarded, Between, Listing, Labels, Among, Meaning!Closers
  <2>2. \A y \in Meaning!Openers : f[Len(f)].kind \in KindsOf(y) => "esac" \in EndsOf(y)
    BY DEF KindsOf, EndsOf, Meaning!Openers
  <2> QED BY <2>1, <2>2, PoppedBrackets DEF Shorter
<1>11. Bracketed(s2, f2) /\ Topmost(f2) /\ Len(f2) = Len(f) - 1 /\ SameUpTo(f, f2, Len(f) - 1)
  BY <1>10 DEF Popped
<1>12. s2[N - 1].k \in Popping <=> popped
  <2>1. o \in DOMAIN s /\ DOMAIN s = 1 .. Len(s) /\ Len(s) \in Nat /\ Len(<<>>) = 0
    BY <1>2, <1>3 DEF Inmost
  <2>2. Len(s) \in DOMAIN s /\ s # <<>> /\ N - 1 = Len(s)
    BY <2>1
  <2>3. s2[N - 1] = s[Len(s)]
    BY <1>2, <2>2 DEF OneMore
  <2>4. LastKind(s) \in Popping <=> Between(f)
    BY <1>2 DEF Ordered
  <2>5. Between(f) <=> popped
    BY DEF Between, Labels
  <2> QED BY <2>2, <2>3, <2>4, <2>5 DEF LastKind
<1>13. Shape(e, s2, N)
  <2>1. Place(e, N) = b.pos /\ Place(e, N + 1) = e.pos /\ s2[N].k = "esac"
    BY <1>1 DEF Placed
  <2>2. popped => Is(e, b.pos, "pop", N) /\ Past(e, b.pos) = e.pos
    BY DEF EsacCode, Past
  <2>3. ~popped => b.pos = e.pos
    BY DEF EsacCode
  <2> QED BY <1>12, <2>1, <2>2, <2>3 DEF Shape
<1>14. Linked(e, s2, f2)
  BY <1>9, <1>11, EndCaseStep
<1>15. Kept(b, e, s, s2, "esac", T, V, to)
  BY <1>9 DEF Stands
<1> QED BY <1>11, <1>13, <1>14, <1>15, SceneLaid

LEMMA EndCaseLaid ==
  ASSUME Before, InRange', EndCase
  PROVE  Laid(code', prog', frames')
<1> PICK N : N = Len(prog) + 1
  OBVIOUS
<1> PICK S : S = frames[Len(frames)].ends
  OBVIOUS
<1> PICK popped \in BOOLEAN : popped <=> frames[Len(frames)].kind = "labels"
  OBVIOUS
<1> PICK c : (popped => c = EmitChunk(code, "pop", 1)) /\ (~popped => c = code)
  OBVIOUS
<1>1. /\ "pop" \in Ops /\ 1 \in Nat \ {0} /\ "esac" \in Kinds /\ 0 \in Int /\ frames # <<>>
      /\ \/ frames[Len(frames)].kind = "caseelse"
         \/ frames[Len(frames)].kind = "labels" /\ frames[Len(frames)].arms = {}
      /\ code'.pos < ShortHalf
  BY DEF Ops, Silent, Kinds, EndCase, TopIs, Top, InRange
<1>2. code' = Patch(c, S, c.pos)
  <2>1. CASE popped
    BY <2>1 DEF EndCase, PatchHere, Top
  <2>2. CASE ~popped
    BY <2>2 DEF EndCase, PatchHere, Top
  <2> QED BY <2>1, <2>2
<1>3. S \subseteq DOMAIN code.ins
  BY <1>1, BeforeFacts, CaseTop DEF Before
<1>4. EsacCode(code, code', N, popped, S)
  <2>1. CASE popped
    <3>1. c = EmitChunk(code, "pop", 1)
      BY <2>1
    <3>2. Emitted(code, c, N, "pop", 1) /\ IsCode(c) /\ c.pos = code.pos + 1 /\ c.pos \in Nat
      <4>1. Emitted(code, c, N, "pop", 1)
        BY <1>1, <3>1, BeforeFacts, ChunkEmitted
      <4> QED BY <4>1 DEF Emitted, IsCode
    <3>3. c.pos < ShortHalf /\ code'.pos = c.pos
      <4>1. Patch(c, S, c.pos).pos = c.pos
        BY <3>2, PatchCode
      <4> QED BY <1>1, <1>2, <4>1
    <3>4. Lengthened(code, Patch(c, S, c.pos), N, "pop", 1, S, c.pos)
      BY <1>1, <1>3, <3>2, <3>3, BeforeFacts, EmitThenPatch
    <3>5. Lengthened(code, code', N, "pop", 1, S, code'.pos)
      BY <1>2, <3>3, <3>4
    <3> QED BY <2>1, <3>5 DEF Lengthened, EsacCode
  <2>2. CASE ~popped
    <3>1. c = code
      BY <2>2
    <3>2. code.pos < ShortHalf /\ code'.pos = code.pos
      <4>1. Patch(code, S, code.pos).pos = code.pos
        BY BeforeFacts, PatchCode
      <4> QED BY <1>1, <1>2, <3>1, <4>1
    <3>3. Repatched(code, Patch(code, S, code.pos), N, S, code.pos)
      BY <3>2, BeforeFacts, PatchOnly
    <3>4. Repatched(code, code', N, S, code'.pos)
      BY <1>2, <3>1, <3>2, <3>3
    <3> QED BY <2>2, <3>4 DEF Repatched, EsacCode
  <2> QED BY <2>1, <2>2
<1>5. OneMore(prog, prog', "esac")
  BY <1>1, BeforeFacts, Consumed DEF EndCase, ConsumeWord
<1>6. Scene(code, code', prog, prog', "esac", frames, frames')
  BY <1>4, <1>5, SetScene DEF EsacCode
<1>7. Shorter(frames, frames')
  BY DEF EndCase, Pop, Shorter
<1>8. EsacCode(code, code', Len(prog) + 1, popped, frames[Len(frames)].ends)
  BY <1>4
<1> QED BY <1>1, <1>6, <1>7, <1>8, EndCaseLaidBy

(* Code appended behind the last token leaves all of them as they were.     *)
LEMMA KeptSame ==
  ASSUME NEW b, NEW e, NEW s, NEW s2, NEW k, NEW to, Kept(b, e, s, s2, k, {}, {}, to), NEW t \in DOMAIN s,
         s[t].k = "esac" => t >= 2
  PROVE  KeptToken(b, e, s, s, {}, {}, to, t)
<1>1. KeptToken(b, e, s, s2, {}, {}, to, t) /\ s2[t] = s[t] /\ s \in Seq(Tokens)
  BY DEF Kept, OneMore
<1>2. s[t].k = "esac" => s2[t - 1] = s[t - 1]
  <2>1. s[t].k = "esac" => t - 1 \in DOMAIN s
    BY <1>1
  <2> QED BY <2>1 DEF Kept, OneMore
<1>3. BranchAt(e, s, t) = BranchAt(e, s2, t)
  BY <1>1 DEF BranchAt
<1>4. LoopHead(e, s, t) = LoopHead(e, s2, t)
  BY <1>1 DEF LoopHead
<1>5. (TurnedAt(e, s, t) <=> TurnedAt(e, s2, t)) /\ To(e, s, t) = To(e, s2, t)
  BY <1>3 DEF TurnedAt, To
<1>6. Shape(e, s, t)
  <2>1. Shape(e, s2, t)
    BY <1>1 DEF KeptToken
  <2>2. (PlainLabel(e, s, t) <=> PlainLabel(e, s2, t)) /\ (RangeLabel(e, s, t) <=> RangeLabel(e, s2, t))
    BY <1>1 DEF PlainLabel, RangeLabel
  <2>3. CASE s[t].k = "label"
    BY <1>1, <2>1, <2>2, <2>3 DEF Shape
  <2>4. CASE s[t].k = "esac"
    BY <1>1, <1>2, <2>1, <2>4 DEF Shape
  <2>5. CASE s[t].k \notin {"label", "esac"}
    <3>1. CASE s[t].k \in {"stmt", "exit", "break", "else", "od", "endarm", "fi", "repeat", "case", "caseelse"}
      BY <1>1, <2>1, <3>1 DEF Shape
    <3>2. CASE s[t].k \in {"if", "while", "until", "forever", "rof"}
      BY <1>1, <2>1, <3>2 DEF Shape
    <3>3. CASE s[t].k = "for"
      BY <1>1, <2>1, <3>3 DEF Shape
    <3>4. CASE s[t].k = "colon"
      BY <1>1, <2>1, <3>4 DEF Shape
    <3>5. s[t].k \in Kinds
      <4>1. s[t] \in Tokens
        BY <1>1
      <4> QED BY <4>1 DEF Tokens
    <3> QED BY <2>5, <3>1, <3>2, <3>3, <3>4, <3>5 DEF Kinds
  <2> QED BY <2>3, <2>4, <2>5
<1>7. /\ Place(e, t) = Place(b, t) /\ Place(e, t + 1) = Place(b, t + 1)
      /\ BranchAt(e, s2, t) = BranchAt(b, s, t)
      /\ s[t].k \in LoopKinds => LoopHead(e, s2, t) = LoopHead(b, s, t)
      /\ PopAt(e, t) = PopAt(b, t) /\ (WithGoto(e, t) <=> WithGoto(b, t)) /\ Skipper(e, t) = Skipper(b, t)
      /\ s[t].k = "label" => (TurnedAt(e, s2, t) <=> TurnedAt(b, s, t))
      /\ HasBranch(b, s, t) => To(e, s2, t) = To(b, s, t)
      /\ s[t].k = "break" =>
           (Is(e, Place(e, t), "break", t) <=> Is(b, Place(b, t), "break", t))
  BY <1>1 DEF KeptToken
<1> QED BY <1>3, <1>4, <1>5, <1>6, <1>7 DEF KeptToken

LEMMA StillLinked ==
  ASSUME NEW b, NEW e, NEW s, NEW f, NEW to, f = <<>>, Bracketed(s, f), Linked(b, s, f), s \in Seq(Tokens),
         \A t \in DOMAIN s : KeptToken(b, e, s, s, {}, {}, to, t)
  PROVE  Linked(e, s, f)
<1>0. Owned(s, f) /\ Ordered(s, f)
  BY DEF Bracketed
<1>1. \A i \in DOMAIN s : ~Open(s, i)
  BY <1>0 DEF Owned
<1>2. ASSUME NEW t \in DOMAIN s
      PROVE  /\ Place(e, t) = Place(b, t) /\ Place(e, t + 1) = Place(b, t + 1)
             /\ s[t].k \in LoopKinds => LoopHead(e, s, t) = LoopHead(b, s, t)
             /\ PopAt(e, t) = PopAt(b, t) /\ (WithGoto(e, t) <=> WithGoto(b, t)) /\ Skipper(e, t) = Skipper(b, t)
             /\ s[t].k = "label" => (TurnedAt(e, s, t) <=> TurnedAt(b, s, t))
             /\ HasBranch(b, s, t) => To(e, s, t) = To(b, s, t)
             /\ s[t].k \in {"if", "while", "until", "forever", "rof", "for", "label", "else", "od", "endarm", "break"}
                  => To(e, s, t) = To(b, s, t)
             /\ s[t].k = "break" =>
                  (Is(e, Place(e, t), "break", t) <=> Is(b, Place(b, t), "break", t))
  BY DEF KeptToken, HasBranch, Branchers
<1>3. ASSUME NEW i \in DOMAIN s, s[i].k = "if" PROVE IfLinked(e, s, f, i)
  <2>1. IfLinked(b, s, f, i) /\ To(e, s, i) = To(b, s, i)
    BY <1>2, <1>3 DEF Linked
  <2> SUFFICES ASSUME NEW c \in DOMAIN s, Closes(s, i, c)
               PROVE  \/ To(e, s, i) = Place(e, c) /\ NoneOf(s, i, i, c, {"else"})
                      \/ \E x \in DOMAIN s : /\ Direct(s, i, x) /\ s[x].k = "else" /\ x < c
                              /\ To(e, s, i) = Place(e, x + 1) /\ To(e, s, x) = Place(e, c)
                              /\ NoneOf(s, i, i, x - 1, {"else"}) /\ NoneOf(s, i, x + 1, c, {"else"})
    BY <1>1 DEF IfLinked
  <2>2. Place(e, c) = Place(b, c)
    BY <1>2
  <2>3. CASE To(b, s, i) = Place(b, c) /\ NoneOf(s, i, i, c, {"else"})
    BY <2>1, <2>2, <2>3
  <2>4. CASE ~(To(b, s, i) = Place(b, c) /\ NoneOf(s, i, i, c, {"else"}))
    <3>1. PICK x \in DOMAIN s : /\ Direct(s, i, x) /\ s[x].k = "else" /\ x < c
                              /\ To(b, s, i) = Place(b, x + 1) /\ To(b, s, x) = Place(b, c)
                              /\ NoneOf(s, i, i, x - 1, {"else"}) /\ NoneOf(s, i, x + 1, c, {"else"})
      BY <2>1, <2>4 DEF IfLinked
    <3>2. To(e, s, x) = To(b, s, x) /\ Place(e, x + 1) = Place(b, x + 1)
      BY <1>2, <3>1
    <3> QED BY <2>1, <2>2, <3>1, <3>2
  <2> QED BY <2>3, <2>4
<1>4. ASSUME NEW i \in DOMAIN s, s[i].k \in LoopKinds PROVE LoopLinked(e, s, f, i)
  <2>1. LoopLinked(b, s, f, i) /\ LoopHead(e, s, i) = LoopHead(b, s, i)
    BY <1>2, <1>4 DEF Linked
  <2>2. s[i].k # "repeat" => To(e, s, i) = To(b, s, i)
    BY <1>2, <1>4 DEF LoopKinds
  <2>3. ASSUME NEW c \in DOMAIN s, Closes(s, i, c)
        PROVE  Place(e, c + 1) = Place(b, c + 1) /\ To(e, s, c) = To(b, s, c)
    <3>1. s[i].k \in Meaning!Openers /\ s[c].k \in EndsOf(s[i].k)
      BY <1>0, <2>3, ClosesEnds DEF Closes, Opens
    <3>2. s[c].k \in {"od", "until", "forever", "rof"}
      BY <1>4, <3>1 DEF EndsOf, LoopKinds
    <3> QED BY <1>2, <3>2
  <2> QED BY <1>1, <2>1, <2>2, <2>3 DEF LoopLinked
<1>5. ASSUME NEW t \in DOMAIN s, s[t].k = "break" PROVE BreakLinked(e, s, t)
  <2>1. BreakLinked(b, s, t)
    BY <1>5 DEF Linked
  <2>2. PICK i \in DOMAIN s : /\ Inner(s, i, t, LoopKinds)
          /\ IF Is(b, Place(b, t), "break", t) THEN Open(s, i)
             ELSE \E c \in DOMAIN s : Closes(s, i, c) /\ To(b, s, t) = Place(b, c + 1)
    BY <2>1 DEF BreakLinked
  <2>3. (Is(e, Place(e, t), "break", t) <=> Is(b, Place(b, t), "break", t)) /\ To(e, s, t) = To(b, s, t)
    BY <1>2, <1>5
  <2>4. \A c \in DOMAIN s : Place(e, c + 1) = Place(b, c + 1)
    BY <1>2
  <2> QED BY <2>2, <2>3, <2>4 DEF BreakLinked
<1>6. ASSUME NEW i \in DOMAIN s, s[i].k = "case" PROVE CaseLinked(e, s, f, i)
  <2>1. CaseLinked(b, s, f, i)
    BY <1>6 DEF Linked
  <2>2. ASSUME NEW l \in DOMAIN s, Direct(s, i, l), s[l].k = "label" PROVE LabelLinked(e, s, f, i, l)
    <3>1. PICK c \in DOMAIN s :
       /\ l < c /\ Direct(s, i, c) /\ s[c].k = "colon" /\ NoneOf(s, i, l, c - 1, {"colon"})
       /\ IF TurnedAt(b, s, l) THEN c = l + 1 /\ ~WithGoto(b, c)
          ELSE To(b, s, l) = PopAt(b, c) /\ (c = l + 1 => WithGoto(b, c))
      BY <1>1, <2>1, <2>2 DEF CaseLinked, LabelLinked
    <3>2. (TurnedAt(e, s, l) <=> TurnedAt(b, s, l)) /\ To(e, s, l) = To(b, s, l)
      BY <1>2, <2>2
    <3>3. PopAt(e, c) = PopAt(b, c) /\ (WithGoto(e, c) <=> WithGoto(b, c))
      BY <1>2
    <3> QED BY <3>1, <3>2, <3>3 DEF LabelLinked
  <2>3. ASSUME NEW c \in DOMAIN s, Direct(s, i, c), s[c].k = "colon" PROVE ColonLinked(e, s, f, i, c)
    <3>1. PICK x \in DOMAIN s :
       /\ c < x /\ Direct(s, i, x) /\ s[x].k = "endarm"
       /\ NoneOf(s, i, c + 1, x, {"label", "colon", "caseelse"})
       /\ To(b, s, Skipper(b, c)) = Place(b, x + 1)
      BY <1>1, <2>1, <2>3 DEF CaseLinked, ColonLinked
    <3>2. Skipper(b, c) \in DOMAIN s /\ HasBranch(b, s, Skipper(b, c))
      BY <1>0, <1>6, <2>3, SkipperBranch
    <3>3. To(e, s, Skipper(b, c)) = To(b, s, Skipper(b, c)) /\ Skipper(e, c) = Skipper(b, c)
          /\ Place(e, x + 1) = Place(b, x + 1)
      BY <1>2, <3>2
    <3> QED BY <3>1, <3>3 DEF ColonLinked
  <2>4. ASSUME NEW x \in DOMAIN s, Direct(s, i, x), s[x].k = "caseelse"
        PROVE  NoneOf(s, i, i, x - 1, {"caseelse"}) /\ NoneOf(s, i, x + 1, Len(s), {"label", "caseelse"})
    BY <2>1, <2>4 DEF CaseLinked
  <2>5. ASSUME NEW c \in DOMAIN s, Closes(s, i, c)
        PROVE  /\ \A x \in DOMAIN s : Direct(s, i, x) /\ s[x].k = "endarm" => To(e, s, x) = Place(e, c + 1)
               /\ s[c-1].k \in Popping <=> NoneOf(s, i, i, c, {"caseelse"})
    <3>1. /\ \A x \in DOMAIN s : Direct(s, i, x) /\ s[x].k = "endarm" => To(b, s, x) = Place(b, c + 1)
          /\ s[c-1].k \in Popping <=> NoneOf(s, i, i, c, {"caseelse"})
      BY <2>1, <2>5 DEF CaseLinked
    <3>2. Place(e, c + 1) = Place(b, c + 1) /\ \A x \in DOMAIN s : s[x].k = "endarm" => To(e, s, x) = To(b, s, x)
      BY <1>2
    <3> QED BY <3>1, <3>2
  <2> QED BY <1>1, <2>2, <2>3, <2>4, <2>5 DEF CaseLinked
<1> QED BY <1>3, <1>4, <1>5, <1>6 DEF Linked

(* The code of a finished routine: behind the last token comes the return.  *)
Finished ==
  /\ Bracketed(prog, frames) /\ Topmost(frames) /\ Tokened(code, Len(prog) + 1)
  /\ Shaped(code, prog) /\ Linked(code, prog, frames)
  /\ Is(code, Last, "return", Len(prog) + 1)

(* The invariant behind LaidOut.                                            *)
Layout ==
  InRange /\ ~errors => IF done THEN Finished ELSE Laid(code, prog, frames)

LEMMA LayoutImplies == Inductive /\ Layout => LaidOut
<1> SUFFICES ASSUME Inductive, Layout, InRange, ~errors
             PROVE  /\ Bracketed(prog, frames)
                    /\ Tokened(code, Len(prog) + (IF done THEN 1 ELSE 0))
                    /\ Shaped(code, prog)
                    /\ Linked(code, prog, frames)
                    /\ IF done THEN Is(code, Last, "return", Len(prog) + 1) ELSE Last = code.pos
  BY DEF LaidOut
<1>1. IsCode(code) /\ Len(prog) \in Nat /\ done \in BOOLEAN
  BY DEF Inductive, TypeOK
<1>2. CASE done
  BY <1>2 DEF Layout, Finished
<1>3. CASE ~done
  <2>1. Laid(code, prog, frames)
    BY <1>3 DEF Layout
  <2>2. Last = code.pos
    <3>1. Len(prog) + 1 \in Nat \ {0} /\ (Len(prog) + 1) - 1 = Len(prog)
      BY <1>1
    <3>2. Adds(code, code, Len(prog) + 1)
      BY <1>1, AddsNothing
    <3> QED BY <1>1, <2>1, <3>1, <3>2, PlaceStep DEF Laid, Last
  <2>3. Len(prog) + 0 = Len(prog)
    BY <1>1
  <2> QED BY <1>3, <2>1, <2>2, <2>3 DEF Laid
<1> QED BY <1>2, <1>3

LEMMA InitLaid == Init => Layout
<1> SUFFICES ASSUME Init PROVE Laid(code, prog, frames)
  BY DEF Init, Layout
<1>1. /\ prog = <<>> /\ frames = <<>> /\ DOMAIN prog = {} /\ DOMAIN frames = {} /\ Len(prog) = 0
      /\ code.ins = <<>> /\ DOMAIN code.ins = {}
  BY DEF Init
<1>2. Owned(prog, frames)
  BY <1>1 DEF Owned
<1>3. Ordered(prog, frames)
  <2>1. ~Labels(frames) /\ LastKind(prog) = "stmt"
    BY <1>1 DEF Labels, LastKind
  <2>2. 2 .. Len(prog) = {}
    BY <1>1
  <2> QED BY <1>1, <2>1, <2>2 DEF Ordered, Between, Listing, Popping
<1>4. Topmost(frames) /\ Tokened(code, Len(prog)) /\ Shaped(code, prog) /\ Linked(code, prog, frames)
  BY <1>1 DEF Topmost, Tokened, Shaped, Linked
<1> QED BY <1>2, <1>3, <1>4 DEF Laid, Bracketed

LEMMA FinishLaid ==
  ASSUME Before, NEW n \in ChunkSizes, Finish(n)
  PROVE  Finished'
<1> PICK N : N = Len(prog) + 1
  OBVIOUS
<1> PICK to : to = 0
  OBVIOUS
<1>1. n \in Nat \ {0} /\ "return" \in Ops /\ "exit" \in Kinds /\ 0 \in Int
  BY ChunkAssumption DEF Ops, Kinds
<1>2. Emitted(code, code', N, "return", n)
  <2>1. code' = EmitChunk(code, "return", n)
    BY DEF Finish
  <2> QED BY <1>1, <2>1, BeforeFacts, ChunkEmitted
<1>3. prog' = prog /\ frames' = frames /\ frames = <<>>
  BY DEF Finish
<1> PICK s2 : s2 = Append(prog, [k |-> "exit", lo |-> 0, hi |-> 0])
  OBVIOUS
<1>4. OneMore(prog, s2, "exit")
  <2>1. [k |-> "exit", lo |-> 0, hi |-> 0] \in Tokens
    BY <1>1 DEF Tokens
  <2> QED BY <2>1, BeforeFacts, AppendLonger
<1>5. Scene(code, code', prog, s2, "exit", frames, frames)
  BY <1>2, <1>4, BeforeFacts DEF Scene, Before, Emitted
<1>6. Rewrites(code, code', prog, {}, {}, to)
  BY <1>2, Unchanged DEF Emitted
<1>7. Kept(code, code', prog, s2, "exit", {}, {}, to)
  BY <1>5, <1>6, SceneKept
<1>8. ASSUME NEW t \in DOMAIN prog, prog[t].k = "esac" PROVE t >= 2
  <2>1. prog \in Seq(Tokens) /\ Owned(prog, frames)
    BY BeforeFacts DEF Bracketed
  <2>2. PICK i \in DOMAIN prog : Closes(prog, i, t)
    BY <1>8, <2>1 DEF Owned, Meaning!Closers
  <2>3. i < t /\ 1 <= i /\ i \in Int /\ t \in Int
    BY <2>1, <2>2, ClosesFacts
  <2> QED BY <2>3
<1>9. \A t \in DOMAIN prog : KeptToken(code, code', prog, prog, {}, {}, to, t)
  BY <1>7, <1>8, KeptSame
<1>10. Linked(code', prog, frames)
  BY <1>3, <1>9, BeforeFacts, StillLinked
<1>11. Shaped(code', prog)
  BY <1>9 DEF Shaped, KeptToken
<1>12. Placed(code, code', prog, s2, "exit", N)
  BY <1>5, ScenePlaces
<1>13. Tokened(code', N) /\ Place(code', N) = code.pos
  BY <1>12 DEF Placed
<1>14. Is(code', Place(code', N), "return", N)
  BY <1>2, <1>13 DEF Emitted
<1>15. Bracketed(prog, frames) /\ Topmost(frames)
  BY DEF Before, Laid
<1> QED BY <1>3, <1>10, <1>11, <1>13, <1>14, <1>15 DEF Finished, Last

LEMMA StepLaid ==
  ASSUME Before, InRange', ~errors', ParseStep, ~done'
  PROVE  Laid(code', prog', frames')
<1>1. ASSUME NEW n \in ChunkSizes, Until(n) PROVE Laid(code', prog', frames')
  BY <1>1, ChunkAssumption, CloseRepeatLaid DEF Until
<1>2. CASE Forever
  BY <1>2, CloseRepeatLaid DEF Forever
<1>3. ASSUME NEW n \in ChunkSizes, Finish(n) PROVE FALSE
  BY <1>3 DEF Finish
<1> QED BY <1>1, <1>2, <1>3, StmtLaid, ExitLaid, BreakLaid, IfThenLaid, ElseLaid, EndIfLaid, WhileDoLaid,
     EndWhileLaid, RepeatLaid, ForDoLaid, EndForLaid, CaseOfLaid, LabelLaid, LabelRangeLaid, ColonLaid,
     EndArmLaid, CaseElseLaid, EndCaseLaid DEF ParseStep

LEMMA ErrorsRemain ==
  ASSUME ParseStep, ~errors'
  PROVE  ~errors
<1>1. ASSUME NEW n \in ChunkSizes, Until(n) PROVE ~errors
  BY <1>1 DEF Until, CloseRepeat
<1> QED BY <1>1 DEF ParseStep, Stmt, Exit, Break, IfThen, Else, EndIf, WhileDo, EndWhile,
       Repeat, Forever, CloseRepeat, ForDo, EndFor, CaseOf, Label,
       LabelRange, Colon, EndArm, CaseElse, EndCase, Finish

LEMMA NextLaid == Inductive /\ Inductive' /\ Layout /\ [Next]_vars => Layout'
<1> SUFFICES ASSUME Inductive, Inductive', Layout, [Next]_vars PROVE Layout'
  OBVIOUS
<1>1. CASE UNCHANGED vars
  BY <1>1 DEF vars, Layout, InRange, Finished, Last
<1>2. ASSUME ParseStep, InRange', ~errors' PROVE IF done' THEN Finished' ELSE Laid(code', prog', frames')
  <2>1. MayRewrite(Int \cup FrameHoles(Top))
    BY DEF MayRewrite
  <2>2. code.pos <= code'.pos /\ code.pos \in Nat /\ IsCode(code')
    BY <1>2, <2>1, StepLeaves DEF Leaves
  <2>3. InRange
    BY <1>2, <2>2, ShortAssumption DEF InRange, IsCode
  <2>4. ~done
    BY <1>2 DEF ParseStep, Stmt, Exit, Break, IfThen, Else, EndIf, WhileDo, EndWhile,
       Repeat, Until, Forever, CloseRepeat, ForDo, EndFor, CaseOf, Label,
       LabelRange, Colon, EndArm, CaseElse, EndCase, Finish, StatementPoint
  <2>5. Before
    BY <1>2, <2>3, <2>4, ErrorsRemain DEF Layout, Before
  <2>6. CASE done'
    <3>1. \E n \in ChunkSizes : Finish(n)
      BY <1>2, <2>4, <2>6 DEF ParseStep, Stmt, Exit, Break, IfThen, Else, EndIf, WhileDo, EndWhile,
         Repeat, Until, Forever, CloseRepeat, ForDo, EndFor, CaseOf, Label,
         LabelRange, Colon, EndArm, CaseElse, EndCase
    <3> QED BY <2>5, <2>6, <3>1, FinishLaid
  <2>7. CASE ~done'
    BY <1>2, <2>5, <2>7, StepLaid
  <2> QED BY <2>6, <2>7
<1>3. CASE ParseStep
  BY <1>2, <1>3 DEF Layout
<1>4. CASE Closed
  BY <1>1, <1>4 DEF Closed
<1> QED BY <1>1, <1>3, <1>4 DEF Next

(* The inductive invariant, from which the next theorem follows: between    *)
(* two statements the code of a routine, as far as it was read, is laid out *)
(* as its source is nested, and the open statements hold the branches and   *)
(* addresses that their ends will need.                                     *)
THEOREM LayoutAlways == Spec => []Layout
  BY InitLaid, NextLaid, InductiveInvariant, PTL DEF Spec

(* However statements are nested, and whatever parser.c patched early or    *)
(* late, turned around or left out: each branch leads where the statement   *)
(* it was made for says.                                                    *)
THEOREM LaidOutAlways == Spec => []LaidOut
  BY LayoutImplies, LayoutAlways, InductiveInvariant, PTL
=============================================================================
