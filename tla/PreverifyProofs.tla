--------------------------- MODULE PreverifyProofs ---------------------------
(***************************************************************************)
(* What the verifier has found out when nothing is left to visit covers    *)
(* whatever the machine comes to, for every method without subroutines of  *)
(* which the verifier has nothing to report.                               *)
(***************************************************************************)
EXTENDS Preverify, TLAPS, WellFoundedInduction, FiniteSetTheorems

Sequence(s) == \E S : s \in Seq(S)

-----------------------------------------------------------------------------
(* Sequences.                                                              *)

LEMMA SequenceFacts ==
  ASSUME NEW s, Sequence(s)
  PROVE  Len(s) \in Nat /\ DOMAIN s = 1 .. Len(s)
BY DEF Sequence

LEMMA SequenceMade ==
  ASSUME NEW n \in Nat, NEW f, f = [k \in 1 .. n |-> f[k]]
  PROVE  Sequence(f) /\ Len(f) = n /\ DOMAIN f = 1 .. n
<1> DEFINE S == {f[k] : k \in 1 .. n}
<1>1. f \in [1 .. n -> S]
  OBVIOUS
<1>2. f \in Seq(S)
  <2> HIDE DEF S
  <2> QED BY <1>1
<1>3. DOMAIN f = 1 .. n
  BY <1>1
<1>4. DOMAIN f = 1 .. Len(f) /\ Len(f) \in Nat
  BY <1>2
<1>5. Len(f) = n
  BY <1>3, <1>4
<1>6. QED
  BY <1>2, <1>3, <1>5 DEF Sequence

\* What is shown of 0, and of each number if of the one before, holds of all.
LEMMA Least ==
  ASSUME NEW S \in SUBSET Nat, 0 \in S, \A n \in Nat : n \in S => n + 1 \in S
  PROVE  S = Nat
<1>1. SUFFICES ASSUME S # Nat PROVE FALSE
  OBVIOUS
<1> DEFINE T == Nat \ S
<1>2. PICK n \in T : \A m \in T : ~ (<<m, n>> \in OpToRel(<, Nat))
  BY <1>1, WFMin, NatLessThanWellFounded
<1>3. n \in Nat /\ n \notin S
  BY <1>2
<1>4. n # 0
  BY <1>3
<1>5. PICK m \in Nat : n = m + 1
  BY <1>3, <1>4
<1>6. m \in T
  BY <1>3, <1>5
<1>7. m < n
  BY <1>5
<1>8. QED
  BY <1>2, <1>3, <1>6, <1>7 DEF OpToRel

LEMMA SequenceAppend ==
  ASSUME NEW s, Sequence(s), NEW x
  PROVE  /\ Sequence(Append(s, x)) /\ Len(Append(s, x)) = Len(s) + 1
         /\ Append(s, x)[Len(s) + 1] = x
         /\ \A n \in 1 .. Len(s) : Append(s, x)[n] = s[n]
<1>1. PICK S : s \in Seq(S)
  BY DEF Sequence
<1>2. s \in Seq(S \cup {x}) /\ x \in S \cup {x}
  BY <1>1
<1>3. Append(s, x) \in Seq(S \cup {x})
  BY <1>2
<1>4. Len(Append(s, x)) = Len(s) + 1 /\ Append(s, x)[Len(s) + 1] = x
  BY <1>2
<1>5. \A n \in 1 .. Len(s) : Append(s, x)[n] = s[n]
  BY <1>2
<1>6. QED
  BY <1>3, <1>4, <1>5 DEF Sequence

LEMMA SequenceJoin ==
  ASSUME NEW s, NEW t, Sequence(s), Sequence(t)
  PROVE  /\ Sequence(s \o t) /\ Len(s \o t) = Len(s) + Len(t)
         /\ \A n \in 1 .. Len(s) + Len(t) :
              (s \o t)[n] = IF n <= Len(s) THEN s[n] ELSE t[n - Len(s)]
<1>1. PICK S : s \in Seq(S)
  BY DEF Sequence
<1>2. PICK T : t \in Seq(T)
  BY DEF Sequence
<1>3. s \in Seq(S \cup T) /\ t \in Seq(S \cup T)
  BY <1>1, <1>2
<1>4. s \o t \in Seq(S \cup T)
  BY <1>3
<1>5. Len(s \o t) = Len(s) + Len(t)
  BY <1>3
<1>6. \A n \in 1 .. Len(s) + Len(t) : (s \o t)[n] = IF n <= Len(s) THEN s[n] ELSE t[n - Len(s)]
  BY <1>3
<1>7. QED
  BY <1>4, <1>5, <1>6 DEF Sequence

LEMMA SequencePrefix ==
  ASSUME NEW s, Sequence(s), NEW n \in 0 .. Len(s)
  PROVE  /\ Sequence(SubSeq(s, 1, n)) /\ Len(SubSeq(s, 1, n)) = n
         /\ \A k \in 1 .. n : SubSeq(s, 1, n)[k] = s[k]
<1>1. PICK S : s \in Seq(S)
  BY DEF Sequence
<1>2. Len(s) \in Nat /\ DOMAIN s = 1 .. Len(s) /\ \A k \in 1 .. Len(s) : s[k] \in S
  BY <1>1
<1>3. n \in Nat /\ n <= Len(s)
  BY <1>2
<1>4. SubSeq(s, 1, n) = [k \in 1 .. n |-> s[k]]
  BY <1>1, <1>2, <1>3
<1>5. QED
  BY <1>3, <1>4, SequenceMade

LEMMA SequenceEmpty ==
  ASSUME NEW s, Sequence(s), Len(s) = 0
  PROVE  s = <<>>
BY DEF Sequence

LEMMA EmptySequence ==
  Sequence(<<>>) /\ Len(<<>>) = 0
<1>1. <<>> \in Seq({})
  OBVIOUS
<1>2. QED
  BY <1>1 DEF Sequence

LEMMA OneElement ==
  ASSUME NEW x
  PROVE  Sequence(<<x>>) /\ Len(<<x>>) = 1 /\ <<x>>[1] = x
<1>1. <<x>> \in Seq({x})
  OBVIOUS
<1>2. QED
  BY <1>1 DEF Sequence

LEMMA TwoElements ==
  ASSUME NEW x, NEW y
  PROVE  Sequence(<<x, y>>) /\ Len(<<x, y>>) = 2 /\ <<x, y>>[1] = x /\ <<x, y>>[2] = y
<1>1. <<x, y>> \in Seq({x, y})
  OBVIOUS
<1>2. QED
  BY <1>1 DEF Sequence

LEMMA LeastElement ==
  ASSUME NEW S \in SUBSET Nat, S # {}
  PROVE  Min(S) \in S /\ \A m \in S : Min(S) <= m
<1>1. PICK n \in S : \A m \in S : ~ (<<m, n>> \in OpToRel(<, Nat))
  BY WFMin, NatLessThanWellFounded
<1>2. \A m \in S : m \in Nat /\ n \in Nat
  OBVIOUS
<1>3. \A m \in S : ~ (m < n)
  BY <1>1, <1>2 DEF OpToRel
<1>4. \A m \in S : n <= m
  BY <1>2, <1>3
<1>5. QED
  BY <1>4 DEF Min

LEMMA MinPair ==
  ASSUME NEW a \in Int, NEW b \in Int
  PROVE  Min({a, b}) = IF a <= b THEN a ELSE b
<1>1. CASE a <= b
  BY <1>1 DEF Min
<1>2. CASE b <= a
  BY <1>2 DEF Min
<1>3. QED
  BY <1>1, <1>2

LEMMA MaxPair ==
  ASSUME NEW a \in Int, NEW b \in Int
  PROVE  Max({a, b}) = IF a <= b THEN b ELSE a
<1>1. CASE a <= b
  BY <1>1 DEF Max
<1>2. CASE b <= a
  BY <1>2 DEF Max
<1>3. QED
  BY <1>1, <1>2

\* A set of numbers up to n has a greatest one.
LEMMA Greatest ==
  ASSUME NEW n \in Nat, NEW T \in SUBSET (0 .. n), 0 \in T
  PROVE  Max(T) \in T /\ \A m \in T : m <= Max(T)
<1> DEFINE Good(k) == \E m \in T : \A j \in T : j <= k => j <= m
           S == {k \in Nat : Good(k)}
<1>1. 0 \in S
  <2>1. \A j \in T : j <= 0 => j <= 0
    OBVIOUS
  <2>2. QED
    BY <2>1
<1>2. ASSUME NEW k \in Nat, k \in S PROVE k + 1 \in S
  <2>1. PICK m \in T : \A j \in T : j <= k => j <= m
    BY <1>2
  <2>2. CASE k + 1 \in T
    <3>1. \A j \in T : j <= k + 1 => j <= k + 1
      OBVIOUS
    <3>2. QED
      BY <2>2, <3>1
  <2>3. CASE k + 1 \notin T
    <3>1. ASSUME NEW j \in T, j <= k + 1 PROVE j <= m
      <4>1. j \in Nat /\ j # k + 1
        BY <2>3
      <4>2. j <= k
        BY <3>1, <4>1
      <4>3. QED
        BY <2>1, <4>2
    <3>2. QED
      BY <3>1
  <2>4. QED
    BY <2>2, <2>3
<1>3. n \in S
  <2>1. S \in SUBSET Nat
    OBVIOUS
  <2> HIDE DEF S
  <2>2. QED
    BY <1>1, <1>2, <2>1, Least
<1>4. PICK m \in T : \A j \in T : j <= n => j <= m
  BY <1>3
<1>5. \A j \in T : j <= m
  BY <1>4
<1>6. QED
  BY <1>5 DEF Max

\* WithoutBogus is a prefix.
LEMMA WithoutBogusFacts ==
  ASSUME NEW s, Sequence(s)
  PROVE  \E n \in 0 .. Len(s) : WithoutBogus(s) = SubSeq(s, 1, n)
<1> DEFINE T == {0} \cup {k \in DOMAIN s : s[k] # Bogus}
<1>1. Len(s) \in Nat /\ DOMAIN s = 1 .. Len(s)
  BY SequenceFacts
<1>2. T \in SUBSET (0 .. Len(s)) /\ 0 \in T
  BY <1>1
<1>3. Max(T) \in T
  <2> HIDE DEF T
  <2> QED BY <1>1, <1>2, Greatest
<1>4. Max(T) \in 0 .. Len(s)
  BY <1>2, <1>3
<1>5. WithoutBogus(s) = SubSeq(s, 1, Max(T))
  BY DEF WithoutBogus
<1> HIDE DEF T
<1>6. QED
  BY <1>4, <1>5

-----------------------------------------------------------------------------
(* What the recursive functions compute.                                   *)

Increasing(s) == \A i, j \in 1 .. Len(s) : i < j => s[i] < s[j]
InPlace(s, n) == Len(s) = n /\ \A j \in 1 .. n : s[j] = j

\* The places of a set, in order.
LEMMA InOrderFacts ==
  ASSUME NEW places, NEW n \in Nat
  PROVE  /\ Sequence(InOrder(places, n))
         /\ \A j \in 1 .. Len(InOrder(places, n)) : InOrder(places, n)[j] \in places \cap (1 .. n)
         /\ \A k \in places \cap (1 .. n) :
              \E j \in 1 .. Len(InOrder(places, n)) : InOrder(places, n)[j] = k
         /\ Increasing(InOrder(places, n))
         /\ 1 .. n \subseteq places => InPlace(InOrder(places, n), n)
<1> DEFINE Step(f, k) == IF k = 0 THEN <<>>
                         ELSE IF k \in places THEN Append(f[k - 1], k) ELSE f[k - 1]
           Folded(f, m) == f = [k \in 0 .. m |-> Step(f, k)]
           Good(s, m) == /\ Sequence(s)
                         /\ \A j \in 1 .. Len(s) : s[j] \in places \cap (1 .. m)
                         /\ \A k \in places \cap (1 .. m) : \E j \in 1 .. Len(s) : s[j] = k
                         /\ Increasing(s) /\ (1 .. m \subseteq places => InPlace(s, m))
<1>1. \E f : Folded(f, n)
  <2> DEFINE S == {m \in Nat : \E f : Folded(f, m)}
  <2>1. 0 \in S
    <3> DEFINE f == [k \in 0 .. 0 |-> <<>>]
    <3>1. Folded(f, 0)
      OBVIOUS
    <3>2. QED
      BY <3>1
  <2>2. ASSUME NEW m \in Nat, m \in S PROVE m + 1 \in S
    <3>1. PICK f : Folded(f, m)
      BY <2>2
    <3> DEFINE g == [k \in 0 .. m + 1 |-> IF k <= m THEN f[k] ELSE Step(f, k)]
    <3>2. ASSUME NEW k \in 0 .. m + 1 PROVE g[k] = Step(g, k)
      <4>1. CASE k <= m
        <5>1. k \in 0 .. m
          BY <4>1
        <5>2. g[k] = f[k]
          BY <4>1
        <5>3. f[k] = Step(f, k)
          BY <3>1, <5>1
        <5>4. k # 0 => g[k - 1] = f[k - 1]
          BY <5>1
        <5>5. Step(g, k) = Step(f, k)
          BY <5>4
        <5>6. QED
          BY <5>2, <5>3, <5>5
      <4>2. CASE k = m + 1
        BY <4>2
      <4>3. QED
        BY <4>1, <4>2
    <3>3. Folded(g, m + 1)
      BY <3>2
    <3>4. m + 1 \in Nat
      OBVIOUS
    <3> HIDE DEF Folded
    <3>5. QED
      BY <3>3, <3>4
  <2>3. S \in SUBSET Nat
    OBVIOUS
  <2> HIDE DEF S
  <2>4. S = Nat
    BY <2>1, <2>2, <2>3, Least
  <2>5. QED
    BY <2>4 DEF S
<1> DEFINE first == CHOOSE f : Folded(f, n)
<1>2. Folded(first, n)
  BY <1>1
<1>3. InOrder(places, n) = first[n]
  BY DEF InOrder
<1> HIDE DEF first
<1>4. \A m \in Nat : m <= n => Good(first[m], m)
  <2> DEFINE S == {m \in Nat : m <= n => Good(first[m], m)}
  <2>1. 0 \in S
    <3>1. first[0] = <<>>
      BY <1>2
    <3>2. Increasing(<<>>) /\ InPlace(<<>>, 0)
      BY EmptySequence DEF Increasing, InPlace
    <3>3. QED
      BY <3>1, <3>2, EmptySequence
  <2>2. ASSUME NEW m \in Nat, m \in S PROVE m + 1 \in S
    <3>1. SUFFICES ASSUME m + 1 <= n PROVE Good(first[m + 1], m + 1)
      OBVIOUS
    <3>2. Good(first[m], m)
      BY <2>2, <3>1
    <3>3. first[m + 1] = IF m + 1 \in places THEN Append(first[m], m + 1) ELSE first[m]
      <4>1. m + 1 \in 0 .. n /\ m + 1 # 0 /\ (m + 1) - 1 = m
        BY <3>1
      <4>2. first[m + 1] = Step(first, m + 1)
        BY <1>2, <4>1
      <4>3. QED
        BY <4>1, <4>2
    <3>4. CASE m + 1 \notin places
      <4>1. \A k \in places \cap (1 .. m + 1) : k \in places \cap (1 .. m)
        BY <3>4
      <4>2. ~ (1 .. m + 1 \subseteq places)
        BY <3>4
      <4>3. QED
        BY <3>2, <3>3, <3>4, <4>1, <4>2
    <3>5. CASE m + 1 \in places
      <4> DEFINE s == first[m]
      <4>1. /\ Sequence(Append(s, m + 1)) /\ Len(Append(s, m + 1)) = Len(s) + 1
            /\ Append(s, m + 1)[Len(s) + 1] = m + 1
            /\ \A j \in 1 .. Len(s) : Append(s, m + 1)[j] = s[j]
        BY <3>2, SequenceAppend
      <4>2. Len(s) \in Nat
        BY <3>2, SequenceFacts
      <4>3. first[m + 1] = Append(s, m + 1)
        BY <3>3, <3>5
      <4> HIDE DEF s
      <4> DEFINE t == Append(s, m + 1)
      <4>4. \A j \in 1 .. Len(t) : t[j] \in places \cap (1 .. m + 1)
        BY <3>2, <3>5, <4>1, <4>2 DEF s
      <4>5. ASSUME NEW k \in places \cap (1 .. m + 1) PROVE \E j \in 1 .. Len(t) : t[j] = k
        <5>1. CASE k = m + 1
          BY <4>1, <4>2, <5>1
        <5>2. CASE k # m + 1
          <6>1. PICK j \in 1 .. Len(s) : s[j] = k
            BY <3>2, <5>2 DEF s
          <6>2. t[j] = k /\ j \in 1 .. Len(t)
            BY <4>1, <4>2, <6>1
          <6>3. QED
            BY <6>2
        <5>3. QED
          BY <5>1, <5>2
      <4>6. Sequence(t)
        BY <4>1
      <4>7. Increasing(t)
        <5>1. SUFFICES ASSUME NEW i \in 1 .. Len(t), NEW j \in 1 .. Len(t), i < j
                       PROVE  t[i] < t[j]
          BY DEF Increasing
        <5>2. i \in 1 .. Len(s) /\ t[i] = s[i] /\ s[i] \in 1 .. m
          BY <3>2, <4>1, <4>2, <5>1 DEF s
        <5>3. CASE j = Len(s) + 1
          BY <4>1, <5>2, <5>3
        <5>4. CASE j # Len(s) + 1
          <6>1. j \in 1 .. Len(s) /\ t[j] = s[j]
            BY <4>1, <4>2, <5>4
          <6>2. QED
            BY <3>2, <5>1, <5>2, <6>1 DEF Increasing, s
        <5>5. QED
          BY <5>3, <5>4
      <4>8. ASSUME 1 .. m + 1 \subseteq places PROVE InPlace(t, m + 1)
        <5>1. 1 .. m \subseteq places
          BY <4>8
        <5>2. Len(s) = m /\ \A j \in 1 .. m : s[j] = j
          BY <3>2, <5>1 DEF InPlace, s
        <5>3. \A j \in 1 .. m + 1 : j \in 1 .. m \/ j = m + 1
          OBVIOUS
        <5>4. QED
          BY <4>1, <5>2, <5>3 DEF InPlace
      <4> HIDE DEF t
      <4>9. QED
        BY <4>3, <4>4, <4>5, <4>6, <4>7, <4>8 DEF t
    <3>6. QED
      BY <3>4, <3>5
  <2>3. S \in SUBSET Nat
    OBVIOUS
  <2> HIDE DEF S
  <2>4. S = Nat
    BY <2>1, <2>2, <2>3, Least
  <2>5. QED
    BY <2>4 DEF S
<1> HIDE DEF Good
<1>5. Good(first[n], n)
  BY <1>4
<1>6. QED
  BY <1>3, <1>5 DEF Good

-----------------------------------------------------------------------------
(* Types.                                                                  *)

IsType(t) == /\ t \in [item : {t.item}, dim : Int, class : {t.class}, at : {t.at}]
             /\ t.item # "return"

\* What a machine may hold: nothing has a negative number of dimensions, and
\* null is no array.
Value(v) == IsType(v) /\ v.dim \in Nat /\ (v.class = "null" => v = Null)

\* A value is one of those that a type stands for.
Covers(t, v) == t = Bogus \/ Fits(v, t)

\* A type stands for all that another one stands for, and a half of a long
\* only for itself.
Below(s, t) == /\ \A v : Value(v) /\ Covers(s, v) => Covers(t, v)
               /\ t \in {Long[1], Long[2]} => s = t

LEMMA SimpleType ==
  ASSUME NEW i
  PROVE  /\ Type(i).item = i /\ Type(i).dim = 0
         /\ i # "return" => Value(Type(i))
         /\ i # "object" => ~ IsReference(Type(i))
BY DEF Value, IsType, Type, Made, IsReference

LEMMA BogusType ==
  Value(Bogus) /\ Bogus.item = "bogus" /\ Bogus.dim = 0 /\ ~ IsReference(Bogus)
BY SimpleType DEF Bogus

LEMMA ObjectType ==
  ASSUME NEW c
  PROVE  /\ Value(Object(c)) /\ Object(c).item = "object" /\ Object(c).dim = 0
         /\ Object(c).class = c /\ Object(c).at = 0 /\ IsReference(Object(c))
BY DEF Object, Made, Value, IsType, IsReference, Null

LEMMA NewType ==
  ASSUME NEW n
  PROVE  Value(New(n)) /\ New(n).item = "new" /\ New(n).dim = 0 /\ ~ IsReference(New(n))
BY DEF New, Made, Value, IsType, IsReference

LEMMA LongTypes ==
  /\ Value(Long[1]) /\ Value(Long[2]) /\ Long[1] # Long[2]
  /\ Long[1] # Bogus /\ Long[2] # Bogus
  /\ ~ IsReference(Long[1]) /\ ~ IsReference(Long[2])
  /\ Long[1].item = "long" /\ Long[2].item = "long2"
<1>1. Long[1] = Type("long") /\ Long[2] = Type("long2")
  BY DEF Long
<1>2. Long[1].item = "long" /\ Long[2].item = "long2"
  BY <1>1, SimpleType
<1>3. Value(Long[1]) /\ Value(Long[2]) /\ ~ IsReference(Long[1]) /\ ~ IsReference(Long[2])
  BY <1>1, SimpleType
<1>4. QED
  BY <1>2, <1>3, BogusType

LEMMA ArrayType ==
  ASSUME NEW t, IsType(t), NEW d \in Int
  PROVE  /\ IsType(Array(t, d)) /\ Array(t, d).item = t.item /\ Array(t, d).dim = d
         /\ Array(t, d).class = t.class /\ Array(t, d).at = t.at
BY DEF IsType, Array, Made

LEMMA SameType ==
  ASSUME NEW s, NEW t, IsType(s), IsType(t),
         s.item = t.item, s.dim = t.dim, s.class = t.class, s.at = t.at
  PROVE  s = t
BY DEF IsType

LEMMA RootType ==
  /\ Value(Root) /\ Root.item = "object" /\ Root.dim = 0 /\ Root.class = "Object" /\ Root.at = 0
  /\ Value(Null) /\ Null.item = "object" /\ Null.dim = 0 /\ Null.class = "null" /\ Null.at = 0
BY ObjectType DEF Root, Null

\* An array of objects of any class stands for what it is an array of.
LEMMA RootArray ==
  ASSUME NEW t, IsType(t)
  PROVE  Array(t, 0) = Root <=> t.item = "object" /\ t.class = "Object" /\ t.at = 0
<1>1. IsType(Root)
  BY RootType DEF Value
<1>2. QED
  BY <1>1, ArrayType, SameType, RootType

\* Whether a value fits, by the parts of its type.
LEMMA FitsParts ==
  ASSUME NEW v, Value(v), NEW t, IsType(t)
  PROVE  Fits(v, t) <=>
           \/ v = t
           \/ IsReference(t) /\ v = Null
           \/ /\ IsReference(t) /\ IsReference(v) /\ t.item = "object" /\ t.class = "Object" /\ t.at = 0
              /\ t.dim <= v.dim /\ (v.item = "object" \/ t.dim < v.dim)
BY RootArray DEF Fits

LEMMA MergeClassesType ==
  ASSUME NEW s, NEW t, IsType(s), IsType(t), s.item = "object", t.item = "object"
  PROVE  /\ IsType(MergeClasses(s, t))
         /\ MergeClasses(s, t) # Bogus => MergeClasses(s, t).item = "object"
         /\ MergeClasses(s, t) \in {s, t, Root, Bogus}
BY RootType, BogusType DEF MergeClasses, Value

LEMMA PromotedType ==
  ASSUME NEW t, IsType(t)
  PROVE  /\ IsType(Promoted(t)) /\ Promoted(t).item = "object"
         /\ t.item = "object" => Promoted(t) = t
         /\ t.item # "object" => /\ Promoted(t).class = "Object" /\ Promoted(t).at = 0
                                 /\ Promoted(t).dim = t.dim - 1
<1>1. IsType(Root) /\ t.dim \in Int
  BY RootType DEF Value, IsType
<1>2. t.dim - 1 \in Int
  BY <1>1
<1>3. /\ IsType(Array(Root, t.dim - 1)) /\ Array(Root, t.dim - 1).item = "object"
      /\ Array(Root, t.dim - 1).class = "Object" /\ Array(Root, t.dim - 1).at = 0
      /\ Array(Root, t.dim - 1).dim = t.dim - 1
  BY <1>1, <1>2, ArrayType, RootType
<1>4. QED
  BY <1>3 DEF Promoted

LEMMA ReferenceMerge ==
  ASSUME NEW s, NEW t, IsReference(s), IsReference(t),
         s # t, s # Null, t # Null, Root \notin {s, t},
         NEW a, a = Promoted(s), NEW b, b = Promoted(t),
         NEW base, base = MergeClasses(Array(a, 0), Array(b, 0))
  PROVE  Merge(s, t) = IF a.dim # b.dim THEN Array(Root, Min({a.dim, b.dim}))
                       ELSE IF base = Bogus THEN Bogus
                       ELSE Array(base, a.dim)
BY DEF Merge

\* A reference is null or a value of its own, or of an array of objects.
LEMMA BelowPromoted ==
  ASSUME NEW s, IsType(s), IsReference(s)
  PROVE  Below(s, Promoted(s))
<1> DEFINE a == Promoted(s)
<1>1. /\ IsType(a) /\ a.item = "object"
      /\ s.item = "object" => a = s
      /\ s.item # "object" => a.class = "Object" /\ a.at = 0 /\ a.dim = s.dim - 1
  BY PromotedType
<1> HIDE DEF a
<1>2. IsReference(a) /\ s.dim \in Int
  BY <1>1 DEF IsReference, IsType
<1>3. s # Bogus
  BY BogusType
<1>4. ASSUME NEW v, Value(v), Covers(s, v) PROVE Covers(a, v)
  <2>1. CASE s.item = "object"
    BY <1>1, <1>4, <2>1
  <2>2. CASE s.item # "object"
    <3>1. v = s \/ v = Null
      BY <1>3, <1>4, <2>2, FitsParts DEF Covers
    <3>2. CASE v = Null
      BY <1>2, <3>2 DEF Covers, Fits
    <3>3. CASE v = s
      <4>1. a.dim <= v.dim /\ a.dim < v.dim
        BY <1>1, <1>2, <2>2, <3>3
      <4>2. QED
        BY <1>1, <1>2, <1>4, <2>2, <3>3, <4>1, FitsParts DEF Covers
    <3>4. QED
      BY <3>1, <3>2, <3>3
  <2>3. QED
    BY <2>1, <2>2
<1>5. a \notin {Long[1], Long[2]}
  BY <1>2, LongTypes
<1>6. QED
  BY <1>4, <1>5 DEF a, Below

LEMMA BelowRoot ==
  ASSUME NEW a, IsType(a), a.item = "object", NEW d \in Int, d <= a.dim
  PROVE  Below(a, Array(Root, d))
<1> DEFINE r == Array(Root, d)
<1>1. IsType(r) /\ r.item = "object" /\ r.class = "Object" /\ r.at = 0 /\ r.dim = d
  BY RootType, ArrayType DEF Value
<1> HIDE DEF r
<1>2. IsReference(a) /\ IsReference(r) /\ a.dim \in Int /\ a # Bogus
  BY <1>1, BogusType DEF IsReference, IsType
<1>3. ASSUME NEW v, Value(v), Covers(a, v) PROVE Covers(r, v)
  <2>1. \/ v = a
        \/ v = Null
        \/ IsReference(v) /\ a.dim <= v.dim /\ (v.item = "object" \/ a.dim < v.dim)
    BY <1>2, <1>3, FitsParts DEF Covers
  <2>2. v.dim \in Int
    BY <1>3 DEF Value
  <2>3. \/ v = Null
        \/ IsReference(v) /\ d <= v.dim /\ (v.item = "object" \/ d < v.dim)
    BY <1>2, <2>1, <2>2
  <2>4. CASE v = Null
    BY <1>2, <2>4 DEF Covers, Fits
  <2>5. CASE IsReference(v) /\ d <= v.dim /\ (v.item = "object" \/ d < v.dim)
    BY <1>1, <1>2, <1>3, <2>5, FitsParts DEF Covers
  <2>6. QED
    BY <2>3, <2>4, <2>5
<1>4. r \notin {Long[1], Long[2]}
  BY <1>2, LongTypes
<1>5. QED
  BY <1>3, <1>4 DEF r, Below

LEMMA BelowTransitive ==
  ASSUME NEW r, NEW s, NEW t, Below(r, s), Below(s, t)
  PROVE  Below(r, t)
BY DEF Below

LEMMA BelowSelf == \A t : Below(t, t)
BY DEF Below

LEMMA BelowBogus == \A t : Below(t, Bogus)
BY LongTypes DEF Below, Covers

\* Arrays of objects with as many dimensions.
LEMMA BelowClasses ==
  ASSUME NEW a, NEW b, IsType(a), IsType(b), a.item = "object", b.item = "object", a.dim = b.dim,
         NEW base, base = MergeClasses(Array(a, 0), Array(b, 0)), base # Bogus
  PROVE  /\ IsType(Array(base, a.dim)) /\ Array(base, a.dim).item = "object"
         /\ Below(a, Array(base, a.dim)) /\ Below(b, Array(base, a.dim))
<1> DEFINE c == Array(a, 0)
           d == Array(b, 0)
           m == Array(base, a.dim)
<1>1. a.dim \in Int
  BY DEF IsType
<1>2. /\ IsType(c) /\ c.item = "object" /\ c.class = a.class /\ c.at = a.at
      /\ IsType(d) /\ d.item = "object" /\ d.class = b.class /\ d.at = b.at
  BY ArrayType
<1> HIDE DEF c, d
<1>3. IsType(base) /\ base.item = "object"
  BY <1>2, MergeClassesType DEF c, d
<1>4. /\ IsType(m) /\ m.item = "object" /\ m.dim = a.dim
      /\ m.class = base.class /\ m.at = base.at
  BY <1>1, <1>3, ArrayType
<1>5. base = c => m = a
  BY <1>2, <1>4, SameType
<1>6. base = d => m = b
  BY <1>2, <1>4, SameType
<1>7. base = Root => Below(a, m) /\ Below(b, m)
  BY <1>1, BelowRoot
<1>8. ASSUME NEW n, IsType(n), n.item = "object", n.class = "null", n.at = 0, NEW t, IsType(t), t.item = "object"
      PROVE  Below(n, t)
  <2>1. n # Bogus /\ IsReference(t)
    BY <1>8, BogusType DEF IsReference
  <2>2. ASSUME NEW v, Value(v), Covers(n, v) PROVE Covers(t, v)
    <3>1. v = n \/ v = Null
      BY <1>8, <2>1, <2>2, FitsParts DEF Covers
    <3>2. v = Null
      BY <1>8, <2>2, <3>1 DEF Value
    <3>3. QED
      BY <2>1, <3>2 DEF Covers, Fits
  <2>3. t \notin {Long[1], Long[2]}
    BY <2>1, LongTypes
  <2>4. QED
    BY <2>2, <2>3 DEF Below
<1>9. \/ base = c /\ (c = d \/ d = Null)
      \/ base = d /\ c = Null
      \/ base = Root
  BY DEF MergeClasses, c, d
<1>10. CASE base = c /\ c = d
  BY <1>4, <1>5, <1>6, <1>10, BelowSelf
<1>11. CASE base = c /\ d = Null
  <2>1. b.class = "null" /\ b.at = 0
    BY <1>2, <1>11, RootType
  <2>2. QED
    BY <1>4, <1>5, <1>8, <1>11, <2>1, BelowSelf
<1>12. CASE base = d /\ c = Null
  <2>1. a.class = "null" /\ a.at = 0
    BY <1>2, <1>12, RootType
  <2>2. QED
    BY <1>4, <1>6, <1>8, <1>12, <2>1, BelowSelf
<1>13. CASE base = Root
  BY <1>4, <1>7, <1>13
<1>14. QED
  BY <1>9, <1>10, <1>11, <1>12, <1>13

\* merge_fullinfo_types only loses information.
LEMMA MergeFacts ==
  ASSUME NEW s, NEW t, IsType(s), IsType(t)
  PROVE  /\ IsType(Merge(s, t)) /\ Below(s, Merge(s, t)) /\ Below(t, Merge(s, t))
<1>1. CASE s = t
  BY <1>1, BelowSelf DEF Merge
<1>2. CASE s # t /\ ~ (IsReference(s) /\ IsReference(t))
  <2>1. Merge(s, t) = Bogus
    BY <1>2 DEF Merge
  <2>2. QED
    BY <2>1, BelowBogus, BogusType DEF Value
<1>3. CASE s # t /\ IsReference(s) /\ IsReference(t)
  <2>1. s # Bogus /\ t # Bogus /\ s.dim \in Int /\ t.dim \in Int
    BY <1>3, BogusType DEF IsType
  <2>2. s \notin {Long[1], Long[2]} /\ t \notin {Long[1], Long[2]}
    BY <1>3, LongTypes
  <2>3. \A r : IsReference(r) /\ r \notin {Long[1], Long[2]} => Below(Null, r)
    <3>1. \A v : Value(v) /\ Covers(Null, v) => v = Null
      <4>1. IsType(Null) /\ Null # Bogus /\ Null.class # "Object"
        BY RootType, BogusType DEF Value
      <4>2. QED
        BY <4>1, FitsParts DEF Covers
    <3>2. QED
      BY <3>1 DEF Below, Covers, Fits
  <2>4. CASE s = Null
    BY <1>3, <2>2, <2>3, <2>4, BelowSelf DEF Merge
  <2>5. CASE s # Null /\ t = Null
    BY <1>3, <2>2, <2>3, <2>5, BelowSelf DEF Merge
  <2>6. CASE s # Null /\ t # Null /\ Root \in {s, t}
    <3>1. \A r : IsType(r) /\ IsReference(r) => Below(r, Root)
      <4>1. SUFFICES ASSUME NEW r, IsType(r), IsReference(r) PROVE Below(r, Root)
        OBVIOUS
      <4>2. IsType(Root) /\ IsReference(Root) /\ r # Bogus
        BY <4>1, RootType, BogusType DEF Value, IsReference
      <4>3. ASSUME NEW v, Value(v), Covers(r, v) PROVE Covers(Root, v)
        <5>1. v = Null \/ IsReference(v)
          BY <4>1, <4>2, <4>3, FitsParts DEF Covers
        <5>2. v.dim \in Nat
          BY <4>3 DEF Value
        <5>3. IsReference(v) => v.item = "object" \/ 0 < v.dim
          BY DEF IsReference
        <5>4. QED
          BY <4>2, <4>3, <5>1, <5>2, <5>3, FitsParts, RootType DEF Covers
      <4>4. QED
        BY <4>2, <4>3, LongTypes DEF Below
    <3>2. QED
      BY <1>3, <2>6, <3>1, RootType DEF Merge, Value
  <2>7. CASE s # Null /\ t # Null /\ Root \notin {s, t}
    <3> DEFINE a == Promoted(s)
               b == Promoted(t)
               base == MergeClasses(Array(a, 0), Array(b, 0))
               m == Merge(s, t)
    <3>1. /\ IsType(a) /\ a.item = "object" /\ Below(s, a)
          /\ IsType(b) /\ b.item = "object" /\ Below(t, b)
      BY <1>3, BelowPromoted, PromotedType
    <3>2. m = IF a.dim # b.dim THEN Array(Root, Min({a.dim, b.dim}))
              ELSE IF base = Bogus THEN Bogus ELSE Array(base, a.dim)
      BY <1>3, <2>7, ReferenceMerge
    <3> HIDE DEF a, b, m
    <3>3. a.dim \in Int /\ b.dim \in Int
      BY <3>1 DEF IsType
    <3>4. CASE a.dim # b.dim
      <4> DEFINE d == Min({a.dim, b.dim})
      <4>1. d \in Int /\ d <= a.dim /\ d <= b.dim
        BY <3>3, MinPair
      <4>2. m = Array(Root, d)
        BY <3>2, <3>4
      <4> HIDE DEF d
      <4>3. Below(a, m) /\ Below(b, m)
        BY <3>1, <4>1, <4>2, BelowRoot
      <4>4. IsType(m)
        BY <4>1, <4>2, RootType, ArrayType DEF Value
      <4>5. QED
        BY <3>1, <4>3, <4>4, BelowTransitive DEF m
    <3>5. CASE a.dim = b.dim /\ base = Bogus
      BY <3>2, <3>5, BelowBogus, BogusType DEF m, Value
    <3>6. CASE a.dim = b.dim /\ base # Bogus
      <4>1. m = Array(base, a.dim)
        BY <3>2, <3>6
      <4> HIDE DEF base
      <4>2. IsType(m) /\ Below(a, m) /\ Below(b, m)
        BY <3>1, <3>6, <4>1, BelowClasses DEF base
      <4>3. QED
        BY <3>1, <4>2, BelowTransitive DEF m
    <3>7. QED
      BY <3>4, <3>5, <3>6
  <2>8. QED
    BY <2>4, <2>5, <2>6, <2>7
<1>4. QED
  BY <1>1, <1>2, <1>3

-----------------------------------------------------------------------------
(* Merging.                                                                *)

Typed(s) == Sequence(s) /\ \A k \in 1 .. Len(s) : IsType(s[k])

\* What an instruction knows, in a method without subroutines.
Data(d, locals) ==
  /\ d \in [known : BOOLEAN, stack : {d.stack}, registers : {d.registers}, masks : {<<>>},
            changed : BOOLEAN, target : BOOLEAN, ret : {0}, successors : {<<>>}]
  /\ d.changed => d.known
  /\ Typed(d.stack) /\ Typed(d.registers) /\ Len(d.registers) <= locals

BelowAll(s, t) == \A k \in 1 .. Len(t) : Below(s[k], t[k])

\* A stack and registers that are passed to an instruction are known there; of
\* stacks with another depth nothing is said.
Told(stack, registers, d) ==
  /\ d.known
  /\ Len(stack) = Len(d.stack) => BelowAll(stack, d.stack)
  /\ Len(d.registers) <= Len(registers) /\ BelowAll(registers, d.registers)

\* What was known before holds still.
Wider(old, new) ==
  old.known => /\ new.known
               /\ Len(new.stack) = Len(old.stack) /\ BelowAll(old.stack, new.stack)
               /\ Len(new.registers) <= Len(old.registers)
               /\ BelowAll(old.registers, new.registers)

\* An instruction only forgets; and what has changed is marked.
Forgets(old, new) ==
  /\ Wider(old, new)
  /\ ~ new.changed => /\ ~ old.changed /\ new.known = old.known
                      /\ new.stack = old.stack /\ new.registers = old.registers

LEMMA MergeStackFacts ==
  ASSUME NEW old, NEW new, Typed(old), Typed(new)
  PROVE  /\ Typed(MergeStack(old, new)) /\ Len(MergeStack(old, new)) = Len(old)
         /\ BelowAll(old, MergeStack(old, new))
         /\ Len(old) = Len(new) => BelowAll(new, MergeStack(old, new))
<1>1. Len(old) \in Nat /\ DOMAIN old = 1 .. Len(old)
  BY SequenceFacts DEF Typed
<1>2. CASE Len(old) # Len(new)
  BY <1>2, BelowSelf DEF MergeStack, BelowAll
<1>3. CASE Len(old) = Len(new)
  <2> DEFINE m == [k \in 1 .. Len(old) |-> Merge(new[k], old[k])]
  <2>1. MergeStack(old, new) = m
    BY <1>1, <1>3 DEF MergeStack
  <2>2. m = [k \in 1 .. Len(old) |-> m[k]] /\ \A k \in 1 .. Len(old) : m[k] = Merge(new[k], old[k])
    OBVIOUS
  <2> HIDE DEF m
  <2>3. Sequence(m) /\ Len(m) = Len(old)
    BY <1>1, <2>2, SequenceMade
  <2>4. \A k \in 1 .. Len(m) : IsType(m[k]) /\ Below(new[k], m[k]) /\ Below(old[k], m[k])
    BY <1>3, <2>2, <2>3, MergeFacts DEF Typed
  <2>5. QED
    BY <2>1, <2>3, <2>4 DEF Typed, BelowAll
<1>4. QED
  BY <1>2, <1>3

LEMMA MergeRegistersFacts ==
  ASSUME NEW old, NEW new, Typed(old), Typed(new)
  PROVE  /\ Typed(MergeRegisters(old, new))
         /\ Len(MergeRegisters(old, new)) <= Len(old) /\ Len(MergeRegisters(old, new)) <= Len(new)
         /\ BelowAll(old, MergeRegisters(old, new)) /\ BelowAll(new, MergeRegisters(old, new))
<1> DEFINE n == Min({Len(old), Len(new)})
           kept == SubSeq(old, 1, n)
<1>1. Len(old) \in Nat /\ Len(new) \in Nat
  BY SequenceFacts DEF Typed
<1>2. n \in 0 .. Len(old) /\ n <= Len(new) /\ n \in Nat
  BY <1>1, MinPair
<1>3. Sequence(kept) /\ Len(kept) = n /\ \A k \in 1 .. n : kept[k] = old[k]
  BY <1>2, SequencePrefix DEF Typed
<1>4. DOMAIN kept = 1 .. n
  BY <1>3, SequenceFacts
<1>5. \A k \in 1 .. n : k \in 1 .. Len(old) /\ k \in 1 .. Len(new)
  BY <1>1, <1>2
<1>6. \A k \in 1 .. n : IsType(old[k]) /\ IsType(new[k])
  BY <1>5 DEF Typed
<1> DEFINE m == [k \in 1 .. n |-> Merge(new[k], kept[k])]
<1>7. MergeRegisters(old, new) = IF \A k \in 1 .. n : Assignable(new[k], kept[k]) THEN kept
                                 ELSE WithoutBogus(m)
  BY <1>4 DEF MergeRegisters
<1>8. m = [k \in 1 .. n |-> m[k]] /\ \A k \in 1 .. n : m[k] = Merge(new[k], old[k])
  BY <1>3
<1> HIDE DEF m, kept, n
<1>9. CASE \A k \in 1 .. n : Assignable(new[k], kept[k])
  <2>1. \A k \in 1 .. n : Below(new[k], kept[k]) /\ Below(old[k], kept[k])
    BY <1>3, <1>6, <1>9, MergeFacts DEF Assignable
  <2>2. \A k \in 1 .. n : IsType(kept[k])
    BY <1>3, <1>6
  <2>3. MergeRegisters(old, new) = kept
    BY <1>7, <1>9
  <2>4. QED
    BY <1>1, <1>2, <1>3, <2>1, <2>2, <2>3 DEF Typed, BelowAll
<1>10. CASE ~ \A k \in 1 .. n : Assignable(new[k], kept[k])
  <2>1. Sequence(m) /\ Len(m) = n
    BY <1>2, <1>8, SequenceMade
  <2>2. PICK j \in 0 .. n : WithoutBogus(m) = SubSeq(m, 1, j)
    BY <2>1, WithoutBogusFacts
  <2> DEFINE r == SubSeq(m, 1, j)
  <2>3. Sequence(r) /\ Len(r) = j /\ \A k \in 1 .. j : r[k] = m[k]
    BY <2>1, SequencePrefix
  <2>4. MergeRegisters(old, new) = r
    BY <1>7, <1>10, <2>2
  <2> HIDE DEF r
  <2>5. \A k \in 1 .. j : k \in 1 .. n
    BY <1>2
  <2>6. \A k \in 1 .. j : IsType(r[k]) /\ Below(new[k], r[k]) /\ Below(old[k], r[k])
    BY <1>6, <1>8, <2>3, <2>5, MergeFacts
  <2>7. j <= Len(old) /\ j <= Len(new)
    BY <1>1, <1>2
  <2>8. QED
    BY <2>3, <2>4, <2>6, <2>7 DEF Typed, BelowAll
<1>11. QED
  BY <1>9, <1>10

\* Where no subroutine is entered none is known.
LEMMA NoMasks ==
  ASSUME NEW new
  PROVE  MergeMasks(<<>>, new) = <<>>
<1> DEFINE Match(common, mask) ==
             LET rest == {k \in DOMAIN new : k > common.last /\ new[k].entry = mask.entry}
             IN IF rest = {} THEN common
                ELSE [masks |-> Append(common.masks,
                                   [mask EXCEPT !.modifies = @ \cup new[Min(rest)].modifies]),
                      last  |-> Min(rest)]
           Step(f, k) == IF k = 0 THEN [masks |-> <<>>, last |-> 0] ELSE Match(f[k - 1], <<>>[k])
           Folded(f) == f = [k \in 0 .. Len(<<>>) |-> Step(f, k)]
           matched == CHOOSE f : Folded(f)
<1>1. MergeMasks(<<>>, new) = matched[Len(<<>>)].masks
  BY DEF MergeMasks
<1>2. Len(<<>>) = 0
  OBVIOUS
<1>3. \E f : Folded(f)
  <2> DEFINE g == [k \in 0 .. 0 |-> [masks |-> <<>>, last |-> 0]]
  <2>1. \A k \in 0 .. 0 : Step(g, k) = [masks |-> <<>>, last |-> 0]
    OBVIOUS
  <2>2. g = [k \in 0 .. 0 |-> Step(g, k)]
    BY <2>1
  <2>3. Folded(g)
    BY <1>2, <2>2
  <2> HIDE DEF g, Folded
  <2>4. QED
    BY <2>3
<1>4. Folded(matched)
  <2> HIDE DEF Folded
  <2> QED BY <1>3
<1> HIDE DEF matched
<1>5. matched[0] = Step(matched, 0)
  <2>1. 0 \in 0 .. Len(<<>>)
    BY <1>2
  <2> HIDE DEF Step
  <2>2. QED
    BY <1>4, <2>1
<1>6. QED
  BY <1>1, <1>2, <1>5

\* merge_stack, merge_registers and merge_flags: what was known is kept as far
\* as it holds on both paths.
LEMMA MergeIntoFacts ==
  ASSUME NEW l \in Nat, NEW old, Data(old, l), NEW new,
         Typed(new.stack), Typed(new.registers), Len(new.registers) <= l, new.masks = <<>>
  PROVE  /\ Data(MergeInto(old, new), l) /\ Forgets(old, MergeInto(old, new))
         /\ Told(new.stack, new.registers, MergeInto(old, new))
<1> DEFINE d == MergeInto(old, new)
           stack == IF old.known THEN MergeStack(old.stack, new.stack) ELSE new.stack
           registers == IF old.known THEN MergeRegisters(old.registers, new.registers)
                        ELSE new.registers
           merged == [old EXCEPT !.known = TRUE, !.stack = stack, !.registers = registers,
                                 !.masks = <<>>]
<1>1. old \in [known : BOOLEAN, stack : {old.stack}, registers : {old.registers}, masks : {<<>>},
               changed : BOOLEAN, target : BOOLEAN, ret : {0}, successors : {<<>>}]
  BY DEF Data
<1>2. MergeMasks(old.masks, new.masks) = <<>>
  BY <1>1, NoMasks
<1> HIDE DEF stack, registers
<1>3. (IF old.known
       THEN [old EXCEPT !.stack     = MergeStack(@, new.stack),
                        !.registers = MergeRegisters(@, new.registers),
                        !.masks     = MergeMasks(@, new.masks)]
       ELSE [old EXCEPT !.known = TRUE, !.stack = new.stack,
                        !.registers = new.registers, !.masks = new.masks]) = merged
  BY <1>1, <1>2 DEF stack, registers
<1>4. d = [merged EXCEPT !.changed = @ \/ merged # old]
  BY <1>3 DEF MergeInto
<1> DEFINE All == [known : BOOLEAN, stack : {old.stack, stack},
                   registers : {old.registers, registers}, masks : {<<>>}, changed : BOOLEAN,
                   target : BOOLEAN, ret : {0}, successors : {<<>>}]
<1>5. /\ merged.known /\ merged.stack = stack /\ merged.registers = registers
      /\ d.known /\ d.stack = stack /\ d.registers = registers
      /\ d.changed = (old.changed \/ merged # old)
      /\ d \in [known : BOOLEAN, stack : {d.stack}, registers : {d.registers}, masks : {<<>>},
                changed : BOOLEAN, target : BOOLEAN, ret : {0}, successors : {<<>>}]
  <2>1. old \in All /\ old.changed \in BOOLEAN
    BY <1>1
  <2>2. /\ merged \in All /\ merged.known /\ merged.stack = stack
        /\ merged.registers = registers /\ merged.changed = old.changed
    BY <2>1
  <2> HIDE DEF merged
  <2>3. /\ d \in All /\ d.known /\ d.stack = stack /\ d.registers = registers
        /\ d.changed = (old.changed \/ merged # old)
    BY <1>4, <2>1, <2>2
  <2> HIDE DEF d
  <2>4. QED
    BY <2>2, <2>3
<1> HIDE DEF d, merged
<1>6. d.stack = stack /\ d.registers = registers
  BY <1>5
<1>7. old.known \in BOOLEAN /\ old.changed \in BOOLEAN
  BY <1>1
<1>8. /\ Typed(old.stack) /\ Typed(old.registers) /\ Len(old.registers) <= l
      /\ Len(old.registers) \in Nat /\ Len(new.registers) \in Nat
  BY SequenceFacts DEF Data, Typed
<1>9. /\ Typed(stack)
      /\ old.known => Len(stack) = Len(old.stack) /\ BelowAll(old.stack, stack)
      /\ Len(new.stack) = Len(stack) => BelowAll(new.stack, stack)
  BY <1>8, MergeStackFacts, BelowSelf DEF BelowAll, stack
<1>10. /\ Typed(registers) /\ Len(registers) <= Len(new.registers)
       /\ BelowAll(new.registers, registers)
       /\ old.known => Len(registers) <= Len(old.registers) /\ BelowAll(old.registers, registers)
  BY <1>8, MergeRegistersFacts, BelowSelf DEF BelowAll, registers
<1>11. Len(registers) \in Nat
  BY <1>10, SequenceFacts DEF Typed
<1>12. merged = old => old.known /\ stack = old.stack /\ registers = old.registers
  BY <1>5
<1>15. Len(registers) <= l
  BY <1>8, <1>10, <1>11
<1>16. Data(d, l)
  BY <1>5, <1>6, <1>9, <1>10, <1>15 DEF Data
<1>17. Told(new.stack, new.registers, d)
  BY <1>9, <1>10, <1>5 DEF Told
<1>18. Forgets(old, d)
  <2>1. old.known => /\ Len(d.stack) = Len(old.stack) /\ BelowAll(old.stack, d.stack)
                     /\ Len(d.registers) <= Len(old.registers)
                     /\ BelowAll(old.registers, d.registers)
    BY <1>6, <1>9, <1>10
  <2>2. ~ d.changed => /\ ~ old.changed /\ d.known = old.known
                       /\ d.stack = old.stack /\ d.registers = old.registers
    BY <1>7, <1>12, <1>5
  <2>3. QED
    BY <1>5, <2>1, <2>2 DEF Forgets, Wider
<1>19. QED
  BY <1>16, <1>17, <1>18 DEF d

LEMMA ForgetsSelf ==
  ASSUME NEW d
  PROVE  Forgets(d, d)
BY BelowSelf DEF Forgets, Wider, BelowAll

LEMMA ForgetsMore ==
  ASSUME NEW l \in Nat, NEW a, NEW b, NEW c, Data(a, l), Data(b, l), Data(c, l),
         Forgets(a, b), Forgets(b, c)
  PROVE  Forgets(a, c)
<1>1. /\ Len(a.registers) \in Nat /\ Len(b.registers) \in Nat /\ Len(c.registers) \in Nat
      /\ Len(b.stack) \in Nat
  BY SequenceFacts DEF Data, Typed
<1>2. /\ a.known \in BOOLEAN /\ b.known \in BOOLEAN /\ c.known \in BOOLEAN
      /\ a.changed \in BOOLEAN /\ b.changed \in BOOLEAN /\ c.changed \in BOOLEAN
  BY DEF Data
<1>3. ~ c.changed => /\ ~ a.changed /\ c.known = a.known
                     /\ c.stack = a.stack /\ c.registers = a.registers
  BY <1>2 DEF Forgets
<1>4. CASE ~ a.known
  BY <1>3, <1>4 DEF Forgets, Wider
<1>5. CASE a.known
  <2>1. b.known /\ c.known
    BY <1>5 DEF Forgets, Wider
  <2>2. /\ Len(c.stack) = Len(b.stack) /\ Len(b.stack) = Len(a.stack)
        /\ BelowAll(a.stack, b.stack) /\ BelowAll(b.stack, c.stack)
        /\ Len(c.registers) <= Len(b.registers) /\ Len(b.registers) <= Len(a.registers)
        /\ BelowAll(a.registers, b.registers) /\ BelowAll(b.registers, c.registers)
    BY <1>5, <2>1 DEF Forgets, Wider
  <2>3. BelowAll(a.stack, c.stack)
    BY <2>2, BelowTransitive DEF BelowAll
  <2>4. \A k \in 1 .. Len(c.registers) : k \in 1 .. Len(b.registers)
    BY <1>1, <2>2
  <2>5. BelowAll(a.registers, c.registers)
    BY <2>2, <2>4, BelowTransitive DEF BelowAll
  <2>6. Len(c.registers) <= Len(a.registers)
    BY <1>1, <2>2
  <2>7. QED
    BY <1>3, <2>1, <2>2, <2>3, <2>5, <2>6 DEF Forgets, Wider
<1>6. QED
  BY <1>4, <1>5

\* What an instruction has been told it is told of still when it has forgotten
\* more.
LEMMA ToldStill ==
  ASSUME NEW l \in Nat, NEW a, NEW b, Data(a, l), Data(b, l), Wider(a, b),
         NEW stack, NEW registers, Len(registers) \in Nat, Told(stack, registers, a)
  PROVE  Told(stack, registers, b)
<1>1. Len(a.registers) \in Nat /\ Len(b.registers) \in Nat
  BY SequenceFacts DEF Data, Typed
<1>2. /\ b.known /\ Len(b.stack) = Len(a.stack) /\ BelowAll(a.stack, b.stack)
      /\ Len(b.registers) <= Len(a.registers) /\ BelowAll(a.registers, b.registers)
  BY DEF Wider, Told
<1>3. Len(stack) = Len(b.stack) => BelowAll(stack, b.stack)
  <2>1. SUFFICES ASSUME Len(stack) = Len(b.stack), NEW k \in 1 .. Len(b.stack)
                 PROVE  Below(stack[k], b.stack[k])
    BY DEF BelowAll
  <2>2. Below(stack[k], a.stack[k]) /\ Below(a.stack[k], b.stack[k])
    BY <1>2, <2>1 DEF Told, BelowAll
  <2>3. QED
    BY <2>2, BelowTransitive
<1>4. BelowAll(registers, b.registers)
  <2>1. SUFFICES ASSUME NEW k \in 1 .. Len(b.registers)
                 PROVE  Below(registers[k], b.registers[k])
    BY DEF BelowAll
  <2>2. k \in 1 .. Len(a.registers)
    BY <1>1, <1>2
  <2>3. Below(registers[k], a.registers[k]) /\ Below(a.registers[k], b.registers[k])
    BY <1>2, <2>2 DEF Told, BelowAll
  <2>4. QED
    BY <2>3, BelowTransitive
<1>5. Len(b.registers) <= Len(registers)
  BY <1>1, <1>2 DEF Told
<1>6. QED
  BY <1>2, <1>3, <1>4, <1>5 DEF Told

-----------------------------------------------------------------------------
(* Passing on what is known.                                               *)

\* What is known of every instruction.
AllData(data, D, l) == /\ data = [k \in D |-> data[k]]
                       /\ \A k \in D : Data(data[k], l)

AllForget(old, new, D) == \A k \in D : Forgets(old[k], new[k])
AllWider(old, new, D)  == \A k \in D : Wider(old[k], new[k])

\* What can be passed on in a method without subroutines.
Sendable(e, l) == /\ e.called = 0 /\ e.masks = <<>>
                  /\ Typed(e.stack) /\ Typed(e.registers) /\ Len(e.registers) <= l

Hears(e, data, D) == e.to \in D => Told(e.stack, e.registers, data[e.to])

LEMMA FlowFacts ==
  ASSUME NEW D, NEW l \in Nat, NEW data, AllData(data, D, l), NEW e, Sendable(e, l)
  PROVE  /\ AllData(Flow(data, e), D, l) /\ AllForget(data, Flow(data, e), D)
         /\ Hears(e, Flow(data, e), D)
<1>1. Flow(data, e) = [data EXCEPT ![e.to] = MergeInto(@, e)]
  BY DEF Flow, Sendable
<1>2. data = [k \in D |-> data[k]]
  BY DEF AllData
<1> DEFINE new == Flow(data, e)
           x == e.to
           Learned == MergeInto(data[x], e)
<1>3. new = [k \in D |-> IF k = x THEN Learned ELSE data[k]]
  <2> HIDE DEF Learned
  <2>1. new = [data EXCEPT ![x] = Learned]
    BY <1>1 DEF Learned
  <2>2. QED
    BY <1>2, <2>1
<1> HIDE DEF new
<1>4. new = [k \in D |-> new[k]]
  BY <1>3
<1>5. x \in D => /\ Data(Learned, l) /\ Forgets(data[x], Learned)
                 /\ Told(e.stack, e.registers, Learned)
  BY MergeIntoFacts DEF AllData, Sendable
<1>6. \A k \in D : new[k] = IF k = x THEN Learned ELSE data[k]
  BY <1>3
<1> HIDE DEF Learned, x
<1>7. \A k \in D : Data(new[k], l)
  BY <1>5, <1>6 DEF AllData
<1>8. \A k \in D : Forgets(data[k], new[k])
  BY <1>5, <1>6, ForgetsSelf
<1>9. x \in D => Told(e.stack, e.registers, new[x])
  BY <1>5, <1>6
<1>10. QED
  BY <1>4, <1>7, <1>8, <1>9 DEF AllData, AllForget, Hears, new, x

LEMMA AllForgetMore ==
  ASSUME NEW D, NEW l \in Nat, NEW a, NEW b, NEW c,
         AllData(a, D, l), AllData(b, D, l), AllData(c, D, l), AllForget(a, b, D), AllForget(b, c, D)
  PROVE  AllForget(a, c, D)
BY ForgetsMore DEF AllData, AllForget

LEMMA ForgetWider ==
  ASSUME NEW D, NEW a, NEW b, AllForget(a, b, D)
  PROVE  AllWider(a, b, D)
BY DEF AllForget, AllWider, Forgets

LEMMA HearsStill ==
  ASSUME NEW D, NEW l \in Nat, NEW a, NEW b, AllData(a, D, l), AllData(b, D, l), AllWider(a, b, D),
         NEW e, Sendable(e, l), Hears(e, a, D)
  PROVE  Hears(e, b, D)
<1>1. Len(e.registers) \in Nat
  BY SequenceFacts DEF Sendable, Typed
<1>2. QED
  BY <1>1, ToldStill DEF AllData, AllWider, Hears

\* All that an instruction passes on.
AllSendable(n, l) ==
  /\ \A k \in DOMAIN handlers : Sendable(Caught(n, handlers[k]), l)
                                /\ Sendable(CaughtAfter(n, handlers[k]), l)
  /\ \A k \in 1 .. Len(Successors(n)) : Sendable(Passed(n, Successors(n)[k]), l)

\* Its handler or successor has been told.
Heard(data, D, n, k) ==
  IF k > Len(handlers) THEN Hears(Passed(n, Successors(n)[k - Len(handlers)]), data, D)
  ELSE k \in Catching(handlers, n) =>
         /\ Hears(Caught(n, handlers[k]), data, D)
         /\ code[n].op = "invokeinit" => Hears(CaughtAfter(n, handlers[k]), data, D)

LEMMA PassOnFacts ==
  ASSUME NEW D, NEW l \in Nat, NEW data, AllData(data, D, l), NEW n, AllSendable(n, l),
         Len(handlers) \in Nat, Len(Successors(n)) \in Nat,
         NEW k \in 1 .. Len(handlers) + Len(Successors(n))
  PROVE  /\ AllData(PassOn(data, n, k), D, l) /\ AllForget(data, PassOn(data, n, k), D)
         /\ Heard(PassOn(data, n, k), D, n, k)
<1>1. CASE k > Len(handlers)
  <2> DEFINE e == Passed(n, Successors(n)[k - Len(handlers)])
  <2>1. k - Len(handlers) \in 1 .. Len(Successors(n))
    BY <1>1
  <2>2. Sendable(e, l)
    BY <2>1 DEF AllSendable
  <2>3. PassOn(data, n, k) = Flow(data, e)
    BY <1>1 DEF PassOn
  <2>4. Heard(PassOn(data, n, k), D, n, k) = Hears(e, PassOn(data, n, k), D)
    BY <1>1 DEF Heard
  <2> HIDE DEF e
  <2>5. QED
    BY <2>2, <2>3, <2>4, FlowFacts
<1>2. CASE ~ (k > Len(handlers)) /\ k \notin Catching(handlers, n)
  <2>1. PassOn(data, n, k) = data
    BY <1>2 DEF PassOn
  <2>2. Heard(data, D, n, k)
    BY <1>2 DEF Heard
  <2>3. QED
    BY <2>1, <2>2, ForgetsSelf DEF AllForget
<1>3. CASE ~ (k > Len(handlers)) /\ k \in Catching(handlers, n)
  <2> DEFINE e == Caught(n, handlers[k])
             f == CaughtAfter(n, handlers[k])
             once == Flow(data, e)
             twice == Flow(once, f)
  <2>1. k \in DOMAIN handlers
    BY <1>3 DEF Catching
  <2>2. Sendable(e, l) /\ Sendable(f, l)
    BY <2>1 DEF AllSendable
  <2>3. PassOn(data, n, k) = IF code[n].op # "invokeinit" THEN once ELSE twice
    BY <1>3 DEF PassOn
  <2>4. Heard(PassOn(data, n, k), D, n, k)
          = (/\ Hears(e, PassOn(data, n, k), D)
             /\ code[n].op = "invokeinit" => Hears(f, PassOn(data, n, k), D))
    BY <1>3 DEF Heard
  <2> HIDE DEF e, f
  <2>5. AllData(once, D, l) /\ AllForget(data, once, D) /\ Hears(e, once, D)
    BY <2>2, FlowFacts
  <2> HIDE DEF once
  <2>6. AllData(twice, D, l) /\ AllForget(once, twice, D) /\ Hears(f, twice, D)
    BY <2>2, <2>5, FlowFacts
  <2> HIDE DEF twice
  <2>7. Hears(e, twice, D)
    BY <2>2, <2>5, <2>6, ForgetWider, HearsStill
  <2>8. AllForget(data, twice, D)
    BY <2>5, <2>6, AllForgetMore
  <2>9. QED
    BY <2>3, <2>4, <2>5, <2>6, <2>7, <2>8
<1>4. QED
  BY <1>1, <1>2, <1>3

LEMMA HeardStill ==
  ASSUME NEW D, NEW l \in Nat, NEW a, NEW b, AllData(a, D, l), AllData(b, D, l), AllWider(a, b, D),
         NEW n, AllSendable(n, l), Len(handlers) \in Nat, Len(Successors(n)) \in Nat,
         NEW k \in 1 .. Len(handlers) + Len(Successors(n)), Heard(a, D, n, k)
  PROVE  Heard(b, D, n, k)
<1>1. CASE k > Len(handlers)
  <2>1. k - Len(handlers) \in 1 .. Len(Successors(n))
    BY <1>1
  <2>2. Sendable(Passed(n, Successors(n)[k - Len(handlers)]), l)
    BY <2>1 DEF AllSendable
  <2>3. Hears(Passed(n, Successors(n)[k - Len(handlers)]), a, D)
    BY <1>1 DEF Heard
  <2>4. Hears(Passed(n, Successors(n)[k - Len(handlers)]), b, D)
    BY <2>2, <2>3, HearsStill
  <2>5. QED
    BY <1>1, <2>4 DEF Heard
<1>2. CASE ~ (k > Len(handlers))
  <2>1. SUFFICES ASSUME k \in Catching(handlers, n)
                 PROVE  /\ Hears(Caught(n, handlers[k]), b, D)
                        /\ code[n].op = "invokeinit" => Hears(CaughtAfter(n, handlers[k]), b, D)
    BY <1>2 DEF Heard
  <2>2. Sendable(Caught(n, handlers[k]), l) /\ Sendable(CaughtAfter(n, handlers[k]), l)
    BY <2>1 DEF Catching, AllSendable
  <2>3. /\ Hears(Caught(n, handlers[k]), a, D)
        /\ code[n].op = "invokeinit" => Hears(CaughtAfter(n, handlers[k]), a, D)
    BY <1>2, <2>1 DEF Heard
  <2>4. QED
    BY <2>2, <2>3, HearsStill
<1>3. QED
  BY <1>1, <1>2

\* What one after another has been told.
PassedBy(passed, data, n, last) ==
  /\ PassedOn(data, n) = passed[last] /\ passed[0] = data
  /\ \A k \in 1 .. last : passed[k] = PassOn(passed[k - 1], n, k)

LEMMA PassedOnSteps ==
  ASSUME NEW data, NEW n, Len(handlers) + Len(Successors(n)) \in Nat
  PROVE  \E passed : PassedBy(passed, data, n, Len(handlers) + Len(Successors(n)))
<1> DEFINE last == Len(handlers) + Len(Successors(n))
           Step(f, k) == IF k = 0 THEN data ELSE PassOn(f[k - 1], n, k)
           Defined(f, m) == f = [k \in 0 .. m |-> Step(f, k)]
<1>1. last \in Nat
  OBVIOUS
<1>2. \E f : Defined(f, last)
  <2> DEFINE S == {m \in Nat : \E f : Defined(f, m)}
  <2>1. 0 \in S
    <3> DEFINE f == [k \in 0 .. 0 |-> data]
    <3>1. Defined(f, 0)
      OBVIOUS
    <3>2. QED
      BY <3>1
  <2>2. ASSUME NEW m \in Nat, m \in S PROVE m + 1 \in S
    <3>1. PICK f : Defined(f, m)
      BY <2>2
    <3> DEFINE g == [k \in 0 .. m + 1 |-> IF k <= m THEN f[k] ELSE Step(f, k)]
    <3>2. ASSUME NEW k \in 0 .. m + 1 PROVE g[k] = Step(g, k)
      <4>1. CASE k <= m
        <5>1. k \in 0 .. m
          BY <4>1
        <5>2. g[k] = f[k]
          BY <4>1
        <5>3. f[k] = Step(f, k)
          BY <3>1, <5>1
        <5>4. k # 0 => g[k - 1] = f[k - 1]
          BY <5>1
        <5>5. Step(g, k) = Step(f, k)
          BY <5>4
        <5>6. QED
          BY <5>2, <5>3, <5>5
      <4>2. CASE k = m + 1
        BY <4>2
      <4>3. QED
        BY <4>1, <4>2
    <3>3. Defined(g, m + 1)
      BY <3>2
    <3>4. m + 1 \in Nat
      OBVIOUS
    <3> HIDE DEF Defined
    <3>5. QED
      BY <3>3, <3>4
  <2>3. S \in SUBSET Nat
    OBVIOUS
  <2> HIDE DEF S
  <2>4. S = Nat
    BY <2>1, <2>2, <2>3, Least
  <2>5. QED
    BY <1>1, <2>4 DEF S
<1> DEFINE passed == CHOOSE f : Defined(f, last)
<1>3. PassedOn(data, n) = passed[last]
  BY DEF PassedOn
<1>4. Defined(passed, last)
  <2> HIDE DEF Defined
  <2> QED BY <1>2
<1> HIDE DEF passed
<1>5. passed[0] = data
  BY <1>4
<1>6. ASSUME NEW k \in 1 .. last PROVE passed[k] = PassOn(passed[k - 1], n, k)
  <2>1. k \in 0 .. last /\ k # 0
    OBVIOUS
  <2>2. passed[k] = Step(passed, k)
    BY <1>4, <2>1
  <2>3. QED
    BY <2>1, <2>2
<1>7. PassedBy(passed, data, n, last)
  BY <1>3, <1>5, <1>6 DEF PassedBy
<1>8. QED
  BY <1>7

\* merge_into_successors: every handler and every successor is told.
LEMMA PassedOnFacts ==
  ASSUME NEW D, NEW l \in Nat, NEW data, AllData(data, D, l), NEW n, AllSendable(n, l),
         Len(handlers) \in Nat, Len(Successors(n)) \in Nat
  PROVE  /\ AllData(PassedOn(data, n), D, l) /\ AllForget(data, PassedOn(data, n), D)
         /\ \A k \in 1 .. Len(handlers) + Len(Successors(n)) : Heard(PassedOn(data, n), D, n, k)
<1> DEFINE last == Len(handlers) + Len(Successors(n))
<1>1. last \in Nat
  OBVIOUS
<1>2. PICK passed : PassedBy(passed, data, n, last)
  BY <1>1, PassedOnSteps
<1>3. /\ PassedOn(data, n) = passed[last] /\ passed[0] = data
      /\ \A k \in 1 .. last : passed[k] = PassOn(passed[k - 1], n, k)
  BY <1>2 DEF PassedBy
<1> DEFINE Good(new, m) == /\ AllData(new, D, l) /\ AllForget(data, new, D)
                           /\ \A k \in 1 .. m : Heard(new, D, n, k)
<1>5. \A m \in Nat : m <= last => Good(passed[m], m)
  <2> DEFINE S == {m \in Nat : m <= last => Good(passed[m], m)}
  <2>1. 0 \in S
    <3>1. passed[0] = data
      BY <1>3
    <3>2. QED
      BY <3>1, ForgetsSelf DEF AllForget
  <2>2. ASSUME NEW m \in Nat, m \in S PROVE m + 1 \in S
    <3>1. SUFFICES ASSUME m + 1 <= last PROVE Good(passed[m + 1], m + 1)
      OBVIOUS
    <3>2. m <= last /\ m + 1 \in 0 .. last /\ m + 1 \in 1 .. last /\ m + 1 # 0 /\ (m + 1) - 1 = m
      BY <1>1, <3>1
    <3> DEFINE a == passed[m]
               b == passed[m + 1]
    <3>3. Good(a, m)
      BY <2>2, <3>2
    <3>4. b = PassOn(a, n, m + 1)
      BY <1>3, <3>2
    <3> HIDE DEF a, b
    <3>5. AllData(b, D, l) /\ AllForget(a, b, D) /\ Heard(b, D, n, m + 1)
      BY <3>2, <3>3, <3>4, PassOnFacts
    <3>6. AllForget(data, b, D)
      BY <3>3, <3>5, AllForgetMore
    <3>7. ASSUME NEW k \in 1 .. m PROVE Heard(b, D, n, k)
      <4>1. k \in 1 .. last /\ Heard(a, D, n, k)
        BY <1>1, <3>2, <3>3
      <4>2. QED
        BY <3>3, <3>5, <4>1, ForgetWider, HeardStill
    <3>8. \A k \in 1 .. m + 1 : k \in 1 .. m \/ k = m + 1
      OBVIOUS
    <3>9. Good(b, m + 1)
      BY <3>5, <3>6, <3>7, <3>8
    <3>10. QED
      BY <3>9 DEF b
  <2>3. S \in SUBSET Nat
    OBVIOUS
  <2> HIDE DEF S
  <2>4. S = Nat
    BY <2>1, <2>2, <2>3, Least
  <2>5. QED
    BY <2>4 DEF S
<1>6. Good(passed[last], last)
  BY <1>1, <1>5
<1>7. QED
  BY <1>3, <1>6

-----------------------------------------------------------------------------
(* What an instruction passes on.                                          *)

\* An instruction of a method without subroutines: what it takes and gives are
\* values, and the registers that it names are there.
PlainInstruction(i, locals) ==
  /\ i \in [op : {i.op}, takes : {i.takes}, gives : {i.gives}, var : {i.var}, to : {i.to},
            copy : {i.copy}]
  /\ i.op \notin {"jsr", "ret"}
  /\ Sequence(i.takes) /\ \A k \in 1 .. Len(i.takes) : Value(i.takes[k])
  /\ Sequence(i.gives) /\ \A k \in 1 .. Len(i.gives) : Value(i.gives[k])
  /\ i.op \in {"load", "aload", "iinc", "store", "astore"} => i.var \in 1 .. locals
  /\ i.op \in {"store", "astore"} => i.var + Len(i.takes) - 1 <= locals /\ Paired(i.takes)
  /\ i.op = "store" => \A k \in 1 .. Len(i.takes) : i.takes[k] # Bogus
  /\ i.op = "astore" => Len(i.takes) = 1
  /\ i.op = "shuffle" => Sequence(i.copy) /\ \A k \in 1 .. Len(i.copy) : i.copy[k] \in 1 .. Len(i.takes)
  /\ i.op = "aaload" => Len(i.takes) = 2
  /\ i.op = "invokeinit" => Len(i.takes) >= 1 /\ IsReference(i.takes[1])

LEMMA AtFacts ==
  ASSUME NEW s, Sequence(s), NEW k
  PROVE  At(s, k) = IF k \in 1 .. Len(s) THEN s[k] ELSE Bogus
BY SequenceFacts DEF At

LEMMA TypedAt ==
  ASSUME NEW s, Typed(s)
  PROVE  \A k : IsType(At(s, k))
BY AtFacts, BogusType DEF Typed, Value

LEMMA TopFacts ==
  ASSUME NEW s, Sequence(s), NEW n \in Nat
  PROVE  /\ Sequence(Top(s, n)) /\ Len(Top(s, n)) = n
         /\ \A k \in 1 .. n : Top(s, n)[k] = At(s, Len(s) - n + k)
<1> DEFINE f == [k \in 1 .. n |-> At(s, Len(s) - n + k)]
<1>1. Top(s, n) = f
  BY DEF Top
<1>2. f = [k \in 1 .. n |-> f[k]] /\ \A k \in 1 .. n : f[k] = At(s, Len(s) - n + k)
  OBVIOUS
<1> HIDE DEF f
<1>3. QED
  BY <1>1, <1>2, SequenceMade

LEMMA DropFacts ==
  ASSUME NEW s, Sequence(s), NEW n \in Nat
  PROVE  /\ Sequence(Drop(s, n))
         /\ Len(Drop(s, n)) = IF n <= Len(s) THEN Len(s) - n ELSE 0
         /\ \A k \in 1 .. Len(Drop(s, n)) : k \in 1 .. Len(s) /\ Drop(s, n)[k] = s[k]
<1>1. Len(s) \in Nat
  BY SequenceFacts
<1>2. CASE n <= Len(s)
  <2>1. Len(s) - n \in 0 .. Len(s)
    BY <1>1, <1>2
  <2>2. /\ Sequence(Drop(s, n)) /\ Len(Drop(s, n)) = Len(s) - n
        /\ \A k \in 1 .. Len(s) - n : Drop(s, n)[k] = s[k]
    BY <2>1, SequencePrefix DEF Drop
  <2>3. QED
    BY <1>1, <1>2, <2>2
<1>3. CASE ~ (n <= Len(s))
  <2>1. PICK S : s \in Seq(S)
    BY DEF Sequence
  <2>2. Drop(s, n) \in Seq(S) /\ Len(Drop(s, n)) = 0
    BY <1>1, <1>3, <2>1 DEF Drop
  <2>3. QED
    BY <1>3, <2>2 DEF Sequence
<1>4. QED
  BY <1>2, <1>3

LEMMA TypedTop ==
  ASSUME NEW s, Typed(s), NEW n \in Nat
  PROVE  Typed(Top(s, n))
<1>1. \A k : IsType(At(s, k))
  BY TypedAt
<1>2. QED
  BY <1>1, TopFacts DEF Typed

LEMMA TypedDrop ==
  ASSUME NEW s, Typed(s), NEW n \in Nat
  PROVE  Typed(Drop(s, n))
BY DropFacts DEF Typed

LEMMA TypedAppend ==
  ASSUME NEW s, Typed(s), NEW t, IsType(t)
  PROVE  Typed(Append(s, t))
<1>1. Len(s) \in Nat
  BY SequenceFacts DEF Typed
<1>2. QED
  BY <1>1, SequenceAppend DEF Typed

LEMMA TypedJoin ==
  ASSUME NEW s, NEW t, Typed(s), Typed(t)
  PROVE  Typed(s \o t)
<1>1. Len(s) \in Nat /\ Len(t) \in Nat
  BY SequenceFacts DEF Typed
<1>2. /\ Sequence(s \o t) /\ Len(s \o t) = Len(s) + Len(t)
      /\ \A n \in 1 .. Len(s) + Len(t) : (s \o t)[n] = IF n <= Len(s) THEN s[n] ELSE t[n - Len(s)]
  BY SequenceJoin DEF Typed
<1>3. \A n \in 1 .. Len(s) + Len(t) : n <= Len(s) => n \in 1 .. Len(s)
  BY <1>1
<1>4. \A n \in 1 .. Len(s) + Len(t) : ~ n <= Len(s) => n - Len(s) \in 1 .. Len(t)
  BY <1>1
<1>5. QED
  BY <1>2, <1>3, <1>4 DEF Typed

LEMMA SwapFacts ==
  ASSUME NEW s, Sequence(s), NEW from, NEW to
  PROVE  /\ Sequence(Swap(s, from, to)) /\ Len(Swap(s, from, to)) = Len(s)
         /\ \A k \in 1 .. Len(s) : Swap(s, from, to)[k] = IF s[k] = from THEN to ELSE s[k]
<1> DEFINE f == [k \in 1 .. Len(s) |-> IF s[k] = from THEN to ELSE s[k]]
<1>1. Len(s) \in Nat /\ Swap(s, from, to) = f
  BY SequenceFacts DEF Swap
<1>2. /\ f = [k \in 1 .. Len(s) |-> f[k]]
      /\ \A k \in 1 .. Len(s) : f[k] = IF s[k] = from THEN to ELSE s[k]
  OBVIOUS
<1> HIDE DEF f
<1>3. QED
  BY <1>1, <1>2, SequenceMade

LEMMA TypedSwap ==
  ASSUME NEW s, Typed(s), NEW from, NEW to, IsType(to)
  PROVE  Typed(Swap(s, from, to)) /\ Len(Swap(s, from, to)) = Len(s)
BY SwapFacts DEF Typed

LEMMA PutFacts ==
  ASSUME NEW r, Sequence(r), NEW var \in Nat, var > 0, NEW words, Sequence(words), NEW p,
         p = Put(r, var, words)
  PROVE  /\ Sequence(p)
         /\ Len(p) = IF Len(r) <= var + Len(words) - 1 THEN var + Len(words) - 1 ELSE Len(r)
         /\ \A k \in 1 .. Len(p) : var <= k /\ k < var + Len(words) => p[k] = words[k - var + 1]
         /\ \A k \in 1 .. Len(p) : ~ (var <= k /\ k < var + Len(words)) => p[k] = At(r, k)
<1> DEFINE n == Max({Len(r), var + Len(words) - 1})
<1>1. Len(r) \in Nat /\ Len(words) \in Nat
  BY SequenceFacts
<1>2. n \in Nat /\ n = IF Len(r) <= var + Len(words) - 1 THEN var + Len(words) - 1 ELSE Len(r)
  <2>1. var + Len(words) - 1 \in Int /\ Len(r) \in Int
    BY <1>1
  <2>2. n = IF Len(r) <= var + Len(words) - 1 THEN var + Len(words) - 1 ELSE Len(r)
    BY <2>1, MaxPair
  <2>3. QED
    BY <1>1, <2>2
<1>3. p = [k \in 1 .. n |-> IF k \in var .. (var + Len(words) - 1)
                            THEN words[k - var + 1] ELSE At(r, k)]
  BY DEF Put
<1> HIDE DEF n
<1>4. p = [k \in 1 .. n |-> p[k]]
  BY <1>3
<1>5. \A k \in 1 .. n : p[k] = IF k \in var .. (var + Len(words) - 1)
                               THEN words[k - var + 1] ELSE At(r, k)
  BY <1>3
<1>6. Sequence(p) /\ Len(p) = n
  BY <1>2, <1>4, SequenceMade
<1>7. \A k \in 1 .. n : k \in var .. (var + Len(words) - 1) <=> var <= k /\ k < var + Len(words)
  BY <1>1, <1>2
<1>8. QED
  BY <1>2, <1>5, <1>6, <1>7

LEMMA TypedPut ==
  ASSUME NEW r, Typed(r), NEW var \in Nat, var > 0, NEW words, Typed(words),
         NEW l \in Nat, Len(r) <= l, var + Len(words) - 1 <= l, NEW p, p = Put(r, var, words)
  PROVE  Typed(p) /\ Len(p) <= l
<1>1. Len(r) \in Nat /\ Len(words) \in Nat /\ Sequence(r) /\ Sequence(words)
  BY SequenceFacts DEF Typed
<1>2. /\ Sequence(p)
      /\ Len(p) = IF Len(r) <= var + Len(words) - 1 THEN var + Len(words) - 1 ELSE Len(r)
      /\ \A k \in 1 .. Len(p) : var <= k /\ k < var + Len(words) => p[k] = words[k - var + 1]
      /\ \A k \in 1 .. Len(p) : ~ (var <= k /\ k < var + Len(words)) => p[k] = At(r, k)
  BY <1>1, PutFacts
<1>3. ASSUME NEW k \in 1 .. Len(p) PROVE IsType(p[k])
  <2>1. CASE var <= k /\ k < var + Len(words)
    <3>1. k - var + 1 \in 1 .. Len(words)
      BY <1>1, <2>1
    <3>2. QED
      BY <1>2, <2>1, <3>1 DEF Typed
  <2>2. CASE ~ (var <= k /\ k < var + Len(words))
    <3>1. p[k] = At(r, k) /\ IsType(At(r, k))
      BY <1>2, <2>2, TypedAt
    <3>2. QED
      BY <3>1
  <2>3. QED
    BY <2>1, <2>2
<1>4. QED
  BY <1>2, <1>3 DEF Typed

LEMMA TypedCopy ==
  ASSUME NEW s, Typed(s), NEW c, Sequence(c), \A k \in 1 .. Len(c) : c[k] \in 1 .. Len(s)
  PROVE  /\ Typed([k \in DOMAIN c |-> s[c[k]]]) /\ Len([k \in DOMAIN c |-> s[c[k]]]) = Len(c)
         /\ \A k \in 1 .. Len(c) : [j \in DOMAIN c |-> s[c[j]]][k] = s[c[k]]
<1> DEFINE f == [k \in DOMAIN c |-> s[c[k]]]
<1>1. Len(c) \in Nat /\ DOMAIN c = 1 .. Len(c)
  BY SequenceFacts
<1>2. f = [k \in 1 .. Len(c) |-> f[k]] /\ \A k \in 1 .. Len(c) : f[k] = s[c[k]]
  BY <1>1
<1> HIDE DEF f
<1>3. Sequence(f) /\ Len(f) = Len(c)
  BY <1>1, <1>2, SequenceMade
<1>4. \A k \in 1 .. Len(f) : IsType(f[k])
  BY <1>2, <1>3 DEF Typed
<1>5. QED
  BY <1>2, <1>3, <1>4 DEF Typed, f

LEMMA TypedElement ==
  ASSUME NEW t, IsType(t)
  PROVE  IsType(Element(t))
<1>1. t.dim - 1 \in Int
  BY DEF IsType
<1>2. QED
  BY <1>1, ArrayType DEF Element

LEMMA TypedOperands ==
  ASSUME NEW n, NEW l, PlainInstruction(code[n], l), Data(info[n], l)
  PROVE  /\ Typed(Top(info[n].stack, Len(code[n].takes)))
         /\ Len(Top(info[n].stack, Len(code[n].takes))) = Len(code[n].takes)
         /\ Typed(Drop(info[n].stack, Len(code[n].takes)))
         /\ Len(code[n].takes) \in Nat
<1>1. Len(code[n].takes) \in Nat
  BY SequenceFacts DEF PlainInstruction
<1>2. Typed(info[n].stack) /\ Sequence(info[n].stack)
  BY DEF Data, Typed
<1>3. QED
  BY <1>1, <1>2, TypedTop, TypedDrop, TopFacts

LEMMA TypedStackAfter ==
  ASSUME NEW n, NEW l, PlainInstruction(code[n], l), Data(info[n], l)
  PROVE  Typed(StackAfter(n))
<1> DEFINE i == code[n]
           taken == Top(info[n].stack, Len(i.takes))
           left == Drop(info[n].stack, Len(i.takes))
<1>1. Typed(taken) /\ Len(taken) = Len(i.takes) /\ Typed(left) /\ Len(i.takes) \in Nat
  BY TypedOperands
<1>2. StackAfter(n) =
        CASE i.op = "aload"      -> Append(left, At(info[n].registers, i.var))
          [] i.op = "shuffle"    -> left \o [k \in DOMAIN i.copy |-> taken[i.copy[k]]]
          [] i.op = "new"        -> Append(left, New(n))
          [] i.op = "invokeinit" -> Swap(left, taken[1], i.takes[1])
          [] i.op = "aaload"     -> Append(left, Element(taken[1]))
          [] i.op = "jsr"        -> Append(left, ReturnTo(i.to))
          [] i.op \in {"do", "load"} -> left \o i.gives
          [] OTHER               -> left
  BY DEF StackAfter
<1> HIDE DEF taken, left
<1>3. CASE i.op = "aload"
  <2>1. IsType(At(info[n].registers, i.var))
    BY TypedAt DEF Data
  <2>2. StackAfter(n) = Append(left, At(info[n].registers, i.var))
    BY <1>2, <1>3
  <2>3. QED
    BY <1>1, <2>1, <2>2, TypedAppend
<1>4. CASE i.op = "shuffle"
  <2>1. Sequence(i.copy) /\ \A k \in 1 .. Len(i.copy) : i.copy[k] \in 1 .. Len(taken)
    BY <1>1, <1>4 DEF PlainInstruction
  <2> DEFINE copied == [k \in DOMAIN i.copy |-> taken[i.copy[k]]]
  <2>2. Typed(copied)
    BY <1>1, <2>1, TypedCopy
  <2>3. StackAfter(n) = left \o copied
    BY <1>2, <1>4
  <2> HIDE DEF copied
  <2>4. QED
    BY <1>1, <2>2, <2>3, TypedJoin
<1>5. CASE i.op = "new"
  <2>1. StackAfter(n) = Append(left, New(n))
    BY <1>2, <1>5
  <2>2. QED
    BY <1>1, <2>1, NewType, TypedAppend DEF Value
<1>6. CASE i.op = "invokeinit"
  <2>1. StackAfter(n) = Swap(left, taken[1], i.takes[1])
    BY <1>2, <1>6
  <2>2. IsType(i.takes[1])
    BY <1>1, <1>6 DEF PlainInstruction, Value
  <2>3. QED
    BY <1>1, <2>1, <2>2, TypedSwap
<1>7. CASE i.op = "aaload"
  <2>1. StackAfter(n) = Append(left, Element(taken[1]))
    BY <1>2, <1>7
  <2>2. Len(taken) = 2
    BY <1>1, <1>7 DEF PlainInstruction
  <2>3. IsType(taken[1])
    BY <1>1, <2>2 DEF Typed
  <2>4. QED
    BY <1>1, <2>1, <2>3, TypedElement, TypedAppend
<1>8. CASE i.op \in {"do", "load"}
  <2>1. StackAfter(n) = left \o i.gives
    BY <1>2, <1>8
  <2>2. Typed(i.gives)
    BY DEF PlainInstruction, Typed, Value
  <2>3. QED
    BY <1>1, <2>1, <2>2, TypedJoin
<1>9. CASE i.op \notin {"aload", "shuffle", "new", "invokeinit", "aaload", "do", "load"}
  <2>1. i.op # "jsr"
    BY DEF PlainInstruction
  <2>2. StackAfter(n) = left
    BY <1>2, <1>9, <2>1
  <2>3. QED
    BY <1>1, <2>2
<1>10. QED
  BY <1>3, <1>4, <1>5, <1>6, <1>7, <1>8, <1>9

LEMMA TypedRegistersAfter ==
  ASSUME NEW n, NEW l \in Nat, PlainInstruction(code[n], l), Data(info[n], l)
  PROVE  Typed(RegistersAfter(n)) /\ Len(RegistersAfter(n)) <= l
<1> DEFINE i == code[n]
           taken == Top(info[n].stack, Len(i.takes))
           r == info[n].registers
<1>1. Typed(taken) /\ Len(taken) = Len(i.takes) /\ Len(i.takes) \in Nat
  BY TypedOperands
<1>2. Typed(r) /\ Len(r) <= l
  BY DEF Data
<1>3. RegistersAfter(n) =
        CASE i.op \in {"store", "astore"}   -> Put(r, i.var, taken)
          [] i.op \in {"new", "invokeinit"} -> Swap(r, Swapped(n).from, Swapped(n).to)
          [] OTHER -> r
  BY DEF RegistersAfter
<1> HIDE DEF taken
<1>4. CASE i.op \in {"store", "astore"}
  <2>1. RegistersAfter(n) = Put(r, i.var, taken)
    BY <1>3, <1>4
  <2>2. i.var \in 1 .. l /\ i.var + Len(taken) - 1 <= l
    BY <1>1, <1>4 DEF PlainInstruction
  <2>3. i.var \in Nat /\ i.var > 0
    BY <2>2
  <2> HIDE DEF i, r
  <2>4. QED
    BY <1>1, <1>2, <2>1, <2>2, <2>3, TypedPut
<1>5. CASE i.op \in {"new", "invokeinit"}
  <2>1. RegistersAfter(n) = Swap(r, Swapped(n).from, Swapped(n).to)
    BY <1>3, <1>5
  <2>2. CASE i.op = "new"
    <3>1. Swapped(n).to = Bogus
      BY <2>2 DEF Swapped
    <3>2. QED
      BY <1>2, <2>1, <3>1, TypedSwap, BogusType DEF Value
  <2>3. CASE i.op = "invokeinit"
    <3>1. Swapped(n).to = i.takes[1]
      BY <2>3 DEF Swapped
    <3>2. IsType(i.takes[1])
      BY <1>1, <2>3 DEF PlainInstruction, Value
    <3>3. QED
      BY <1>2, <2>1, <3>1, <3>2, TypedSwap
  <2>4. QED
    BY <1>5, <2>2, <2>3
<1>6. CASE i.op \notin {"store", "astore", "new", "invokeinit"}
  BY <1>2, <1>3, <1>6
<1>7. QED
  BY <1>4, <1>5, <1>6

LEMMA NoMasksAfter ==
  ASSUME NEW n, NEW l, PlainInstruction(code[n], l), Data(info[n], l)
  PROVE  MasksAfter(n) = <<>>
<1>1. info[n].masks = <<>> /\ code[n].op # "jsr"
  BY DEF Data, PlainInstruction
<1> DEFINE touched == IF code[n].op \in {"new", "invokeinit"}
                      THEN {k \in DOMAIN info[n].registers : info[n].registers[k] = Swapped(n).from}
                      ELSE Words(code[n])
           f == [k \in DOMAIN <<>> |-> [<<>>[k] EXCEPT !.modifies = @ \cup touched]]
<1>2. MasksAfter(n) = f
  BY <1>1 DEF MasksAfter
<1>3. f = [k \in 1 .. 0 |-> f[k]]
  BY EmptySequence, SequenceFacts
<1> HIDE DEF f
<1>4. Sequence(f) /\ Len(f) = 0
  BY <1>3, SequenceMade
<1>5. QED
  BY <1>2, <1>4, SequenceEmpty

\* One edge, whatever it leads to.
LEMMA EdgeFacts ==
  ASSUME NEW n, code[n].op \notin {"jsr", "ret"}, NEW to, NEW s, NEW r, NEW m
  PROVE  Edge(n, to, s, r, m, 0) = [from |-> n, to |-> to, stack |-> s, registers |-> r,
                                    masks |-> m, called |-> 0]
BY DEF Edge

LEMMA SuccessorFacts ==
  ASSUME NEW n, code[n].op \notin {"jsr", "ret"}
  PROVE  /\ Sequence(Successors(n)) /\ Len(Successors(n)) \in Nat
         /\ code[n].op = "if" => /\ Len(Successors(n)) = 2 /\ Successors(n)[1] = n + 1
                                 /\ Successors(n)[2] = code[n].to
         /\ code[n].op = "goto" => Len(Successors(n)) = 1 /\ Successors(n)[1] = code[n].to
         /\ code[n].op = "return" => Len(Successors(n)) = 0
         /\ code[n].op \notin {"if", "goto", "return"} =>
              Len(Successors(n)) = 1 /\ Successors(n)[1] = n + 1
<1>1. CASE code[n].op = "if"
  <2>1. Successors(n) = <<n + 1, code[n].to>>
    BY <1>1 DEF Successors
  <2>2. QED
    BY <1>1, <2>1, TwoElements
<1>2. CASE code[n].op = "goto"
  <2>1. Successors(n) = <<code[n].to>>
    BY <1>2 DEF Successors
  <2>2. QED
    BY <1>2, <2>1, OneElement
<1>3. CASE code[n].op = "return"
  <2>1. Successors(n) = <<>>
    BY <1>3 DEF Successors
  <2>2. QED
    BY <1>3, <2>1, EmptySequence
<1>4. CASE code[n].op \notin {"if", "goto", "return"}
  <2>1. Successors(n) = <<n + 1>>
    BY <1>4 DEF Successors
  <2>2. QED
    BY <1>4, <2>1, OneElement
<1>5. QED
  BY <1>1, <1>2, <1>3, <1>4

LEMMA EdgesSendable ==
  ASSUME NEW n, NEW l \in Nat, PlainInstruction(code[n], l), Data(info[n], l)
  PROVE  AllSendable(n, l)
<1>1. /\ code[n].op \notin {"jsr", "ret"} /\ info[n].masks = <<>>
      /\ Typed(info[n].registers) /\ Len(info[n].registers) <= l
  BY DEF Data, PlainInstruction
<1>2. /\ MasksAfter(n) = <<>> /\ Typed(StackAfter(n))
      /\ Typed(RegistersAfter(n)) /\ Len(RegistersAfter(n)) <= l
  BY NoMasksAfter, TypedStackAfter, TypedRegistersAfter
<1>3. \A c : Typed(<<Object(c)>>)
  BY OneElement, ObjectType DEF Typed, Value
<1>4. \A s, r, to : Typed(s) /\ Typed(r) /\ Len(r) <= l =>
                      Sendable(Edge(n, to, s, r, <<>>, 0), l)
  BY <1>1, EdgeFacts DEF Sendable
<1>5. \A h : Sendable(Caught(n, h), l) /\ Sendable(CaughtAfter(n, h), l)
  BY <1>1, <1>2, <1>3, <1>4 DEF Caught, CaughtAfter
<1>6. \A to : Sendable(Passed(n, to), l)
  BY <1>1, <1>2, <1>4 DEF Passed
<1>7. QED
  BY <1>5, <1>6 DEF AllSendable

\* What is passed on depends on what is known of the instruction alone.
LEMMA SameEdges ==
  ASSUME NEW n, code[n].op \notin {"jsr", "ret"}, code' = code, handlers' = handlers,
         info'[n].stack = info[n].stack, info'[n].registers = info[n].registers,
         info[n].masks = <<>>, info'[n].masks = <<>>
  PROVE  /\ \A to : Passed(n, to)' = Passed(n, to)
         /\ \A h : Caught(n, h)' = Caught(n, h) /\ CaughtAfter(n, h)' = CaughtAfter(n, h)
         /\ Successors(n)' = Successors(n)
<1>1. StackAfter(n)' = StackAfter(n)
  BY DEF StackAfter
<1>2. Swapped(n)' = Swapped(n)
  BY DEF Swapped
<1>3. RegistersAfter(n)' = RegistersAfter(n)
  BY <1>2 DEF RegistersAfter
<1>4. MasksAfter(n)' = MasksAfter(n)
  BY <1>2 DEF MasksAfter
<1>5. \A to, s, r, m, c : Edge(n, to, s, r, m, c)' = Edge(n, to, s, r, m, c)
  BY DEF Edge
<1>6. \A to : Passed(n, to)' = Passed(n, to)
  BY <1>1, <1>3, <1>4, <1>5 DEF Passed
<1>7. \A h : Caught(n, h)' = Caught(n, h) /\ CaughtAfter(n, h)' = CaughtAfter(n, h)
  BY <1>3, <1>4, <1>5 DEF Caught, CaughtAfter
<1>8. Successors(n)' = Successors(n)
  BY DEF Successors
<1>9. QED
  BY <1>6, <1>7, <1>8

-----------------------------------------------------------------------------
(* Methods without subroutines, and what holds of them at every step.      *)

PlainCode(c, locals) ==
  Sequence(c) /\ Len(c) > 0 /\ \A n \in 1 .. Len(c) : PlainInstruction(c[n], locals)

HandlerShape(h) == h \in [from : {h.from}, end : {h.end}, at : {h.at}, class : {h.class}]
HandlersMade(hs) == \A k \in 1 .. Len(hs) : HandlerShape(hs[k])

PlainMethod(m) ==
  /\ PlainCode(m.code, m.locals) /\ Sequence(m.handlers) /\ HandlersMade(m.handlers)
  /\ Sequence(m.args) /\ \A k \in 1 .. Len(m.args) : Value(m.args[k])
  /\ m.locals \in Nat /\ Len(m.args) <= m.locals

\* Everyone that an instruction leads to has been told of it.
AllHeard(n) == \A k \in 1 .. Len(handlers) + Len(Successors(n)) : Heard(info, 1 .. Len(code), n, k)

PlainInv ==
  /\ PlainCode(code, original.locals) /\ Sequence(handlers) /\ DOMAIN origin = 1 .. Len(code)
  /\ phase \in {"flow", "done"} /\ redoJsr = FALSE /\ inumber \in 1 .. (Len(code) + 1)
  /\ AllData(info, 1 .. Len(code), original.locals)
  /\ Told(<<>>, original.args, info[1]) /\ Len(info[1].stack) = 0
  /\ \A n \in 1 .. Len(code) : info[n].known /\ ~ info[n].changed => AllHeard(n)

LEMMA PlainFacts ==
  ASSUME PlainInv
  PROVE  /\ Len(code) \in Nat /\ DOMAIN code = 1 .. Len(code) /\ 1 \in 1 .. Len(code)
         /\ DOMAIN info = 1 .. Len(code)
         /\ \A n \in 1 .. Len(code) : /\ PlainInstruction(code[n], original.locals)
                                      /\ Data(info[n], original.locals)
                                      /\ code[n].op \notin {"jsr", "ret"}
         /\ Calls = {} /\ Stray = {}
<1>1. Len(code) \in Nat /\ DOMAIN code = 1 .. Len(code) /\ Len(code) > 0
  BY SequenceFacts DEF PlainInv, PlainCode
<1>2. \A n \in 1 .. Len(code) : /\ PlainInstruction(code[n], original.locals)
                                /\ Data(info[n], original.locals)
  BY DEF PlainInv, PlainCode, AllData
<1>3. \A n \in 1 .. Len(code) : code[n].op \notin {"jsr", "ret"}
  BY <1>2 DEF PlainInstruction
<1>4. DOMAIN info = 1 .. Len(code)
  <2>1. info = [k \in 1 .. Len(code) |-> info[k]]
    BY DEF PlainInv, AllData
  <2>2. QED
    BY <2>1
<1>5. Calls = {} /\ Stray = {}
  BY <1>1, <1>3 DEF Calls, Stray
<1>6. QED
  BY <1>1, <1>2, <1>3, <1>4, <1>5

LEMMA NextOne ==
  ASSUME PlainInv, Changed # {}
  PROVE  Next1 \in 1 .. Len(code) /\ info[Next1].changed /\ info[Next1].known
<1>1. Changed \in SUBSET Nat /\ inumber \in Nat /\ Len(code) \in Nat
  <2>1. DOMAIN info = 1 .. Len(code) /\ Len(code) \in Nat
    BY PlainFacts
  <2>2. inumber \in 1 .. (Len(code) + 1)
    BY DEF PlainInv
  <2>3. Changed \in SUBSET (1 .. Len(code))
    BY <2>1 DEF Changed
  <2>4. QED
    BY <2>1, <2>2, <2>3
<1>2. Next1 \in Changed
  <2> DEFINE S == {n \in Changed : n >= inumber}
  <2>1. CASE \E n \in Changed : n >= inumber
    <3>1. S # {} /\ S \in SUBSET Nat
      BY <1>1, <2>1
    <3>2. Next1 = Min(S)
      BY <2>1 DEF Next1
    <3> HIDE DEF S
    <3>3. Next1 \in S
      BY <3>1, <3>2, LeastElement
    <3>4. QED
      BY <3>3 DEF S
  <2>2. CASE ~ \E n \in Changed : n >= inumber
    <3>1. Next1 = Min(Changed)
      BY <2>2 DEF Next1
    <3>2. QED
      BY <1>1, <3>1, LeastElement
  <2>3. QED
    BY <2>1, <2>2
<1>3. Next1 \in 1 .. Len(code) /\ info[Next1].changed
  BY <1>2, PlainFacts DEF Changed
<1>4. Data(info[Next1], original.locals)
  BY <1>3, PlainFacts
<1>5. QED
  BY <1>3, <1>4 DEF Data

\* A visit begins with marks.
LEMMA MarkedFacts ==
  ASSUME NEW D, NEW l, AllData(info, D, l), NEW n, code[n].op \notin {"jsr", "ret"}, NEW marked,
         marked = Marked(n)
  PROVE  /\ AllData(marked, D, l)
         /\ \A k \in D : /\ marked[k].changed = (info[k].changed /\ k # n)
                         /\ marked[k].known = info[k].known /\ marked[k].stack = info[k].stack
                         /\ marked[k].registers = info[k].registers
<1>1. DOMAIN info = D
  <2>1. info = [k \in D |-> info[k]]
    BY DEF AllData
  <2>2. QED
    BY <2>1
<1>2. marked = [k \in D |-> marked[k]]
  BY <1>1 DEF Marked
<1>3. ASSUME NEW k \in D
      PROVE  /\ Data(marked[k], l) /\ marked[k].changed = (info[k].changed /\ k # n)
             /\ marked[k].known = info[k].known /\ marked[k].stack = info[k].stack
             /\ marked[k].registers = info[k].registers
  <2> DEFINE d == info[k]
             c == d.changed /\ k # n
             t == d.target \/ k \in Targets(n)
  <2>1. Data(d, l)
    BY DEF AllData
  <2>2. d.successors = <<>>
    BY <2>1 DEF Data
  <2>3. marked[k] = [d EXCEPT !.changed = c, !.target = t, !.successors = <<>>]
    BY <1>1, <2>2 DEF Marked
  <2>4. c \in BOOLEAN /\ t \in BOOLEAN /\ (c => d.changed)
    BY <2>1 DEF Data
  <2> DEFINE e == marked[k]
  <2> HIDE DEF c, t, d
  <2>5. e = [d EXCEPT !.changed = c, !.target = t, !.successors = <<>>]
    BY <2>3
  <2> HIDE DEF e
  <2>6. /\ Data(e, l) /\ e.changed = c
        /\ e.known = d.known /\ e.stack = d.stack /\ e.registers = d.registers
    <3>1. d \in [known : BOOLEAN, stack : {d.stack}, registers : {d.registers}, masks : {<<>>},
                 changed : BOOLEAN, target : BOOLEAN, ret : {0}, successors : {<<>>}]
      BY <2>1 DEF Data
    <3>2. /\ e.changed = c /\ e.known = d.known /\ e.stack = d.stack /\ e.registers = d.registers
          /\ e \in [known : BOOLEAN, stack : {e.stack}, registers : {e.registers}, masks : {<<>>},
                    changed : BOOLEAN, target : BOOLEAN, ret : {0}, successors : {<<>>}]
      BY <2>4, <2>5, <3>1
    <3>3. QED
      BY <2>1, <2>4, <3>2 DEF Data
  <2>7. QED
    BY <2>6 DEF c, d, e
<1>4. QED
  BY <1>2, <1>3 DEF AllData

LEMMA VisitStep ==
  ASSUME PlainMethod(original), PlainInv, Flowing
  PROVE  PlainInv'
<1> DEFINE n == Next1
           D == 1 .. Len(code)
           l == original.locals
           marked == Marked(n)
<1>1. phase = "flow" /\ Changed # {} /\ Visit(n)
  BY DEF Flowing
<1>2. n \in D /\ info[n].changed /\ info[n].known
  BY <1>1, NextOne
<1>3. /\ info' = PassedOn(marked, n) /\ inumber' = n + 1 /\ phase' = phase /\ redoJsr' = redoJsr
      /\ original' = original /\ code' = code /\ handlers' = handlers /\ origin' = origin
  BY <1>1 DEF Visit, method
<1>4. /\ Len(code) \in Nat /\ 1 \in D /\ AllData(info, D, l) /\ l \in Nat
      /\ \A k \in D : /\ PlainInstruction(code[k], l) /\ Data(info[k], l)
                      /\ code[k].op \notin {"jsr", "ret"}
  BY PlainFacts DEF PlainInv, PlainMethod
<1>5. /\ AllData(marked, D, l)
      /\ \A k \in D : /\ marked[k].changed = (info[k].changed /\ k # n)
                      /\ marked[k].known = info[k].known /\ marked[k].stack = info[k].stack
                      /\ marked[k].registers = info[k].registers
  BY <1>2, <1>4, MarkedFacts
<1> HIDE DEF n, marked
<1>6. Len(handlers) \in Nat /\ \A k \in D : Len(Successors(k)) \in Nat /\ AllSendable(k, l)
  BY <1>4, SequenceFacts, SuccessorFacts, EdgesSendable DEF PlainInv
<1>7. /\ AllData(info', D, l) /\ AllForget(marked, info', D)
      /\ \A k \in 1 .. Len(handlers) + Len(Successors(n)) : Heard(info', D, n, k)
  BY <1>2, <1>3, <1>4, <1>5, <1>6, PassedOnFacts
<1>8. AllWider(info, info', D)
  BY <1>5, <1>7 DEF AllForget, AllWider, Forgets, Wider
<1>9. \A m \in D : info'[m].known /\ ~ info'[m].changed =>
        /\ info'[m].stack = info[m].stack /\ info'[m].registers = info[m].registers
        /\ info[m].known /\ (m # n => ~ info[m].changed)
  BY <1>5, <1>7 DEF AllForget, Forgets
<1>10. ASSUME NEW m \in D, info'[m].known, ~ info'[m].changed PROVE AllHeard(m)'
  <2>1. \A k \in 1 .. Len(handlers) + Len(Successors(m)) : Heard(info', D, m, k)
    <3>1. CASE m = n
      BY <1>7, <3>1
    <3>2. CASE m # n
      <4>1. AllHeard(m)
        BY <1>9, <1>10, <3>2 DEF PlainInv
      <4>2. QED
        BY <1>4, <1>6, <1>7, <1>8, <4>1, HeardStill DEF AllHeard
    <3>3. QED
      BY <3>1, <3>2
  <2>2. info[m].masks = <<>> /\ info'[m].masks = <<>>
    BY <1>4, <1>7 DEF AllData, Data
  <2>3. /\ \A to : Passed(m, to)' = Passed(m, to)
        /\ \A h : Caught(m, h)' = Caught(m, h) /\ CaughtAfter(m, h)' = CaughtAfter(m, h)
        /\ Successors(m)' = Successors(m)
    BY <1>3, <1>4, <1>9, <1>10, <2>2, SameEdges
  <2>4. Catching(handlers, m)' = Catching(handlers, m)
    BY <1>3 DEF Catching
  <2>5. \A k : Heard(info, D, m, k)' = Heard(info', D, m, k)
    BY <1>3, <2>3, <2>4 DEF Heard, Hears
  <2>6. QED
    BY <1>3, <2>1, <2>3, <2>5 DEF AllHeard
<1>11. Told(<<>>, original.args, info'[1]) /\ Len(info'[1].stack) = 0
  <2>1. Told(<<>>, original.args, info[1]) /\ Len(info[1].stack) = 0 /\ info[1].known
    BY DEF PlainInv, Told
  <2>2. Data(info[1], l) /\ Data(info'[1], l) /\ Wider(info[1], info'[1])
    BY <1>4, <1>7, <1>8 DEF AllData, AllWider
  <2>3. Len(original.args) \in Nat
    BY SequenceFacts DEF PlainMethod
  <2>4. QED
    BY <1>4, <2>1, <2>2, <2>3, ToldStill DEF Wider
<1>12. inumber' \in 1 .. (Len(code) + 1)
  BY <1>2, <1>3, <1>4
<1>13. QED
  BY <1>3, <1>7, <1>10, <1>11, <1>12 DEF PlainInv

-----------------------------------------------------------------------------
(* The analysis of a method begins.                                        *)

LEMMA FreshFacts ==
  ASSUME NEW c, Sequence(c), Len(c) > 0, NEW args, NEW l \in Nat,
         Sequence(args), \A k \in 1 .. Len(args) : Value(args[k]), Len(args) <= l, NEW new,
         new = Fresh(c, args)
  PROVE  /\ AllData(new, 1 .. Len(c), l) /\ Told(<<>>, args, new[1]) /\ Len(new[1].stack) = 0
         /\ \A k \in 1 .. Len(c) : new[k].known => new[k].changed /\ k = 1
<1> DEFINE D == 1 .. Len(c)
           first == [Unknown EXCEPT !.known = TRUE, !.registers = args, !.changed = TRUE]
<1>1. D = DOMAIN c /\ 1 \in D
  BY SequenceFacts
<1>2. /\ first \in [known : BOOLEAN, stack : {<<>>}, registers : {args, <<>>}, masks : {<<>>},
                    changed : BOOLEAN, target : BOOLEAN, ret : {0}, successors : {<<>>}]
      /\ first.known /\ first.changed /\ first.registers = args
  <2>1. Unknown \in [known : BOOLEAN, stack : {<<>>}, registers : {args, <<>>}, masks : {<<>>},
                     changed : BOOLEAN, target : BOOLEAN, ret : {0}, successors : {<<>>}]
    BY DEF Unknown
  <2>2. QED
    BY <2>1
<1>3. /\ Unknown \in [known : BOOLEAN, stack : {<<>>}, registers : {<<>>}, masks : {<<>>},
                      changed : BOOLEAN, target : BOOLEAN, ret : {0}, successors : {<<>>}]
      /\ ~ Unknown.known /\ ~ Unknown.changed /\ Unknown.stack = <<>> /\ Unknown.registers = <<>>
  BY DEF Unknown
<1>4. new = [k \in D |-> IF k = 1 THEN first ELSE Unknown]
  <2> HIDE DEF D
  <2>1. new = [[n \in D |-> Unknown] EXCEPT ![1] = first]
    BY <1>1 DEF Fresh
  <2> HIDE DEF first
  <2>2. QED
    BY <2>1
<1> HIDE DEF D, first
<1>5. new = [k \in D |-> new[k]] /\ \A k \in D : new[k] = IF k = 1 THEN first ELSE Unknown
  BY <1>4
<1>6. Typed(<<>>) /\ Typed(args) /\ Len(<<>>) = 0 /\ Len(<<>>) <= l
  BY EmptySequence DEF Typed, Value
<1>7. Data(Unknown, l)
  BY <1>3, <1>6 DEF Data
<1>8. Data(first, l) /\ first.stack = <<>>
  BY <1>2, <1>6 DEF Data
<1>9. AllData(new, D, l)
  BY <1>5, <1>7, <1>8 DEF AllData
<1>10. new[1] = first
  BY <1>1, <1>5
<1>11. Told(<<>>, args, first)
  <2>1. Len(args) \in Nat
    BY SequenceFacts
  <2>2. QED
    BY <1>2, <1>8, <2>1, BelowSelf DEF Told, BelowAll
<1>12. \A k \in D : new[k].known => new[k].changed /\ k = 1
  BY <1>2, <1>3, <1>5
<1>13. QED
  BY <1>6, <1>8, <1>9, <1>10, <1>11, <1>12 DEF D

-----------------------------------------------------------------------------
(* The analysis begins again on the code that is left.                     *)

\* A sequence has all the elements of another one.
HasAll(s, t)  == \A j \in 1 .. Len(t) : \E i \in 1 .. Len(s) : s[i] = t[j]
AllIn(s, t)   == \A k \in 1 .. Len(t) : HasAll(s, t[k])
OnlyIn(s, t)  == \A i \in 1 .. Len(s) : \E k \in 1 .. Len(t) : \E j \in 1 .. Len(t[k]) : s[i] = t[k][j]

LEMMA HasAllJoin ==
  ASSUME NEW s, NEW t, Sequence(s), Sequence(t)
  PROVE  HasAll(s \o t, t) /\ \A u : HasAll(s, u) => HasAll(s \o t, u)
<1>1. Len(s) \in Nat /\ Len(t) \in Nat
  BY SequenceFacts
<1>2. /\ Len(s \o t) = Len(s) + Len(t)
      /\ \A n \in 1 .. Len(s) + Len(t) :
           (s \o t)[n] = IF n <= Len(s) THEN s[n] ELSE t[n - Len(s)]
  BY SequenceJoin
<1> DEFINE a == s \o t
<1> HIDE DEF a
<1>3. \A j \in 1 .. Len(t) : Len(s) + j \in 1 .. Len(a) /\ a[Len(s) + j] = t[j]
  BY <1>1, <1>2 DEF a
<1>4. \A i \in 1 .. Len(s) : i \in 1 .. Len(a) /\ a[i] = s[i]
  BY <1>1, <1>2 DEF a
<1>5. HasAll(a, t)
  BY <1>3 DEF HasAll
<1>6. ASSUME NEW u, HasAll(s, u) PROVE HasAll(a, u)
  <2>1. SUFFICES ASSUME NEW j \in 1 .. Len(u) PROVE \E i \in 1 .. Len(a) : a[i] = u[j]
    BY DEF HasAll
  <2>2. PICK i \in 1 .. Len(s) : s[i] = u[j]
    BY <1>6 DEF HasAll
  <2>3. QED
    BY <1>4, <2>2
<1>7. QED
  BY <1>5, <1>6 DEF a

LEMMA FlattenFacts ==
  ASSUME NEW s, Sequence(s), \A k \in 1 .. Len(s) : Sequence(s[k])
  PROVE  /\ Sequence(FlattenSeq(s))
         /\ AllIn(FlattenSeq(s), s) /\ OnlyIn(FlattenSeq(s), s)
<1>1. Len(s) \in Nat
  BY SequenceFacts
<1>2. CASE Len(s) = 0
  <2>1. s = <<>>
    BY <1>2, SequenceEmpty
  <2>2. FlattenSeq(s) = s
    BY <1>2 DEF FlattenSeq
  <2>3. QED
    BY <1>2, <2>2 DEF AllIn, OnlyIn
<1>3. CASE Len(s) # 0
  <2> DEFINE last == Len(s)
             Step(f, k) == IF k = 1 THEN s[k] ELSE f[k - 1] \o s[k]
             Defined(f, m) == f = [k \in 1 .. m |-> Step(f, k)]
  <2>1. \E f : Defined(f, last)
    <3> DEFINE S == {m \in Nat : \E f : Defined(f, m)}
    <3>1. 0 \in S
      <4> DEFINE f == [k \in 1 .. 0 |-> 0]
      <4>1. \A k \in 1 .. 0 : FALSE
        OBVIOUS
      <4>2. Defined(f, 0)
        BY <4>1
      <4> HIDE DEF Defined, f
      <4>3. QED
        BY <4>2
    <3>2. ASSUME NEW m \in Nat, m \in S PROVE m + 1 \in S
      <4>1. PICK f : Defined(f, m)
        BY <3>2
      <4> DEFINE g == [k \in 1 .. m + 1 |-> IF k <= m THEN f[k] ELSE Step(f, k)]
      <4>2. ASSUME NEW k \in 1 .. m + 1 PROVE g[k] = Step(g, k)
        <5>1. CASE k <= m
          <6>1. k \in 1 .. m
            BY <5>1
          <6>2. g[k] = f[k]
            BY <5>1
          <6>3. f[k] = Step(f, k)
            BY <4>1, <6>1
          <6>4. k # 1 => g[k - 1] = f[k - 1]
            BY <6>1
          <6>5. Step(g, k) = Step(f, k)
            BY <6>4
          <6>6. QED
            BY <6>2, <6>3, <6>5
        <5>2. CASE k = m + 1
          <6>1. g[k] = Step(f, k)
            BY <5>2
          <6>2. k # 1 => k - 1 \in 1 .. m + 1 /\ k - 1 <= m
            BY <5>2
          <6>3. k # 1 => g[k - 1] = f[k - 1]
            BY <6>2
          <6>4. QED
            BY <6>1, <6>3
        <5>3. QED
          BY <5>1, <5>2
      <4>3. Defined(g, m + 1)
        BY <4>2
      <4>4. m + 1 \in Nat
        OBVIOUS
      <4> HIDE DEF Defined
      <4>5. QED
        BY <4>3, <4>4
    <3>3. S \in SUBSET Nat
      OBVIOUS
    <3> HIDE DEF S
    <3>4. S = Nat
      BY <3>1, <3>2, <3>3, Least
    <3>5. QED
      BY <1>1, <3>4 DEF S
  <2> DEFINE flatten == CHOOSE f : Defined(f, last)
  <2>2. FlattenSeq(s) = flatten[last]
    BY <1>3 DEF FlattenSeq
  <2>3. Defined(flatten, last)
    <3> HIDE DEF Defined
    <3> QED BY <2>1
  <2> HIDE DEF flatten
  <2> DEFINE Good(t, m) == /\ Sequence(t) /\ OnlyIn(t, s)
                           /\ \A k \in 1 .. m : HasAll(t, s[k])
  <2>4. \A m \in Nat : m + 1 <= last => Good(flatten[m + 1], m + 1)
    <3> DEFINE S == {m \in Nat : m + 1 <= last => Good(flatten[m + 1], m + 1)}
    <3>1. 0 \in S
      <4>1. 1 \in 1 .. last
        BY <1>1, <1>3
      <4>2. flatten[1] = s[1]
        BY <2>3, <4>1
      <4>3. \A k \in 1 .. 1 : k = 1
        OBVIOUS
      <4> DEFINE t == s[1]
      <4>4. HasAll(t, t)
        BY DEF HasAll
      <4>5. OnlyIn(t, s)
        BY <4>1 DEF OnlyIn
      <4>6. Good(flatten[1], 1)
        BY <4>1, <4>2, <4>3, <4>4, <4>5
      <4> HIDE DEF Good
      <4>7. QED
        BY <4>6
    <3>2. ASSUME NEW m \in Nat, m \in S PROVE m + 1 \in S
      <4>1. SUFFICES ASSUME (m + 1) + 1 <= last PROVE Good(flatten[(m + 1) + 1], (m + 1) + 1)
        OBVIOUS
      <4> DEFINE k == (m + 1) + 1
                 a == flatten[m + 1]
                 b == s[k]
      <4>2. k \in 1 .. last /\ k # 1 /\ k - 1 = m + 1 /\ m + 1 <= last
        BY <1>1, <4>1
      <4>3. flatten[k] = Step(flatten, k)
        BY <2>3, <4>2
      <4>4. flatten[k] = a \o b
        BY <4>2, <4>3
      <4>5. Good(a, m + 1) /\ Sequence(b)
        BY <3>2, <4>2
      <4>6. \A j \in 1 .. k : j \in 1 .. m + 1 \/ j = k
        OBVIOUS
      <4>7. k \in 1 .. Len(s)
        BY <4>2
      <4>8. Good(a \o b, k)
        <5> HIDE DEF a, k
        <5>1. Sequence(a \o b) /\ Len(a \o b) = Len(a) + Len(b) /\ Len(a) \in Nat /\ Len(b) \in Nat
          BY <4>5, SequenceJoin, SequenceFacts
        <5>2. \A n \in 1 .. Len(a) + Len(b) :
                (a \o b)[n] = IF n <= Len(a) THEN a[n] ELSE b[n - Len(a)]
          BY <4>5, SequenceJoin
        <5>3. HasAll(a \o b, b) /\ \A j \in 1 .. m + 1 : HasAll(a \o b, s[j])
          BY <4>5, HasAllJoin
        <5>4. ASSUME NEW n \in 1 .. Len(a \o b)
              PROVE  \E i \in 1 .. Len(s) : \E j \in 1 .. Len(s[i]) : (a \o b)[n] = s[i][j]
          <6>1. CASE n <= Len(a)
            <7>1. n \in 1 .. Len(a) /\ (a \o b)[n] = a[n]
              BY <5>1, <5>2, <6>1
            <7>2. QED
              BY <4>5, <7>1 DEF OnlyIn
          <6>2. CASE ~ (n <= Len(a))
            <7>1. n - Len(a) \in 1 .. Len(b) /\ (a \o b)[n] = b[n - Len(a)]
              BY <5>1, <5>2, <6>2
            <7>2. QED
              BY <4>7, <7>1
          <6>3. QED
            BY <6>1, <6>2
        <5>5. OnlyIn(a \o b, s)
          BY <5>4 DEF OnlyIn
        <5>6. QED
          BY <4>6, <5>1, <5>3, <5>5
      <4> HIDE DEF Good, a, b
      <4>9. QED
        BY <4>4, <4>8 DEF k
    <3>3. S \in SUBSET Nat
      OBVIOUS
    <3> HIDE DEF S
    <3>4. S = Nat
      BY <3>1, <3>2, <3>3, Least
    <3>5. QED
      BY <3>4 DEF S
  <2>5. last - 1 \in Nat /\ (last - 1) + 1 = last
    BY <1>1, <1>3
  <2> HIDE DEF Good
  <2>6. Good(flatten[(last - 1) + 1], (last - 1) + 1)
    BY <2>4, <2>5
  <2>7. Good(flatten[last], last)
    BY <2>5, <2>6
  <2>8. QED
    BY <2>2, <2>7 DEF Good, AllIn
<1>4. QED
  BY <1>2, <1>3

\* The places of an InOrder of places of a sequence, among them that of one
\* of which the test holds.
LEMMA PlacesFacts ==
  ASSUME NEW n \in Nat, NEW places, NEW s, s = InOrder(places, n)
  PROVE  /\ Sequence(s) /\ Len(s) \in Nat /\ DOMAIN s = 1 .. Len(s)
         /\ \A j \in 1 .. Len(s) : s[j] \in places /\ s[j] \in 1 .. n
         /\ \A k \in 1 .. n : k \in places => Len(s) > 0 /\ \E j \in 1 .. Len(s) : s[j] = k
         /\ Increasing(s) /\ (1 .. n \subseteq places => InPlace(s, n))
<1>1. /\ Sequence(s) /\ \A j \in 1 .. Len(s) : s[j] \in places \cap (1 .. n)
      /\ \A k \in places \cap (1 .. n) : \E j \in 1 .. Len(s) : s[j] = k
      /\ Increasing(s) /\ (1 .. n \subseteq places => InPlace(s, n))
  BY InOrderFacts
<1>2. Len(s) \in Nat /\ DOMAIN s = 1 .. Len(s)
  BY <1>1, SequenceFacts
<1>3. ASSUME NEW k \in 1 .. n, k \in places PROVE Len(s) > 0 /\ \E j \in 1 .. Len(s) : s[j] = k
  <2>1. PICK j \in 1 .. Len(s) : s[j] = k
    BY <1>1, <1>3
  <2>2. QED
    BY <1>2, <2>1
<1>4. QED
  BY <1>1, <1>2, <1>3

\* What is left is what is known, in the order that it has.
LeftInOrder(refs) ==
  /\ \A k \in 1 .. Len(refs) : refs[k].sub = <<>> /\ info[refs[k].n].known
  /\ \A j, k \in 1 .. Len(refs) : j < k => refs[j].n < refs[k].n
  /\ \A n \in 1 .. Len(code) : info[n].known => \E k \in 1 .. Len(refs) : refs[k].n = n

\* All instructions that are reached are left, in the order that they have.
LEMMA CopiesLeft ==
  ASSUME PlainInv, NEW refs, refs = Inlined
  PROVE  /\ Sequence(refs) /\ Len(refs) > 0 /\ DOMAIN refs = 1 .. Len(refs) /\ Len(refs) \in Nat
         /\ \A k \in 1 .. Len(refs) : refs[k].n \in 1 .. Len(code)
         /\ LeftInOrder(refs)
<1>1. /\ Len(code) \in Nat /\ DOMAIN code = 1 .. Len(code) /\ 1 \in 1 .. Len(code) /\ Calls = {}
      /\ \A n \in 1 .. Len(code) : Data(info[n], original.locals)
  BY PlainFacts
<1>2. Cardinality(Calls) = 0
  BY <1>1, FS_EmptySet
<1>3. refs = OwnCopies(<<>>)
  <2> DEFINE Copy(r, depth) ==
               <<r>> \o (IF Len(r.sub) = depth /\ code[r.n].op = "jsr" /\ info[r.n].ret # 0
                         THEN OwnCopies(Append(r.sub, r.n)) ELSE <<>>)
             Step(f, d) == IF d = 0 THEN OwnCopies(<<>>)
                           ELSE LET outer == f[d - 1]
                                IN FlattenSeq([k \in DOMAIN outer |-> Copy(outer[k], d - 1)])
             Defined(f) == f = [d \in 0 .. Cardinality(Calls) |-> Step(f, d)]
             level == CHOOSE f : Defined(f)
  <2>1. refs = level[Cardinality(Calls)]
    BY DEF Inlined
  <2>2. \E f : Defined(f)
    <3> DEFINE f == [d \in 0 .. 0 |-> OwnCopies(<<>>)]
    <3>1. \A d \in 0 .. 0 : Step(f, d) = OwnCopies(<<>>)
      OBVIOUS
    <3> HIDE DEF Step
    <3>2. f = [d \in 0 .. 0 |-> Step(f, d)]
      BY <3>1
    <3>3. Defined(f)
      BY <1>2, <3>2
    <3> HIDE DEF Defined, f
    <3>4. QED
      BY <3>3
  <2>3. Defined(level)
    <3> HIDE DEF Defined
    <3> QED BY <2>2
  <2> HIDE DEF level
  <2>4. level[0] = Step(level, 0)
    <3>1. 0 \in 0 .. Cardinality(Calls)
      BY <1>2
    <3> HIDE DEF Step
    <3>2. QED
      BY <2>3, <3>1
  <2>5. QED
    BY <1>2, <2>1, <2>4
<1> DEFINE places == {n \in DOMAIN code :
                        info[n].known /\ [k \in DOMAIN info[n].masks |-> info[n].masks[k].entry]
                                           = Entries(<<>>)}
           own == InOrder(places, Len(code))
<1>4. refs = [k \in DOMAIN own |-> [n |-> own[k], sub |-> <<>>]]
  BY <1>3 DEF OwnCopies, Where
<1>5. /\ Len(own) \in Nat /\ DOMAIN own = 1 .. Len(own)
      /\ \A j \in 1 .. Len(own) : own[j] \in 1 .. Len(code) /\ own[j] \in places
      /\ \A k \in 1 .. Len(code) : k \in places => \E j \in 1 .. Len(own) : own[j] = k
      /\ Increasing(own)
  <2> HIDE DEF places
  <2> QED BY <1>1, PlacesFacts
<1>6. \A n \in 1 .. Len(code) : n \in places <=> info[n].known
  <2>1. [k \in DOMAIN <<>> |-> <<>>[k].entry] = Entries(<<>>)
    <3>1. DOMAIN <<>> = {}
      OBVIOUS
    <3>2. QED
      BY <3>1 DEF Entries
  <2>2. \A n \in 1 .. Len(code) : info[n].masks = <<>>
    BY <1>1 DEF Data
  <2>3. QED
    BY <1>1, <2>1, <2>2
<1>7. /\ refs = [k \in 1 .. Len(own) |-> refs[k]]
      /\ \A k \in 1 .. Len(own) : refs[k].n = own[k] /\ refs[k].sub = <<>>
  <2> DEFINE r(k) == [n |-> own[k], sub |-> <<>>]
  <2>1. refs = [k \in 1 .. Len(own) |-> r(k)]
    BY <1>4, <1>5
  <2>2. \A k \in 1 .. Len(own) : r(k).n = own[k] /\ r(k).sub = <<>>
    OBVIOUS
  <2> HIDE DEF r, own
  <2>3. \A k \in 1 .. Len(own) : refs[k] = r(k)
    BY <2>1
  <2>4. refs = [k \in 1 .. Len(own) |-> refs[k]]
    BY <2>1
  <2>5. QED
    BY <2>2, <2>3, <2>4
<1> HIDE DEF own, places
<1>8. Sequence(refs) /\ Len(refs) = Len(own) /\ DOMAIN refs = 1 .. Len(own)
  BY <1>5, <1>7, SequenceMade
<1>9. info[1].known
  BY DEF PlainInv, Told
<1>10. Len(own) > 0
  <2>1. PICK j \in 1 .. Len(own) : own[j] = 1
    BY <1>1, <1>5, <1>6, <1>9
  <2>2. QED
    BY <1>5, <2>1
<1>11. \A k \in 1 .. Len(refs) : refs[k].sub = <<>> /\ info[refs[k].n].known
  BY <1>5, <1>6, <1>7, <1>8
<1>12. \A j, k \in 1 .. Len(refs) : j < k => refs[j].n < refs[k].n
  BY <1>5, <1>7, <1>8 DEF Increasing
<1>13. \A n \in 1 .. Len(code) : info[n].known => \E k \in 1 .. Len(refs) : refs[k].n = n
  <2>1. SUFFICES ASSUME NEW n \in 1 .. Len(code), info[n].known
                 PROVE  \E k \in 1 .. Len(refs) : refs[k].n = n
    OBVIOUS
  <2>2. PICK k \in 1 .. Len(own) : own[k] = n
    BY <1>5, <1>6, <2>1
  <2>3. QED
    BY <1>7, <1>8, <2>2
<1>14. LeftInOrder(refs)
  BY <1>11, <1>12, <1>13 DEF LeftInOrder
<1>15. QED
  BY <1>5, <1>7, <1>8, <1>10, <1>14

\* No instruction of a method without subroutines is skipped.
LEMMA NoneSkipped ==
  ASSUME PlainInv, NEW refs, refs = Inlined
  PROVE  \A k \in 1 .. Len(refs) : ~ Skipped(refs, k)
<1>1. SUFFICES ASSUME NEW k \in 1 .. Len(refs) PROVE ~ Skipped(refs, k)
  OBVIOUS
<1> DEFINE n == refs[k].n
           i == code[n]
<1>2. n \in 1 .. Len(code)
  BY CopiesLeft
<1>3. i.op \notin {"jsr", "ret"} /\ Data(info[n], original.locals)
  BY <1>2, PlainFacts
<1>4. Typed(info[n].stack)
  BY <1>3 DEF Data
<1> HIDE DEF n
<1>5. 1 \in Nat /\ 1 \in 1 .. 1
  OBVIOUS
<1>6. Typed(Top(info[n].stack, 1)) /\ Len(Top(info[n].stack, 1)) = 1
  BY <1>4, <1>5, TypedTop, TopFacts DEF Typed
<1>7. IsType(Top(info[n].stack, 1)[1])
  BY <1>5, <1>6 DEF Typed
<1>8. Top(info[n].stack, 1)[1].item # "return"
  BY <1>7 DEF IsType
<1>9. QED
  BY <1>3, <1>8 DEF Skipped, n

LEMMA KeptFacts ==
  ASSUME PlainInv, NEW refs, refs = Inlined, NEW kept, kept = Kept(refs)
  PROVE  /\ Len(kept) \in Nat /\ Len(kept) > 0 /\ DOMAIN kept = 1 .. Len(kept)
         /\ \A j \in 1 .. Len(kept) : kept[j] \in 1 .. Len(refs)
         /\ InPlace(kept, Len(refs))
<1> DEFINE places == {k \in DOMAIN refs : ~ Skipped(refs, k)}
<1>1. Len(refs) \in Nat /\ Len(refs) > 0 /\ DOMAIN refs = 1 .. Len(refs)
  BY CopiesLeft
<1>2. kept = InOrder(places, Len(refs))
  BY DEF Kept, Where
<1>3. 1 \in 1 .. Len(refs) /\ 1 \in places /\ 1 .. Len(refs) \subseteq places
  BY <1>1, NoneSkipped
<1> HIDE DEF places
<1>4. QED
  BY <1>1, <1>2, <1>3, PlacesFacts

\* fixupCode changes only where an instruction goes to.
LEMMA FixedFacts ==
  ASSUME NEW refs, NEW k, NEW l, PlainInstruction(code[refs[k].n], l)
  PROVE  PlainInstruction(Fixed(refs, k), l)
<1> DEFINE i == code[refs[k].n]
           to == Offset(refs, Place(refs, i.to, refs[k].sub))
           j == Fixed(refs, k)
<1>1. i.op \notin {"jsr", "ret"}
  BY DEF PlainInstruction
<1>2. j = IF i.op \in {"if", "goto"} THEN [i EXCEPT !.to = to] ELSE i
  BY <1>1 DEF Fixed
<1> HIDE DEF j, to
<1>3. i \in [op : {i.op}, takes : {i.takes}, gives : {i.gives}, var : {i.var}, to : {i.to, to},
             copy : {i.copy}]
  BY DEF PlainInstruction
<1> HIDE DEF i
<1>4. /\ j.op = i.op /\ j.takes = i.takes /\ j.gives = i.gives /\ j.var = i.var /\ j.copy = i.copy
      /\ j \in [op : {j.op}, takes : {j.takes}, gives : {j.gives}, var : {j.var}, to : {j.to},
                copy : {j.copy}]
  BY <1>2, <1>3
<1>5. PlainInstruction(i, l)
  BY DEF i
<1>6. PlainInstruction(j, l)
  BY <1>4, <1>5 DEF PlainInstruction
<1>7. QED
  BY <1>6 DEF j

\* What fixupExceptionHandlers makes of a handler: copy j of the code is one
\* that it guards, a run of those becomes a handler.
OwnAt(refs, h, c, j) ==
  /\ j \in DOMAIN Kept(refs)
  /\ refs[Kept(refs)[j]].n \in h.from..(h.end - 1)
  /\ MayGo(refs[Kept(refs)[j]].sub, refs[c].sub)
RunEnd(refs, h, c, first) ==
  Min({j \in (first + 1)..(Len(Kept(refs)) + 1) : ~ OwnAt(refs, h, c, j)})
RunFrom(refs, h, c, first) ==
  [h EXCEPT !.at = Offset(refs, c), !.from = first, !.end = RunEnd(refs, h, c, first)]
Firsts(refs, h, c) ==
  InOrder({j \in DOMAIN Kept(refs) : OwnAt(refs, h, c, j) /\ ~ OwnAt(refs, h, c, j - 1)},
          Len(Kept(refs)))
RunsOf(refs, h, c) ==
  [j \in DOMAIN Firsts(refs, h, c) |-> RunFrom(refs, h, c, Firsts(refs, h, c)[j])]
Homes(refs, h) == InOrder({c \in DOMAIN refs : refs[c].n = h.at}, Len(refs))
AllRuns(refs, h) ==
  [c \in DOMAIN Reverse(Homes(refs, h)) |-> RunsOf(refs, h, Reverse(Homes(refs, h))[c])]

LEMMA CopiesAreRuns == \A refs, h : CopiesOf(refs, h) = FlattenSeq(AllRuns(refs, h))
BY DEF CopiesOf, Where, AllRuns, RunsOf, Homes, Firsts, RunFrom, RunEnd, OwnAt

IsRun(x, refs, h)   == \E c, first : x = RunFrom(refs, h, c, first)
HasRuns(s, refs, h) ==
  \A c \in 1 .. Len(refs) : refs[c].n = h.at =>
     \A first \in 1 .. Len(Kept(refs)) :
        OwnAt(refs, h, c, first) /\ ~ OwnAt(refs, h, c, first - 1) =>
           \E i \in 1 .. Len(s) : s[i] = RunFrom(refs, h, c, first)

LEMMA RunsFacts ==
  ASSUME NEW refs, Len(Kept(refs)) \in Nat, NEW h, NEW c, NEW r, r = RunsOf(refs, h, c)
  PROVE  /\ Sequence(r) /\ \A j \in 1 .. Len(r) : IsRun(r[j], refs, h)
         /\ \A first \in 1 .. Len(Kept(refs)) :
               first \in DOMAIN Kept(refs) /\ OwnAt(refs, h, c, first) /\ ~ OwnAt(refs, h, c, first - 1) =>
                  \E i \in 1 .. Len(r) : r[i] = RunFrom(refs, h, c, first)
<1> DEFINE f == Firsts(refs, h, c)
           places == {j \in DOMAIN Kept(refs) : OwnAt(refs, h, c, j) /\ ~ OwnAt(refs, h, c, j - 1)}
<1>1. f = InOrder(places, Len(Kept(refs)))
  BY DEF Firsts
<1>2. \A j : j \in places <=> /\ j \in DOMAIN Kept(refs) /\ OwnAt(refs, h, c, j)
                              /\ ~ OwnAt(refs, h, c, j - 1)
  OBVIOUS
<1>3. r = [j \in DOMAIN f |-> RunFrom(refs, h, c, f[j])]
  BY DEF RunsOf
<1> HIDE DEF f, places
<1>4. /\ Len(f) \in Nat /\ DOMAIN f = 1 .. Len(f)
      /\ \A k \in 1 .. Len(Kept(refs)) : k \in places => \E j \in 1 .. Len(f) : f[j] = k
  BY <1>1, PlacesFacts
<1>5. r = [j \in 1 .. Len(f) |-> r[j]] /\ \A j \in 1 .. Len(f) : r[j] = RunFrom(refs, h, c, f[j])
  BY <1>3, <1>4
<1>6. Sequence(r) /\ Len(r) = Len(f)
  BY <1>4, <1>5, SequenceMade
<1>7. \A j \in 1 .. Len(r) : IsRun(r[j], refs, h)
  BY <1>5, <1>6 DEF IsRun
<1>8. ASSUME NEW first \in 1 .. Len(Kept(refs)), first \in places
      PROVE  \E i \in 1 .. Len(r) : r[i] = RunFrom(refs, h, c, first)
  <2>1. PICK j \in 1 .. Len(f) : f[j] = first
    BY <1>4, <1>8
  <2>2. QED
    BY <1>5, <1>6, <2>1
<1>9. QED
  BY <1>2, <1>6, <1>7, <1>8

\* fixupExceptionHandlers makes a sequence of them.
LEMMA HandlerCopies ==
  ASSUME NEW refs, Len(refs) \in Nat, DOMAIN refs = 1 .. Len(refs), Len(Kept(refs)) \in Nat,
         NEW h, NEW s, s = CopiesOf(refs, h)
  PROVE  /\ Sequence(s) /\ \A i \in 1 .. Len(s) : IsRun(s[i], refs, h)
         /\ HasRuns(s, refs, h)
<1> DEFINE homes == Homes(refs, h)
           back == Reverse(homes)
           all == AllRuns(refs, h)
<1>1. s = FlattenSeq(all)
  BY CopiesAreRuns
<1>2. /\ Len(homes) \in Nat
      /\ \A c \in 1 .. Len(refs) : refs[c].n = h.at => \E j \in 1 .. Len(homes) : homes[j] = c
  <2> DEFINE places == {c \in DOMAIN refs : refs[c].n = h.at}
  <2>1. homes = InOrder(places, Len(refs))
    BY DEF Homes
  <2>2. \A c \in 1 .. Len(refs) : refs[c].n = h.at => c \in places
    OBVIOUS
  <2> HIDE DEF homes, places
  <2>3. QED
    BY <2>1, <2>2, PlacesFacts
<1>3. back = [i \in 1 .. Len(homes) |-> homes[(Len(homes) - i) + 1]]
  BY DEF Reverse
<1>4. all = [c \in DOMAIN back |-> RunsOf(refs, h, back[c])]
  BY DEF AllRuns
<1> HIDE DEF homes, back, all
<1>5. DOMAIN back = 1 .. Len(homes)
  BY <1>3
<1>6. /\ all = [c \in 1 .. Len(homes) |-> all[c]]
      /\ \A c \in 1 .. Len(homes) : all[c] = RunsOf(refs, h, back[c])
  BY <1>4, <1>5
<1>7. Sequence(all) /\ Len(all) = Len(homes)
  BY <1>2, <1>6, SequenceMade
<1>8. \A c \in 1 .. Len(all) : Sequence(all[c]) /\ \A j \in 1 .. Len(all[c]) : IsRun(all[c][j], refs, h)
  BY <1>6, <1>7, RunsFacts
<1>9. Sequence(s) /\ AllIn(s, all) /\ OnlyIn(s, all)
  BY <1>1, <1>7, <1>8, FlattenFacts
<1>10. \A i \in 1 .. Len(s) : IsRun(s[i], refs, h)
  BY <1>8, <1>9 DEF OnlyIn
<1>11. ASSUME NEW c \in 1 .. Len(refs), refs[c].n = h.at, NEW first \in 1 .. Len(Kept(refs)),
              OwnAt(refs, h, c, first), ~ OwnAt(refs, h, c, first - 1)
       PROVE  \E i \in 1 .. Len(s) : s[i] = RunFrom(refs, h, c, first)
  <2>1. PICK j \in 1 .. Len(homes) : homes[j] = c
    BY <1>2, <1>11
  <2> DEFINE k == (Len(homes) - j) + 1
  <2>2. k \in 1 .. Len(homes) /\ (Len(homes) - k) + 1 = j
    BY <1>2
  <2> HIDE DEF k
  <2>3. back[k] = c
    BY <1>3, <2>1, <2>2
  <2>4. all[k] = RunsOf(refs, h, c)
    BY <1>6, <2>2, <2>3
  <2>5. first \in DOMAIN Kept(refs)
    BY <1>11 DEF OwnAt
  <2>6. \E i \in 1 .. Len(all[k]) : all[k][i] = RunFrom(refs, h, c, first)
    BY <1>11, <2>4, <2>5, RunsFacts
  <2>7. HasAll(s, all[k])
    BY <1>7, <1>9, <2>2 DEF AllIn
  <2>8. QED
    BY <2>6, <2>7 DEF HasAll
<1>12. HasRuns(s, refs, h)
  BY <1>11 DEF HasRuns
<1>13. QED
  BY <1>9, <1>10, <1>12


LEMMA RewriteStep ==
  ASSUME PlainMethod(original), PlainInv, Rewrite
  PROVE  PlainInv'
<1> DEFINE refs == Inlined
           kept == Kept(refs)
           l == original.locals
           c == code'
<1>1. /\ code' = [j \in DOMAIN kept |-> Fixed(refs, kept[j])]
      /\ handlers' = FlattenSeq([h \in DOMAIN handlers |-> CopiesOf(refs, handlers[h])])
      /\ origin' = [j \in DOMAIN kept |-> origin[refs[kept[j]].n]]
      /\ info' = Fresh(code', original.args)
      /\ inumber' = 1 /\ redoJsr' = FALSE /\ original' = original /\ phase' = phase
  BY DEF Rewrite
<1>2. /\ Len(refs) \in Nat /\ DOMAIN refs = 1 .. Len(refs)
      /\ \A k \in 1 .. Len(refs) : refs[k].n \in 1 .. Len(code)
      /\ Len(kept) \in Nat /\ Len(kept) > 0 /\ DOMAIN kept = 1 .. Len(kept)
      /\ \A j \in 1 .. Len(kept) : kept[j] \in 1 .. Len(refs)
  <2>1. /\ Len(refs) \in Nat /\ DOMAIN refs = 1 .. Len(refs)
        /\ \A k \in 1 .. Len(refs) : refs[k].n \in 1 .. Len(code)
    <3> HIDE DEF refs
    <3>1. refs = Inlined
      BY DEF refs
    <3>2. QED
      BY <3>1, CopiesLeft
  <2>2. /\ Len(kept) \in Nat /\ Len(kept) > 0 /\ DOMAIN kept = 1 .. Len(kept)
        /\ \A j \in 1 .. Len(kept) : kept[j] \in 1 .. Len(refs)
    <3> HIDE DEF refs, kept
    <3>1. refs = Inlined /\ kept = Kept(refs)
      BY DEF refs, kept
    <3>2. QED
      BY <3>1, KeptFacts
  <2>3. QED
    BY <2>1, <2>2
<1> HIDE DEF refs
<1>3. \A j \in 1 .. Len(kept) : PlainInstruction(Fixed(refs, kept[j]), l)
  BY <1>2, FixedFacts, PlainFacts
<1>4. Sequence(handlers')
  <2> DEFINE all == [h \in DOMAIN handlers |-> CopiesOf(refs, handlers[h])]
  <2>1. Len(handlers) \in Nat /\ DOMAIN handlers = 1 .. Len(handlers)
    BY SequenceFacts DEF PlainInv
  <2>2. all = [h \in 1 .. Len(handlers) |-> all[h]]
    BY <2>1
  <2>3. \A h \in 1 .. Len(handlers) : Sequence(all[h])
    BY <1>2, <2>1, HandlerCopies
  <2>4. handlers' = FlattenSeq(all)
    BY <1>1
  <2> HIDE DEF all
  <2>5. Sequence(all) /\ Len(all) = Len(handlers)
    BY <2>1, <2>2, SequenceMade
  <2>6. QED
    BY <2>3, <2>4, <2>5, FlattenFacts
<1> HIDE DEF kept
<1>5. c = [j \in 1 .. Len(kept) |-> c[j]] /\ \A j \in 1 .. Len(kept) : c[j] = Fixed(refs, kept[j])
  BY <1>1, <1>2
<1>6. Sequence(c) /\ Len(c) = Len(kept) /\ DOMAIN c = 1 .. Len(kept)
  BY <1>2, <1>5, SequenceMade
<1>7. PlainCode(c, l)
  BY <1>2, <1>3, <1>5, <1>6 DEF PlainCode
<1>8. DOMAIN origin' = 1 .. Len(c)
  BY <1>1, <1>2, <1>6
<1> DEFINE new == info'
<1>9. /\ AllData(new, 1 .. Len(c), l) /\ Told(<<>>, original.args, new[1]) /\ Len(new[1].stack) = 0
      /\ \A k \in 1 .. Len(c) : new[k].known => new[k].changed
  <2>1. new = Fresh(c, original.args)
    BY <1>1
  <2>2. Sequence(c) /\ Len(c) > 0
    BY <1>7 DEF PlainCode
  <2>3. /\ l \in Nat /\ Sequence(original.args) /\ \A k \in 1 .. Len(original.args) : Value(original.args[k])
        /\ Len(original.args) <= l
    BY DEF PlainMethod
  <2> HIDE DEF new, c, l
  <2>4. QED
    BY <2>1, <2>2, <2>3, FreshFacts
<1>10. inumber' \in 1 .. (Len(c) + 1)
  BY <1>1, <1>2, <1>6
<1>11. QED
  BY <1>1, <1>4, <1>7, <1>8, <1>9, <1>10 DEF PlainInv

LEMMA PlainInit ==
  ASSUME Init, PlainMethod(original)
  PROVE  PlainInv
<1> DEFINE l == original.locals
<1>1. /\ code = original.code /\ handlers = original.handlers
      /\ origin = [n \in DOMAIN code |-> n] /\ info = Fresh(code, original.args)
      /\ inumber = 1 /\ redoJsr = FALSE /\ phase = "flow"
  BY DEF Init
<1>2. PlainCode(code, l) /\ Sequence(handlers) /\ Sequence(code) /\ Len(code) > 0
  BY <1>1 DEF PlainMethod, PlainCode
<1>3. Len(code) \in Nat /\ DOMAIN code = 1 .. Len(code)
  BY <1>2, SequenceFacts
<1>4. DOMAIN origin = 1 .. Len(code) /\ inumber \in 1 .. (Len(code) + 1)
  BY <1>1, <1>2, <1>3
<1>5. /\ AllData(info, 1 .. Len(code), l) /\ Told(<<>>, original.args, info[1])
      /\ Len(info[1].stack) = 0 /\ \A k \in 1 .. Len(code) : info[k].known => info[k].changed
  BY <1>1, <1>2, FreshFacts DEF PlainMethod
<1>6. QED
  BY <1>1, <1>2, <1>4, <1>5 DEF PlainInv

LEMMA PlainNext ==
  ASSUME PlainMethod(original), PlainInv, [Next]_vars
  PROVE  PlainInv'
<1>1. ASSUME UNCHANGED <<original, method, info, inumber, redoJsr>>, phase' \in {"flow", "done"}
      PROVE  PlainInv'
  <2>1. /\ original' = original /\ code' = code /\ handlers' = handlers /\ origin' = origin
        /\ info' = info /\ inumber' = inumber /\ redoJsr' = redoJsr
    BY <1>1 DEF method
  <2>2. \A n \in 1 .. Len(code) : AllHeard(n)' = AllHeard(n)
    <3>1. SUFFICES ASSUME NEW n \in 1 .. Len(code) PROVE AllHeard(n)' = AllHeard(n)
      OBVIOUS
    <3>2. code[n].op \notin {"jsr", "ret"} /\ info[n].masks = <<>>
      BY PlainFacts DEF Data
    <3>3. /\ \A to : Passed(n, to)' = Passed(n, to)
          /\ \A h : Caught(n, h)' = Caught(n, h) /\ CaughtAfter(n, h)' = CaughtAfter(n, h)
          /\ Successors(n)' = Successors(n)
      BY <2>1, <3>2, SameEdges
    <3>4. Catching(handlers, n)' = Catching(handlers, n)
      BY <2>1 DEF Catching
    <3>5. QED
      BY <2>1, <3>3, <3>4 DEF AllHeard, Heard, Hears
  <2>3. QED
    BY <1>1, <2>1, <2>2 DEF PlainInv
<1>2. CASE Flowing
  BY <1>2, VisitStep
<1>3. CASE FollowJunk
  <2>1. Changed # {} /\ code[Next1].op = "ret"
    BY <1>3 DEF FollowJunk
  <2>2. code[Next1].op # "ret"
    BY <2>1, NextOne, PlainFacts
  <2>3. QED
    BY <2>1, <2>2
<1>4. CASE RedoJsr
  BY <1>4, PlainFacts DEF RedoJsr
<1>5. CASE Rewrite
  BY <1>5, RewriteStep
<1>6. CASE WriteMaps
  BY <1>1, <1>6 DEF WriteMaps
<1>7. CASE Finished
  BY <1>1, <1>7 DEF Finished, vars, PlainInv
<1>8. CASE UNCHANGED vars
  BY <1>1, <1>8 DEF vars, PlainInv
<1>9. QED
  BY <1>2, <1>3, <1>4, <1>5, <1>6, <1>7, <1>8 DEF Next

LEMMA SameOriginal ==
  ASSUME [Next]_vars
  PROVE  original' = original
BY DEF Next, vars, Flowing, Visit, FollowJunk, RedoJsr, Rewrite, WriteMaps, Finished

LEMMA PlainTypes ==
  ASSUME PlainInv
  PROVE  TypeOK
<1>1. /\ Len(code) \in Nat /\ DOMAIN code = 1 .. Len(code) /\ DOMAIN info = 1 .. Len(code)
      /\ \A n \in 1 .. Len(code) : Data(info[n], original.locals)
  BY PlainFacts
<1>2. \A n \in 1 .. Len(code) : info[n].ret = 0 /\ Len(info[n].registers) <= original.locals
  BY <1>1 DEF Data
<1>3. \A n \in 1 .. Len(code) : info[n].ret \in 0 .. Len(code)
  BY <1>1, <1>2
<1>4. QED
  BY <1>1, <1>2, <1>3 DEF PlainInv, TypeOK

\* While a method without subroutines is verified, what the verifier keeps is
\* of the right form, and no register lies beyond those of the method.
THEOREM PlainTypeOK ==
  Spec => [](PlainMethod(original) => TypeOK)
<1> DEFINE Inv == PlainMethod(original) => PlainInv
<1>1. Init => Inv
  BY PlainInit
<1>2. Inv /\ [Next]_vars => Inv'
  BY PlainNext, SameOriginal DEF PlainMethod
<1>3. Inv => (PlainMethod(original) => TypeOK)
  BY PlainTypes
<1>4. QED
  BY <1>1, <1>2, <1>3, PTL DEF Spec

-----------------------------------------------------------------------------
(* What the machine holds, and the types that the verifier has for it.     *)

\* A half of a long whose other half has been overwritten.
Stale(t, k) ==
  \/ t[k] = Long[1] /\ (k = Len(t) \/ t[k + 1] # Long[2])
  \/ t[k] = Long[2] /\ (k = 1 \/ t[k - 1] # Long[1])

Values(v) == Sequence(v) /\ \A k \in 1 .. Len(v) : Value(v[k])

OnStack(t, v) == Values(v) /\ Len(v) = Len(t) /\ \A k \in 1 .. Len(t) : Covers(t[k], v[k])

\* The machine has spoilt what is stale.
Agree(t, v, k) == Covers(t[k], v[k]) \/ (v[k] = Bogus /\ Stale(t, k))

InRegisters(t, v, l) == Values(v) /\ Len(v) = l /\ \A k \in 1 .. Len(t) : Agree(t, v, k)

\* A type without parts to fit stands for itself.
LEMMA CoversSelf ==
  ASSUME NEW t, ~ IsReference(t), t # Bogus, NEW v
  PROVE  Covers(t, v) => v = t
BY DEF Covers, Fits

LEMMA CoversLong ==
  ASSUME NEW t, NEW v, Covers(t, v)
  PROVE  /\ t \in {Long[1], Long[2]} => v = t
         /\ v \in {Long[1], Long[2]} => t = v \/ t = Bogus
<1>1. t \in {Long[1], Long[2]} => v = t
  BY LongTypes, CoversSelf
<1>2. v \in {Long[1], Long[2]} => ~ IsReference(v) /\ v # Null
  BY LongTypes, ObjectType DEF Null
<1>3. QED
  BY <1>1, <1>2 DEF Covers, Fits

LEMMA WiderStack ==
  ASSUME NEW s, NEW t, NEW v, OnStack(s, v), Len(s) = Len(t), BelowAll(s, t)
  PROVE  OnStack(t, v)
BY DEF OnStack, Values, BelowAll, Below

LEMMA WiderRegisters ==
  ASSUME NEW s, NEW t, NEW v, NEW l \in Nat, Sequence(s), Sequence(t), Len(s) <= l,
         InRegisters(s, v, l), Len(t) <= Len(s), BelowAll(s, t)
  PROVE  InRegisters(t, v, l)
<1>1. Len(s) \in Nat /\ Len(t) \in Nat
  BY SequenceFacts
<1>2. SUFFICES ASSUME NEW k \in 1 .. Len(t) PROVE Agree(t, v, k)
  BY DEF InRegisters
<1>3. k \in 1 .. Len(s) /\ k \in 1 .. l
  BY <1>1
<1>4. Value(v[k]) /\ Agree(s, v, k) /\ Below(s[k], t[k])
  BY <1>3 DEF InRegisters, Values, BelowAll
<1>5. CASE Covers(s[k], v[k])
  BY <1>4, <1>5 DEF Below, Agree
<1>6. CASE v[k] = Bogus /\ Stale(s, k)
  <2>1. s[k] \in {Long[1], Long[2]}
    BY <1>6 DEF Stale
  <2>2. Covers(s[k], s[k]) /\ Value(s[k])
    BY <2>1, LongTypes DEF Covers, Fits
  <2>3. t[k] = s[k] \/ t[k] = Bogus
    BY <1>4, <2>1, <2>2, CoversLong DEF Below
  <2>4. CASE t[k] = Bogus
    BY <2>4 DEF Agree, Covers
  <2>5. CASE t[k] = Long[1] /\ s[k] = Long[1]
    <3>1. k = Len(s) \/ s[k + 1] # Long[2]
      BY <1>6, <2>5, LongTypes DEF Stale
    <3>2. k # Len(t) => k + 1 \in 1 .. Len(t) /\ k # Len(s)
      BY <1>1
    <3>3. k # Len(t) => Below(s[k + 1], t[k + 1])
      BY <3>2 DEF BelowAll
    <3>4. k = Len(t) \/ t[k + 1] # Long[2]
      BY <3>1, <3>2, <3>3 DEF Below
    <3>5. QED
      BY <1>6, <2>5, <3>4 DEF Agree, Stale
  <2>6. CASE t[k] = Long[2] /\ s[k] = Long[2]
    <3>1. k = 1 \/ s[k - 1] # Long[1]
      BY <1>6, <2>6, LongTypes DEF Stale
    <3>2. k # 1 => k - 1 \in 1 .. Len(t)
      BY <1>1
    <3>3. k # 1 => Below(s[k - 1], t[k - 1])
      BY <3>2 DEF BelowAll
    <3>4. k = 1 \/ t[k - 1] # Long[1]
      BY <3>1, <3>3 DEF Below
    <3>5. QED
      BY <1>6, <2>6, <3>4 DEF Agree, Stale
  <2>7. QED
    BY <2>1, <2>3, <2>4, <2>5, <2>6
<1>7. QED
  BY <1>4, <1>5, <1>6 DEF Agree

\* An object that gets initialised is so wherever it is.
SwappedValue(t, from, to) == IF t = from THEN to ELSE t

LEMMA SwapValue ==
  ASSUME NEW from, ~ IsReference(from), from # Bogus, from # Null, NEW to,
         NEW t, NEW v, Covers(t, v)
  PROVE  Covers(SwappedValue(t, from, to), SwappedValue(v, from, to))
<1>1. t = from => v = from
  BY CoversSelf
<1>2. v = from => t = from \/ t = Bogus
  BY DEF Covers, Fits
<1>3. QED
  BY <1>1, <1>2 DEF Covers, Fits, SwappedValue

LEMMA SwapStack ==
  ASSUME NEW from, ~ IsReference(from), from # Bogus, from # Null, NEW to, Value(to),
         NEW t, NEW v, Sequence(t), OnStack(t, v)
  PROVE  OnStack(Swap(t, from, to), Swap(v, from, to))
<1>1. /\ Sequence(Swap(t, from, to)) /\ Len(Swap(t, from, to)) = Len(t)
      /\ \A k \in 1 .. Len(t) : Swap(t, from, to)[k] = IF t[k] = from THEN to ELSE t[k]
  BY SwapFacts
<1>2. /\ Sequence(Swap(v, from, to)) /\ Len(Swap(v, from, to)) = Len(v)
      /\ \A k \in 1 .. Len(v) : Swap(v, from, to)[k] = IF v[k] = from THEN to ELSE v[k]
  BY SwapFacts DEF OnStack, Values
<1>3. \A k \in 1 .. Len(v) : Value(Swap(v, from, to)[k])
  BY <1>2 DEF OnStack, Values
<1>4. \A k \in 1 .. Len(t) : Covers(Swap(t, from, to)[k], Swap(v, from, to)[k])
  <2>1. SUFFICES ASSUME NEW k \in 1 .. Len(t)
                 PROVE  Covers(Swap(t, from, to)[k], Swap(v, from, to)[k])
    OBVIOUS
  <2>2. Covers(t[k], v[k]) /\ k \in 1 .. Len(v)
    BY DEF OnStack
  <2>3. Covers(SwappedValue(t[k], from, to), SwappedValue(v[k], from, to))
    BY <2>2, SwapValue
  <2>4. /\ Swap(t, from, to)[k] = SwappedValue(t[k], from, to)
        /\ Swap(v, from, to)[k] = SwappedValue(v[k], from, to)
    BY <1>1, <1>2, <2>2 DEF SwappedValue
  <2>5. QED
    BY <2>3, <2>4
<1>5. QED
  BY <1>1, <1>2, <1>3, <1>4 DEF OnStack, Values

LEMMA SwapRegisters ==
  ASSUME NEW from, ~ IsReference(from), from \notin {Bogus, Null, Long[1], Long[2]},
         NEW to, Value(to), to \notin {Long[1], Long[2]},
         NEW l \in Nat, NEW t, NEW v, Sequence(t), Len(t) <= l, InRegisters(t, v, l)
  PROVE  InRegisters(Swap(t, from, to), Swap(v, from, to), l)
<1> DEFINE a == Swap(t, from, to)
           b == Swap(v, from, to)
<1>1. /\ Len(a) = Len(t)
      /\ \A k \in 1 .. Len(t) : a[k] = IF t[k] = from THEN to ELSE t[k]
  BY SwapFacts
<1>2. /\ Sequence(b) /\ Len(b) = Len(v)
      /\ \A k \in 1 .. Len(v) : b[k] = IF v[k] = from THEN to ELSE v[k]
  BY SwapFacts DEF InRegisters, Values
<1>3. Len(v) = l /\ Len(t) \in Nat
  BY SequenceFacts DEF InRegisters
<1> HIDE DEF a, b
<1>4. \A k \in 1 .. Len(b) : Value(b[k])
  BY <1>2 DEF InRegisters, Values
<1>5. ASSUME NEW k \in 1 .. Len(t) PROVE Agree(a, b, k)
  <2>1. k \in 1 .. Len(v) /\ Agree(t, v, k)
    BY <1>3 DEF InRegisters
  <2>2. CASE Covers(t[k], v[k])
    <3>1. Covers(SwappedValue(t[k], from, to), SwappedValue(v[k], from, to))
      BY <2>2, SwapValue
    <3>2. a[k] = SwappedValue(t[k], from, to) /\ b[k] = SwappedValue(v[k], from, to)
      BY <1>1, <1>2, <2>1 DEF SwappedValue
    <3>3. QED
      BY <3>1, <3>2 DEF Agree
  <2>3. CASE v[k] = Bogus /\ Stale(t, k)
    <3>1. b[k] = Bogus
      BY <1>2, <2>1, <2>3
    <3>2. a[k] = t[k] /\ t[k] \in {Long[1], Long[2]}
      BY <1>1, <2>3 DEF Stale
    <3>3. \A j \in 1 .. Len(t) : a[j] \in {Long[1], Long[2]} => t[j] = a[j]
      BY <1>1
    <3>4. k # Len(t) => k + 1 \in 1 .. Len(t)
      BY <1>3
    <3>5. k # 1 => k - 1 \in 1 .. Len(t)
      BY <1>3
    <3>6. Stale(a, k)
      BY <1>1, <2>3, <3>2, <3>3, <3>4, <3>5 DEF Stale
    <3>7. QED
      BY <3>1, <3>6 DEF Agree
  <2>4. QED
    BY <2>1, <2>2, <2>3 DEF Agree
<1>6. QED
  BY <1>1, <1>2, <1>3, <1>4, <1>5 DEF InRegisters, Values, a, b

\* Words without half a long among them.
Whole(w) == /\ Sequence(w)
            /\ \A k \in 1 .. Len(w) : /\ w[k] = Long[1] => k < Len(w) /\ w[k + 1] = Long[2]
                                      /\ w[k] = Long[2] => k > 1 /\ w[k - 1] = Long[1]

\* Stored spoils what is stale.
LEMMA StoredFacts ==
  ASSUME NEW v, Values(v), NEW var \in Nat, var > 0, NEW x, Values(x),
         NEW l \in Nat, Len(v) = l, var + Len(x) - 1 <= l, NEW put, put = Put(v, var, x),
         NEW s, s = Stored(v, var, x)
  PROVE  /\ Len(put) = l /\ Values(s) /\ Len(s) = l
         /\ \A k \in 1 .. l : s[k] = IF Stale(put, k) THEN Bogus ELSE put[k]
         /\ \A k \in 1 .. l : put[k] = IF var <= k /\ k < var + Len(x) THEN x[k - var + 1] ELSE v[k]
<1>1. Len(v) \in Nat /\ Len(x) \in Nat /\ Sequence(v) /\ Sequence(x)
  BY SequenceFacts DEF Values
<1>2. /\ Sequence(put)
      /\ Len(put) = IF Len(v) <= var + Len(x) - 1 THEN var + Len(x) - 1 ELSE Len(v)
      /\ \A k \in 1 .. Len(put) : var <= k /\ k < var + Len(x) => put[k] = x[k - var + 1]
      /\ \A k \in 1 .. Len(put) : ~ (var <= k /\ k < var + Len(x)) => put[k] = At(v, k)
  BY <1>1, PutFacts
<1>3. Len(put) = l
  BY <1>1, <1>2
<1>4. \A k \in 1 .. l : put[k] = IF var <= k /\ k < var + Len(x) THEN x[k - var + 1] ELSE v[k]
  BY <1>1, <1>2, <1>3, AtFacts
<1>5. \A k \in 1 .. l : Value(put[k])
  <2>1. SUFFICES ASSUME NEW k \in 1 .. l PROVE Value(put[k])
    OBVIOUS
  <2>2. var <= k /\ k < var + Len(x) => k - var + 1 \in 1 .. Len(x)
    BY <1>1
  <2>3. QED
    BY <1>4, <2>2 DEF Values
<1> DEFINE f == [k \in 1 .. l |-> IF Stale(put, k) THEN Bogus ELSE put[k]]
<1>6. s = f
  <2>1. DOMAIN put = 1 .. l
    BY <1>2, <1>3, SequenceFacts
  <2>2. QED
    BY <2>1 DEF Stored, Stale
<1>7. s = [k \in 1 .. l |-> s[k]] /\ \A k \in 1 .. l : s[k] = IF Stale(put, k) THEN Bogus ELSE put[k]
  BY <1>6
<1>8. Sequence(s) /\ Len(s) = l
  BY <1>7, SequenceMade
<1>9. \A k \in 1 .. l : Value(s[k])
  BY <1>5, <1>7, BogusType
<1>10. QED
  BY <1>3, <1>4, <1>7, <1>8, <1>9 DEF Values

\* The types that the verifier keeps for stored words are those of what the
\* machine keeps, longs that have lost one half included.
LEMMA PutRegisters ==
  ASSUME NEW l \in Nat, NEW t, NEW v, Sequence(t), Len(t) <= l, InRegisters(t, v, l),
         NEW w, NEW x, Whole(w), OnStack(w, x), NEW var \in Nat, var > 0, var + Len(w) - 1 <= l
  PROVE  InRegisters(Put(t, var, w), Stored(v, var, x), l)
<1> DEFINE T == Put(t, var, w)
           put == Put(v, var, x)
           s == Stored(v, var, x)
           In(k) == var <= k /\ k < var + Len(w)
<1>1. /\ Len(t) \in Nat /\ Len(w) \in Nat /\ Len(x) = Len(w) /\ Sequence(w)
      /\ Values(v) /\ Values(x) /\ Len(v) = l
  BY SequenceFacts DEF Whole, OnStack, InRegisters
<1>2. /\ Len(T) = IF Len(t) <= var + Len(w) - 1 THEN var + Len(w) - 1 ELSE Len(t)
      /\ \A k \in 1 .. Len(T) : In(k) => T[k] = w[k - var + 1]
      /\ \A k \in 1 .. Len(T) : ~ In(k) => T[k] = At(t, k)
  BY <1>1, PutFacts
<1>3. /\ Len(put) = l /\ Values(s) /\ Len(s) = l
      /\ \A k \in 1 .. l : s[k] = IF Stale(put, k) THEN Bogus ELSE put[k]
      /\ \A k \in 1 .. l : put[k] = IF In(k) THEN x[k - var + 1] ELSE v[k]
  <2>1. var + Len(x) - 1 <= l
    BY <1>1
  <2>2. /\ Len(put) = l /\ Values(s) /\ Len(s) = l
        /\ \A k \in 1 .. l : s[k] = IF Stale(put, k) THEN Bogus ELSE put[k]
        /\ \A k \in 1 .. l : put[k] = IF var <= k /\ k < var + Len(x) THEN x[k - var + 1] ELSE v[k]
    BY <1>1, <2>1, StoredFacts
  <2>3. QED
    BY <1>1, <2>2
<1> HIDE DEF T, put, s
<1>4. Len(T) \in Nat /\ Len(T) <= l
  BY <1>1, <1>2
<1>5. \A k \in 1 .. Len(T) : k \in 1 .. l /\ (In(k) => k - var + 1 \in 1 .. Len(w))
  BY <1>1, <1>4
<1>6. ASSUME NEW k \in 1 .. Len(T), ~ In(k)
      PROVE  /\ \/ T[k] = Bogus
                \/ k \in 1 .. Len(t) /\ T[k] = t[k] /\ Agree(t, v, k)
             /\ put[k] = v[k]
  <2>1. T[k] = At(t, k) /\ put[k] = v[k]
    BY <1>2, <1>3, <1>5, <1>6
  <2>2. QED
    BY <2>1, AtFacts DEF InRegisters
<1>7. ASSUME NEW k \in 1 .. Len(T), In(k)
      PROVE  /\ Covers(T[k], put[k])
             /\ T[k] = Long[1] => In(k + 1) /\ k + 1 \in 1 .. Len(T) /\ T[k + 1] = Long[2]
             /\ T[k] = Long[2] => In(k - 1) /\ k - 1 \in 1 .. Len(T) /\ T[k - 1] = Long[1]
  <2> DEFINE j == k - var + 1
  <2>1. j \in 1 .. Len(w) /\ T[k] = w[j] /\ put[k] = x[j]
    BY <1>2, <1>3, <1>5, <1>7
  <2>2. Covers(T[k], put[k])
    BY <2>1 DEF OnStack
  <2>3. ASSUME T[k] = Long[1] PROVE In(k + 1) /\ k + 1 \in 1 .. Len(T) /\ T[k + 1] = Long[2]
    <3>1. j < Len(w) /\ w[j + 1] = Long[2]
      BY <2>1, <2>3 DEF Whole
    <3>2. In(k + 1) /\ k + 1 \in 1 .. Len(T) /\ (k + 1) - var + 1 = j + 1
      BY <1>1, <1>2, <1>4, <1>7, <3>1
    <3>3. QED
      BY <1>2, <3>1, <3>2
  <2>4. ASSUME T[k] = Long[2] PROVE In(k - 1) /\ k - 1 \in 1 .. Len(T) /\ T[k - 1] = Long[1]
    <3>1. j > 1 /\ w[j - 1] = Long[1]
      BY <2>1, <2>4 DEF Whole
    <3>2. In(k - 1) /\ k - 1 \in 1 .. Len(T) /\ (k - 1) - var + 1 = j - 1
      BY <1>1, <1>4, <1>7, <3>1
    <3>3. QED
      BY <1>2, <3>1, <3>2
  <2>5. QED
    BY <2>2, <2>3, <2>4
<1>8. ASSUME NEW k \in 1 .. Len(T) PROVE Agree(T, s, k)
  <2>1. CASE ~ In(k) /\ ~ Covers(T[k], put[k])
    <3>1. k \in 1 .. Len(t) /\ T[k] = t[k] /\ put[k] = Bogus /\ Stale(t, k)
      BY <1>6, <2>1 DEF Agree, Covers
    <3>2. s[k] = Bogus
      BY <1>3, <1>5, <3>1
    <3>3. CASE T[k] = Long[1]
      <4>1. k = Len(t) \/ t[k + 1] # Long[2]
        BY <3>1, <3>3, LongTypes DEF Stale
      <4>2. SUFFICES ASSUME k # Len(T), T[k + 1] = Long[2] PROVE FALSE
        BY <3>2, <3>3 DEF Agree, Stale
      <4>3. k + 1 \in 1 .. Len(T) /\ (k + 1) - 1 = k
        BY <1>4, <4>2
      <4>4. ~ In(k + 1)
        BY <1>7, <2>1, <4>2, <4>3
      <4>5. k + 1 \in 1 .. Len(t) /\ t[k + 1] = Long[2]
        BY <1>6, <4>2, <4>3, <4>4, LongTypes
      <4>6. k # Len(t)
        BY <1>1, <4>5
      <4>7. QED
        BY <4>1, <4>5, <4>6
    <3>4. CASE T[k] = Long[2]
      <4>1. k = 1 \/ t[k - 1] # Long[1]
        BY <3>1, <3>4, LongTypes DEF Stale
      <4>2. SUFFICES ASSUME k # 1, T[k - 1] = Long[1] PROVE FALSE
        BY <3>2, <3>4 DEF Agree, Stale
      <4>3. k - 1 \in 1 .. Len(T) /\ (k - 1) + 1 = k
        BY <1>4, <4>2
      <4>4. ~ In(k - 1)
        BY <1>7, <2>1, <4>2, <4>3
      <4>5. t[k - 1] = Long[1]
        BY <1>6, <4>2, <4>3, <4>4, LongTypes
      <4>6. QED
        BY <4>1, <4>2, <4>5
    <3>5. QED
      BY <3>1, <3>3, <3>4 DEF Stale
  <2>2. CASE Covers(T[k], put[k]) /\ ~ Stale(put, k)
    BY <1>3, <1>5, <2>2 DEF Agree
  <2>3. CASE Covers(T[k], put[k]) /\ Stale(put, k)
    <3>1. s[k] = Bogus /\ put[k] \in {Long[1], Long[2]}
      BY <1>3, <1>5, <2>3 DEF Stale
    <3>2. T[k] = put[k] \/ T[k] = Bogus
      BY <2>3, <3>1, CoversLong
    <3>3. CASE T[k] = Bogus
      BY <3>3 DEF Agree, Covers
    <3>4. CASE T[k] = Long[1] /\ put[k] = Long[1]
      <4>1. k = l \/ put[k + 1] # Long[2]
        BY <1>3, <2>3, <3>4, LongTypes DEF Stale
      <4>2. SUFFICES ASSUME k # Len(T), T[k + 1] = Long[2] PROVE FALSE
        BY <3>1, <3>4 DEF Agree, Stale
      <4>3. k + 1 \in 1 .. Len(T) /\ (k + 1) - 1 = k /\ k # l /\ k + 1 # 1
        BY <1>4, <4>2
      <4>4. ~ Covers(T[k + 1], put[k + 1])
        BY <4>1, <4>2, <4>3, CoversLong
      <4>5. ~ In(k + 1)
        BY <1>7, <4>3, <4>4
      <4>6. k + 1 \in 1 .. Len(t) /\ t[k + 1] = Long[2] /\ Stale(t, k + 1)
        BY <1>6, <4>2, <4>3, <4>4, <4>5, LongTypes DEF Agree
      <4>7. t[k] # Long[1]
        BY <4>3, <4>6, LongTypes DEF Stale
      <4>8. In(k)
        BY <1>6, <3>4, <4>7, LongTypes
      <4>9. QED
        BY <1>7, <3>4, <4>5, <4>8
    <3>5. CASE T[k] = Long[2] /\ put[k] = Long[2]
      <4>1. k = 1 \/ put[k - 1] # Long[1]
        BY <1>3, <2>3, <3>5, LongTypes DEF Stale
      <4>2. SUFFICES ASSUME k # 1, T[k - 1] = Long[1] PROVE FALSE
        BY <3>1, <3>5 DEF Agree, Stale
      <4>3. k - 1 \in 1 .. Len(T) /\ (k - 1) + 1 = k
        BY <1>4, <4>2
      <4>4. ~ Covers(T[k - 1], put[k - 1])
        BY <4>1, <4>2, <4>3, CoversLong
      <4>5. ~ In(k - 1)
        BY <1>7, <4>3, <4>4
      <4>6. k - 1 \in 1 .. Len(t) /\ t[k - 1] = Long[1] /\ Stale(t, k - 1)
        BY <1>6, <4>2, <4>3, <4>4, <4>5, LongTypes DEF Agree
      <4>7. k - 1 = Len(t) \/ t[k] # Long[2]
        BY <4>3, <4>6, LongTypes DEF Stale
      <4>8. In(k)
        BY <1>1, <1>6, <3>5, <4>3, <4>7, LongTypes
      <4>9. QED
        BY <1>7, <3>5, <4>5, <4>8
    <3>6. QED
      BY <3>1, <3>2, <3>3, <3>4, <3>5
  <2>4. QED
    BY <1>7, <2>1, <2>2, <2>3
<1>9. QED
  BY <1>3, <1>8 DEF InRegisters, T, s

-----------------------------------------------------------------------------
(* One instruction of the machine.                                         *)

IsFrame(f) == f \in [pc : {f.pc}, stack : {f.stack}, registers : {f.registers}]

\* A state of the machine that the verifier has written down.
Covered(f) ==
  /\ IsFrame(f)
  /\ f.pc \in 1 .. Len(code) /\ info[f.pc].known
  /\ OnStack(info[f.pc].stack, f.stack)
  /\ InRegisters(info[f.pc].registers, f.registers, original.locals)

\* A frame with another stack, with other registers too, or elsewhere.
WithStack(f, s)    == [f EXCEPT !.stack = s]
WithBoth(f, s, r)  == [f EXCEPT !.stack = s, !.registers = r]
GoneTo(f, p)       == [f EXCEPT !.pc = p]
ThrownTo(f, p, s)  == [f EXCEPT !.pc = p, !.stack = s]

LEMMA FrameStack ==
  ASSUME NEW f, IsFrame(f), NEW s
  PROVE  WithStack(f, s) = [pc |-> f.pc, stack |-> s, registers |-> f.registers]
<1>1. f \in [pc : {f.pc}, stack : {f.stack, s}, registers : {f.registers}]
  BY DEF IsFrame
<1>2. QED
  BY <1>1 DEF WithStack

LEMMA FrameBoth ==
  ASSUME NEW f, IsFrame(f), NEW s, NEW r
  PROVE  WithBoth(f, s, r) = [pc |-> f.pc, stack |-> s, registers |-> r]
<1>1. f \in [pc : {f.pc}, stack : {f.stack, s}, registers : {f.registers, r}]
  BY DEF IsFrame
<1> DEFINE g == [f EXCEPT !.stack = s, !.registers = r]
<1>2. g = [f EXCEPT !.stack = s, !.registers = r]
  OBVIOUS
<1> HIDE DEF g
<1>3. g = [pc |-> f.pc, stack |-> s, registers |-> r]
  BY <1>1, <1>2
<1>4. QED
  BY <1>3 DEF WithBoth, g

LEMMA FrameGone ==
  ASSUME NEW f, IsFrame(f), NEW p
  PROVE  GoneTo(f, p) = [pc |-> p, stack |-> f.stack, registers |-> f.registers]
<1>1. f \in [pc : {f.pc, p}, stack : {f.stack}, registers : {f.registers}]
  BY DEF IsFrame
<1>2. QED
  BY <1>1 DEF GoneTo

LEMMA FrameThrown ==
  ASSUME NEW f, IsFrame(f), NEW p, NEW s
  PROVE  ThrownTo(f, p, s) = [pc |-> p, stack |-> s, registers |-> f.registers]
<1>1. f \in [pc : {f.pc, p}, stack : {f.stack, s}, registers : {f.registers}]
  BY DEF IsFrame
<1> DEFINE g == [f EXCEPT !.pc = p, !.stack = s]
<1>2. g = [f EXCEPT !.pc = p, !.stack = s]
  OBVIOUS
<1> HIDE DEF g
<1>3. g = [pc |-> p, stack |-> s, registers |-> f.registers]
  BY <1>1, <1>2
<1>4. QED
  BY <1>3 DEF ThrownTo, g

LEMMA FrameMade ==
  ASSUME NEW p, NEW s, NEW r, NEW f, f = [pc |-> p, stack |-> s, registers |-> r]
  PROVE  IsFrame(f) /\ f.pc = p /\ f.stack = s /\ f.registers = r
BY DEF IsFrame

LEMMA OperandsCovered ==
  ASSUME NEW t, NEW v, Sequence(t), OnStack(t, v), NEW m \in Nat, m <= Len(t)
  PROVE  OnStack(Top(t, m), Top(v, m)) /\ OnStack(Drop(t, m), Drop(v, m))
<1>1. /\ Len(t) \in Nat /\ Len(v) = Len(t) /\ Sequence(v)
  BY SequenceFacts DEF OnStack, Values
<1>2. OnStack(Top(t, m), Top(v, m))
  <2> DEFINE a == Top(t, m)
             b == Top(v, m)
  <2>0. /\ Len(a) = m /\ \A k \in 1 .. m : a[k] = At(t, Len(t) - m + k)
    BY <1>1, TopFacts
  <2>1. /\ Sequence(b) /\ Len(b) = m /\ \A k \in 1 .. m : b[k] = At(v, Len(v) - m + k)
    BY <1>1, TopFacts
  <2> HIDE DEF a, b
  <2>2. \A k \in 1 .. m : Len(t) - m + k \in 1 .. Len(t)
    BY <1>1
  <2>3. \A j \in 1 .. Len(t) : At(t, j) = t[j] /\ At(v, j) = v[j]
    BY <1>1, AtFacts
  <2>4. \A j \in 1 .. Len(t) : Value(At(v, j)) /\ Covers(At(t, j), At(v, j))
    BY <1>1, <2>3 DEF OnStack, Values
  <2>5. \A k \in 1 .. m : Value(b[k]) /\ Covers(a[k], b[k])
    BY <1>1, <2>0, <2>1, <2>2, <2>4
  <2>6. QED
    BY <2>0, <2>1, <2>5 DEF OnStack, Values, a, b
<1>3. OnStack(Drop(t, m), Drop(v, m))
  <2>1. /\ Sequence(Drop(v, m)) /\ Len(Drop(v, m)) = Len(t) - m /\ Len(Drop(t, m)) = Len(t) - m
        /\ \A k \in 1 .. Len(Drop(v, m)) : k \in 1 .. Len(v) /\ Drop(v, m)[k] = v[k]
        /\ \A k \in 1 .. Len(Drop(t, m)) : k \in 1 .. Len(t) /\ Drop(t, m)[k] = t[k]
    BY <1>1, DropFacts
  <2>2. QED
    BY <2>1 DEF OnStack, Values
<1>4. QED
  BY <1>2, <1>3

LEMMA AppendCovered ==
  ASSUME NEW t, NEW v, Sequence(t), OnStack(t, v), NEW a, NEW b, Covers(a, b), Value(b)
  PROVE  OnStack(Append(t, a), Append(v, b))
<1>1. /\ Len(t) \in Nat /\ Len(v) = Len(t) /\ Sequence(v)
  BY SequenceFacts DEF OnStack, Values
<1>2. /\ Len(Append(t, a)) = Len(t) + 1 /\ Append(t, a)[Len(t) + 1] = a
      /\ \A n \in 1 .. Len(t) : Append(t, a)[n] = t[n]
  BY SequenceAppend
<1>3. /\ Sequence(Append(v, b)) /\ Len(Append(v, b)) = Len(t) + 1 /\ Append(v, b)[Len(t) + 1] = b
      /\ \A n \in 1 .. Len(t) : Append(v, b)[n] = v[n]
  BY <1>1, SequenceAppend
<1>4. \A n \in 1 .. Len(t) + 1 : n \in 1 .. Len(t) \/ n = Len(t) + 1
  BY <1>1
<1>5. \A n \in 1 .. Len(t) + 1 : Value(Append(v, b)[n]) /\ Covers(Append(t, a)[n], Append(v, b)[n])
  BY <1>1, <1>2, <1>3, <1>4 DEF OnStack, Values
<1>6. QED
  BY <1>2, <1>3, <1>5 DEF OnStack, Values

LEMMA JoinCovered ==
  ASSUME NEW t, NEW v, Sequence(t), OnStack(t, v), NEW a, NEW b, Sequence(a), OnStack(a, b)
  PROVE  OnStack(t \o a, v \o b)
<1>1. /\ Len(t) \in Nat /\ Len(v) = Len(t) /\ Sequence(v)
      /\ Len(a) \in Nat /\ Len(b) = Len(a) /\ Sequence(b)
  BY SequenceFacts DEF OnStack, Values
<1>2. /\ Len(t \o a) = Len(t) + Len(a)
      /\ \A n \in 1 .. Len(t) + Len(a) : (t \o a)[n] = IF n <= Len(t) THEN t[n] ELSE a[n - Len(t)]
  BY SequenceJoin
<1>3. /\ Sequence(v \o b) /\ Len(v \o b) = Len(t) + Len(a)
      /\ \A n \in 1 .. Len(t) + Len(a) : (v \o b)[n] = IF n <= Len(t) THEN v[n] ELSE b[n - Len(t)]
  BY <1>1, SequenceJoin
<1>4. ASSUME NEW n \in 1 .. Len(t) + Len(a)
      PROVE  Value((v \o b)[n]) /\ Covers((t \o a)[n], (v \o b)[n])
  <2>1. CASE n <= Len(t)
    <3>1. n \in 1 .. Len(t)
      BY <1>1, <2>1
    <3>2. (t \o a)[n] = t[n] /\ (v \o b)[n] = v[n]
      BY <1>2, <1>3, <2>1
    <3>3. QED
      BY <1>1, <3>1, <3>2 DEF OnStack, Values
  <2>2. CASE ~ (n <= Len(t))
    <3>1. n - Len(t) \in 1 .. Len(a)
      BY <1>1, <2>2
    <3>2. (t \o a)[n] = a[n - Len(t)] /\ (v \o b)[n] = b[n - Len(t)]
      BY <1>2, <1>3, <2>2
    <3>3. QED
      BY <1>1, <3>1, <3>2 DEF OnStack, Values
  <2>3. QED
    BY <2>1, <2>2
<1>5. QED
  BY <1>2, <1>3, <1>4 DEF OnStack, Values

LEMMA CopyCovered ==
  ASSUME NEW t, NEW v, OnStack(t, v), NEW c, Sequence(c), \A k \in 1 .. Len(c) : c[k] \in 1 .. Len(t)
  PROVE  OnStack([k \in DOMAIN c |-> t[c[k]]], [k \in DOMAIN c |-> v[c[k]]])
<1> DEFINE f == [k \in DOMAIN c |-> t[c[k]]]
           g == [k \in DOMAIN c |-> v[c[k]]]
<1>1. Len(c) \in Nat /\ DOMAIN c = 1 .. Len(c)
  BY SequenceFacts
<1>2. f = [k \in 1 .. Len(c) |-> f[k]] /\ \A k \in 1 .. Len(c) : f[k] = t[c[k]]
  BY <1>1
<1>3. g = [k \in 1 .. Len(c) |-> g[k]] /\ \A k \in 1 .. Len(c) : g[k] = v[c[k]]
  BY <1>1
<1> HIDE DEF f, g
<1>4. Sequence(g) /\ Len(g) = Len(c) /\ Len(f) = Len(c)
  BY <1>1, <1>2, <1>3, SequenceMade
<1>5. \A k \in 1 .. Len(c) : Value(g[k]) /\ Covers(f[k], g[k])
  BY <1>2, <1>3 DEF OnStack, Values
<1>6. QED
  BY <1>4, <1>5 DEF OnStack, Values, f, g

\* aaload finds an element of the type that the verifier expects.
LEMMA ElementCovered ==
  ASSUME NEW t, IsType(t), NEW v, Value(v), Covers(t, v),
         t = Null \/ t.dim > 1 \/ (t.dim = 1 /\ t.item = "object")
  PROVE  Covers(Element(t), Element(v)) /\ Value(Element(v))
<1>1. t # Bogus /\ t.dim \in Int /\ v.dim \in Nat
  BY BogusType, RootType DEF IsType, Value
<1>2. Fits(v, t)
  BY <1>1 DEF Covers
<1>3. CASE t = Null
  <2>1. v = Null
    BY <1>2, <1>3, FitsParts, RootType DEF Value
  <2>2. QED
    BY <1>3, <2>1, RootType DEF Element, Covers, Fits
<1>4. CASE t # Null
  <2> DEFINE a == Array(t, t.dim - 1)
             b == Array(v, v.dim - 1)
  <2>1. t.dim - 1 \in Int /\ v.dim - 1 \in Int /\ IsType(v)
    BY <1>1 DEF Value
  <2>2. /\ IsType(a) /\ a.item = t.item /\ a.dim = t.dim - 1 /\ a.class = t.class /\ a.at = t.at
        /\ IsType(b) /\ b.item = v.item /\ b.dim = v.dim - 1 /\ b.class = v.class /\ b.at = v.at
    BY <2>1, ArrayType
  <2>3. Element(t) = a /\ (v # Null => Element(v) = b) /\ (v = Null => Element(v) = Null)
    BY <1>4 DEF Element
  <2> HIDE DEF a, b
  <2>4. IsReference(a)
    BY <1>1, <1>4, <2>2 DEF IsReference
  <2>5. CASE v = Null
    BY <2>3, <2>4, <2>5, RootType DEF Covers, Fits
  <2>6. CASE v # Null
    <3>1. v.class # "null" /\ v.dim >= 1
      BY <1>1, <1>2, <1>4, <2>6, FitsParts DEF Value
    <3>2. Value(b)
      BY <1>1, <2>2, <3>1 DEF Value
    <3>3. CASE v = t
      <4>1. a = b
        BY <3>3 DEF a, b
      <4>2. QED
        BY <2>3, <2>6, <3>2, <4>1 DEF Covers, Fits
    <3>4. CASE v # t
      <4>1. /\ IsReference(v) /\ t.item = "object" /\ t.class = "Object" /\ t.at = 0
            /\ t.dim <= v.dim /\ (v.item = "object" \/ t.dim < v.dim)
        BY <1>2, <2>6, <3>4, FitsParts
      <4>2. IsReference(b)
        BY <1>1, <1>4, <2>2, <4>1 DEF IsReference
      <4>3. Fits(b, a)
        BY <1>1, <2>2, <2>4, <3>2, <4>1, <4>2, FitsParts
      <4>4. QED
        BY <2>3, <2>6, <3>2, <4>3 DEF Covers
    <3>5. QED
      BY <3>3, <3>4
  <2>7. QED
    BY <2>5, <2>6
<1>5. QED
  BY <1>3, <1>4

LEMMA WithFacts ==
  ASSUME NEW f, IsFrame(f), NEW s, NEW r
  PROVE  /\ IsFrame(WithStack(f, s)) /\ WithStack(f, s).pc = f.pc
         /\ WithStack(f, s).stack = s /\ WithStack(f, s).registers = f.registers
         /\ IsFrame(WithBoth(f, s, r)) /\ WithBoth(f, s, r).pc = f.pc
         /\ WithBoth(f, s, r).stack = s /\ WithBoth(f, s, r).registers = r
<1>1. WithStack(f, s) = [pc |-> f.pc, stack |-> s, registers |-> f.registers]
  BY FrameStack
<1>2. WithBoth(f, s, r) = [pc |-> f.pc, stack |-> s, registers |-> r]
  BY FrameBoth
<1>3. QED
  BY <1>1, <1>2, FrameMade

\* What dup, swap and their like put on the stack.
Copied(c, s) == [k \in DOMAIN c |-> s[c[k]]]

\* What an instruction makes of a frame.
Result(i, f, g, taken, left) ==
  /\ IsFrame(g) /\ g.pc = f.pc
  /\ i.op \in {"do", "load"} => g.stack = left \o i.gives
  /\ i.op = "aload"      => g.stack = Append(left, f.registers[i.var])
  /\ i.op = "shuffle"    => g.stack = left \o Copied(i.copy, taken)
  /\ i.op = "aaload"     => g.stack = Append(left, Element(taken[1]))
  /\ i.op = "new"        => g.stack = Append(left, New(f.pc))
  /\ i.op = "new"        => g.registers = Swap(f.registers, New(f.pc), Bogus)
  /\ i.op = "invokeinit" => g.stack = Swap(left, taken[1], i.takes[1])
  /\ i.op = "invokeinit" => g.registers = Swap(f.registers, taken[1], i.takes[1])
  /\ i.op \in {"store", "astore"} => g.registers = Stored(f.registers, i.var, taken)
  /\ i.op \notin {"new", "invokeinit", "store", "astore"} => g.registers = f.registers
  /\ i.op \notin {"do", "load", "aload", "shuffle", "aaload", "jsr", "new", "invokeinit"} =>
       g.stack = left

LEMMA ExecutedFacts ==
  ASSUME NEW i, NEW f, IsFrame(f), NEW g, g = Executed(i, f),
         NEW taken, taken = Top(f.stack, Len(i.takes)),
         NEW left, left = Drop(f.stack, Len(i.takes))
  PROVE  Result(i, f, g, taken, left)
<1>1. CASE i.op \in {"do", "load"}
  <2> DEFINE s == left \o i.gives
  <2>1. g = WithStack(f, s)
    BY <1>1 DEF Executed, WithStack
  <2> HIDE DEF s
  <2>2. IsFrame(g) /\ g.pc = f.pc /\ g.stack = s /\ g.registers = f.registers
    BY <2>1, WithFacts
  <2>3. QED
    BY <1>1, <2>2 DEF Result, s
<1>2. CASE i.op = "aload"
  <2> DEFINE s == Append(left, f.registers[i.var])
  <2>1. g = WithStack(f, s)
    BY <1>2 DEF Executed, WithStack
  <2> HIDE DEF s
  <2>2. IsFrame(g) /\ g.pc = f.pc /\ g.stack = s /\ g.registers = f.registers
    BY <2>1, WithFacts
  <2>3. QED
    BY <1>2, <2>2 DEF Result, s
<1>3. CASE i.op = "shuffle"
  <2> DEFINE s == left \o Copied(i.copy, taken)
  <2>1. g = WithStack(f, s)
    BY <1>3 DEF Executed, WithStack, Copied
  <2> HIDE DEF s
  <2>2. IsFrame(g) /\ g.pc = f.pc /\ g.stack = s /\ g.registers = f.registers
    BY <2>1, WithFacts
  <2>3. QED
    BY <1>3, <2>2 DEF Result, s
<1>4. CASE i.op = "aaload"
  <2> DEFINE s == Append(left, Element(taken[1]))
  <2>1. g = WithStack(f, s)
    BY <1>4 DEF Executed, WithStack
  <2> HIDE DEF s
  <2>2. IsFrame(g) /\ g.pc = f.pc /\ g.stack = s /\ g.registers = f.registers
    BY <2>1, WithFacts
  <2>3. QED
    BY <1>4, <2>2 DEF Result, s
<1>5. CASE i.op = "jsr"
  <2> DEFINE s == Append(left, ReturnTo(f.pc + 1))
  <2>1. g = WithStack(f, s)
    BY <1>5 DEF Executed, WithStack
  <2> HIDE DEF s
  <2>2. IsFrame(g) /\ g.pc = f.pc /\ g.stack = s /\ g.registers = f.registers
    BY <2>1, WithFacts
  <2>3. QED
    BY <1>5, <2>2 DEF Result, s
<1>6. CASE i.op = "new"
  <2> DEFINE s == Append(left, New(f.pc))
             r == Swap(f.registers, New(f.pc), Bogus)
  <2>1. g = WithBoth(f, s, r)
    BY <1>6 DEF Executed, WithBoth
  <2> HIDE DEF s, r
  <2>2. IsFrame(g) /\ g.pc = f.pc /\ g.stack = s /\ g.registers = r
    BY <2>1, WithFacts
  <2>3. QED
    BY <1>6, <2>2 DEF Result, s, r
<1>7. CASE i.op = "invokeinit"
  <2> DEFINE s == Swap(left, taken[1], i.takes[1])
             r == Swap(f.registers, taken[1], i.takes[1])
  <2>1. g = WithBoth(f, s, r)
    BY <1>7 DEF Executed, WithBoth
  <2> HIDE DEF s, r
  <2>2. IsFrame(g) /\ g.pc = f.pc /\ g.stack = s /\ g.registers = r
    BY <2>1, WithFacts
  <2>3. QED
    BY <1>7, <2>2 DEF Result, s, r
<1>8. CASE i.op \in {"store", "astore"}
  <2> DEFINE s == left
             r == Stored(f.registers, i.var, taken)
  <2>1. g = WithBoth(f, s, r)
    BY <1>8 DEF Executed, WithBoth
  <2> HIDE DEF s, r
  <2>2. IsFrame(g) /\ g.pc = f.pc /\ g.stack = s /\ g.registers = r
    BY <2>1, WithFacts
  <2>3. QED
    BY <1>8, <2>2 DEF Result, s, r
<1>9. CASE i.op \notin {"do", "load", "aload", "shuffle", "aaload", "jsr", "new", "invokeinit",
                        "store", "astore"}
  <2> DEFINE s == left
  <2>1. g = WithStack(f, s)
    BY <1>9 DEF Executed, WithStack
  <2> HIDE DEF s
  <2>2. IsFrame(g) /\ g.pc = f.pc /\ g.stack = s /\ g.registers = f.registers
    BY <2>1, WithFacts
  <2>3. QED
    BY <1>9, <2>2 DEF Result, s
<1>10. QED
  BY <1>1, <1>2, <1>3, <1>4, <1>5, <1>6, <1>7, <1>8, <1>9

\* What the verifier would report otherwise.
OperandsFound(i, stack, registers, taken) ==
  /\ Len(i.takes) <= Len(stack)
  /\ i.op = "aload"  => \/ IsReference(At(registers, i.var))
                        \/ At(registers, i.var).item \in {"new", "init"}
  /\ i.op = "astore" => IsReference(taken[1]) \/ taken[1].item \in {"new", "init", "return"}
  /\ i.op = "aaload" => \/ taken[1] = Null \/ taken[1].dim > 1
                        \/ taken[1].dim = 1 /\ taken[1].item = "object"
  /\ i.op = "invokeinit" => taken[1] = Type("init") \/ \E m : taken[1] = New(m)
  /\ i.op = "store" => \A k \in 1 .. Len(i.takes) : Assignable(taken[k], i.takes[k])

LEMMA SensibleFacts ==
  ASSUME NEW n, Sensible(n)
  PROVE  OperandsFound(code[n], info[n].stack, info[n].registers,
                       Top(info[n].stack, Len(code[n].takes)))
<1> DEFINE i == code[n]
           taken == Top(info[n].stack, Len(i.takes))
<1>1. Len(i.takes) <= Len(info[n].stack)
  BY DEF Sensible
<1>2. CASE i.op = "aload"
  BY <1>1, <1>2 DEF Sensible, OperandsFound
<1>3. CASE i.op = "astore"
  BY <1>1, <1>3 DEF Sensible, OperandsFound
<1>4. CASE i.op = "aaload"
  BY <1>1, <1>4 DEF Sensible, OperandsFound
<1>5. CASE i.op = "invokeinit"
  BY <1>1, <1>5 DEF Sensible, OperandsFound
<1>6. CASE i.op = "store"
  BY <1>1, <1>6 DEF Sensible, OperandsFound
<1>7. ASSUME i.op \notin {"aload", "astore", "aaload", "invokeinit", "store"}
      PROVE  OperandsFound(i, info[n].stack, info[n].registers, taken)
  BY <1>1, <1>7 DEF OperandsFound
<1>8. QED
  BY <1>2, <1>3, <1>4, <1>5, <1>6, <1>7

\* What arrives where an instruction leads to is of the same depth.
LEMMA SensibleEdges ==
  ASSUME NEW n, Sensible(n)
  PROVE  /\ \A k \in Catching(handlers, n) :
              /\ Caught(n, handlers[k]).to \in DOMAIN code
              /\ Len(Caught(n, handlers[k]).stack) = Len(info[Caught(n, handlers[k]).to].stack)
         /\ \A k \in DOMAIN Successors(n) :
              /\ Passed(n, Successors(n)[k]).to \in DOMAIN code
              /\ Len(Passed(n, Successors(n)[k]).stack)
                   = Len(info[Passed(n, Successors(n)[k]).to].stack)
BY DEF Sensible

\* A value that is stored has both its words.
LEMMA StoredWhole ==
  ASSUME NEW w, Typed(w), NEW takes, Sequence(takes), Len(w) = Len(takes), Paired(takes),
         \A k \in 1 .. Len(takes) : Value(takes[k]) /\ takes[k] # Bogus /\ Assignable(w[k], takes[k])
  PROVE  Whole(w)
<1>1. Len(w) \in Nat /\ DOMAIN takes = 1 .. Len(w) /\ Sequence(w)
  BY SequenceFacts DEF Typed
<1>2. ASSUME NEW k \in 1 .. Len(w), NEW h \in {Long[1], Long[2]}
      PROVE  w[k] = h <=> takes[k] = h
  <2>1. Merge(w[k], takes[k]) = takes[k] /\ takes[k] # Bogus
    BY <1>1 DEF Assignable
  <2>2. ~ IsReference(h)
    BY LongTypes
  <2>3. QED
    BY <2>1, <2>2 DEF Merge
<1>3. ASSUME NEW k \in 1 .. Len(w), w[k] = Long[1] PROVE k < Len(w) /\ w[k + 1] = Long[2]
  <2>1. takes[k] = Long[1]
    BY <1>2, <1>3
  <2>2. k < Len(w) /\ takes[k + 1] = Long[2]
    BY <1>1, <2>1 DEF Paired
  <2>3. k + 1 \in 1 .. Len(w)
    BY <1>1, <2>2
  <2>4. QED
    BY <1>2, <2>2, <2>3
<1>4. ASSUME NEW k \in 1 .. Len(w), w[k] = Long[2] PROVE k > 1 /\ w[k - 1] = Long[1]
  <2>1. takes[k] = Long[2]
    BY <1>2, <1>4
  <2>2. k > 1 /\ takes[k - 1] = Long[1]
    BY <1>1, <2>1 DEF Paired
  <2>3. k - 1 \in 1 .. Len(w)
    BY <1>1, <2>2
  <2>4. QED
    BY <1>2, <2>2, <2>3
<1>5. QED
  BY <1>1, <1>3, <1>4 DEF Whole

\* An object that is not initialised yet is what it is.
LEMMA Uninitialised ==
  ASSUME NEW t, t = Type("init") \/ \E m : t = New(m)
  PROVE  /\ ~ IsReference(t) /\ t \notin {Bogus, Null, Long[1], Long[2]}
         /\ \A v : Covers(t, v) => v = t
<1>1. t.item \in {"init", "new"} /\ ~ IsReference(t)
  BY SimpleType, NewType
<1>2. t # Bogus /\ t # Null /\ t # Long[1] /\ t # Long[2]
  BY <1>1, BogusType, RootType, LongTypes
<1>3. QED
  BY <1>1, <1>2, CoversSelf

LEMMA ReferenceNotLong ==
  ASSUME NEW t, IsReference(t) \/ t.item \in {"new", "init"}
  PROVE  t \notin {Long[1], Long[2], Bogus}
<1>1. CASE IsReference(t)
  BY <1>1, LongTypes, BogusType
<1>2. CASE t.item \in {"new", "init"}
  BY <1>2, LongTypes, BogusType
<1>3. QED
  BY <1>1, <1>2

\* What an instruction leaves behind on the stack and in the registers is what
\* the verifier passes on.
LEMMA ExecutedCovered ==
  ASSUME PlainMethod(original), PlainInv, NEW f, Covered(f), NEW n, n = f.pc, Sensible(n),
         NEW g, g = Executed(code[n], f)
  PROVE  /\ IsFrame(g) /\ OnStack(StackAfter(n), g.stack)
         /\ InRegisters(RegistersAfter(n), g.registers, original.locals)
<1> DEFINE i == code[n]
           l == original.locals
           S == info[n].stack
           R == info[n].registers
           taken == Top(S, Len(i.takes))
           left == Drop(S, Len(i.takes))
           vtaken == Top(f.stack, Len(i.takes))
           vleft == Drop(f.stack, Len(i.takes))
<1>1. /\ n \in 1 .. Len(code) /\ IsFrame(f) /\ OnStack(S, f.stack) /\ InRegisters(R, f.registers, l)
      /\ PlainInstruction(i, l) /\ Data(info[n], l) /\ l \in Nat
  BY PlainFacts DEF Covered, PlainMethod
<1>2. /\ Typed(S) /\ Typed(R) /\ Sequence(S) /\ Sequence(R) /\ Len(R) <= l /\ Len(R) \in Nat
      /\ Len(i.takes) \in Nat /\ Values(f.registers) /\ Len(f.registers) = l
  BY <1>1, SequenceFacts DEF Data, Typed, PlainInstruction, InRegisters
<1>3. Typed(taken) /\ Len(taken) = Len(i.takes) /\ Typed(left) /\ Sequence(left) /\ Sequence(taken)
  BY <1>1, TypedOperands DEF Typed
<1>4. /\ Len(i.takes) <= Len(S)
      /\ i.op = "aload"  => IsReference(At(R, i.var)) \/ At(R, i.var).item \in {"new", "init"}
      /\ i.op = "astore" => IsReference(taken[1]) \/ taken[1].item \in {"new", "init", "return"}
      /\ i.op = "aaload" => \/ taken[1] = Null \/ taken[1].dim > 1
                            \/ taken[1].dim = 1 /\ taken[1].item = "object"
      /\ i.op = "invokeinit" => taken[1] = Type("init") \/ \E m : taken[1] = New(m)
      /\ i.op = "store" => \A k \in 1 .. Len(i.takes) : Assignable(taken[k], i.takes[k])
  BY SensibleFacts DEF OperandsFound
<1>5. OnStack(taken, vtaken) /\ OnStack(left, vleft)
  BY <1>1, <1>2, <1>4, OperandsCovered
<1>6. StackAfter(n) =
        CASE i.op = "aload"      -> Append(left, At(R, i.var))
          [] i.op = "shuffle"    -> left \o [k \in DOMAIN i.copy |-> taken[i.copy[k]]]
          [] i.op = "new"        -> Append(left, New(n))
          [] i.op = "invokeinit" -> Swap(left, taken[1], i.takes[1])
          [] i.op = "aaload"     -> Append(left, Element(taken[1]))
          [] i.op = "jsr"        -> Append(left, ReturnTo(i.to))
          [] i.op \in {"do", "load"} -> left \o i.gives
          [] OTHER               -> left
  BY DEF StackAfter
<1>7. /\ i.op \in {"store", "astore"} => RegistersAfter(n) = Put(R, i.var, taken)
      /\ i.op = "new"        => RegistersAfter(n) = Swap(R, New(n), Bogus)
      /\ i.op = "invokeinit" => RegistersAfter(n) = Swap(R, taken[1], i.takes[1])
      /\ i.op \notin {"store", "astore", "new", "invokeinit"} => RegistersAfter(n) = R
  BY DEF RegistersAfter, Swapped
<1>8. /\ vtaken = Top(f.stack, Len(i.takes)) /\ vleft = Drop(f.stack, Len(i.takes))
       /\ g = Executed(i, f) /\ n = f.pc
  OBVIOUS
<1> HIDE DEF i, l, S, R, taken, left, vtaken, vleft
<1>9. /\ IsFrame(g) /\ g.pc = f.pc
      /\ i.op \in {"do", "load"} => g.stack = vleft \o i.gives
      /\ i.op = "aload"      => g.stack = Append(vleft, f.registers[i.var])
      /\ i.op = "shuffle"    => g.stack = vleft \o Copied(i.copy, vtaken)
      /\ i.op = "aaload"     => g.stack = Append(vleft, Element(vtaken[1]))
      /\ i.op = "new"        => g.stack = Append(vleft, New(f.pc))
      /\ i.op = "new"        => g.registers = Swap(f.registers, New(f.pc), Bogus)
      /\ i.op = "invokeinit" => g.stack = Swap(vleft, vtaken[1], i.takes[1])
      /\ i.op = "invokeinit" => g.registers = Swap(f.registers, vtaken[1], i.takes[1])
      /\ i.op \in {"store", "astore"} => g.registers = Stored(f.registers, i.var, vtaken)
      /\ i.op \notin {"new", "invokeinit", "store", "astore"} => g.registers = f.registers
      /\ i.op \notin {"do", "load", "aload", "shuffle", "aaload", "jsr", "new", "invokeinit"} =>
           g.stack = vleft
  <2>1. Result(i, f, g, vtaken, vleft)
    BY <1>1, <1>8, ExecutedFacts
  <2>2. QED
    BY <2>1 DEF Result
<1>10. ASSUME NEW a, NEW b, Covers(a, b), Value(b)
      PROVE  OnStack(Append(left, a), Append(vleft, b))
  BY <1>3, <1>5, <1>10, AppendCovered
<1>11. CASE i.op \in {"do", "load"}
  <2>1. StackAfter(n) = left \o i.gives /\ RegistersAfter(n) = R
    BY <1>6, <1>7, <1>11
  <2>2. Sequence(i.gives) /\ OnStack(i.gives, i.gives)
    BY <1>1 DEF PlainInstruction, OnStack, Values, Covers, Fits
  <2>3. OnStack(left \o i.gives, vleft \o i.gives)
    BY <1>3, <1>5, <2>2, JoinCovered
  <2>4. QED
    BY <1>1, <1>9, <1>11, <2>1, <2>3 DEF l
<1>12. CASE i.op = "aload"
  <2> DEFINE a == At(R, i.var)
             b == f.registers[i.var]
  <2>1. StackAfter(n) = Append(left, a) /\ RegistersAfter(n) = R
    BY <1>6, <1>7, <1>12
  <2>2. a \notin {Long[1], Long[2], Bogus}
    BY <1>4, <1>12, ReferenceNotLong
  <2>3. i.var \in 1 .. l /\ i.var \in 1 .. Len(R) /\ a = R[i.var]
    BY <1>1, <1>2, <1>12, <2>2, AtFacts DEF PlainInstruction
  <2>4. Value(b) /\ Agree(R, f.registers, i.var)
    BY <1>1, <1>2, <2>3 DEF InRegisters, Values
  <2>5. Covers(a, b)
    BY <2>2, <2>3, <2>4 DEF Agree, Stale
  <2> HIDE DEF a, b
  <2>6. OnStack(Append(left, a), Append(vleft, b))
    BY <1>10, <2>4, <2>5 DEF b
  <2>7. QED
    BY <1>1, <1>9, <1>12, <2>1, <2>6 DEF l, b
<1>13. CASE i.op = "shuffle"
  <2> DEFINE a == [k \in DOMAIN i.copy |-> taken[i.copy[k]]]
             b == [k \in DOMAIN i.copy |-> vtaken[i.copy[k]]]
  <2>1. StackAfter(n) = left \o a /\ RegistersAfter(n) = R
    BY <1>6, <1>7, <1>13
  <2>2. Sequence(i.copy) /\ \A k \in 1 .. Len(i.copy) : i.copy[k] \in 1 .. Len(taken)
    BY <1>1, <1>3, <1>13 DEF PlainInstruction
  <2>3. OnStack(a, b) /\ Sequence(a)
    BY <1>3, <1>5, <2>2, CopyCovered, TypedCopy DEF Typed
  <2>4. g.stack = vleft \o b /\ g.registers = f.registers
    BY <1>9, <1>13 DEF Copied
  <2> HIDE DEF a, b
  <2>5. OnStack(left \o a, vleft \o b)
    BY <1>3, <1>5, <2>3, JoinCovered
  <2>6. QED
    BY <1>1, <1>9, <2>1, <2>4, <2>5 DEF l
<1>14. CASE i.op = "aaload"
  <2>1. StackAfter(n) = Append(left, Element(taken[1])) /\ RegistersAfter(n) = R
    BY <1>6, <1>7, <1>14
  <2>2. 1 \in 1 .. Len(taken)
    <3>1. Len(i.takes) = 2
      BY <1>1, <1>14 DEF PlainInstruction
    <3>2. QED
      BY <1>3, <3>1
  <2>3. IsType(taken[1]) /\ Covers(taken[1], vtaken[1]) /\ Value(vtaken[1])
    BY <1>3, <1>5, <2>2 DEF Typed, OnStack, Values
  <2>4. Covers(Element(taken[1]), Element(vtaken[1])) /\ Value(Element(vtaken[1]))
    BY <1>4, <1>14, <2>3, ElementCovered
  <2>5. OnStack(Append(left, Element(taken[1])), Append(vleft, Element(vtaken[1])))
    BY <1>10, <2>4
  <2>6. QED
    BY <1>1, <1>9, <1>14, <2>1, <2>5 DEF l
<1>15. CASE i.op = "new"
  <2>1. StackAfter(n) = Append(left, New(n)) /\ RegistersAfter(n) = Swap(R, New(n), Bogus)
    BY <1>6, <1>7, <1>15
  <2>2. Covers(New(n), New(n)) /\ Value(New(n))
    BY NewType DEF Covers, Fits
  <2>3. OnStack(Append(left, New(n)), Append(vleft, New(n)))
    BY <1>10, <2>2
  <2>4. ~ IsReference(New(n)) /\ New(n) \notin {Bogus, Null, Long[1], Long[2]}
    BY Uninitialised
  <2>5. Value(Bogus) /\ Bogus \notin {Long[1], Long[2]}
    BY BogusType, LongTypes
  <2>6. InRegisters(Swap(R, New(n), Bogus), Swap(f.registers, New(n), Bogus), l)
    BY <1>1, <1>2, <2>4, <2>5, SwapRegisters
  <2>7. QED
    BY <1>8, <1>9, <1>15, <2>1, <2>3, <2>6 DEF l
<1>16. CASE i.op = "invokeinit"
  <2> DEFINE from == taken[1]
             to == i.takes[1]
  <2>1. StackAfter(n) = Swap(left, from, to) /\ RegistersAfter(n) = Swap(R, from, to)
    BY <1>6, <1>7, <1>16
  <2>2. 1 \in 1 .. Len(taken) /\ IsReference(to) /\ Value(to)
    BY <1>1, <1>3, <1>16 DEF PlainInstruction
  <2>3. Covers(from, vtaken[1])
    BY <1>5, <2>2 DEF OnStack
  <2>4. /\ ~ IsReference(from) /\ from \notin {Bogus, Null, Long[1], Long[2]}
        /\ vtaken[1] = from
    BY <1>4, <1>16, <2>3, Uninitialised
  <2>5. g.stack = Swap(vleft, from, to) /\ g.registers = Swap(f.registers, from, to)
    BY <1>9, <1>16, <2>4
  <2>6. to \notin {Long[1], Long[2]}
    BY <2>2, ReferenceNotLong
  <2> HIDE DEF from, to
  <2>7. OnStack(Swap(left, from, to), Swap(vleft, from, to))
    BY <1>3, <1>5, <2>2, <2>4, SwapStack
  <2>8. InRegisters(Swap(R, from, to), Swap(f.registers, from, to), l)
    BY <1>1, <1>2, <2>2, <2>4, <2>6, SwapRegisters
  <2>9. QED
    BY <1>9, <2>1, <2>5, <2>7, <2>8 DEF l
<1>17. CASE i.op \in {"store", "astore"}
  <2>1. StackAfter(n) = left /\ RegistersAfter(n) = Put(R, i.var, taken)
    BY <1>6, <1>7, <1>17
  <2>2. i.var \in Nat /\ i.var > 0 /\ i.var + Len(taken) - 1 <= l
    BY <1>1, <1>3, <1>17 DEF PlainInstruction
  <2>3. Whole(taken)
    <3>1. CASE i.op = "store"
      <4>1. /\ Sequence(i.takes) /\ Paired(i.takes)
            /\ \A k \in 1 .. Len(i.takes) : Value(i.takes[k]) /\ i.takes[k] # Bogus
        BY <1>1, <3>1 DEF PlainInstruction
      <4>2. QED
        BY <1>3, <1>4, <3>1, <4>1, StoredWhole
    <3>2. CASE i.op = "astore"
      <4>1. Len(taken) = 1 /\ IsType(taken[1])
        BY <1>1, <1>3, <3>2 DEF PlainInstruction, Typed
      <4>2. taken[1] \notin {Long[1], Long[2]}
        BY <1>4, <3>2, <4>1, ReferenceNotLong DEF IsType
      <4>3. QED
        BY <1>3, <4>1, <4>2 DEF Whole
    <3>3. QED
      BY <1>17, <3>1, <3>2
  <2>4. InRegisters(Put(R, i.var, taken), Stored(f.registers, i.var, vtaken), l)
    BY <1>1, <1>2, <1>5, <2>2, <2>3, PutRegisters
  <2>5. QED
    BY <1>5, <1>9, <1>17, <2>1, <2>4 DEF l
<1>18. CASE i.op \notin {"do", "load", "aload", "shuffle", "aaload", "new", "invokeinit",
                         "store", "astore"}
  <2>1. i.op # "jsr"
    BY <1>1 DEF PlainInstruction
  <2>2. StackAfter(n) = left /\ RegistersAfter(n) = R
    BY <1>6, <1>7, <1>18, <2>1
  <2>3. QED
    BY <1>1, <1>5, <1>9, <1>18, <2>1, <2>2 DEF l
<1>19. QED
  BY <1>11, <1>12, <1>13, <1>14, <1>15, <1>16, <1>17, <1>18

\* Where the machine goes on: behind what it has executed, or at a handler.
LEMMA MovesFacts ==
  ASSUME NEW f, NEW m \in Moves(code, handlers, f), NEW i, i = code[f.pc],
         NEW g, g = Executed(i, f)
  PROVE  \/ \E to \in Exits(i, f) : m.frame = GoneTo(g, to)
         \/ \E k \in Catching(handlers, f.pc) :
              m.frame = ThrownTo(f, handlers[k].at, <<Object(handlers[k].class)>>)
<1> DEFINE caught == Catching(handlers, f.pc)
           Thrown(h) == [by |-> "throw", class |-> h.class, frame |-> ThrownTo(f, h.at, <<Object(h.class)>>)]
           Gone(to) == [by |-> IF i.op = "if" /\ to = i.to THEN "branch" ELSE "next", class |-> "",
                        frame |-> GoneTo(g, to)]
           A == {Gone(to) : to \in Exits(i, f)}
           B == {Thrown(handlers[k]) : k \in {j \in caught :
                    \A l \in caught : l < j => handlers[l].class # handlers[j].class}}
<1>1. Moves(code, handlers, f) = A \cup (IF MayThrow(i) THEN B ELSE {})
  BY DEF Moves, GoneTo, ThrownTo
<1>2. CASE m \in A
  <2>1. PICK to \in Exits(i, f) : m = Gone(to)
    BY <1>2
  <2> DEFINE by == IF i.op = "if" /\ to = i.to THEN "branch" ELSE "next"
             gone == GoneTo(g, to)
  <2>2. m = [by |-> by, class |-> "", frame |-> gone]
    BY <2>1
  <2> HIDE DEF by, gone
  <2>3. m.frame = gone
    BY <2>2
  <2>4. QED
    BY <2>3 DEF gone
<1>3. CASE m \in B
  BY <1>3
<1>4. QED
  BY <1>1, <1>2, <1>3

\* A state of the machine that is below what has been told.
LEMMA Arrived ==
  ASSUME PlainInv, original.locals \in Nat, NEW p \in 1 .. Len(code), NEW s, NEW r, Told(s, r, info[p]),
         Len(s) = Len(info[p].stack), Sequence(r), Len(r) <= original.locals,
         NEW v, IsFrame(v), v.pc = p, OnStack(s, v.stack), InRegisters(r, v.registers, original.locals)
  PROVE  Covered(v)
<1>1. Sequence(info[p].registers)
  BY PlainFacts DEF Data, Typed
<1>2. OnStack(info[p].stack, v.stack)
  BY WiderStack DEF Told
<1>3. InRegisters(info[p].registers, v.registers, original.locals)
  BY <1>1, WiderRegisters DEF Told
<1>4. QED
  BY <1>2, <1>3 DEF Covered, Told

\* When nothing is left to visit, and nothing to report, the machine stays
\* within what the verifier has written down.
LEMMA MovesCovered ==
  ASSUME PlainMethod(original), PlainInv, Changed = {}, NothingToReport,
         NEW f, Covered(f), NEW m \in Moves(code, handlers, f)
  PROVE  Covered(m.frame)
<1> DEFINE n == f.pc
           l == original.locals
           D == 1 .. Len(code)
           g == Executed(code[n], f)
<1>1. /\ n \in D /\ info[n].known /\ IsFrame(f) /\ InRegisters(info[n].registers, f.registers, l)
      /\ DOMAIN info = D /\ DOMAIN code = D /\ l \in Nat
      /\ PlainInstruction(code[n], l) /\ Data(info[n], l) /\ code[n].op \notin {"jsr", "ret"}
  BY PlainFacts DEF Covered, PlainMethod
<1>2. ~ info[n].changed /\ Sensible(n)
  BY <1>1 DEF Changed, NothingToReport
<1>3. AllHeard(n)
  BY <1>1, <1>2 DEF PlainInv
<1>4. Len(handlers) \in Nat /\ DOMAIN handlers = 1 .. Len(handlers)
  BY SequenceFacts DEF PlainInv
<1>5. CASE \E to \in Exits(code[n], f) : m.frame = GoneTo(g, to)
  <2>1. PICK to \in Exits(code[n], f) : m.frame = GoneTo(g, to)
    BY <1>5
  <2>2. PICK j \in 1 .. Len(Successors(n)) : Successors(n)[j] = to
    <3>1. CASE code[n].op = "if"
      <4>1. to = n + 1 \/ to = code[n].to
        BY <3>1 DEF Exits
      <4>2. /\ Len(Successors(n)) = 2 /\ Successors(n)[1] = n + 1
            /\ Successors(n)[2] = code[n].to
        BY <1>1, <3>1, SuccessorFacts
      <4>3. 1 \in 1 .. Len(Successors(n)) /\ 2 \in 1 .. Len(Successors(n))
        BY <4>2
      <4>4. QED
        BY <4>1, <4>2, <4>3
    <3>2. CASE code[n].op = "goto"
      <4>1. to = code[n].to
        BY <3>2 DEF Exits
      <4>2. Len(Successors(n)) = 1 /\ Successors(n)[1] = code[n].to
        BY <1>1, <3>2, SuccessorFacts
      <4>3. 1 \in 1 .. Len(Successors(n))
        BY <4>2
      <4>4. QED
        BY <4>1, <4>2, <4>3
    <3>3. CASE code[n].op = "return"
      BY <3>3 DEF Exits
    <3>4. CASE code[n].op \notin {"if", "goto", "return"}
      <4>1. to = n + 1
        BY <1>1, <3>4 DEF Exits
      <4>2. Len(Successors(n)) = 1 /\ Successors(n)[1] = n + 1
        BY <1>1, <3>4, SuccessorFacts
      <4>3. 1 \in 1 .. Len(Successors(n))
        BY <4>2
      <4>4. QED
        BY <4>1, <4>2, <4>3
    <3>5. QED
      BY <3>1, <3>2, <3>3, <3>4
  <2> DEFINE e == Passed(n, to)
             s == StackAfter(n)
             r == RegistersAfter(n)
  <2>3. e.to = to /\ e.stack = s /\ e.registers = r
    <3>1. e = Edge(n, to, s, r, MasksAfter(n), 0)
      BY <1>1 DEF Passed
    <3> HIDE DEF e, s, r
    <3>2. e = [from |-> n, to |-> to, stack |-> s, registers |-> r,
               masks |-> MasksAfter(n), called |-> 0]
      BY <1>1, <3>1, EdgeFacts
    <3>3. QED
      BY <3>2
  <2>4. IsFrame(g) /\ OnStack(s, g.stack) /\ InRegisters(r, g.registers, l)
    BY <1>2, ExecutedCovered
  <2>5. Typed(r) /\ Len(r) <= l
    BY <1>1, TypedRegistersAfter
  <2>6. DOMAIN Successors(n) = 1 .. Len(Successors(n)) /\ Len(Successors(n)) \in Nat
    BY <1>1, SuccessorFacts, SequenceFacts
  <2>7. to \in D /\ Len(s) = Len(info[to].stack)
    <3>1. /\ Passed(n, Successors(n)[j]).to \in DOMAIN code
          /\ Len(Passed(n, Successors(n)[j]).stack) = Len(info[Passed(n, Successors(n)[j]).to].stack)
      BY <1>2, <2>6, SensibleEdges
    <3>2. e.to \in DOMAIN code /\ Len(e.stack) = Len(info[e.to].stack)
      BY <2>2, <3>1
    <3> HIDE DEF e, s, r
    <3>3. QED
      BY <1>1, <2>3, <3>2
  <2>8. Told(s, r, info[to])
    <3>1. Len(handlers) + j \in 1 .. Len(handlers) + Len(Successors(n))
      BY <1>4, <2>6
    <3>2. Heard(info, D, n, Len(handlers) + j)
      BY <1>3, <3>1 DEF AllHeard
    <3>3. Len(handlers) + j > Len(handlers) /\ (Len(handlers) + j) - Len(handlers) = j
      BY <1>4
    <3>4. Hears(e, info, D)
      BY <2>2, <3>2, <3>3 DEF Heard
    <3> HIDE DEF e, s, r
    <3>5. QED
      BY <2>3, <2>7, <3>4 DEF Hears
  <2> HIDE DEF e, s, r, g
  <2>9. IsFrame(m.frame) /\ m.frame.pc = to /\ m.frame.stack = g.stack /\ m.frame.registers = g.registers
    <3>1. m.frame = [pc |-> to, stack |-> g.stack, registers |-> g.registers]
      BY <2>1, <2>4, FrameGone
    <3>2. QED
      BY <3>1, FrameMade
  <2>10. QED
    BY <1>1, <2>4, <2>5, <2>7, <2>8, <2>9, Arrived DEF Typed
<1>6. CASE \E k \in Catching(handlers, n) :
             m.frame = ThrownTo(f, handlers[k].at, <<Object(handlers[k].class)>>)
  <2>1. PICK k \in Catching(handlers, n) :
               m.frame = ThrownTo(f, handlers[k].at, <<Object(handlers[k].class)>>)
    BY <1>6
  <2> DEFINE h == handlers[k]
             e == Caught(n, h)
             s == <<Object(h.class)>>
             r == info[n].registers
  <2>2. e.to = h.at /\ e.stack = s /\ e.registers = r
    <3>1. e = Edge(n, h.at, s, r, info[n].masks, 0)
      BY DEF Caught
    <3> HIDE DEF e, s, r, h
    <3>2. e = [from |-> n, to |-> h.at, stack |-> s, registers |-> r,
               masks |-> info[n].masks, called |-> 0]
      BY <1>1, <3>1, EdgeFacts
    <3>3. QED
      BY <3>2
  <2>3. Typed(r) /\ Len(r) <= l
    BY <1>1 DEF Data
  <2>4. OnStack(s, s)
    <3>1. Value(Object(h.class))
      BY ObjectType
    <3>2. Sequence(s) /\ Len(s) = 1 /\ s[1] = Object(h.class)
      BY OneElement
    <3> HIDE DEF s
    <3>3. QED
      BY <3>1, <3>2 DEF OnStack, Values, Covers, Fits
  <2>5. h.at \in D /\ Len(s) = Len(info[h.at].stack)
    <3>1. e.to \in DOMAIN code /\ Len(e.stack) = Len(info[e.to].stack)
      BY <1>2, SensibleEdges
    <3> HIDE DEF e, s, r, h
    <3>2. QED
      BY <1>1, <2>2, <3>1
  <2>6. Told(s, r, info[h.at])
    <3>1. k \in 1 .. Len(handlers)
      BY <1>4 DEF Catching
    <3>2. k \in 1 .. Len(handlers) + Len(Successors(n)) /\ ~ (k > Len(handlers))
      BY <1>1, <1>4, <3>1, SuccessorFacts
    <3>3. Heard(info, D, n, k)
      BY <1>3, <3>2 DEF AllHeard
    <3>4. Hears(e, info, D)
      BY <3>2, <3>3 DEF Heard
    <3> HIDE DEF e, s, r, h
    <3>5. QED
      BY <2>2, <2>5, <3>4 DEF Hears
  <2>7. m.frame = ThrownTo(f, h.at, s)
    BY <2>1
  <2> HIDE DEF e, s, r, h, g
  <2>8. IsFrame(m.frame) /\ m.frame.pc = h.at /\ m.frame.stack = s /\ m.frame.registers = f.registers
    <3>1. m.frame = [pc |-> h.at, stack |-> s, registers |-> f.registers]
      BY <1>1, <2>7, FrameThrown
    <3>2. QED
      BY <3>1, FrameMade
  <2>9. InRegisters(r, f.registers, l)
    BY <1>1 DEF r
  <2>10. QED
    BY <1>1, <2>3, <2>4, <2>5, <2>6, <2>8, <2>9, Arrived DEF Typed
<1>7. QED
  BY <1>5, <1>6, MovesFacts

-----------------------------------------------------------------------------
(* All that the machine comes to.                                          *)

LEMMA EntryCovered ==
  ASSUME PlainMethod(original), PlainInv
  PROVE  Covered(Entry)
<1> DEFINE l == original.locals
           a == original.args
           none == <<>>
           first == l + 1
           r == Put(a, first, none)
<1>1. /\ l \in Nat /\ Sequence(a) /\ Len(a) \in Nat /\ Len(a) <= l
      /\ \A k \in 1 .. Len(a) : Value(a[k])
  BY SequenceFacts DEF PlainMethod
<1>2. first \in Nat /\ first > 0 /\ first + 0 - 1 = l /\ Len(none) = 0 /\ Sequence(none)
  BY <1>1, EmptySequence
<1>3. Entry = [pc |-> 1, stack |-> <<>>, registers |-> r] /\ r = Put(a, first, none)
  BY DEF Entry
<1> HIDE DEF none, first, a, r
<1>4. /\ Sequence(r)
      /\ Len(r) = IF Len(a) <= first + Len(none) - 1 THEN first + Len(none) - 1 ELSE Len(a)
      /\ \A k \in 1 .. Len(r) : ~ (first <= k /\ k < first + Len(none)) => r[k] = At(a, k)
  <2>1. Sequence(a) /\ first \in Nat /\ first > 0 /\ Sequence(none) /\ r = Put(a, first, none)
    BY <1>1, <1>2, <1>3
  <2>2. QED
    BY <2>1, PutFacts
<1>5. Len(r) = l /\ \A k \in 1 .. l : r[k] = At(a, k)
  BY <1>1, <1>2, <1>4
<1>6. \A k \in 1 .. l : Value(r[k])
  BY <1>1, <1>5, AtFacts, BogusType
<1>7. \A k \in 1 .. Len(a) : Agree(a, r, k)
  <2>1. \A k \in 1 .. Len(a) : r[k] = a[k]
    BY <1>1, <1>5, AtFacts
  <2>2. QED
    BY <2>1 DEF Agree, Covers, Fits
<1>8. InRegisters(a, r, l)
  BY <1>4, <1>5, <1>6, <1>7 DEF InRegisters, Values
<1>9. OnStack(<<>>, <<>>)
  BY EmptySequence DEF OnStack, Values
<1>10. IsFrame(Entry) /\ Entry.pc = 1 /\ Entry.stack = <<>> /\ Entry.registers = r
  BY <1>3 DEF IsFrame
<1>11. 1 \in 1 .. Len(code) /\ Told(<<>>, a, info[1]) /\ Len(<<>>) = Len(info[1].stack)
  <2>1. 1 \in 1 .. Len(code)
    BY PlainFacts
  <2>2. Told(<<>>, a, info[1]) /\ Len(info[1].stack) = 0
    BY DEF PlainInv, a
  <2>3. QED
    BY <2>1, <2>2, EmptySequence
<1>12. QED
  BY <1>1, <1>8, <1>9, <1>10, <1>11, Arrived

\* However many steps the machine makes.
LEMMA ReachedCovered ==
  ASSUME PlainMethod(original), PlainInv, Changed = {}, NothingToReport,
         NEW f \in Reached(code, handlers)
  PROVE  Covered(f)
<1> DEFINE After(frames) == UNION {{m.frame : m \in Moves(code, handlers, g)} : g \in frames}
           Step(run, k) == IF k = 0 THEN [found |-> {Entry}, new |-> {Entry}]
                           ELSE LET before == run[k - 1]
                                    next == After(before.new)
                                IN [found |-> before.found \cup next, new |-> next \ before.found]
           Defined(run, n) == run = [k \in 0 .. n |-> Step(run, k)]
<1>1. MaxSteps \in Nat
  BY StepsAssumption
<1>2. \E run : Defined(run, MaxSteps)
  <2> DEFINE S == {n \in Nat : \E run : Defined(run, n)}
  <2>1. 0 \in S
    <3> DEFINE x == [found |-> {Entry}, new |-> {Entry}]
               h == [k \in 0 .. 0 |-> x]
    <3>1. Defined(h, 0)
      OBVIOUS
    <3> HIDE DEF Defined
    <3>2. QED
      BY <3>1
  <2>2. ASSUME NEW n \in Nat, n \in S PROVE n + 1 \in S
    <3>1. PICK h : Defined(h, n)
      BY <2>2
    <3> DEFINE g == [k \in 0 .. n + 1 |-> IF k <= n THEN h[k] ELSE Step(h, k)]
    <3>2. ASSUME NEW k \in 0 .. n + 1 PROVE g[k] = Step(g, k)
      <4>1. CASE k <= n
        <5>1. k \in 0 .. n
          BY <4>1
        <5>2. g[k] = h[k]
          BY <4>1
        <5>3. h[k] = Step(h, k)
          <6> HIDE DEF Step
          <6> QED BY <3>1, <5>1
        <5>4. k # 0 => g[k - 1] = h[k - 1]
          <6> HIDE DEF Step
          <6> QED BY <5>1
        <5>5. Step(g, k) = Step(h, k)
          <6> HIDE DEF g, After
          <6> QED BY <5>4
        <5> HIDE DEF g, Step, After, Defined
        <5>6. QED
          BY <5>2, <5>3, <5>5
      <4>2. CASE k = n + 1
        <5>1. g[k] = Step(h, k)
          <6> HIDE DEF Step
          <6> QED BY <4>2
        <5>2. g[k - 1] = h[k - 1]
          <6> HIDE DEF Step
          <6> QED BY <4>2
        <5>3. Step(g, k) = Step(h, k)
          <6> HIDE DEF g, After
          <6> QED BY <5>2
        <5> HIDE DEF g, Step, After, Defined
        <5>4. QED
          BY <5>1, <5>3
      <4> HIDE DEF g, Step
      <4>3. k <= n \/ k = n + 1
        OBVIOUS
      <4>4. QED
        BY <4>1, <4>2, <4>3
    <3>3. Defined(g, n + 1)
      <4>1. g = [k \in 0 .. n + 1 |-> g[k]]
        OBVIOUS
      <4> HIDE DEF g, Step
      <4>2. QED
        BY <3>2, <4>1
    <3>4. n + 1 \in Nat
      OBVIOUS
    <3> HIDE DEF Defined
    <3>5. QED
      BY <3>3, <3>4
  <2>3. S \in SUBSET Nat
    OBVIOUS
  <2> HIDE DEF S
  <2>4. S = Nat
    BY <2>1, <2>2, <2>3, Least
  <2> HIDE DEF Defined
  <2>5. QED
    BY <1>1, <2>4 DEF S
<1> DEFINE run == CHOOSE h : Defined(h, MaxSteps)
<1>3. Reached(code, handlers) = run[MaxSteps].found
  BY DEF Reached
<1>4. Defined(run, MaxSteps)
  <2> HIDE DEF Defined
  <2> QED BY <1>2
<1> HIDE DEF run
<1> DEFINE Good(x) == /\ \A g \in x.found : Covered(g)
                      /\ \A g \in x.new   : Covered(g)
<1>5. \A n \in Nat : n <= MaxSteps => Good(run[n])
  <2> DEFINE S == {n \in Nat : n <= MaxSteps => Good(run[n])}
  <2>1. 0 \in S
    <3>1. 0 \in 0 .. MaxSteps
      BY <1>1
    <3>2. run[0] = Step(run, 0)
      <4> HIDE DEF Step
      <4> QED BY <1>4, <3>1
    <3>3. run[0].found = {Entry} /\ run[0].new = {Entry}
      BY <3>2
    <3>4. Good(run[0])
      BY <3>3, EntryCovered
    <3> HIDE DEF Good
    <3>5. QED
      BY <3>4
  <2>2. ASSUME NEW n \in Nat, n \in S PROVE n + 1 \in S
    <3>1. SUFFICES ASSUME n + 1 <= MaxSteps PROVE Good(run[n + 1])
      OBVIOUS
    <3>2. n <= MaxSteps /\ n + 1 \in 0 .. MaxSteps /\ n + 1 # 0 /\ (n + 1) - 1 = n
      BY <1>1, <3>1
    <3> DEFINE a == run[n]
               b == run[n + 1]
               next == After(a.new)
    <3>3. Good(a)
      <4> HIDE DEF Good
      <4> QED BY <2>2, <3>2
    <3>4. b.found = a.found \cup next /\ b.new = next \ a.found
      <4>1. b = Step(run, n + 1)
        <5> HIDE DEF Step
        <5> QED BY <1>4, <3>2
      <4> HIDE DEF After
      <4>2. b = [found |-> a.found \cup next, new |-> next \ a.found]
        BY <3>2, <4>1
      <4> HIDE DEF b
      <4>3. QED
        BY <4>2
    <3>5. \A g \in next : Covered(g)
      <4>1. SUFFICES ASSUME NEW g \in next PROVE Covered(g)
        OBVIOUS
      <4>2. PICK h \in a.new : g \in {m.frame : m \in Moves(code, handlers, h)}
        OBVIOUS
      <4>3. PICK m \in Moves(code, handlers, h) : g = m.frame
        BY <4>2
      <4>4. Covered(h)
        BY <3>3
      <4>5. QED
        BY <4>3, <4>4, MovesCovered
    <3> HIDE DEF a, b, next
    <3>6. Good(b)
      BY <3>3, <3>4, <3>5
    <3>7. QED
      BY <3>6 DEF b
  <2>3. S \in SUBSET Nat
    OBVIOUS
  <2> HIDE DEF S
  <2>4. S = Nat
    BY <2>1, <2>2, <2>3, Least
  <2>5. QED
    BY <2>4 DEF S
<1>6. Good(run[MaxSteps])
  BY <1>1, <1>5
<1>7. QED
  BY <1>3, <1>6

\* What has been written down holds of what is on the stack and in registers.
LEMMA AgreeHolds ==
  ASSUME NEW t, Typed(t), NEW v, \A k \in 1 .. Len(t) : Agree(t, v, k)
  PROVE  Holds(v, t)
<1>1. Len(t) \in Nat /\ DOMAIN t = 1 .. Len(t) /\ \A k \in 1 .. Len(t) : t[k].item # "return"
  BY SequenceFacts DEF Typed, IsType
<1>2. ASSUME NEW k \in 1 .. Len(t) PROVE Is(v[k], Coded(t)[k])
  <2>1. Coded(t)[k] = IF Stale(t, k) THEN Bogus ELSE t[k]
    BY <1>1 DEF Coded, Stale
  <2>2. CASE Stale(t, k)
    BY <2>1, <2>2 DEF Is
  <2>3. CASE ~ Stale(t, k)
    <3>1. Covers(t[k], v[k])
      BY <2>3 DEF Agree
    <3>2. QED
      BY <2>1, <2>3, <3>1 DEF Is, Covers
  <2>4. QED
    BY <2>2, <2>3
<1>3. QED
  BY <1>1, <1>2 DEF Holds

LEMMA PlainDescribed ==
  ASSUME PlainMethod(original), PlainInv, NothingToReport
  PROVE  Described
<1>1. SUFFICES ASSUME Settled, NEW f \in Reached(code, handlers)
               PROVE  /\ info[f.pc].known
                      /\ Len(f.stack) = Len(info[f.pc].stack)
                      /\ Holds(f.stack, info[f.pc].stack)
                      /\ Holds(f.registers, info[f.pc].registers)
  BY DEF Described
<1>2. Covered(f)
  BY <1>1, ReachedCovered DEF Settled
<1>3. /\ info[f.pc].known /\ OnStack(info[f.pc].stack, f.stack)
      /\ InRegisters(info[f.pc].registers, f.registers, original.locals)
      /\ Typed(info[f.pc].stack) /\ Typed(info[f.pc].registers)
  BY <1>2, PlainFacts DEF Covered, Data
<1>4. \A k \in 1 .. Len(info[f.pc].stack) : Agree(info[f.pc].stack, f.stack, k)
  BY <1>3 DEF OnStack, Agree
<1>5. \A k \in 1 .. Len(info[f.pc].registers) : Agree(info[f.pc].registers, f.registers, k)
  BY <1>3 DEF InRegisters
<1>6. QED
  BY <1>3, <1>4, <1>5, AgreeHolds DEF OnStack

\* When nothing is left to visit in a method without subroutines, and the
\* verifier would report nothing of it, the types that it has written down
\* cover whatever the machine has on the stack and in the registers, at every
\* instruction that it comes to.
THEOREM PlainMethodDescribed ==
  Spec => [](PlainMethod(original) /\ NothingToReport => Described)
<1> DEFINE Inv == PlainMethod(original) => PlainInv
<1>1. Init => Inv
  BY PlainInit
<1>2. Inv /\ [Next]_vars => Inv'
  BY PlainNext, SameOriginal DEF PlainMethod
<1>3. Inv => (PlainMethod(original) /\ NothingToReport => Described)
  BY PlainDescribed
<1>4. QED
  BY <1>1, <1>2, <1>3, PTL DEF Spec

\* A method without subroutines is never verified with a pointer of which only
\* a half has been set.
THEOREM PlainNoCrash ==
  Spec => [](PlainMethod(original) => NoCrash)
<1> DEFINE Inv == PlainMethod(original) => PlainInv
<1>1. Init => Inv
  BY PlainInit
<1>2. Inv /\ [Next]_vars => Inv'
  BY PlainNext, SameOriginal DEF PlainMethod
<1>3. Inv => (PlainMethod(original) => NoCrash)
  BY DEF PlainInv, NoCrash
<1>4. QED
  BY <1>1, <1>2, <1>3, PTL DEF Spec
-----------------------------------------------------------------------------
(* Types as an order: what a merge makes of a type it may be used for.     *)

RootOf(t) == t.item = "object" /\ t.class = "Object" /\ t.at = 0
NullOf(t) == t.item = "object" /\ t.class = "null" /\ t.at = 0

\* The dimensions of an array of objects that a type may be used as.
Depth(t) == IF t.item = "object" THEN t.dim ELSE t.dim - 1

Narrower(s, t) ==
  \/ s = t
  \/ t = Bogus
  \/ IsReference(s) /\ IsReference(t) /\
       \/ s = Null
       \/ t = Root
       \/ RootOf(t) /\ t.dim <= Depth(s) /\ s # Root
       \/ NullOf(s) /\ t.item = "object" /\ t.dim = s.dim /\ t # Null

LEMMA AssignableParts ==
  ASSUME NEW s, NEW t, IsType(s), IsType(t)
  PROVE  Assignable(s, t) <=> Narrower(s, t)
<1>1. CASE s = t
  BY <1>1 DEF Assignable, Merge, Narrower
<1>2. CASE s # t /\ ~ (IsReference(s) /\ IsReference(t))
  BY <1>2 DEF Assignable, Merge, Narrower
<1>3. CASE s # t /\ IsReference(s) /\ IsReference(t)
  <2>1. t # Bogus /\ s.dim \in Int /\ t.dim \in Int
    BY <1>3, BogusType DEF IsType
  <2>2. RootOf(Root) /\ NullOf(Null) /\ ~ RootOf(Null) /\ ~ NullOf(Root) /\ Root # Null
    BY RootType DEF RootOf, NullOf
  <2>3. CASE s = Null \/ t = Null \/ Root \in {s, t}
    <3>1. CASE s = Null
      BY <1>3, <3>1 DEF Assignable, Merge, Narrower
    <3>2. CASE s # Null /\ t = Null
      BY <1>3, <2>1, <2>2, <3>2 DEF Assignable, Merge, Narrower
    <3>3. CASE s # Null /\ t # Null /\ Root \in {s, t}
      BY <1>3, <2>1, <2>2, <3>3 DEF Assignable, Merge, Narrower
    <3>4. QED
      BY <2>3, <3>1, <3>2, <3>3
  <2>4. CASE s # Null /\ t # Null /\ Root \notin {s, t}
    <3> DEFINE a == Promoted(s)
               b == Promoted(t)
               c == Array(a, 0)
               d == Array(b, 0)
               base == MergeClasses(c, d)
    <3>1. Merge(s, t) = IF a.dim # b.dim THEN Array(Root, Min({a.dim, b.dim}))
                        ELSE IF base = Bogus THEN Bogus
                        ELSE Array(base, a.dim)
      BY <1>3, <2>4, ReferenceMerge
    <3>2. /\ IsType(a) /\ a.item = "object" /\ a.dim = Depth(s)
          /\ s.item = "object" => a = s
          /\ s.item # "object" => a.class = "Object" /\ a.at = 0
      BY PromotedType DEF Depth
    <3>3. /\ IsType(b) /\ b.item = "object" /\ b.dim = Depth(t)
          /\ t.item = "object" => b = t
          /\ t.item # "object" => b.class = "Object" /\ b.at = 0
      BY PromotedType DEF Depth
    <3> HIDE DEF a, b
    <3>4. /\ IsType(c) /\ c.item = "object" /\ c.dim = 0 /\ c.class = a.class /\ c.at = a.at
          /\ IsType(d) /\ d.item = "object" /\ d.dim = 0 /\ d.class = b.class /\ d.at = b.at
      BY <3>2, <3>3, ArrayType
    <3> HIDE DEF c, d
    <3>5. /\ c = Root <=> RootOf(a)
          /\ d = Root <=> RootOf(b)
          /\ c = Null <=> NullOf(a)
          /\ d = Null <=> NullOf(b)
      <4>1. IsType(Root) /\ IsType(Null)
        BY RootType DEF Value
      <4>2. QED
        BY <3>2, <3>3, <3>4, <4>1, SameType, RootType DEF RootOf, NullOf
    <3>6. Narrower(s, t) <=> \/ RootOf(t) /\ t.dim <= a.dim
                             \/ NullOf(s) /\ t.item = "object" /\ t.dim = s.dim
      BY <1>3, <2>1, <2>4, <3>2 DEF Narrower
    <3>7. CASE a.dim # b.dim
      <4> DEFINE m == Array(Root, Min({a.dim, b.dim}))
      <4>1. a.dim \in Int /\ b.dim \in Int
        BY <3>2, <3>3 DEF IsType
      <4>2. Min({a.dim, b.dim}) = IF a.dim <= b.dim THEN a.dim ELSE b.dim
        BY <4>1, MinPair
      <4>3. IsType(m) /\ RootOf(m) /\ m.dim = IF a.dim <= b.dim THEN a.dim ELSE b.dim
        <5>1. Min({a.dim, b.dim}) \in Int
          BY <4>1, <4>2
        <5>2. QED
          BY <4>2, <5>1, RootType, ArrayType DEF RootOf, Value
      <4>4. Assignable(s, t) <=> m = t
        BY <3>1, <3>7 DEF Assignable
      <4> HIDE DEF m
      <4>5. m = t <=> RootOf(t) /\ t.dim = m.dim
        BY <4>3, SameType DEF RootOf
      <4>6. RootOf(t) => b = t
        BY <3>3 DEF RootOf
      <4>7. NullOf(s) => a = s
        BY <3>2 DEF NullOf
      <4>8. QED
        BY <3>3, <3>6, <3>7, <4>1, <4>3, <4>4, <4>5, <4>6, <4>7
    <3>8. CASE a.dim = b.dim
      <4>1. a.dim \in Int
        BY <3>2 DEF IsType
      <4> DEFINE m == Array(base, a.dim)
      <4>2. Assignable(s, t) <=> base # Bogus /\ m = t
        BY <2>1, <3>1, <3>8 DEF Assignable
      <4>3. base = IF c = d THEN c
                   ELSE IF c = Null THEN d
                   ELSE IF d = Null THEN c
                   ELSE IF Root \in {c, d} THEN Root ELSE Bogus
        BY DEF MergeClasses
      <4>4. c # Bogus /\ d # Bogus /\ Root # Bogus
        BY <3>4, RootType, BogusType
      <4>5. \A x : IsType(x) /\ x.item = "object" =>
              (Array(x, a.dim) = t <=> /\ t.item = "object" /\ t.dim = a.dim
                                       /\ t.class = x.class /\ t.at = x.at)
        BY <4>1, ArrayType, SameType
      <4>6. IsType(Root) /\ Root.item = "object" /\ Root.class = "Object" /\ Root.at = 0
        BY RootType DEF Value
      <4> HIDE DEF base
      <4>7. CASE t.item # "object"
        BY <3>4, <3>6, <4>2, <4>3, <4>4, <4>5, <4>6, <4>7 DEF RootOf
      <4>8. CASE t.item = "object"
        <5>1. b = t /\ t.dim = a.dim
          BY <3>3, <3>8, <4>8
        <5>2. (RootOf(s) => RootOf(a)) /\ (NullOf(s) <=> NullOf(a))
          BY <3>2 DEF RootOf, NullOf
        <5>3. s.item = "object" => s.dim = a.dim
          BY <3>2
        <5>4. NullOf(s) => s.item = "object"
          BY DEF NullOf
        <5>5. Narrower(s, t) <=> RootOf(t) \/ NullOf(a)
          BY <3>6, <4>1, <4>8, <5>1, <5>2, <5>3, <5>4
        <5>6. CASE c = d
          <6>1. a = b
            BY <3>2, <3>3, <3>4, <3>8, <5>6, SameType
          <6>2. s.item # "object"
            BY <1>3, <3>2, <5>1, <6>1
          <6>3. RootOf(t)
            BY <3>2, <5>1, <6>1, <6>2 DEF RootOf
          <6>4. base = d /\ Array(d, a.dim) = t
            BY <3>4, <4>3, <4>5, <4>8, <5>1, <5>6
          <6>5. QED
            BY <4>2, <4>4, <5>5, <6>3, <6>4
        <5>7. CASE c # d /\ c = Null
          <6>1. base = d /\ Array(d, a.dim) = t
            BY <3>4, <4>3, <4>5, <4>8, <5>1, <5>7
          <6>2. QED
            BY <3>5, <4>2, <4>4, <5>5, <5>7, <6>1
        <5>8. CASE c # d /\ c # Null /\ d = Null
          <6>1. base = c /\ Array(c, a.dim) # t
            <7>1. c.class # d.class \/ c.at # d.at
              BY <3>4, <5>8, SameType
            <7>2. QED
              BY <3>4, <4>3, <4>5, <5>1, <5>8, <7>1
          <6>2. ~ RootOf(t)
            BY <3>5, <5>1, <5>8 DEF RootOf, NullOf
          <6>3. QED
            BY <3>5, <4>2, <5>5, <5>8, <6>1, <6>2
        <5>9. CASE c # d /\ c # Null /\ d # Null
          <6>1. base # Bogus /\ Array(base, a.dim) = t <=> RootOf(t)
            BY <3>4, <3>5, <4>3, <4>4, <4>5, <4>6, <4>8, <5>1, <5>9 DEF RootOf
          <6>2. QED
            BY <3>5, <4>2, <5>5, <5>9, <6>1
        <5>10. QED
          BY <5>6, <5>7, <5>8, <5>9
      <4>9. QED
        BY <4>7, <4>8
    <3>9. QED
      BY <3>7, <3>8
  <2>5. QED
    BY <2>3, <2>4
<1>4. QED
  BY <1>1, <1>2, <1>3

LEMMA AssignableTransitive ==
  ASSUME NEW r, NEW s, NEW t, IsType(r), IsType(s), IsType(t), Assignable(r, s), Assignable(s, t)
  PROVE  Assignable(r, t)
<1>1. Narrower(r, s) /\ Narrower(s, t)
  BY AssignableParts
<1>2. /\ ~ IsReference(Bogus) /\ Root.item = "object" /\ Root.dim = 0 /\ Null.item = "object"
      /\ Null.dim = 0 /\ Null.class = "null" /\ Root.class = "Object" /\ RootOf(Root)
  BY BogusType, RootType DEF RootOf
<1>3. r.dim \in Int /\ s.dim \in Int /\ t.dim \in Int
  BY DEF IsType
<1>4. CASE s = t \/ t = Bogus \/ r = s
  <2>1. t = Bogus => Narrower(r, t)
    BY DEF Narrower
  <2>2. QED
    BY <1>4, <2>1, AssignableParts
<1>5. CASE ~ (s = t \/ t = Bogus \/ r = s)
  <2>1. s # Bogus
    BY <1>1, <1>2, <1>5 DEF Narrower
  <2>2. IsReference(r) /\ IsReference(s) /\ IsReference(t)
    BY <1>1, <1>5, <2>1 DEF Narrower
  <2>3. CASE r = Null \/ t = Root
    BY <2>2, <2>3, AssignableParts DEF Narrower
  <2>4. CASE r # Null /\ t # Root
    <3>1. s # Null
      BY <1>1, <1>2, <1>5, <2>1, <2>4 DEF Narrower, RootOf
    <3>2. \/ RootOf(t) /\ t.dim <= Depth(s) /\ s # Root
          \/ NullOf(s) /\ t.item = "object" /\ t.dim = s.dim /\ t # Null
      BY <1>1, <1>5, <2>4, <3>1 DEF Narrower
    <3>3. \/ s = Root
          \/ RootOf(s) /\ s.dim <= Depth(r) /\ r # Root
          \/ NullOf(r) /\ s.item = "object" /\ s.dim = r.dim /\ s # Null
      BY <1>1, <1>5, <2>1, <2>4 DEF Narrower
    <3>4. s # Root
      BY <1>2, <3>2 DEF NullOf
    <3>5. r # Root
      BY <1>2, <3>3, <3>4 DEF NullOf
    <3>6. Narrower(r, t)
      BY <1>3, <2>2, <3>2, <3>3, <3>4, <3>5 DEF Narrower, RootOf, NullOf, Depth
    <3>7. QED
      BY <3>6, AssignableParts
  <2>5. QED
    BY <2>3, <2>4
<1>6. QED
  BY <1>4, <1>5

LEMMA AssignableBoth ==
  ASSUME NEW s, NEW t, IsType(s), IsType(t), Assignable(s, t), Assignable(t, s)
  PROVE  s = t
<1>1. SUFFICES ASSUME s # t PROVE FALSE
  OBVIOUS
<1>2. Narrower(s, t) /\ Narrower(t, s)
  BY AssignableParts
<1>3. /\ ~ IsReference(Bogus) /\ Root.dim = 0 /\ Null.dim = 0 /\ Root.class = "Object"
      /\ Null.class = "null" /\ Null.item = "object"
  BY BogusType, RootType
<1>4. s.dim \in Int /\ t.dim \in Int
  BY DEF IsType
<1>5. \/ s = Null
      \/ t = Root
      \/ RootOf(t) /\ t.dim <= Depth(s) /\ s # Root
      \/ NullOf(s) /\ t.item = "object" /\ t.dim = s.dim /\ t # Null
  BY <1>1, <1>2, <1>3 DEF Narrower
<1>6. \/ t = Null
      \/ s = Root
      \/ RootOf(s) /\ s.dim <= Depth(t) /\ t # Root
      \/ NullOf(t) /\ s.item = "object" /\ s.dim = t.dim /\ s # Null
  BY <1>1, <1>2, <1>3 DEF Narrower
<1>7. /\ RootOf(s) /\ RootOf(t) => s.dim # t.dim
      /\ NullOf(s) /\ NullOf(t) => s.dim # t.dim
  BY <1>1, SameType DEF RootOf, NullOf
<1>8. /\ NullOf(Null) /\ RootOf(Root) /\ \A u : ~ (RootOf(u) /\ NullOf(u))
      /\ RootOf(s) => Depth(s) = s.dim
      /\ RootOf(t) => Depth(t) = t.dim
  BY RootType DEF RootOf, NullOf, Depth
<1>9. QED
  BY <1>1, <1>4, <1>5, <1>6, <1>7, <1>8

\* What was known may be used where it and something else have been merged.
LEMMA AssignableMerge ==
  ASSUME NEW s, NEW t, IsType(s), IsType(t)
  PROVE  Assignable(t, Merge(s, t))
<1> DEFINE u == Merge(s, t)
<1>1. IsType(u)
  BY MergeFacts
<1>2. CASE u \in {t, Bogus}
  BY <1>1, <1>2, AssignableParts DEF Narrower
<1>3. CASE u \notin {t, Bogus}
  <2>1. s # t /\ IsReference(s) /\ IsReference(t) /\ s # Null
    BY <1>3 DEF Merge
  <2>2. t = Null => u = s
    BY <2>1 DEF Merge
  <2>3. CASE t = Null
    <3>1. Narrower(t, u)
      BY <2>1, <2>2, <2>3 DEF Narrower
    <3>2. QED
      BY <1>1, <3>1, AssignableParts
  <2>4. CASE t # Null /\ Root \in {s, t}
    <3>1. u = Root /\ IsReference(Root)
      BY <2>1, <2>4, ObjectType DEF Merge, Root
    <3>2. Narrower(t, u)
      BY <2>1, <3>1 DEF Narrower
    <3>3. QED
      BY <1>1, <3>2, AssignableParts
  <2>5. CASE t # Null /\ Root \notin {s, t}
    <3> DEFINE a == Promoted(s)
               b == Promoted(t)
               c == Array(a, 0)
               d == Array(b, 0)
               base == MergeClasses(c, d)
    <3>1. u = IF a.dim # b.dim THEN Array(Root, Min({a.dim, b.dim}))
              ELSE IF base = Bogus THEN Bogus
              ELSE Array(base, a.dim)
      BY <2>1, <2>5, ReferenceMerge
    <3>2. IsType(a) /\ a.item = "object" /\ a.dim \in Int
      BY PromotedType DEF IsType
    <3>3. /\ IsType(b) /\ b.item = "object" /\ b.dim = Depth(t) /\ b.dim \in Int
          /\ t.item = "object" => b = t
          /\ t.item # "object" => b.class = "Object" /\ b.at = 0
      BY PromotedType DEF Depth, IsType
    <3> HIDE DEF a, b
    <3>4. /\ IsType(c) /\ c.item = "object" /\ c.dim = 0 /\ c.class = a.class /\ c.at = a.at
          /\ IsType(d) /\ d.item = "object" /\ d.dim = 0 /\ d.class = b.class /\ d.at = b.at
      <4>1. 0 \in Int
        OBVIOUS
      <4>2. QED
        BY <3>2, <3>3, <4>1, ArrayType
    <3> HIDE DEF c, d
    <3>5. CASE a.dim # b.dim
      <4>1. Min({a.dim, b.dim}) \in Int /\ Min({a.dim, b.dim}) <= b.dim
        BY <3>2, <3>3, MinPair
      <4>2. RootOf(u) /\ u.dim <= Depth(t)
        <5> DEFINE m == Min({a.dim, b.dim})
        <5>1. u = Array(Root, m) /\ m \in Int /\ m <= Depth(t)
          BY <3>1, <3>3, <3>5, <4>1
        <5> HIDE DEF m, u
        <5>2. QED
          BY <5>1, RootType, ArrayType DEF RootOf, Value
      <4>3. IsReference(u)
        BY <4>2 DEF RootOf, IsReference
      <4>4. Narrower(t, u)
        BY <2>1, <2>5, <4>2, <4>3 DEF Narrower
      <4>5. QED
        BY <1>1, <4>4, AssignableParts
    <3>6. CASE a.dim = b.dim
      <4>1. base # Bogus /\ u = Array(base, a.dim)
        BY <1>3, <3>1, <3>6
      <4>2. base = c \/ base = d \/ base = Root
        BY <4>1 DEF MergeClasses
      <4> HIDE DEF base
      <4>3. /\ u.item = "object" /\ u.dim = b.dim /\ u.class = base.class /\ u.at = base.at
            /\ IsReference(u) /\ IsType(base)
        <5>1. IsType(base) /\ base.item = "object"
          BY <3>4, <4>2, RootType DEF Value
        <5>2. QED
          BY <3>2, <3>6, <4>1, <5>1, ArrayType DEF IsReference
      <4>4. RootOf(u) => Narrower(t, u)
        BY <2>1, <2>5, <3>3, <4>3 DEF Narrower
      <4>5. CASE base = Root
        BY <1>1, <4>3, <4>4, <4>5, RootType, AssignableParts DEF RootOf
      <4>6. CASE base = d
        <5>1. u = b
          BY <1>1, <3>3, <3>4, <4>3, <4>6, SameType
        <5>2. t.item # "object"
          BY <1>3, <3>3, <5>1
        <5>3. RootOf(u)
          BY <3>3, <5>1, <5>2 DEF RootOf
        <5>4. QED
          BY <1>1, <4>4, <5>3, AssignableParts
      <4>7. CASE base = c /\ base # d /\ base # Root
        <5>1. d = Null
          BY <4>1, <4>7 DEF MergeClasses, base
        <5>2. b.class = "null" /\ b.at = 0
          BY <3>4, <5>1, RootType
        <5>3. t.item = "object" /\ b = t
          BY <3>3, <5>2
        <5>4. NullOf(t) /\ u.dim = t.dim
          BY <4>3, <5>2, <5>3 DEF NullOf
        <5>5. u # Null
          BY <3>4, <4>3, <4>7, <5>1, RootType, SameType DEF Value
        <5>6. Narrower(t, u)
          BY <2>1, <4>3, <5>4, <5>5 DEF Narrower
        <5>7. QED
          BY <1>1, <5>6, AssignableParts
      <4>8. QED
        BY <4>2, <4>5, <4>6, <4>7
    <3>7. QED
      BY <3>5, <3>6
  <2>6. QED
    BY <2>3, <2>4, <2>5
<1>4. QED
  BY <1>2, <1>3

-----------------------------------------------------------------------------
(* What is learned of an instruction.                                      *)

LEMMA SameSequence ==
  ASSUME NEW s, NEW t, Sequence(s), Sequence(t), Len(s) = Len(t), \A k \in 1 .. Len(s) : s[k] = t[k]
  PROVE  s = t
<1>1. PICK S : s \in Seq(S)
  BY DEF Sequence
<1>2. PICK T : t \in Seq(T)
  BY DEF Sequence
<1>3. s = [k \in 1 .. Len(s) |-> s[k]] /\ t = [k \in 1 .. Len(t) |-> t[k]]
  BY <1>1, <1>2
<1>4. QED
  BY <1>3

Narrows(s, t) == Len(t) <= Len(s) /\ \A k \in 1 .. Len(t) : Assignable(s[k], t[k])

LEMMA NarrowsSelf ==
  ASSUME NEW s, Typed(s)
  PROVE  Narrows(s, s)
<1>1. Len(s) \in Nat
  BY SequenceFacts DEF Typed
<1>2. QED
  BY <1>1 DEF Narrows, Assignable, Merge

LEMMA NarrowsMore ==
  ASSUME NEW r, NEW s, NEW t, Typed(r), Typed(s), Typed(t), Narrows(r, s), Narrows(s, t)
  PROVE  Narrows(r, t)
<1>1. Len(r) \in Nat /\ Len(s) \in Nat /\ Len(t) \in Nat
  BY SequenceFacts DEF Typed
<1>2. ASSUME NEW k \in 1 .. Len(t) PROVE Assignable(r[k], t[k])
  <2>1. k \in 1 .. Len(s) /\ k \in 1 .. Len(r)
    BY <1>1 DEF Narrows
  <2>2. IsType(r[k]) /\ IsType(s[k]) /\ IsType(t[k]) /\ Assignable(r[k], s[k]) /\ Assignable(s[k], t[k])
    BY <2>1 DEF Narrows, Typed
  <2>3. QED
    BY <2>2, AssignableTransitive
<1>3. QED
  BY <1>1, <1>2 DEF Narrows

LEMMA NarrowsBoth ==
  ASSUME NEW s, NEW t, Typed(s), Typed(t), Narrows(s, t), Narrows(t, s)
  PROVE  s = t
<1>1. Len(s) \in Nat /\ Len(t) \in Nat /\ Sequence(s) /\ Sequence(t)
  BY SequenceFacts DEF Typed
<1>2. Len(s) = Len(t)
  BY <1>1 DEF Narrows
<1>3. \A k \in 1 .. Len(s) : s[k] = t[k]
  BY <1>2, AssignableBoth DEF Narrows, Typed
<1>4. QED
  BY <1>1, <1>2, <1>3, SameSequence

\* In the words of Shrinks, where there are no subroutines.
Narrowed(a, b) ==
  a.known => /\ b.known /\ Len(b.stack) = Len(a.stack)
             /\ Narrows(a.stack, b.stack) /\ Narrows(a.registers, b.registers)

LEMMA NarrowedShrinks ==
  ASSUME NEW l, NEW a, NEW b, Data(a, l), Data(b, l), Narrowed(a, b)
  PROVE  Shrinks(a, b)
<1>1. /\ Len(a.registers) \in Nat /\ Len(b.registers) \in Nat
      /\ DOMAIN b.stack = 1 .. Len(b.stack) /\ DOMAIN b.registers = 1 .. Len(b.registers)
  BY SequenceFacts DEF Data, Typed
<1>2. a.masks = <<>> /\ b.masks = <<>> /\ Len(<<>>) = 0 /\ DOMAIN <<>> = {}
  BY DEF Data
<1>3. QED
  BY <1>1, <1>2 DEF Narrowed, Narrows, Shrinks

SameContent(a, b) == a.known = b.known /\ a.stack = b.stack /\ a.registers = b.registers

\* A step of merge_into_successors: what is marked was so before or has
\* learned something.
Learns(a, b) ==
  /\ Narrowed(a, b)
  /\ b.known \/ b = a
  /\ b.changed => a.changed \/ ~ SameContent(a, b)

LEMMA LearnsSelf ==
  ASSUME NEW l, NEW a, Data(a, l)
  PROVE  Learns(a, a)
BY NarrowsSelf DEF Learns, Narrowed, Data

LEMMA LearnsMore ==
  ASSUME NEW l, NEW a, NEW b, NEW c, Data(a, l), Data(b, l), Data(c, l), Learns(a, b), Learns(b, c)
  PROVE  Learns(a, c)
<1>1. /\ Typed(a.stack) /\ Typed(b.stack) /\ Typed(c.stack)
      /\ Typed(a.registers) /\ Typed(b.registers) /\ Typed(c.registers)
  BY DEF Data
<1>2. Narrowed(a, b) /\ Narrowed(b, c)
  BY DEF Learns
<1>3. Narrowed(a, c)
  <2>1. SUFFICES ASSUME a.known PROVE Narrowed(a, c)
    BY DEF Narrowed
  <2>2. b.known /\ c.known
    BY <1>2, <2>1 DEF Narrowed
  <2>3. Narrows(a.stack, c.stack) /\ Narrows(a.registers, c.registers)
    BY <1>1, <1>2, <2>1, <2>2, NarrowsMore DEF Narrowed
  <2>4. QED
    BY <1>2, <2>1, <2>2, <2>3 DEF Narrowed
<1>4. c.known \/ c = a
  BY <1>2 DEF Learns, Narrowed
<1>5. ASSUME c.changed, ~ a.changed, SameContent(a, c) PROVE FALSE
  <2>1. CASE a.known
    <3>1. b.known /\ c.known
      BY <1>2, <2>1 DEF Narrowed
    <3>2. /\ Narrows(a.stack, b.stack) /\ Narrows(b.stack, a.stack)
          /\ Narrows(a.registers, b.registers) /\ Narrows(b.registers, a.registers)
      BY <1>2, <1>5, <2>1, <3>1 DEF Narrowed, SameContent
    <3>3. a.stack = b.stack /\ a.registers = b.registers
      BY <1>1, <3>2, NarrowsBoth
    <3>4. a.known = TRUE /\ b.known = TRUE /\ c.known = TRUE
      BY <2>1, <3>1 DEF Data
    <3>5. SameContent(a, b) /\ SameContent(b, c)
      BY <1>5, <3>3, <3>4 DEF SameContent
    <3>6. QED
      BY <1>5, <3>5 DEF Learns
  <2>2. CASE ~ a.known
    <3>1. ~ c.known
      BY <1>5, <2>2 DEF SameContent
    <3>2. ~ b.known
      BY <1>2, <3>1 DEF Narrowed
    <3>3. b = a /\ c = b
      BY <3>1, <3>2 DEF Learns
    <3>4. QED
      BY <1>5, <3>3
  <2>3. QED
    BY <2>1, <2>2
<1>6. QED
  BY <1>3, <1>4, <1>5 DEF Learns

LEMMA MergeStackNarrows ==
  ASSUME NEW old, NEW new, Typed(old), Typed(new)
  PROVE  Narrows(old, MergeStack(old, new))
<1>1. Len(old) \in Nat /\ DOMAIN old = 1 .. Len(old)
  BY SequenceFacts DEF Typed
<1>2. CASE Len(old) # Len(new)
  BY <1>2, NarrowsSelf DEF MergeStack
<1>3. CASE Len(old) = Len(new)
  <2> DEFINE m == MergeStack(old, new)
  <2>1. m = [k \in 1 .. Len(old) |-> Merge(new[k], old[k])]
    BY <1>1, <1>3 DEF MergeStack
  <2>2. Len(m) = Len(old)
    BY MergeStackFacts
  <2> HIDE DEF m
  <2>3. \A k \in 1 .. Len(old) : Assignable(old[k], m[k])
    BY <1>3, <2>1, AssignableMerge DEF Typed
  <2>4. Narrows(old, m)
    BY <1>1, <2>2, <2>3 DEF Narrows
  <2>5. QED
    BY <2>4 DEF m
<1>4. QED
  BY <1>2, <1>3

LEMMA MergeRegistersNarrows ==
  ASSUME NEW old, NEW new, Typed(old), Typed(new)
  PROVE  Narrows(old, MergeRegisters(old, new))
<1> DEFINE n == Min({Len(old), Len(new)})
           kept == SubSeq(old, 1, n)
           m == [k \in 1 .. n |-> Merge(new[k], kept[k])]
<1>1. Len(old) \in Nat /\ Len(new) \in Nat
  BY SequenceFacts DEF Typed
<1>2. n \in 0 .. Len(old) /\ n <= Len(new) /\ n \in Nat
  BY <1>1, MinPair
<1>3. Sequence(kept) /\ Len(kept) = n /\ \A k \in 1 .. n : kept[k] = old[k]
  BY <1>2, SequencePrefix DEF Typed
<1>4. DOMAIN kept = 1 .. n
  BY <1>3, SequenceFacts
<1>5. \A k \in 1 .. n : k \in 1 .. Len(old) /\ k \in 1 .. Len(new)
  BY <1>1, <1>2
<1>6. \A k \in 1 .. n : IsType(old[k]) /\ IsType(new[k])
  BY <1>5 DEF Typed
<1>7. MergeRegisters(old, new) = IF \A k \in 1 .. n : Assignable(new[k], kept[k]) THEN kept
                                 ELSE WithoutBogus(m)
  BY <1>4 DEF MergeRegisters
<1>8. m = [k \in 1 .. n |-> m[k]] /\ \A k \in 1 .. n : m[k] = Merge(new[k], old[k])
  BY <1>3
<1> HIDE DEF m, kept, n
<1>9. CASE \A k \in 1 .. n : Assignable(new[k], kept[k])
  <2>1. \A k \in 1 .. n : Assignable(old[k], kept[k])
    BY <1>3 DEF Assignable, Merge
  <2>2. QED
    BY <1>1, <1>2, <1>3, <1>7, <1>9, <2>1 DEF Narrows
<1>10. CASE ~ \A k \in 1 .. n : Assignable(new[k], kept[k])
  <2>1. Sequence(m) /\ Len(m) = n
    BY <1>2, <1>8, SequenceMade
  <2>2. PICK j \in 0 .. n : WithoutBogus(m) = SubSeq(m, 1, j)
    BY <2>1, WithoutBogusFacts
  <2> DEFINE r == SubSeq(m, 1, j)
  <2>3. Sequence(r) /\ Len(r) = j /\ \A k \in 1 .. j : r[k] = m[k]
    BY <2>1, SequencePrefix
  <2>4. MergeRegisters(old, new) = r
    BY <1>7, <1>10, <2>2
  <2> HIDE DEF r
  <2>5. \A k \in 1 .. j : k \in 1 .. n
    BY <1>2
  <2>6. \A k \in 1 .. j : Assignable(old[k], r[k])
    BY <1>6, <1>8, <2>3, <2>5, AssignableMerge
  <2>7. j <= Len(old)
    BY <1>1, <1>2
  <2>8. QED
    BY <2>3, <2>4, <2>6, <2>7 DEF Narrows
<1>11. QED
  BY <1>9, <1>10

LEMMA MergeIntoLearns ==
  ASSUME NEW l, NEW old, Data(old, l), NEW new, Typed(new.stack), Typed(new.registers),
         new.masks = <<>>, NEW d, d = MergeInto(old, new)
  PROVE  Learns(old, d)
<1> DEFINE stack == IF old.known THEN MergeStack(old.stack, new.stack) ELSE new.stack
           registers == IF old.known THEN MergeRegisters(old.registers, new.registers)
                        ELSE new.registers
           merged == [old EXCEPT !.known = TRUE, !.stack = stack, !.registers = registers,
                                 !.masks = <<>>]
<1>1. old \in [known : BOOLEAN, stack : {old.stack}, registers : {old.registers}, masks : {<<>>},
               changed : BOOLEAN, target : BOOLEAN, ret : {0}, successors : {<<>>}]
  BY DEF Data
<1>2. MergeMasks(old.masks, new.masks) = <<>>
  BY <1>1, NoMasks
<1> HIDE DEF stack, registers
<1>3. (IF old.known
       THEN [old EXCEPT !.stack     = MergeStack(@, new.stack),
                        !.registers = MergeRegisters(@, new.registers),
                        !.masks     = MergeMasks(@, new.masks)]
       ELSE [old EXCEPT !.known = TRUE, !.stack = new.stack,
                        !.registers = new.registers, !.masks = new.masks]) = merged
  BY <1>1, <1>2 DEF stack, registers
<1>4. d = [merged EXCEPT !.changed = @ \/ merged # old]
  BY <1>3 DEF MergeInto
<1> DEFINE All == [known : BOOLEAN, stack : {old.stack, stack},
                   registers : {old.registers, registers}, masks : {<<>>}, changed : BOOLEAN,
                   target : BOOLEAN, ret : {0}, successors : {<<>>}]
<1>5. old \in All /\ old.changed \in BOOLEAN
  BY <1>1
<1>6. /\ merged \in All /\ merged.known = TRUE /\ merged.stack = stack
      /\ merged.registers = registers /\ merged.changed = old.changed
      /\ merged.target = old.target
  BY <1>5
<1> HIDE DEF merged
<1>7. /\ d.known = TRUE /\ d.stack = stack /\ d.registers = registers
      /\ d.changed = (old.changed \/ merged # old)
  BY <1>4, <1>5, <1>6
<1>8. SameContent(old, d) => merged = old
  BY <1>5, <1>6, <1>7 DEF SameContent
<1>9. Narrowed(old, d)
  <2>1. SUFFICES ASSUME old.known
                 PROVE  /\ Len(stack) = Len(old.stack) /\ Narrows(old.stack, stack)
                        /\ Narrows(old.registers, registers)
    BY <1>7 DEF Narrowed
  <2>2. Typed(old.stack) /\ Typed(old.registers)
    BY DEF Data
  <2>3. QED
    BY <2>1, <2>2, MergeStackFacts, MergeStackNarrows, MergeRegistersNarrows DEF stack, registers
<1>10. QED
  BY <1>7, <1>8, <1>9 DEF Learns

-----------------------------------------------------------------------------
(* What is learned when an instruction is visited.                         *)

AllLearn(old, new, D) == \A k \in D : Learns(old[k], new[k])

LEMMA AllLearnSelf ==
  ASSUME NEW D, NEW l, NEW a, AllData(a, D, l)
  PROVE  AllLearn(a, a, D)
BY LearnsSelf DEF AllLearn, AllData

LEMMA AllLearnMore ==
  ASSUME NEW D, NEW l, NEW a, NEW b, NEW c, AllData(a, D, l), AllData(b, D, l), AllData(c, D, l),
         AllLearn(a, b, D), AllLearn(b, c, D)
  PROVE  AllLearn(a, c, D)
BY LearnsMore DEF AllLearn, AllData

\* Only the instructions of some places have become known.
KnownAt(old, new, D, places) == \A k \in D : new[k].known => old[k].known \/ k \in places

LEMMA FlowLearns ==
  ASSUME NEW D, NEW l \in Nat, NEW data, AllData(data, D, l), NEW e, Sendable(e, l)
  PROVE  /\ AllLearn(data, Flow(data, e), D) /\ KnownAt(data, Flow(data, e), D, {e.to})
<1>1. Flow(data, e) = [data EXCEPT ![e.to] = MergeInto(@, e)]
  BY DEF Flow, Sendable
<1>2. data = [k \in D |-> data[k]]
  BY DEF AllData
<1> DEFINE new == Flow(data, e)
           x == e.to
           Learned == MergeInto(data[x], e)
<1>3. new = [k \in D |-> IF k = x THEN Learned ELSE data[k]]
  <2> HIDE DEF Learned
  <2>1. new = [data EXCEPT ![x] = Learned]
    BY <1>1 DEF Learned
  <2>2. QED
    BY <1>2, <2>1
<1> HIDE DEF new
<1>4. \A k \in D : new[k] = IF k = x THEN Learned ELSE data[k]
  BY <1>3
<1>5. x \in D => Learns(data[x], Learned)
  BY MergeIntoLearns DEF AllData, Sendable
<1> HIDE DEF Learned, x
<1>6. \A k \in D : Learns(data[k], new[k])
  BY <1>4, <1>5, LearnsSelf DEF AllData
<1>7. \A k \in D : new[k].known => data[k].known \/ k = x
  BY <1>4
<1>8. QED
  BY <1>6, <1>7 DEF AllLearn, KnownAt, new, x

\* Where an instruction may lead to.
Leads(n) == {handlers[k].at : k \in Catching(handlers, n)} \cup
            {Successors(n)[k] : k \in 1 .. Len(Successors(n))}

LEMMA EdgeTo ==
  \A n, to, s, r, m, c : Edge(n, to, s, r, m, c).to = to
BY DEF Edge

LEMMA PassOnLearns ==
  ASSUME NEW D, NEW l \in Nat, NEW data, AllData(data, D, l), NEW n, AllSendable(n, l),
         Len(handlers) \in Nat, Len(Successors(n)) \in Nat,
         NEW k \in 1 .. Len(handlers) + Len(Successors(n))
  PROVE  /\ AllLearn(data, PassOn(data, n, k), D)
         /\ KnownAt(data, PassOn(data, n, k), D, Leads(n))
<1>1. CASE k > Len(handlers)
  <2> DEFINE j == k - Len(handlers)
             e == Passed(n, Successors(n)[j])
  <2>1. j \in 1 .. Len(Successors(n))
    BY <1>1
  <2>2. Sendable(e, l)
    BY <2>1 DEF AllSendable
  <2>3. PassOn(data, n, k) = Flow(data, e)
    BY <1>1 DEF PassOn
  <2>4. e.to = Successors(n)[j]
    BY EdgeTo DEF Passed
  <2> HIDE DEF e, j
  <2>5. e.to \in Leads(n)
    BY <2>1, <2>4 DEF Leads
  <2>6. AllLearn(data, Flow(data, e), D) /\ KnownAt(data, Flow(data, e), D, {e.to})
    BY <2>2, FlowLearns
  <2>7. QED
    BY <2>3, <2>5, <2>6 DEF KnownAt
<1>2. CASE ~ (k > Len(handlers)) /\ k \notin Catching(handlers, n)
  <2>1. PassOn(data, n, k) = data
    BY <1>2 DEF PassOn
  <2>2. QED
    BY <2>1, AllLearnSelf DEF KnownAt
<1>3. CASE ~ (k > Len(handlers)) /\ k \in Catching(handlers, n)
  <2> DEFINE e == Caught(n, handlers[k])
             f == CaughtAfter(n, handlers[k])
             once == Flow(data, e)
             twice == Flow(once, f)
  <2>1. k \in DOMAIN handlers
    BY <1>3 DEF Catching
  <2>2. Sendable(e, l) /\ Sendable(f, l)
    BY <2>1 DEF AllSendable
  <2>3. PassOn(data, n, k) = IF code[n].op # "invokeinit" THEN once ELSE twice
    BY <1>3 DEF PassOn
  <2>4. e.to = handlers[k].at /\ f.to = handlers[k].at
    BY EdgeTo DEF Caught, CaughtAfter
  <2>5. handlers[k].at \in Leads(n)
    BY <1>3 DEF Leads
  <2> HIDE DEF e, f
  <2>6. AllData(once, D, l) /\ AllLearn(data, once, D) /\ KnownAt(data, once, D, {e.to})
    BY <2>2, FlowFacts, FlowLearns
  <2> HIDE DEF once
  <2>7. AllData(twice, D, l) /\ AllLearn(once, twice, D) /\ KnownAt(once, twice, D, {f.to})
    BY <2>2, <2>6, FlowFacts, FlowLearns
  <2> HIDE DEF twice
  <2>8. AllLearn(data, twice, D)
    BY <2>6, <2>7, AllLearnMore
  <2>9. KnownAt(data, once, D, Leads(n)) /\ KnownAt(data, twice, D, Leads(n))
    BY <2>4, <2>5, <2>6, <2>7 DEF KnownAt
  <2>10. QED
    BY <2>3, <2>6, <2>8, <2>9
<1>4. QED
  BY <1>1, <1>2, <1>3

LEMMA PassedOnLearns ==
  ASSUME NEW D, NEW l \in Nat, NEW data, AllData(data, D, l), NEW n, AllSendable(n, l),
         Len(handlers) \in Nat, Len(Successors(n)) \in Nat
  PROVE  /\ AllLearn(data, PassedOn(data, n), D)
         /\ KnownAt(data, PassedOn(data, n), D, Leads(n))
<1> DEFINE last == Len(handlers) + Len(Successors(n))
<1>1. last \in Nat
  OBVIOUS
<1>2. PICK passed : PassedBy(passed, data, n, last)
  BY <1>1, PassedOnSteps
<1>3. /\ PassedOn(data, n) = passed[last] /\ passed[0] = data
      /\ \A k \in 1 .. last : passed[k] = PassOn(passed[k - 1], n, k)
  BY <1>2 DEF PassedBy
<1> DEFINE Good(new) == /\ AllData(new, D, l) /\ AllLearn(data, new, D)
                        /\ KnownAt(data, new, D, Leads(n))
           S == {m \in Nat : m <= last => Good(passed[m])}
<1>4. 0 \in S
  BY <1>3, AllLearnSelf DEF KnownAt
<1>5. ASSUME NEW m \in Nat, m \in S PROVE m + 1 \in S
  <2>1. SUFFICES ASSUME m + 1 <= last PROVE Good(passed[m + 1])
    OBVIOUS
  <2>2. m <= last /\ m + 1 \in 1 .. last /\ (m + 1) - 1 = m
    BY <1>1, <2>1
  <2> DEFINE a == passed[m]
             b == passed[m + 1]
  <2>3. Good(a)
    BY <1>5, <2>2
  <2>4. b = PassOn(a, n, m + 1)
    BY <1>3, <2>2
  <2> HIDE DEF a, b
  <2>5. AllData(b, D, l) /\ AllLearn(a, b, D) /\ KnownAt(a, b, D, Leads(n))
    BY <2>2, <2>3, <2>4, PassOnFacts, PassOnLearns
  <2>6. AllLearn(data, b, D)
    BY <2>3, <2>5, AllLearnMore
  <2>7. KnownAt(data, b, D, Leads(n))
    BY <2>3, <2>5 DEF KnownAt
  <2>8. QED
    BY <2>5, <2>6, <2>7 DEF b
<1>6. S \in SUBSET Nat
  OBVIOUS
<1> HIDE DEF S
<1>7. S = Nat
  BY <1>4, <1>5, <1>6, Least
<1>8. Good(passed[last])
  BY <1>1, <1>7 DEF S
<1>9. QED
  BY <1>3, <1>8

\* A visit of run_dataflow is the last of its instruction unless an
\* instruction that it passes to learns something.
LEMMA VisitLearns ==
  ASSUME PlainMethod(original), PlainInv, Flowing
  PROVE  Learning /\ KnownAt(info, info', 1 .. Len(code), Leads(Next1))
<1> DEFINE n == Next1
           D == 1 .. Len(code)
           l == original.locals
           marked == Marked(n)
<1>1. phase = "flow" /\ Changed # {} /\ Visit(n)
  BY DEF Flowing
<1>2. n \in D
  BY <1>1, NextOne
<1>3. info' = PassedOn(marked, n) /\ inumber' = n + 1
  BY <1>1 DEF Visit
<1>4. /\ AllData(info, D, l) /\ l \in Nat /\ DOMAIN code = D /\ Len(code) \in Nat
      /\ \A k \in D : PlainInstruction(code[k], l) /\ Data(info[k], l) /\ code[k].op \notin {"jsr", "ret"}
  BY PlainFacts DEF PlainInv, PlainMethod
<1>5. /\ AllData(marked, D, l)
      /\ \A k \in D : /\ marked[k].changed = (info[k].changed /\ k # n)
                      /\ marked[k].known = info[k].known /\ marked[k].stack = info[k].stack
                      /\ marked[k].registers = info[k].registers
  BY <1>2, <1>4, MarkedFacts
<1> HIDE DEF n, marked
<1>6. Len(handlers) \in Nat /\ Len(Successors(n)) \in Nat /\ AllSendable(n, l)
  BY <1>2, <1>4, SequenceFacts, SuccessorFacts, EdgesSendable DEF PlainInv
<1>7. /\ AllData(info', D, l) /\ AllLearn(marked, info', D) /\ KnownAt(marked, info', D, Leads(n))
  BY <1>2, <1>3, <1>4, <1>5, <1>6, PassedOnFacts, PassedOnLearns
<1>8. KnownAt(info, info', D, Leads(n))
  BY <1>5, <1>7 DEF KnownAt
<1>9. ASSUME NEW k \in D
      PROVE  /\ Shrinks(info[k], info'[k])
             /\ info'[k].changed => \/ info[k].changed /\ k # inumber' - 1
                                    \/ Content(info'[k]) # Content(info[k])
  <2> DEFINE a == info[k]
             b == info'[k]
             c == marked[k]
  <2>1. /\ Data(a, l) /\ Data(b, l) /\ Learns(c, b) /\ c.changed = (a.changed /\ k # n)
        /\ c.known = a.known /\ c.stack = a.stack /\ c.registers = a.registers
    BY <1>4, <1>5, <1>7 DEF AllData, AllLearn
  <2>2. inumber' - 1 = n
    BY <1>2, <1>3, <1>4
  <2> HIDE DEF a, b, c
  <2>3. Narrowed(a, b)
    BY <2>1 DEF Learns, Narrowed
  <2>4. Shrinks(a, b)
    BY <2>1, <2>3, NarrowedShrinks
  <2>5. b.changed => \/ a.changed /\ k # n
                     \/ Content(b) # Content(a)
    BY <2>1 DEF Learns, SameContent, Content
  <2>6. QED
    BY <2>2, <2>4, <2>5 DEF a, b
<1>10. QED
  BY <1>4, <1>8, <1>9 DEF Learning, n


-----------------------------------------------------------------------------
(* Which instructions a method comes to.                                   *)

Goes(i, n) == CASE i.op = "if"     -> {n + 1, i.to}
                [] i.op = "goto"   -> {i.to}
                [] i.op = "return" -> {}
                [] OTHER           -> {n + 1}
Ways(c, hs, n) == {hs[k].at : k \in Catching(hs, n)} \cup Goes(c[n], n)

\* Instructions that are never left.
Closed(S, c, hs) ==
  /\ S \in SUBSET (1 .. Len(c)) /\ 1 \in S
  /\ \A n \in S : \A m \in Ways(c, hs, n) : m \in 1 .. Len(c) => m \in S

\* Every instruction is come to.
NoneDead(c, hs) == \A S : Closed(S, c, hs) => \A n \in 1 .. Len(c) : n \in S

\* Only what is come to is known.
KnownWithin ==
  \A S : Closed(S, code, handlers) => \A n \in 1 .. Len(code) : info[n].known => n \in S

LEMMA LeadsWays ==
  ASSUME NEW n, code[n].op \notin {"jsr", "ret"}
  PROVE  Leads(n) = Ways(code, handlers, n)
<1> DEFINE all == {Successors(n)[k] : k \in 1 .. Len(Successors(n))}
<1>1. all = Goes(code[n], n)
  <2>1. CASE code[n].op = "if"
    <3>1. /\ Len(Successors(n)) = 2 /\ Successors(n)[1] = n + 1 /\ Successors(n)[2] = code[n].to
      BY <2>1, SuccessorFacts
    <3>2. 1 .. 2 = {1, 2}
      OBVIOUS
    <3>3. all = {Successors(n)[k] : k \in {1, 2}}
      BY <3>1, <3>2
    <3>4. all = {n + 1, code[n].to}
      BY <3>1, <3>3
    <3> HIDE DEF all
    <3>5. QED
      BY <2>1, <3>4 DEF Goes
  <2>2. CASE code[n].op = "goto"
    <3>1. Len(Successors(n)) = 1 /\ Successors(n)[1] = code[n].to
      BY <2>2, SuccessorFacts
    <3>2. 1 .. 1 = {1}
      OBVIOUS
    <3>3. all = {code[n].to}
      BY <3>1, <3>2
    <3> HIDE DEF all
    <3>4. QED
      BY <2>2, <3>3 DEF Goes
  <2>3. CASE code[n].op = "return"
    <3>1. Len(Successors(n)) = 0
      BY <2>3, SuccessorFacts
    <3>2. 1 .. 0 = {}
      OBVIOUS
    <3>3. all = {}
      BY <3>1, <3>2
    <3> HIDE DEF all
    <3>4. QED
      BY <2>3, <3>3 DEF Goes
  <2>4. CASE code[n].op \notin {"if", "goto", "return"}
    <3>1. Len(Successors(n)) = 1 /\ Successors(n)[1] = n + 1
      BY <2>4, SuccessorFacts
    <3>2. 1 .. 1 = {1}
      OBVIOUS
    <3>3. all = {n + 1}
      BY <3>1, <3>2
    <3> HIDE DEF all
    <3>4. QED
      BY <2>4, <3>3 DEF Goes
  <2>5. QED
    BY <2>1, <2>2, <2>3, <2>4
<1> HIDE DEF all
<1>2. QED
  BY <1>1 DEF Leads, Ways, all

\* What has been told everyone it leads to has done so within what is known.
LEMMA HeardKnown ==
  ASSUME PlainInv, NEW n \in 1 .. Len(code), AllHeard(n), NEW m \in 1 .. Len(code), m \in Leads(n)
  PROVE  info[m].known
<1>1. /\ Len(handlers) \in Nat /\ DOMAIN handlers = 1 .. Len(handlers)
      /\ Len(Successors(n)) \in Nat
  BY SequenceFacts, SuccessorFacts, PlainFacts DEF PlainInv
<1>2. CASE m \in {handlers[k].at : k \in Catching(handlers, n)}
  <2>1. PICK k \in Catching(handlers, n) : m = handlers[k].at
    BY <1>2
  <2>2. k \in 1 .. Len(handlers)
    BY <1>1 DEF Catching
  <2>3. k \in 1 .. Len(handlers) + Len(Successors(n)) /\ ~ (k > Len(handlers))
    BY <1>1, <2>2
  <2>4. Heard(info, 1 .. Len(code), n, k)
    BY <2>3 DEF AllHeard
  <2>5. Hears(Caught(n, handlers[k]), info, 1 .. Len(code))
    BY <2>1, <2>3, <2>4 DEF Heard
  <2>6. Caught(n, handlers[k]).to = m
    BY <2>1, EdgeTo DEF Caught
  <2>7. QED
    BY <2>5, <2>6 DEF Hears, Told
<1>3. CASE m \in {Successors(n)[k] : k \in 1 .. Len(Successors(n))}
  <2>1. PICK j \in 1 .. Len(Successors(n)) : m = Successors(n)[j]
    BY <1>3
  <2> DEFINE k == Len(handlers) + j
  <2>2. k \in 1 .. Len(handlers) + Len(Successors(n)) /\ k > Len(handlers) /\ k - Len(handlers) = j
    BY <1>1
  <2> HIDE DEF k
  <2>3. Heard(info, 1 .. Len(code), n, k)
    BY <2>2 DEF AllHeard
  <2>4. Hears(Passed(n, m), info, 1 .. Len(code))
    BY <2>1, <2>2, <2>3 DEF Heard
  <2>5. Passed(n, m).to = m
    BY EdgeTo DEF Passed
  <2>6. QED
    BY <2>4, <2>5 DEF Hears, Told
<1>4. QED
  BY <1>2, <1>3 DEF Leads

\* When nothing is left to visit, what is known is never left.
LEMMA KnownClosed ==
  ASSUME PlainInv, Changed = {}
  PROVE  Closed({n \in 1 .. Len(code) : info[n].known}, code, handlers)
<1> DEFINE S == {n \in 1 .. Len(code) : info[n].known}
<1>1. /\ 1 \in 1 .. Len(code) /\ DOMAIN info = 1 .. Len(code)
      /\ \A n \in 1 .. Len(code) : code[n].op \notin {"jsr", "ret"}
  BY PlainFacts
<1>2. 1 \in S
  BY <1>1 DEF PlainInv, Told
<1>3. ASSUME NEW n \in S, NEW m \in Ways(code, handlers, n), m \in 1 .. Len(code) PROVE m \in S
  <2>1. n \in 1 .. Len(code) /\ info[n].known
    BY <1>3
  <2>2. ~ info[n].changed
    BY <1>1, <2>1 DEF Changed
  <2>3. AllHeard(n)
    BY <2>1, <2>2 DEF PlainInv
  <2>4. m \in Leads(n)
    BY <1>1, <1>3, <2>1, LeadsWays
  <2>5. info[m].known
    BY <1>3, <2>1, <2>3, <2>4, HeardKnown
  <2>6. QED
    BY <1>3, <2>5
<1>4. QED
  BY <1>2, <1>3 DEF Closed

LEMMA NoneUnknown ==
  ASSUME PlainInv, Changed = {}, NoneDead(code, handlers)
  PROVE  \A n \in 1 .. Len(code) : info[n].known
BY KnownClosed DEF NoneDead

\* A visit makes nothing known that is not come to.
LEMMA VisitWithin ==
  ASSUME PlainMethod(original), PlainInv, Flowing, KnownWithin
  PROVE  KnownWithin'
<1>1. /\ code' = code /\ handlers' = handlers
      /\ Next1 \in 1 .. Len(code) /\ info[Next1].known
      /\ KnownAt(info, info', 1 .. Len(code), Leads(Next1))
  BY NextOne, VisitLearns DEF Flowing, Visit, method
<1>2. code[Next1].op \notin {"jsr", "ret"}
  BY <1>1, PlainFacts
<1>3. Leads(Next1) = Ways(code, handlers, Next1)
  BY <1>2, LeadsWays
<1>4. ASSUME NEW S, Closed(S, code, handlers), NEW n \in 1 .. Len(code), info'[n].known
      PROVE  n \in S
  <2>1. info[n].known \/ n \in Ways(code, handlers, Next1)
    BY <1>1, <1>3, <1>4 DEF KnownAt
  <2>2. Next1 \in S
    BY <1>1, <1>4 DEF KnownWithin
  <2>3. QED
    BY <1>4, <2>1, <2>2 DEF KnownWithin, Closed
<1>5. QED
  BY <1>1, <1>4 DEF KnownWithin

-----------------------------------------------------------------------------
(* The code that a rewriting makes has no dead code.                       *)

LEMMA OffsetFacts ==
  ASSUME PlainInv, NEW refs, refs = Inlined, NEW k \in 1 .. Len(refs)
  PROVE  Offset(refs, k) = k
<1>1. Len(refs) \in Nat
  BY CopiesLeft
<1>2. {j \in 1 .. (k - 1) : ~ Skipped(refs, j)} = 1 .. (k - 1)
  BY <1>1, NoneSkipped
<1>3. Cardinality(1 .. (k - 1)) = k - 1
  <2>1. k \in Int /\ k - 1 \in Int /\ 1 \in Int /\ ~ (1 > k) /\ k >= 1
    BY <1>1
  <2>2. Cardinality(1 .. (k - 1)) = IF 1 > k - 1 THEN 0 ELSE (k - 1) - 1 + 1
    BY <2>1, FS_Interval
  <2>3. QED
    BY <2>1, <2>2
<1> DEFINE T == {j \in 1 .. (k - 1) : ~ Skipped(refs, j)}
<1>4. Offset(refs, k) = 1 + Cardinality(T)
  BY DEF Offset
<1>5. Cardinality(T) = k - 1
  BY <1>2, <1>3
<1> HIDE DEF T
<1>6. QED
  BY <1>1, <1>4, <1>5

LEMMA GoOut == MayGo(<<>>, <<>>)
BY EmptySequence DEF MayGo, IsPrefix

\* There is one copy of an instruction.
LEMMA PlaceFacts ==
  ASSUME PlainInv, NEW refs, refs = Inlined, NEW k \in 1 .. Len(refs)
  PROVE  Place(refs, refs[k].n, <<>>) = k
<1>1. /\ Len(refs) \in Nat /\ DOMAIN refs = 1 .. Len(refs) /\ Len(code) \in Nat
      /\ \A j \in 1 .. Len(refs) : refs[j].n \in 1 .. Len(code) /\ refs[j].sub = <<>>
      /\ \A i, j \in 1 .. Len(refs) : i < j => refs[i].n < refs[j].n
  BY CopiesLeft, PlainFacts DEF LeftInOrder
<1> DEFINE T == {j \in DOMAIN refs : refs[j].n = refs[k].n /\ MayGo(<<>>, refs[j].sub)}
<1>2. k \in T
  BY <1>1, GoOut
<1>3. ASSUME NEW j \in T PROVE j = k
  <2>1. j \in 1 .. Len(refs) /\ refs[j].n = refs[k].n /\ refs[j].n \in Int
    BY <1>1
  <2>2. ~ (j < k) /\ ~ (k < j)
    BY <1>1, <2>1
  <2>3. QED
    BY <1>1, <2>1, <2>2
<1>4. T = {k}
  BY <1>2, <1>3
<1>5. Max({k}) = k
  BY <1>1 DEF Max
<1>6. Place(refs, refs[k].n, <<>>) = Max(T)
  BY DEF Place
<1> HIDE DEF T
<1>7. QED
  BY <1>4, <1>5, <1>6

\* One handler more for the instructions that a handler guards.
LEMMA OwnFacts ==
  ASSUME PlainInv, NEW refs, refs = Inlined, NEW h, NEW c \in 1 .. Len(refs), NEW j
  PROVE  OwnAt(refs, h, c, j) <=> j \in 1 .. Len(refs) /\ refs[j].n \in h.from..(h.end - 1)
<1>1. /\ DOMAIN Kept(refs) = 1 .. Len(refs) /\ \A k \in 1 .. Len(refs) : Kept(refs)[k] = k
  BY KeptFacts DEF InPlace
<1>2. \A k \in 1 .. Len(refs) : refs[k].sub = <<>>
  BY CopiesLeft DEF LeftInOrder
<1>3. QED
  BY <1>1, <1>2, GoOut DEF OwnAt

\* The run of guarded instructions that an instruction lies in.
LEMMA RunAround ==
  ASSUME PlainInv, NEW refs, refs = Inlined, NEW h, NEW c \in 1 .. Len(refs),
         NEW j \in 1 .. Len(refs), OwnAt(refs, h, c, j)
  PROVE  \E first \in 1 .. Len(refs) :
            /\ OwnAt(refs, h, c, first) /\ ~ OwnAt(refs, h, c, first - 1)
            /\ j \in first..(RunEnd(refs, h, c, first) - 1)
<1> DEFINE N == Len(refs)
           T == {f \in 1 .. j : \A x \in f .. j : OwnAt(refs, h, c, x)}
           f0 == Min(T)
<1>1. N \in Nat /\ j \in Nat /\ j >= 1 /\ j <= N /\ Len(Kept(refs)) = N
  BY CopiesLeft, KeptFacts DEF InPlace
<1>2. T \in SUBSET Nat /\ j \in T
  BY <1>1
<1>3. f0 \in T /\ \A m \in T : f0 <= m
  <2> HIDE DEF T
  <2> QED BY <1>2, LeastElement
<1>4. /\ f0 \in 1 .. j /\ f0 \in Nat /\ f0 >= 1 /\ f0 <= j
      /\ \A x \in f0 .. j : OwnAt(refs, h, c, x)
  BY <1>1, <1>3
<1>5. ~ OwnAt(refs, h, c, f0 - 1)
  <2>1. SUFFICES ASSUME OwnAt(refs, h, c, f0 - 1) PROVE FALSE
    OBVIOUS
  <2>2. f0 - 1 \in 1 .. N
    BY <2>1, OwnFacts
  <2> HIDE DEF f0
  <2>3. \A x \in (f0 - 1) .. j : x = f0 - 1 \/ x \in f0 .. j
    BY <1>1, <1>4
  <2>4. f0 - 1 \in 1 .. j
    BY <1>1, <1>4, <2>2
  <2>5. f0 - 1 \in T
    BY <1>4, <2>1, <2>3, <2>4
  <2>6. f0 <= f0 - 1
    BY <1>3, <2>5
  <2>7. QED
    BY <1>4, <2>6
<1> DEFINE E == {x \in (f0 + 1) .. (N + 1) : ~ OwnAt(refs, h, c, x)}
<1>6. RunEnd(refs, h, c, f0) = Min(E)
  BY <1>1 DEF RunEnd
<1> HIDE DEF f0, T
<1>7. E \in SUBSET Nat /\ N + 1 \in E
  <2>1. ~ OwnAt(refs, h, c, N + 1)
    BY <1>1, OwnFacts
  <2>2. QED
    BY <1>1, <1>4, <2>1
<1>8. Min(E) \in E
  <2> HIDE DEF E
  <2> QED BY <1>7, LeastElement
<1>9. Min(E) \in Nat /\ Min(E) >= f0 + 1 /\ ~ OwnAt(refs, h, c, Min(E))
  BY <1>1, <1>4, <1>8
<1> HIDE DEF E
<1>10. Min(E) > j
  <2>1. ~ (Min(E) \in f0 .. j)
    BY <1>4, <1>9
  <2>2. QED
    BY <1>1, <1>4, <1>9, <2>1
<1>11. f0 \in 1 .. Len(refs) /\ j \in f0 .. (Min(E) - 1) /\ f0 \in f0 .. j
  BY <1>1, <1>4, <1>9, <1>10
<1>12. OwnAt(refs, h, c, f0)
  BY <1>4, <1>11
<1>13. QED
  BY <1>5, <1>6, <1>11, <1>12

LEMMA RunShape ==
  ASSUME NEW refs, NEW h, HandlerShape(h), NEW c, NEW first, NEW r, r = RunFrom(refs, h, c, first)
  PROVE  /\ HandlerShape(r) /\ r.at = Offset(refs, c) /\ r.from = first
         /\ r.end = RunEnd(refs, h, c, first)
<1> DEFINE a == Offset(refs, c)
           e == RunEnd(refs, h, c, first)
<1>1. r = [h EXCEPT !.at = a, !.from = first, !.end = e]
  BY DEF RunFrom
<1> HIDE DEF a, e
<1>2. r = [from |-> first, end |-> e, at |-> a, class |-> h.class]
  BY <1>1 DEF HandlerShape
<1>3. QED
  BY <1>2 DEF HandlerShape, a, e

Guards(h, n) == n \in h.from..(h.end - 1)
LeadTo(hs, at, n) == \E x \in DOMAIN hs : hs[x].at = at /\ Guards(hs[x], n)
StillGuarded(new, refs) ==
  \A k \in 1 .. Len(handlers), c \in 1 .. Len(refs), j \in 1 .. Len(refs) :
    refs[c].n = handlers[k].at /\ Guards(handlers[k], refs[j].n) => LeadTo(new, c, j)

\* Handlers that guard what those guard that they are made of.
LEMMA HandlersLeft ==
  ASSUME PlainInv, HandlersMade(handlers), NEW refs, refs = Inlined, NEW all, NEW new,
         all = [k \in DOMAIN handlers |-> CopiesOf(refs, handlers[k])], new = FlattenSeq(all)
  PROVE  /\ HandlersMade(new)
         /\ StillGuarded(new, refs)
<1>1. /\ Len(refs) \in Nat /\ DOMAIN refs = 1 .. Len(refs) /\ Len(Kept(refs)) = Len(refs)
      /\ Len(handlers) \in Nat /\ DOMAIN handlers = 1 .. Len(handlers)
  BY CopiesLeft, KeptFacts, SequenceFacts DEF PlainInv, InPlace
<1>2. /\ all = [k \in 1 .. Len(handlers) |-> all[k]]
      /\ \A k \in 1 .. Len(handlers) : all[k] = CopiesOf(refs, handlers[k])
  BY <1>1
<1>3. Sequence(all) /\ Len(all) = Len(handlers)
  BY <1>1, <1>2, SequenceMade
<1>4. \A k \in 1 .. Len(all) : /\ Sequence(all[k])
                               /\ \A i \in 1 .. Len(all[k]) : IsRun(all[k][i], refs, handlers[k])
                               /\ HasRuns(all[k], refs, handlers[k])
  BY <1>1, <1>2, <1>3, HandlerCopies
<1>5. Sequence(new) /\ AllIn(new, all) /\ OnlyIn(new, all)
  BY <1>3, <1>4, FlattenFacts
<1>6. DOMAIN new = 1 .. Len(new)
  BY <1>5, SequenceFacts
<1>7. HandlersMade(new)
  <2>1. SUFFICES ASSUME NEW i \in 1 .. Len(new) PROVE HandlerShape(new[i])
    BY DEF HandlersMade
  <2>2. PICK k \in 1 .. Len(all) : \E m \in 1 .. Len(all[k]) : new[i] = all[k][m]
    BY <1>5 DEF OnlyIn
  <2>3. IsRun(new[i], refs, handlers[k])
    BY <1>4, <2>2
  <2>4. HandlerShape(handlers[k])
    BY <1>3, <2>2 DEF HandlersMade
  <2>5. PICK c, first : new[i] = RunFrom(refs, handlers[k], c, first)
    BY <2>3 DEF IsRun
  <2>6. QED
    BY <2>4, <2>5, RunShape
<1>8. ASSUME NEW k \in 1 .. Len(handlers), NEW c \in 1 .. Len(refs), NEW j \in 1 .. Len(refs),
             refs[c].n = handlers[k].at, Guards(handlers[k], refs[j].n)
      PROVE  LeadTo(new, c, j)
  <2>1. OwnAt(refs, handlers[k], c, j)
    BY <1>8, OwnFacts DEF Guards
  <2>2. PICK first \in 1 .. Len(refs) :
            /\ OwnAt(refs, handlers[k], c, first) /\ ~ OwnAt(refs, handlers[k], c, first - 1)
            /\ j \in first..(RunEnd(refs, handlers[k], c, first) - 1)
    BY <2>1, RunAround
  <2>3. HasRuns(all[k], refs, handlers[k]) /\ HasAll(new, all[k])
    BY <1>3, <1>4, <1>5 DEF AllIn
  <2>4. PICK i \in 1 .. Len(all[k]) : all[k][i] = RunFrom(refs, handlers[k], c, first)
    BY <1>1, <1>8, <2>2, <2>3 DEF HasRuns
  <2>5. PICK x \in 1 .. Len(new) : new[x] = all[k][i]
    BY <2>3 DEF HasAll
  <2>6. HandlerShape(handlers[k])
    BY DEF HandlersMade
  <2>7. new[x] = RunFrom(refs, handlers[k], c, first)
    BY <2>4, <2>5
  <2>8. /\ new[x].at = Offset(refs, c) /\ new[x].from = first
        /\ new[x].end = RunEnd(refs, handlers[k], c, first)
    BY <2>6, <2>7, RunShape
  <2>9. Offset(refs, c) = c
    BY OffsetFacts
  <2>10. QED
    BY <1>6, <2>2, <2>8, <2>9 DEF LeadTo, Guards
<1>9. StillGuarded(new, refs)
  BY <1>8 DEF StillGuarded
<1>10. QED
  BY <1>7, <1>9

LEMMA FixedTo ==
  ASSUME PlainInv, NEW refs, refs = Inlined, NEW j \in 1 .. Len(refs),
         NEW i, i = code[refs[j].n], NEW x, x = Fixed(refs, j)
  PROVE  /\ x.op = i.op
         /\ \A k \in 1 .. Len(refs) : i.op \in {"if", "goto"} /\ refs[k].n = i.to => x.to = k
<1> DEFINE to == Offset(refs, Place(refs, i.to, <<>>))
<1>1. PlainInstruction(i, original.locals) /\ refs[j].sub = <<>>
  BY CopiesLeft, PlainFacts DEF LeftInOrder
<1>2. i.op \notin {"jsr", "ret"}
  BY <1>1 DEF PlainInstruction
<1>3. x = IF i.op \in {"if", "goto"} THEN [i EXCEPT !.to = to] ELSE i
  BY <1>1, <1>2 DEF Fixed
<1>4. ASSUME NEW k \in 1 .. Len(refs), refs[k].n = i.to PROVE to = k
  BY <1>4, PlaceFacts, OffsetFacts
<1> HIDE DEF to
<1>5. i \in [op : {i.op}, takes : {i.takes}, gives : {i.gives}, var : {i.var}, to : {i.to, to},
             copy : {i.copy}]
  BY <1>1 DEF PlainInstruction
<1>6. x.op = i.op /\ (i.op \in {"if", "goto"} => x.to = to)
  BY <1>3, <1>5
<1>7. QED
  BY <1>4, <1>6

\* Instructions that follow each other still do.
LEMMA StillNext ==
  ASSUME PlainInv, NEW refs, refs = Inlined, NEW j \in 1 .. Len(refs), NEW k \in 1 .. Len(refs),
         refs[k].n = refs[j].n + 1
  PROVE  k = j + 1
<1>1. /\ Len(refs) \in Nat /\ Len(code) \in Nat
      /\ \A x \in 1 .. Len(refs) : refs[x].n \in 1 .. Len(code)
      /\ \A x, y \in 1 .. Len(refs) : x < y => refs[x].n < refs[y].n
  BY CopiesLeft, PlainFacts DEF LeftInOrder
<1>2. j \in Nat /\ k \in Nat /\ refs[j].n \in Nat /\ refs[k].n \in Nat
  BY <1>1
<1>3. j < k
  <2>1. ~ (k < j) /\ k # j
    BY <1>1, <1>2
  <2>2. QED
    BY <1>2, <2>1
<1>4. ASSUME j + 1 < k PROVE FALSE
  <2>1. j + 1 \in 1 .. Len(refs) /\ j < j + 1
    BY <1>1, <1>2, <1>4
  <2>2. refs[j].n < refs[j + 1].n /\ refs[j + 1].n < refs[k].n /\ refs[j + 1].n \in Nat
    BY <1>1, <1>4, <2>1
  <2>3. QED
    BY <1>2, <2>2
<1>5. QED
  BY <1>2, <1>3, <1>4

\* What a rewriting does to a method without subroutines.
LEMMA Rewritten ==
  ASSUME PlainInv, Rewrite, NEW refs, refs = Inlined
  PROVE  /\ Len(code') = Len(refs) /\ \A j \in 1 .. Len(refs) : code'[j] = Fixed(refs, j)
         /\ handlers' = FlattenSeq([k \in DOMAIN handlers |-> CopiesOf(refs, handlers[k])])
         /\ info' = Fresh(code', original.args) /\ original' = original
         /\ Changed = {} /\ \E n \in 1 .. Len(code) : ~ info[n].known
<1> DEFINE kept == Kept(refs)
           c == code'
<1>1. /\ c = [j \in DOMAIN kept |-> Fixed(refs, kept[j])]
      /\ handlers' = FlattenSeq([k \in DOMAIN handlers |-> CopiesOf(refs, handlers[k])])
      /\ info' = Fresh(code', original.args) /\ original' = original
  BY DEF Rewrite
<1>2. Changed = {} /\ \E n \in 1 .. Len(code) : ~ info[n].known
  BY PlainFacts DEF Rewrite, Settled
<1>3. /\ Len(refs) \in Nat /\ DOMAIN kept = 1 .. Len(refs)
      /\ \A j \in 1 .. Len(refs) : kept[j] = j
  BY CopiesLeft, KeptFacts DEF InPlace
<1> HIDE DEF kept, c
<1>4. c = [j \in 1 .. Len(refs) |-> c[j]] /\ \A j \in 1 .. Len(refs) : c[j] = Fixed(refs, j)
  BY <1>1, <1>3
<1>5. Len(c) = Len(refs)
  BY <1>3, <1>4, SequenceMade
<1>6. QED
  BY <1>1, <1>2, <1>4, <1>5 DEF c

\* Wherever an instruction that is left leads to, its copy leads to the copy.
LEMMA WaysLeft ==
  ASSUME PlainInv, HandlersMade(handlers), Rewrite, NEW refs, refs = Inlined,
         NEW j \in 1 .. Len(refs), NEW k \in 1 .. Len(refs),
         refs[k].n \in Ways(code, handlers, refs[j].n)
  PROVE  k \in Ways(code', handlers', j)
<1> DEFINE n == refs[j].n
           m == refs[k].n
           i == code[n]
           x == code'[j]
<1>1. /\ DOMAIN handlers = 1 .. Len(handlers) /\ i.op \notin {"jsr", "ret"}
  BY CopiesLeft, PlainFacts, SequenceFacts DEF PlainInv
<1>2. CASE m \in {handlers[h].at : h \in Catching(handlers, n)}
  <2>1. PICK h \in Catching(handlers, n) : m = handlers[h].at
    BY <1>2
  <2>2. h \in 1 .. Len(handlers) /\ Guards(handlers[h], n)
    BY <1>1 DEF Catching, Guards
  <2> DEFINE new == handlers'
             all == [y \in DOMAIN handlers |-> CopiesOf(refs, handlers[y])]
  <2>3. new = FlattenSeq(all)
    BY Rewritten
  <2> HIDE DEF new, all
  <2>4. StillGuarded(new, refs)
    BY <2>3, HandlersLeft DEF all
  <2>5. LeadTo(new, k, j)
    BY <2>1, <2>2, <2>4 DEF StillGuarded
  <2>6. QED
    BY <2>5 DEF new, LeadTo, Guards, Ways, Catching
<1>3. CASE m \in Goes(i, n)
  <2>1. /\ x.op = i.op
        /\ i.op \in {"if", "goto"} /\ m = i.to => x.to = k
    <3>1. x = Fixed(refs, j)
      BY Rewritten
    <3> HIDE DEF x, i, m
    <3>2. i = code[refs[j].n] /\ m = refs[k].n
      BY DEF i, m
    <3>3. QED
      BY <3>1, <3>2, FixedTo
  <2>2. m = n + 1 => k = j + 1
    BY StillNext
  <2> HIDE DEF n, m, i, x
  <2>3. k \in Goes(x, j)
    BY <1>3, <2>1, <2>2 DEF Goes
  <2>4. QED
    BY <2>3 DEF Ways, x
<1>4. QED
  BY <1>2, <1>3 DEF Ways

LEMMA RewriteAlive ==
  ASSUME PlainInv, HandlersMade(handlers), KnownWithin, Rewrite
  PROVE  NoneDead(code', handlers')
<1> DEFINE refs == Inlined
<1>1. refs = Inlined
  OBVIOUS
<1> HIDE DEF refs
<1>2. /\ Len(refs) \in Nat /\ Len(refs) > 0 /\ Len(code) \in Nat
      /\ \A k \in 1 .. Len(refs) : refs[k].n \in 1 .. Len(code) /\ info[refs[k].n].known
      /\ \A j, k \in 1 .. Len(refs) : j < k => refs[j].n < refs[k].n
      /\ \A n \in 1 .. Len(code) : info[n].known => \E k \in 1 .. Len(refs) : refs[k].n = n
  BY <1>1, CopiesLeft, PlainFacts DEF LeftInOrder
<1>3. Len(code') = Len(refs) /\ Changed = {}
  BY <1>1, Rewritten
<1>4. SUFFICES ASSUME NEW T, Closed(T, code', handlers'), NEW n \in 1 .. Len(refs)
               PROVE  n \in T
  BY <1>3 DEF NoneDead
<1> DEFINE S == {refs[j].n : j \in T}
<1>5. T \in SUBSET (1 .. Len(refs)) /\ 1 \in T
  BY <1>3, <1>4 DEF Closed
<1>6. S \in SUBSET (1 .. Len(code))
  BY <1>2, <1>5
<1>7. 1 \in S
  <2>1. 1 \in 1 .. Len(code) /\ info[1].known
    BY PlainFacts DEF PlainInv, Told
  <2>2. PICK k \in 1 .. Len(refs) : refs[k].n = 1
    BY <1>2, <2>1
  <2>3. k = 1
    <3>1. 1 \in 1 .. Len(refs) /\ refs[1].n \in 1 .. Len(code)
      BY <1>2
    <3>2. ~ (1 < k)
      BY <1>2, <2>2, <3>1
    <3>3. QED
      BY <1>2, <3>2
  <2>4. QED
    BY <1>5, <2>2, <2>3
<1>8. ASSUME NEW x \in S, NEW m \in Ways(code, handlers, x), m \in 1 .. Len(code) PROVE m \in S
  <2>1. PICK j \in T : x = refs[j].n
    BY <1>8
  <2>2. j \in 1 .. Len(refs) /\ x \in 1 .. Len(code) /\ info[x].known
    BY <1>2, <1>5, <2>1
  <2>3. info[m].known
    BY <1>3, <1>8, <2>2, KnownClosed DEF Closed
  <2>4. PICK k \in 1 .. Len(refs) : refs[k].n = m
    BY <1>2, <1>8, <2>3
  <2>5. k \in Ways(code', handlers', j)
    BY <1>1, <1>8, <2>1, <2>2, <2>4, WaysLeft
  <2>6. k \in T
    BY <1>3, <1>4, <2>5, <2>4 DEF Closed
  <2>7. QED
    BY <2>4, <2>6
<1>9. Closed(S, code, handlers)
  BY <1>6, <1>7, <1>8 DEF Closed
<1>10. refs[n].n \in S
  BY <1>2, <1>4, <1>9 DEF KnownWithin
<1>11. PICK j \in T : refs[j].n = refs[n].n
  BY <1>10
<1>12. j = n
  <2>1. j \in 1 .. Len(refs) /\ refs[j].n \in Nat /\ j \in Nat /\ n \in Nat
    BY <1>2, <1>5
  <2>2. ~ (j < n) /\ ~ (n < j)
    BY <1>2, <1>11, <2>1
  <2>3. QED
    BY <2>1, <2>2
<1>13. QED
  BY <1>12

\* There is less code than before.
LEMMA RewriteShorter ==
  ASSUME PlainInv, Rewrite
  PROVE  code' # code
<1> DEFINE refs == Inlined
<1>1. refs = Inlined
  OBVIOUS
<1> HIDE DEF refs
<1>2. /\ Len(refs) \in Nat /\ Len(code) \in Nat
      /\ \A k \in 1 .. Len(refs) : refs[k].n \in 1 .. Len(code) /\ info[refs[k].n].known
      /\ \A j, k \in 1 .. Len(refs) : j < k => refs[j].n < refs[k].n
  BY <1>1, CopiesLeft, PlainFacts DEF LeftInOrder
<1>3. Len(code') = Len(refs)
  BY <1>1, Rewritten
<1>4. PICK u \in 1 .. Len(code) : ~ info[u].known
  BY <1>1, Rewritten
<1> DEFINE f == [k \in 1 .. Len(refs) |-> refs[k].n]
<1>5. f \in Injection(1 .. Len(refs), 1 .. Len(code))
  <2>1. f \in [1 .. Len(refs) -> 1 .. Len(code)]
    BY <1>2
  <2>2. ASSUME NEW j \in 1 .. Len(refs), NEW k \in 1 .. Len(refs), refs[j].n = refs[k].n PROVE j = k
    <3>1. refs[j].n \in Nat /\ refs[k].n \in Nat
      BY <1>2
    <3>2. ~ (j < k) /\ ~ (k < j)
      BY <1>2, <2>2, <3>1
    <3>3. QED
      BY <1>2, <3>2
  <2>3. IsInjective(f)
    BY <2>2 DEF IsInjective
  <2> HIDE DEF f
  <2>4. QED
    BY <2>1, <2>3 DEF Injection
<1>6. f \notin Surjection(1 .. Len(refs), 1 .. Len(code))
  <2>1. \A k \in 1 .. Len(refs) : f[k] # u
    BY <1>2, <1>4
  <2> HIDE DEF f
  <2>2. QED
    BY <1>4, <2>1 DEF Surjection
<1> HIDE DEF f
<1>7. /\ IsFiniteSet(1 .. Len(code))
      /\ Cardinality(1 .. Len(code)) # Cardinality(1 .. Len(refs))
  <2>1. IsFiniteSet(1 .. Len(code))
    BY <1>2, FS_Interval
  <2>2. QED
    BY <1>5, <1>6, <2>1, FS_Injection
<1>8. Len(code) # Len(refs)
  BY <1>7
<1>9. QED
  BY <1>3, <1>8

-----------------------------------------------------------------------------
(* Verifying comes to an end.                                              *)

\* What is known is come to, and code that has been rewritten has no dead code.
AliveInv ==
  /\ PlainInv /\ HandlersMade(handlers) /\ KnownWithin
  /\ code # original.code => NoneDead(code, handlers)

\* Of a method of which nothing is known but where it begins.
LEMMA FreshWithin ==
  ASSUME NEW c, Sequence(c), Len(c) > 0, NEW hs, NEW m, PlainMethod(m),
         NEW new, new = Fresh(c, m.args), NEW S, Closed(S, c, hs),
         NEW n \in 1 .. Len(c), new[n].known
  PROVE  n \in S
<1>1. n = 1
  BY FreshFacts DEF PlainMethod
<1>2. QED
  BY <1>1 DEF Closed

LEMMA AliveInit ==
  ASSUME Init, PlainMethod(original)
  PROVE  AliveInv
<1>1. PlainInv
  BY PlainInit
<1>2. code = original.code /\ handlers = original.handlers /\ info = Fresh(code, original.args)
  BY DEF Init
<1>3. Sequence(code) /\ Len(code) > 0
  BY <1>1 DEF PlainInv, PlainCode
<1>4. KnownWithin
  BY <1>2, <1>3, FreshWithin DEF KnownWithin
<1>5. QED
  BY <1>1, <1>2, <1>4 DEF AliveInv, PlainMethod

LEMMA AliveNext ==
  ASSUME PlainMethod(original), AliveInv, [Next]_vars
  PROVE  AliveInv'
<1>1. PlainInv /\ PlainInv' /\ original' = original
  BY PlainNext, SameOriginal DEF AliveInv
<1>2. ASSUME code' = code, handlers' = handlers, info' = info PROVE AliveInv'
  BY <1>1, <1>2 DEF AliveInv, KnownWithin
<1>3. CASE Flowing
  <2>1. code' = code /\ handlers' = handlers
    BY <1>3 DEF Flowing, Visit, method
  <2>2. KnownWithin'
    BY <1>3, VisitWithin DEF AliveInv
  <2>3. QED
    BY <1>1, <2>1, <2>2 DEF AliveInv
<1>4. CASE FollowJunk
  BY <1>2, <1>4 DEF FollowJunk, method
<1>5. CASE RedoJsr
  BY <1>1, <1>5, PlainFacts DEF RedoJsr
<1>6. CASE Rewrite
  <2> DEFINE refs == Inlined
             all == [k \in DOMAIN handlers |-> CopiesOf(refs, handlers[k])]
             c == code'
             new == handlers'
             known == info'
  <2>1. refs = Inlined
    OBVIOUS
  <2> HIDE DEF refs
  <2>2. new = FlattenSeq(all) /\ known = Fresh(c, original.args)
    BY <1>1, <1>6, <2>1, Rewritten
  <2>3. HandlersMade(new)
    <3> HIDE DEF new, all
    <3>1. all = [k \in DOMAIN handlers |-> CopiesOf(refs, handlers[k])]
      BY DEF all
    <3>2. QED
      BY <1>1, <2>1, <2>2, <3>1, HandlersLeft DEF AliveInv
  <2>4. NoneDead(c, new)
    BY <1>6, RewriteAlive DEF AliveInv
  <2>5. Sequence(c) /\ Len(c) > 0
    BY <1>1 DEF PlainInv, PlainCode
  <2>6. \A S : Closed(S, c, new) => \A n \in 1 .. Len(c) : known[n].known => n \in S
    <3> HIDE DEF c, new, known
    <3>1. QED
      BY <2>2, <2>5, FreshWithin
  <2>7. KnownWithin'
    BY <2>6 DEF KnownWithin
  <2>8. QED
    BY <1>1, <2>3, <2>4, <2>7 DEF AliveInv
<1>7. CASE WriteMaps
  BY <1>2, <1>7 DEF WriteMaps, method
<1>8. CASE Finished
  BY <1>2, <1>8 DEF Finished, vars, method
<1>9. CASE UNCHANGED vars
  BY <1>2, <1>9 DEF vars, method
<1>10. QED
  BY <1>3, <1>4, <1>5, <1>6, <1>7, <1>8, <1>9 DEF Next

\* What is learned in a step, and how often a method is rewritten.
LEMMA StepEnds ==
  ASSUME PlainMethod(original), AliveInv, Next
  PROVE  UNCHANGED vars \/ (Learning /\ (code' # code => code = original.code))
<1>1. PlainInv
  BY DEF AliveInv
<1>2. CASE Flowing
  <2>1. Learning
    BY <1>1, <1>2, VisitLearns
  <2>2. code' = code
    BY <1>2 DEF Flowing, Visit, method
  <2>3. QED
    BY <2>1, <2>2
<1>3. CASE FollowJunk
  <2>1. Changed # {} /\ code[Next1].op = "ret"
    BY <1>3 DEF FollowJunk
  <2>2. code[Next1].op # "ret"
    BY <1>1, <2>1, NextOne, PlainFacts
  <2>3. QED
    BY <2>1, <2>2
<1>4. CASE RedoJsr
  BY <1>1, <1>4, PlainFacts DEF RedoJsr
<1>5. CASE Rewrite
  <2>1. code' # code
    BY <1>1, <1>5, RewriteShorter
  <2>2. Learning
    BY <2>1 DEF Learning
  <2>3. Changed = {} /\ \E n \in 1 .. Len(code) : ~ info[n].known
    BY <1>1, <1>5, Rewritten
  <2>4. code = original.code
    BY <1>1, <2>3, NoneUnknown DEF AliveInv
  <2>5. QED
    BY <2>2, <2>4
<1>6. CASE WriteMaps
  <2>1. code' = code /\ info' = info /\ Changed = {}
    BY <1>6 DEF WriteMaps, Settled, method
  <2>2. DOMAIN info = 1 .. Len(code) /\ DOMAIN code = 1 .. Len(code)
    BY <1>1, PlainFacts
  <2>3. ASSUME NEW n \in 1 .. Len(code) PROVE Shrinks(info[n], info[n]) /\ ~ info[n].changed
    <3>1. Data(info[n], original.locals)
      BY <1>1, PlainFacts
    <3>2. Shrinks(info[n], info[n])
      BY <3>1, LearnsSelf, NarrowedShrinks DEF Learns
    <3>3. QED
      BY <2>1, <2>2, <3>2 DEF Changed
  <2>4. Learning
    BY <2>1, <2>2, <2>3 DEF Learning
  <2>5. QED
    BY <2>1, <2>4
<1>7. CASE Finished
  BY <1>7 DEF Finished
<1>8. QED
  BY <1>2, <1>3, <1>4, <1>5, <1>6, <1>7 DEF Next

\* A visit of an instruction is its last one unless what it passes to learns
\* something, which it can do only so often; and a method without subroutines is
\* rewritten once at most: what is left has no dead code.
THEOREM PlainComesToAnEnd ==
  Spec => (PlainMethod(original) => ComesToAnEnd)
<1> DEFINE Inv == PlainMethod(original) => AliveInv
           Ends == [Learning /\ (code' # code => code = original.code)]_vars
<1>1. Init => Inv
  BY AliveInit
<1>2. Inv /\ [Next]_vars => Inv'
  BY AliveNext, SameOriginal DEF PlainMethod
<1>3. PlainMethod(original) /\ [Next]_vars => PlainMethod(original)'
  BY SameOriginal DEF PlainMethod
<1>4. Inv /\ PlainMethod(original) /\ [Next]_vars => Ends
  BY StepEnds
<1>5. QED
  BY <1>1, <1>2, <1>3, <1>4, PTL DEF Spec, ComesToAnEnd

=============================================================================
