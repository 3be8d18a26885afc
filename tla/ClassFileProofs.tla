-------------------------- MODULE ClassFileProofs --------------------------
(***************************************************************************)
(* Theorems about ClassFile, for any module: any constants, routines,      *)
(* variables and record types, any number of statements.                   *)
(***************************************************************************)
EXTENDS ClassFile, TLAPS, SequenceTheorems

-----------------------------------------------------------------------------
(* The inductive invariant.                                                *)

Elements(s) == {s[i] : i \in DOMAIN s}
Proper(s) == s \in Seq(Elements(s))

Texts == {"utf8", "integer"}
Names == {"class", "string"}
Members == {"field", "method"}

Constant(k) ==
    \/ k[1] \in Texts \cup Names /\ k = <<k[1], k[2]>>
    \/ k[1] = "nametype" /\ k = <<k[1], k[2], k[3]>>
    \/ k[1] \in Members \cup {"interface"} /\ k = <<k[1], k[2], k[3], k[4]>>

\* An entry of the pool is a text or refers to one or two others.
Entry(e) ==
    \/ e[1] \in Texts \cup Names /\ e = <<e[1], e[2]>>
    \/ e[1] \in Members \cup {"nametype", "interface"} /\ e = <<e[1], e[2], e[3]>>

\* What an entry refers to is among the first n.
Refers(e, n) == e[1] \notin Texts => \A i \in 2 .. Len(e) : e[i] \in 1 .. n

Good(p) ==
    /\ Proper(p)
    /\ \A i \in DOMAIN p : Entry(p[i]) /\ Refers(p[i], i - 1)
    /\ \A i, j \in DOMAIN p : p[i] = p[j] /\ p[i][1] # "interface" => i = j

\* A constant is there when some index denotes it.
Has(p, k) == \E i \in DOMAIN p : Denotes(p, i, k)

RefsGood(p, asked) ==
    \A x \in asked : /\ x[1] \in DOMAIN p
                     /\ x[2][1] # "interface" => Denotes(p, x[1], x[2])

AllOf(seqs) == UNION {Elements(part) : part \in Elements(seqs)}

\* What is still to be added.
Todo == Elements(todo) \cup AllOf(parts)

\* What the module asks for before its text and, with that, before its pool is
\* written; and what a record class asks for before its pool is written.
Before == IF unit THEN {} ELSE Elements(Beginning)
Dry == Before \cup (IF unit THEN {} ELSE Elements(Halt)) \cup AllOf(DryParts)
RecordDry(r) == Elements(RecordHead(r)) \cup AllOf(RecordParts(r))

Asked(ks) == \A k \in ks : Has(pool, k) \/ k \in Todo

Pools ==
    /\ Good(pool) /\ RefsGood(pool, refs)
    /\ Good(saved.pool) /\ RefsGood(saved.pool, saved.refs)

Work ==
    /\ phase \in {"parse", "record dry", "record rest", "dry", "rest", "done", "dead"}
    /\ record \in Records \cup {None}
    /\ Proper(todo) /\ Proper(parts) /\ \A part \in Elements(parts) : Proper(part)
    /\ \A k \in Todo : Constant(k)
    /\ phase = "parse" => Asked(Before)
    /\ phase = "dry" => Asked(Dry)
    /\ phase \in {"record dry", "record rest"} =>
          /\ record \in Records
          /\ \A k \in Before : Has(saved.pool, k)
    /\ phase = "record dry" => Asked(RecordDry(record))
    /\ IF Written
       THEN /\ pool = file /\ file # NotWritten
            /\ \A k \in Todo : Has(pool, k) /\ k[1] # "interface"
       ELSE file = NotWritten

Inductive == Pools /\ Work

-----------------------------------------------------------------------------
(* Sequences and their elements.                                           *)

LEMMA ProperSequence ==
  ASSUME NEW s, Proper(s)
  PROVE  /\ Len(s) \in Nat /\ DOMAIN s = 1 .. Len(s)
         /\ \A x \in Elements(s) : \E i \in 1 .. Len(s) : s[i] = x
         /\ \A i \in 1 .. Len(s) : s[i] \in Elements(s)
<1>1. Len(s) \in Nat /\ DOMAIN s = 1 .. Len(s)
  BY LenProperties DEF Proper
<1> QED BY <1>1 DEF Elements

LEMMA AppendProper ==
  ASSUME NEW s, Proper(s), NEW x
  PROVE  /\ Proper(Append(s, x))
         /\ Len(Append(s, x)) = Len(s) + 1
         /\ \A i \in 1 .. Len(s) : Append(s, x)[i] = s[i]
         /\ Append(s, x)[Len(s) + 1] = x
<1> DEFINE S == Elements(s) \cup {x}
           t == Append(s, x)
<1>1. s \in Seq(S) /\ x \in S
  BY DEF Proper
<1>2. /\ t \in Seq(S) /\ Len(t) = Len(s) + 1
      /\ \A i \in 1 .. Len(s) : t[i] = s[i]
      /\ t[Len(s) + 1] = x
  BY <1>1, AppendProperties
<1>3. Len(t) \in Nat /\ DOMAIN t = 1 .. Len(t)
  BY <1>2, LenProperties
<1>4. \A i \in 1 .. Len(t) : t[i] \in Elements(t)
  BY <1>3 DEF Elements
<1>5. t \in [1 .. Len(t) -> S]
  BY <1>2, LenProperties
<1>6. t \in [1 .. Len(t) -> Elements(t)]
  BY <1>4, <1>5
<1>7. t \in Seq(Elements(t))
  BY <1>3, <1>6, SeqDef
<1> QED BY <1>2, <1>7 DEF Proper

LEMMA HeadTailProper ==
  ASSUME NEW s, Proper(s), s # <<>>
  PROVE  /\ Proper(Tail(s)) /\ Head(s) \in Elements(s)
         /\ Elements(s) = {Head(s)} \cup Elements(Tail(s))
<1> DEFINE t == Tail(s)
<1>1. s \in Seq(Elements(s))
  BY DEF Proper
<1>2. /\ Head(s) = s[1] /\ t \in Seq(Elements(s)) /\ Len(t) = Len(s) - 1
      /\ \A i \in 1 .. Len(t) : t[i] = s[i + 1]
  BY <1>1, HeadTailProperties
<1>3. /\ Len(s) \in Nat /\ DOMAIN s = 1 .. Len(s) /\ Len(s) # 0
      /\ Len(t) \in Nat /\ DOMAIN t = 1 .. Len(t)
  BY <1>1, <1>2, LenProperties, EmptySeq
<1> HIDE DEF t
<1>4. Head(s) \in Elements(s) /\ Elements(t) \subseteq Elements(s)
  BY <1>2, <1>3 DEF Elements
<1>5. ASSUME NEW x \in Elements(s), x # Head(s) PROVE x \in Elements(t)
  <2>1. PICK i \in 1 .. Len(s) : s[i] = x
    BY <1>3 DEF Elements
  <2>2. i - 1 \in 1 .. Len(t) /\ t[i - 1] = x
    BY <1>2, <1>3, <1>5, <2>1
  <2> QED BY <1>3, <2>2 DEF Elements
<1>6. t \in [1 .. Len(t) -> Elements(t)]
  <2>1. t \in [1 .. Len(t) -> Elements(s)]
    BY <1>2, LenProperties DEF t
  <2>2. \A i \in 1 .. Len(t) : t[i] \in Elements(t)
    BY <1>3 DEF Elements
  <2> QED BY <2>1, <2>2
<1>7. t \in Seq(Elements(t))
  BY <1>3, <1>6, SeqDef
<1> QED BY <1>4, <1>5, <1>7 DEF Proper, t

LEMMA ConcatProper ==
  ASSUME NEW s, NEW t, Proper(s), Proper(t)
  PROVE  Proper(s \o t) /\ Elements(s \o t) = Elements(s) \cup Elements(t)
<1> DEFINE S == Elements(s) \cup Elements(t)
           u == s \o t
<1>1. s \in Seq(S) /\ t \in Seq(S)
  BY DEF Proper
<1>2. /\ u \in Seq(S) /\ Len(u) = Len(s) + Len(t)
      /\ \A i \in 1 .. Len(u) : u[i] = IF i <= Len(s) THEN s[i] ELSE t[i - Len(s)]
  BY <1>1, ConcatProperties
<1>3. /\ Len(s) \in Nat /\ DOMAIN s = 1 .. Len(s)
      /\ Len(t) \in Nat /\ DOMAIN t = 1 .. Len(t)
      /\ Len(u) \in Nat /\ DOMAIN u = 1 .. Len(u)
  BY <1>1, <1>2, LenProperties
<1>a. u \in [1 .. Len(u) -> S]
  BY <1>2, LenProperties
<1> HIDE DEF u
<1>4. \A i \in 1 .. Len(s) : i \in 1 .. Len(u) /\ u[i] = s[i]
  BY <1>2, <1>3
<1>5. \A i \in 1 .. Len(t) : i + Len(s) \in 1 .. Len(u) /\ u[i + Len(s)] = t[i]
  BY <1>2, <1>3
<1>6. Elements(s) \subseteq Elements(u) /\ Elements(t) \subseteq Elements(u)
  BY <1>3, <1>4, <1>5 DEF Elements
<1>7. Elements(u) \subseteq S
  BY <1>3, <1>a DEF Elements
<1>8. Elements(u) = S
  BY <1>6, <1>7
<1> HIDE DEF S
<1>9. u \in Seq(Elements(u))
  BY <1>2, <1>8 DEF u
<1> QED BY <1>8, <1>9 DEF Proper, u, S

LEMMA Literals ==
  /\ Proper(<<>>) /\ Elements(<<>>) = {}
  /\ \A a : Proper(<<a>>) /\ Elements(<<a>>) = {a}
  /\ \A a, b : Proper(<<a, b>>) /\ Elements(<<a, b>>) = {a, b}
  /\ \A a, b, c : Proper(<<a, b, c>>) /\ Elements(<<a, b, c>>) = {a, b, c}
<1>1. Proper(<<>>) /\ Elements(<<>>) = {}
  BY DEF Proper, Elements
<1>2. ASSUME NEW a PROVE Proper(<<a>>) /\ Elements(<<a>>) = {a}
  BY DEF Proper, Elements
<1>3. ASSUME NEW a, NEW b PROVE Proper(<<a, b>>) /\ Elements(<<a, b>>) = {a, b}
  BY DEF Proper, Elements
<1>4. ASSUME NEW a, NEW b, NEW c
      PROVE  Proper(<<a, b, c>>) /\ Elements(<<a, b, c>>) = {a, b, c}
  BY DEF Proper, Elements
<1> QED BY <1>1, <1>2, <1>3, <1>4

-----------------------------------------------------------------------------
(* The pool: looking entries up, and adding them.                          *)

Extends(p, q) ==
    /\ Len(p) <= Len(q)
    /\ \A i \in 1 .. Len(p) : q[i] = p[i]

LEMMA GoodPool ==
  ASSUME NEW p, Good(p)
  PROVE  Len(p) \in Nat /\ DOMAIN p = 1 .. Len(p)
  BY ProperSequence DEF Good

LEMMA EmptyGood == Good(<<>>)
<1>1. DOMAIN <<>> = {}
  OBVIOUS
<1> QED BY <1>1, Literals DEF Good

LEMMA ExtendsTwice ==
  ASSUME NEW p, NEW q, NEW r, Good(p), Good(q), Good(r), Extends(p, q), Extends(q, r)
  PROVE  Extends(p, r)
<1>1. Len(p) \in Nat /\ Len(q) \in Nat /\ Len(r) \in Nat
  BY GoodPool
<1> QED BY <1>1 DEF Extends

LEMMA ExtendsSelf == \A p : Good(p) => Extends(p, p)
  BY GoodPool DEF Extends

LEMMA Lookup ==
  ASSUME NEW p, NEW e, In(p, e)
  PROVE  Find(p, e) \in DOMAIN p /\ p[Find(p, e)] = e
  BY DEF In, Find

\* An entry has one index.
LEMMA LookupUnique ==
  ASSUME NEW p, Good(p), NEW i \in DOMAIN p, p[i][1] # "interface"
  PROVE  In(p, p[i]) /\ Find(p, p[i]) = i
<1>1. In(p, p[i])
  BY DEF In
<1>2. Find(p, p[i]) \in DOMAIN p /\ p[Find(p, p[i])] = p[i]
  BY <1>1, Lookup
<1> QED BY <1>1, <1>2 DEF Good

LEMMA Tuples ==
  /\ \A s : Utf8(s)[1] = "utf8" /\ Entry(Utf8(s))
  /\ \A tag, i : <<tag, i>>[1] = tag /\ <<tag, i>>[2] = i /\ Len(<<tag, i>>) = 2
  /\ \A tag, i, j : /\ <<tag, i, j>>[1] = tag /\ <<tag, i, j>>[2] = i
                    /\ <<tag, i, j>>[3] = j /\ Len(<<tag, i, j>>) = 3
  BY DEF Utf8, Entry, Texts

\* A new entry at the end of a good pool.
LEMMA AppendGood ==
  ASSUME NEW p, Good(p), NEW e, Entry(e), Refers(e, Len(p)),
         In(p, e) => e[1] = "interface"
  PROVE  /\ Good(Append(p, e)) /\ Extends(p, Append(p, e))
         /\ Len(Append(p, e)) = Len(p) + 1 /\ Append(p, e)[Len(p) + 1] = e
<1> DEFINE q == Append(p, e)
<1>1. /\ Proper(q) /\ Len(q) = Len(p) + 1 /\ q[Len(p) + 1] = e
      /\ \A i \in 1 .. Len(p) : q[i] = p[i]
      /\ Len(p) \in Nat /\ DOMAIN p = 1 .. Len(p)
  BY AppendProper, GoodPool DEF Good
<1> HIDE DEF q
<1>2. DOMAIN q = 1 .. Len(p) + 1
  BY <1>1, ProperSequence
<1>3. ASSUME NEW i \in DOMAIN q PROVE Entry(q[i]) /\ Refers(q[i], i - 1)
  <2>1. CASE i = Len(p) + 1
    <3>1. i - 1 = Len(p)
      BY <1>1, <2>1
    <3> QED BY <1>1, <2>1, <3>1
  <2>2. CASE i # Len(p) + 1
    <3>1. i \in DOMAIN p /\ q[i] = p[i]
      BY <1>1, <1>2, <2>2
    <3> QED BY <3>1 DEF Good
  <2> QED BY <2>1, <2>2
<1>4. ASSUME NEW i \in DOMAIN q, NEW j \in DOMAIN q, q[i] = q[j], q[i][1] # "interface"
      PROVE  i = j
  <2>1. \A n \in DOMAIN q : n = Len(p) + 1 \/ (n \in DOMAIN p /\ q[n] = p[n])
    BY <1>1, <1>2
  <2>2. e[1] # "interface" => \A n \in DOMAIN p : p[n] # e
    BY DEF In
  <2>3. \A m, n \in DOMAIN p : p[m] = p[n] /\ p[m][1] # "interface" => m = n
    BY DEF Good
  <2> QED BY <1>1, <1>4, <2>1, <2>2, <2>3
<1>5. Good(q)
  BY <1>1, <1>3, <1>4 DEF Good
<1> QED BY <1>1, <1>5 DEF Extends, q

LEMMA InternGood ==
  ASSUME NEW p, Good(p), NEW e, Entry(e), Refers(e, Len(p)), e[1] # "interface"
  PROVE  /\ Good(Intern(p, e)) /\ Extends(p, Intern(p, e)) /\ In(Intern(p, e), e)
         /\ In(p, e) => Intern(p, e) = p
<1>1. CASE In(p, e)
  BY <1>1, ExtendsSelf DEF Intern
<1>2. CASE ~In(p, e)
  <2> DEFINE q == Append(p, e)
  <2>1. Good(q) /\ Extends(p, q) /\ Len(q) = Len(p) + 1 /\ q[Len(p) + 1] = e
    BY <1>2, AppendGood
  <2>2. Len(p) \in Nat /\ DOMAIN q = 1 .. Len(q)
    BY <2>1, GoodPool
  <2> HIDE DEF q
  <2>3. Len(p) + 1 \in DOMAIN q
    BY <2>1, <2>2
  <2>4. In(q, e)
    BY <2>1, <2>3 DEF In
  <2>5. Intern(p, e) = q
    BY <1>2 DEF Intern, q
  <2> QED BY <1>2, <2>1, <2>4, <2>5
<1> QED BY <1>1, <1>2

\* What an index denotes it denotes in every extension of the pool.
LEMMA EntryStays ==
  ASSUME NEW p, NEW q, Good(p), Good(q), Extends(p, q), NEW i \in DOMAIN p
  PROVE  i \in DOMAIN q /\ q[i] = p[i]
<1>1. /\ Len(p) \in Nat /\ Len(q) \in Nat
      /\ DOMAIN p = 1 .. Len(p) /\ DOMAIN q = 1 .. Len(q)
  BY GoodPool
<1> QED BY <1>1 DEF Extends

LEMMA InStays ==
  ASSUME NEW p, NEW q, Good(p), Good(q), Extends(p, q), NEW e, In(p, e)
  PROVE  In(q, e) /\ (e[1] # "interface" => Find(q, e) = Find(p, e))
<1>1. Find(p, e) \in DOMAIN p /\ p[Find(p, e)] = e
  BY Lookup
<1>2. Find(p, e) \in DOMAIN q /\ q[Find(p, e)] = e
  BY <1>1, EntryStays
<1> QED BY <1>2, LookupUnique DEF In

LEMMA DenotesStays ==
  ASSUME NEW p, NEW q, Good(p), Good(q), Extends(p, q), NEW i, NEW k, Denotes(p, i, k)
  PROVE  Denotes(q, i, k)
<1>1. \A j \in DOMAIN p : j \in DOMAIN q /\ q[j] = p[j]
  BY EntryStays
<1>2. \A j, s : IsUtf8(p, j, s) => IsUtf8(q, j, s)
  BY <1>1 DEF IsUtf8
<1>3. \A j, tag, s : IsName(p, j, tag, s) => IsName(q, j, tag, s)
  BY <1>1, <1>2 DEF IsName
<1>4. \A j, n, d : IsNameType(p, j, n, d) => IsNameType(q, j, n, d)
  BY <1>1, <1>2 DEF IsNameType
<1>5. \A j, tag, c, n, d : IsRef(p, j, tag, c, n, d) => IsRef(q, j, tag, c, n, d)
  BY <1>1, <1>3, <1>4 DEF IsRef
<1> QED BY <1>1, <1>3, <1>4, <1>5 DEF Denotes

LEMMA HasStays ==
  ASSUME NEW p, NEW q, Good(p), Good(q), Extends(p, q), NEW k, Has(p, k)
  PROVE  Has(q, k)
<1>1. PICK i \in DOMAIN p : Denotes(p, i, k)
  BY DEF Has
<1> QED BY <1>1, EntryStays, DenotesStays DEF Has

-----------------------------------------------------------------------------
(* What the parts of a constant are, and what adding it does.              *)

HasName(p, tag, s) == \E i \in DOMAIN p : IsName(p, i, tag, s)
HasNameType(p, n, d) == \E i \in DOMAIN p : IsNameType(p, i, n, d)
HasRef(p, tag, c, n, d) == \E i \in DOMAIN p : IsRef(p, i, tag, c, n, d)

\* An entry that reads as the name is the one that is looked for,
LEMMA NameRead ==
  ASSUME NEW p, Good(p), NEW tag \in Names, NEW s, NEW i, IsName(p, i, tag, s)
  PROVE  /\ In(p, Utf8(s)) /\ In(p, NameEntry(p, tag, s))
         /\ i = Find(p, NameEntry(p, tag, s)) /\ i \in DOMAIN p
<1>1. i \in DOMAIN p /\ p[i][1] = tag /\ p[i][2] \in DOMAIN p /\ p[p[i][2]] = Utf8(s)
  BY DEF IsName, IsUtf8
<1>2. tag \notin Members \cup {"nametype", "interface", "utf8"}
  BY DEF Names, Members
<1>3. p[i] = <<tag, p[i][2]>>
  BY <1>1, <1>2 DEF Good, Entry
<1>4. In(p, Utf8(s)) /\ Find(p, Utf8(s)) = p[i][2]
  BY <1>1, LookupUnique, Tuples
<1>5. p[i] = NameEntry(p, tag, s)
  BY <1>3, <1>4 DEF NameEntry
<1> QED BY <1>1, <1>2, <1>4, <1>5, LookupUnique

\* and what is found reads as the name.
LEMMA NameFound ==
  ASSUME NEW p, NEW tag, NEW s, In(p, Utf8(s)), In(p, NameEntry(p, tag, s))
  PROVE  IsName(p, Find(p, NameEntry(p, tag, s)), tag, s)
<1>1. /\ Find(p, Utf8(s)) \in DOMAIN p /\ p[Find(p, Utf8(s))] = Utf8(s)
      /\ Find(p, NameEntry(p, tag, s)) \in DOMAIN p
      /\ p[Find(p, NameEntry(p, tag, s))] = NameEntry(p, tag, s)
  BY Lookup
<1>2. /\ NameEntry(p, tag, s)[1] = tag
      /\ NameEntry(p, tag, s)[2] = Find(p, Utf8(s))
  BY DEF NameEntry
<1> QED BY <1>1, <1>2 DEF IsName, IsUtf8

LEMMA NameTypeRead ==
  ASSUME NEW p, Good(p), NEW n, NEW d, NEW i, IsNameType(p, i, n, d)
  PROVE  /\ In(p, Utf8(n)) /\ In(p, Utf8(d)) /\ In(p, NameTypeEntry(p, n, d))
         /\ i = Find(p, NameTypeEntry(p, n, d)) /\ i \in DOMAIN p
<1>1. /\ i \in DOMAIN p /\ p[i][1] = "nametype"
      /\ p[i][2] \in DOMAIN p /\ p[p[i][2]] = Utf8(n)
      /\ p[i][3] \in DOMAIN p /\ p[p[i][3]] = Utf8(d)
  BY DEF IsNameType, IsUtf8
<1>2. p[i] = <<"nametype", p[i][2], p[i][3]>>
  BY <1>1 DEF Good, Entry, Texts, Names
<1>3. /\ In(p, Utf8(n)) /\ Find(p, Utf8(n)) = p[i][2]
      /\ In(p, Utf8(d)) /\ Find(p, Utf8(d)) = p[i][3]
  BY <1>1, LookupUnique, Tuples
<1>4. p[i] = NameTypeEntry(p, n, d)
  BY <1>2, <1>3 DEF NameTypeEntry
<1> QED BY <1>1, <1>3, <1>4, LookupUnique

LEMMA NameTypeFound ==
  ASSUME NEW p, NEW n, NEW d, In(p, Utf8(n)), In(p, Utf8(d)), In(p, NameTypeEntry(p, n, d))
  PROVE  IsNameType(p, Find(p, NameTypeEntry(p, n, d)), n, d)
<1>1. /\ Find(p, Utf8(n)) \in DOMAIN p /\ p[Find(p, Utf8(n))] = Utf8(n)
      /\ Find(p, Utf8(d)) \in DOMAIN p /\ p[Find(p, Utf8(d))] = Utf8(d)
      /\ Find(p, NameTypeEntry(p, n, d)) \in DOMAIN p
      /\ p[Find(p, NameTypeEntry(p, n, d))] = NameTypeEntry(p, n, d)
  BY Lookup
<1>2. /\ NameTypeEntry(p, n, d)[1] = "nametype"
      /\ NameTypeEntry(p, n, d)[2] = Find(p, Utf8(n))
      /\ NameTypeEntry(p, n, d)[3] = Find(p, Utf8(d))
  BY DEF NameTypeEntry
<1> QED BY <1>1, <1>2 DEF IsNameType, IsUtf8

LEMMA RefRead ==
  ASSUME NEW p, Good(p), NEW tag \in Members, NEW c, NEW n, NEW d, NEW i,
         IsRef(p, i, tag, c, n, d)
  PROVE  /\ HasName(p, "class", c) /\ HasNameType(p, n, d)
         /\ In(p, RefEntry(p, tag, c, n, d))
         /\ i = Find(p, RefEntry(p, tag, c, n, d)) /\ i \in DOMAIN p
<1>1. /\ i \in DOMAIN p /\ p[i][1] = tag
      /\ IsName(p, p[i][2], "class", c) /\ IsNameType(p, p[i][3], n, d)
  BY DEF IsRef
<1>2. tag \notin Texts \cup Names /\ tag # "interface" /\ "class" \in Names
  BY DEF Texts, Names, Members
<1>3. p[i] = <<tag, p[i][2], p[i][3]>>
  BY <1>1, <1>2 DEF Good, Entry
<1>4. /\ p[i][2] = Find(p, NameEntry(p, "class", c))
      /\ p[i][3] = Find(p, NameTypeEntry(p, n, d))
  BY <1>1, <1>2, NameRead, NameTypeRead
<1>5. p[i] = RefEntry(p, tag, c, n, d)
  BY <1>3, <1>4 DEF RefEntry
<1>6. HasName(p, "class", c) /\ HasNameType(p, n, d)
  BY <1>1 DEF HasName, HasNameType, IsName, IsNameType
<1> QED BY <1>1, <1>2, <1>5, <1>6, LookupUnique

LEMMA RefFound ==
  ASSUME NEW p, Good(p), NEW tag, NEW c, NEW n, NEW d,
         HasName(p, "class", c), HasNameType(p, n, d), In(p, RefEntry(p, tag, c, n, d))
  PROVE  IsRef(p, Find(p, RefEntry(p, tag, c, n, d)), tag, c, n, d)
<1>1. "class" \in Names
  BY DEF Names
<1>2. /\ IsName(p, Find(p, NameEntry(p, "class", c)), "class", c)
      /\ IsNameType(p, Find(p, NameTypeEntry(p, n, d)), n, d)
  BY <1>1, NameRead, NameTypeRead DEF HasName, HasNameType
<1>3. /\ Find(p, RefEntry(p, tag, c, n, d)) \in DOMAIN p
      /\ p[Find(p, RefEntry(p, tag, c, n, d))] = RefEntry(p, tag, c, n, d)
  BY Lookup
<1>4. /\ RefEntry(p, tag, c, n, d)[1] = tag
      /\ RefEntry(p, tag, c, n, d)[2] = Find(p, NameEntry(p, "class", c))
      /\ RefEntry(p, tag, c, n, d)[3] = Find(p, NameTypeEntry(p, n, d))
  BY DEF RefEntry
<1> QED BY <1>2, <1>3, <1>4 DEF IsRef

\* Entries that refer to what is there may be added.
LEMMA EntriesRefer ==
  ASSUME NEW p, Good(p)
  PROVE  /\ \A tag \in Names : \A s : In(p, Utf8(s)) =>
               Entry(NameEntry(p, tag, s)) /\ Refers(NameEntry(p, tag, s), Len(p))
         /\ \A n, d : In(p, Utf8(n)) /\ In(p, Utf8(d)) =>
               Entry(NameTypeEntry(p, n, d)) /\ Refers(NameTypeEntry(p, n, d), Len(p))
         /\ \A tag \in Members \cup {"interface"} : \A c, n, d :
               HasName(p, "class", c) /\ HasNameType(p, n, d) =>
                  Entry(RefEntry(p, tag, c, n, d)) /\ Refers(RefEntry(p, tag, c, n, d), Len(p))
<1>1. DOMAIN p = 1 .. Len(p)
  BY GoodPool
<1>2. ASSUME NEW tag \in Names, NEW s, In(p, Utf8(s))
      PROVE  Entry(NameEntry(p, tag, s)) /\ Refers(NameEntry(p, tag, s), Len(p))
  <2>1. Find(p, Utf8(s)) \in 1 .. Len(p)
    BY <1>1, <1>2, Lookup
  <2>2. \A i \in 2 .. 2 : i = 2
    OBVIOUS
  <2> QED BY <2>1, <2>2, Tuples DEF NameEntry, Entry, Refers
<1>3. ASSUME NEW n, NEW d, In(p, Utf8(n)), In(p, Utf8(d))
      PROVE  Entry(NameTypeEntry(p, n, d)) /\ Refers(NameTypeEntry(p, n, d), Len(p))
  <2>1. Find(p, Utf8(n)) \in 1 .. Len(p) /\ Find(p, Utf8(d)) \in 1 .. Len(p)
    BY <1>1, <1>3, Lookup
  <2>2. \A i \in 2 .. 3 : i = 2 \/ i = 3
    OBVIOUS
  <2> QED BY <2>1, <2>2, Tuples DEF NameTypeEntry, Entry, Refers
<1>4. ASSUME NEW tag \in Members \cup {"interface"}, NEW c, NEW n, NEW d,
             HasName(p, "class", c), HasNameType(p, n, d)
      PROVE  Entry(RefEntry(p, tag, c, n, d)) /\ Refers(RefEntry(p, tag, c, n, d), Len(p))
  <2>1. "class" \in Names
    BY DEF Names
  <2>2. /\ Find(p, NameEntry(p, "class", c)) \in 1 .. Len(p)
        /\ Find(p, NameTypeEntry(p, n, d)) \in 1 .. Len(p)
    BY <1>1, <1>4, <2>1, NameRead, NameTypeRead DEF HasName, HasNameType
  <2>3. \A i \in 2 .. 3 : i = 2 \/ i = 3
    OBVIOUS
  <2> QED BY <2>2, <2>3, Tuples DEF RefEntry, Entry, Refers
<1> QED BY <1>2, <1>3, <1>4

LEMMA Utf8Added ==
  ASSUME NEW p, Good(p), NEW s
  PROVE  /\ Good(Intern(p, Utf8(s))) /\ Extends(p, Intern(p, Utf8(s)))
         /\ In(Intern(p, Utf8(s)), Utf8(s))
         /\ In(p, Utf8(s)) => Intern(p, Utf8(s)) = p
<1>1. Entry(Utf8(s)) /\ Refers(Utf8(s), Len(p)) /\ Utf8(s)[1] # "interface"
  BY Tuples DEF Refers, Texts
<1> QED BY <1>1, InternGood

LEMMA NameStays ==
  ASSUME NEW p, NEW q, Good(p), Good(q), Extends(p, q)
  PROVE  /\ \A tag, s : HasName(p, tag, s) => HasName(q, tag, s)
         /\ \A n, d : HasNameType(p, n, d) => HasNameType(q, n, d)
<1>1. \A j \in DOMAIN p : j \in DOMAIN q /\ q[j] = p[j]
  BY EntryStays
<1> QED BY <1>1 DEF HasName, HasNameType, IsName, IsNameType, IsUtf8

LEMMA NameAdded ==
  ASSUME NEW p, Good(p), NEW tag \in Names, NEW s
  PROVE  /\ Good(AddName(p, tag, s)) /\ Extends(p, AddName(p, tag, s))
         /\ HasName(AddName(p, tag, s), tag, s)
         /\ HasName(p, tag, s) => AddName(p, tag, s) = p
<1> DEFINE q == Intern(p, Utf8(s))
           r == Intern(q, NameEntry(q, tag, s))
<1>1. /\ Good(q) /\ Extends(p, q) /\ In(q, Utf8(s))
      /\ In(p, Utf8(s)) => q = p
  BY Utf8Added
<1> HIDE DEF q
<1>2. /\ Entry(NameEntry(q, tag, s)) /\ Refers(NameEntry(q, tag, s), Len(q))
      /\ NameEntry(q, tag, s)[1] # "interface"
  BY <1>1, EntriesRefer DEF NameEntry, Names
<1>3. /\ Good(r) /\ Extends(q, r) /\ In(r, NameEntry(q, tag, s))
      /\ In(q, NameEntry(q, tag, s)) => r = q
  BY <1>1, <1>2, InternGood
<1> HIDE DEF r
<1>4. In(r, Utf8(s)) /\ Find(r, Utf8(s)) = Find(q, Utf8(s))
  BY <1>1, <1>3, InStays, Tuples
<1>5. NameEntry(r, tag, s) = NameEntry(q, tag, s)
  BY <1>4 DEF NameEntry
<1>6. HasName(r, tag, s)
  BY <1>3, <1>4, <1>5, NameFound DEF HasName, IsName
<1>7. ASSUME HasName(p, tag, s) PROVE r = p
  <2>1. In(p, Utf8(s)) /\ In(p, NameEntry(p, tag, s))
    BY <1>7, NameRead DEF HasName
  <2> QED BY <1>1, <1>3, <2>1
<1>8. AddName(p, tag, s) = r
  BY DEF AddName, q, r
<1>9. Extends(p, r)
  BY <1>1, <1>3, ExtendsTwice
<1> QED BY <1>3, <1>6, <1>7, <1>8, <1>9

LEMMA NameTypeAdded ==
  ASSUME NEW p, Good(p), NEW n, NEW d
  PROVE  /\ Good(AddNameType(p, n, d)) /\ Extends(p, AddNameType(p, n, d))
         /\ HasNameType(AddNameType(p, n, d), n, d)
         /\ HasNameType(p, n, d) => AddNameType(p, n, d) = p
<1> DEFINE o == Intern(p, Utf8(n))
           q == Intern(o, Utf8(d))
           r == Intern(q, NameTypeEntry(q, n, d))
<1>0. /\ Good(o) /\ Extends(p, o) /\ In(o, Utf8(n))
      /\ In(p, Utf8(n)) => o = p
  BY Utf8Added
<1> HIDE DEF o
<1>1. /\ Good(q) /\ Extends(o, q) /\ In(q, Utf8(d))
      /\ In(o, Utf8(d)) => q = o
  BY <1>0, Utf8Added
<1> HIDE DEF q
<1>2. In(q, Utf8(n)) /\ Extends(p, q)
  BY <1>0, <1>1, InStays, ExtendsTwice
<1>3. /\ Entry(NameTypeEntry(q, n, d)) /\ Refers(NameTypeEntry(q, n, d), Len(q))
      /\ NameTypeEntry(q, n, d)[1] # "interface"
  BY <1>1, <1>2, EntriesRefer DEF NameTypeEntry
<1>4. /\ Good(r) /\ Extends(q, r) /\ In(r, NameTypeEntry(q, n, d))
      /\ In(q, NameTypeEntry(q, n, d)) => r = q
  BY <1>1, <1>3, InternGood
<1> HIDE DEF r
<1>5. /\ In(r, Utf8(n)) /\ Find(r, Utf8(n)) = Find(q, Utf8(n))
      /\ In(r, Utf8(d)) /\ Find(r, Utf8(d)) = Find(q, Utf8(d))
  BY <1>1, <1>2, <1>4, InStays, Tuples
<1>6. NameTypeEntry(r, n, d) = NameTypeEntry(q, n, d)
  BY <1>5 DEF NameTypeEntry
<1>7. HasNameType(r, n, d)
  BY <1>4, <1>5, <1>6, NameTypeFound DEF HasNameType, IsNameType
<1>8. ASSUME HasNameType(p, n, d) PROVE r = p
  <2>1. In(p, Utf8(n)) /\ In(p, Utf8(d)) /\ In(p, NameTypeEntry(p, n, d))
    BY <1>8, NameTypeRead DEF HasNameType
  <2> QED BY <1>0, <1>1, <1>4, <2>1
<1>9. AddNameType(p, n, d) = r
  BY DEF AddNameType, o, q, r
<1>10. Extends(p, r)
  BY <1>1, <1>2, <1>4, ExtendsTwice
<1> QED BY <1>4, <1>7, <1>8, <1>9, <1>10

LEMMA RefPartsAdded ==
  ASSUME NEW p, Good(p), NEW c, NEW n, NEW d
  PROVE  /\ Good(AddRefParts(p, c, n, d)) /\ Extends(p, AddRefParts(p, c, n, d))
         /\ HasName(AddRefParts(p, c, n, d), "class", c)
         /\ HasNameType(AddRefParts(p, c, n, d), n, d)
         /\ HasName(p, "class", c) /\ HasNameType(p, n, d)
               => AddRefParts(p, c, n, d) = p
<1> DEFINE q == AddName(p, "class", c)
           r == AddNameType(q, n, d)
<1>1. /\ Good(q) /\ Extends(p, q) /\ HasName(q, "class", c)
      /\ HasName(p, "class", c) => q = p
  BY NameAdded DEF Names
<1> HIDE DEF q
<1>2. /\ Good(r) /\ Extends(q, r) /\ HasNameType(r, n, d)
      /\ HasNameType(q, n, d) => r = q
  BY <1>1, NameTypeAdded
<1> HIDE DEF r
<1>3. HasName(r, "class", c) /\ Extends(p, r)
  BY <1>1, <1>2, NameStays, ExtendsTwice
<1>4. AddRefParts(p, c, n, d) = r
  BY DEF AddRefParts, q, r
<1> QED BY <1>1, <1>2, <1>3, <1>4

LEMMA RefAdded ==
  ASSUME NEW p, Good(p), NEW tag \in Members, NEW c, NEW n, NEW d
  PROVE  /\ Good(AddRef(p, tag, c, n, d)) /\ Extends(p, AddRef(p, tag, c, n, d))
         /\ HasRef(AddRef(p, tag, c, n, d), tag, c, n, d)
         /\ HasRef(p, tag, c, n, d) => AddRef(p, tag, c, n, d) = p
<1> DEFINE q == AddRefParts(p, c, n, d)
           r == Intern(q, RefEntry(q, tag, c, n, d))
<1>1. /\ Good(q) /\ Extends(p, q) /\ HasName(q, "class", c) /\ HasNameType(q, n, d)
      /\ HasName(p, "class", c) /\ HasNameType(p, n, d) => q = p
  BY RefPartsAdded
<1> HIDE DEF q
<1>2. /\ Entry(RefEntry(q, tag, c, n, d)) /\ Refers(RefEntry(q, tag, c, n, d), Len(q))
      /\ RefEntry(q, tag, c, n, d)[1] # "interface"
  BY <1>1, EntriesRefer DEF RefEntry, Members
<1>3. /\ Good(r) /\ Extends(q, r) /\ In(r, RefEntry(q, tag, c, n, d))
      /\ In(q, RefEntry(q, tag, c, n, d)) => r = q
  BY <1>1, <1>2, InternGood
<1> HIDE DEF r
<1>4. HasName(r, "class", c) /\ HasNameType(r, n, d) /\ Extends(p, r)
  BY <1>1, <1>3, NameStays, ExtendsTwice
<1>5. /\ Find(r, NameEntry(r, "class", c)) = Find(q, NameEntry(q, "class", c))
      /\ Find(r, NameTypeEntry(r, n, d)) = Find(q, NameTypeEntry(q, n, d))
  <2>1. PICK i \in DOMAIN q : IsName(q, i, "class", c)
    BY <1>1 DEF HasName
  <2>2. PICK j \in DOMAIN q : IsNameType(q, j, n, d)
    BY <1>1 DEF HasNameType
  <2>3. IsName(r, i, "class", c) /\ IsNameType(r, j, n, d)
    <3>1. \A m \in DOMAIN q : m \in DOMAIN r /\ r[m] = q[m]
      BY <1>1, <1>3, EntryStays
    <3> QED BY <2>1, <2>2, <3>1 DEF IsName, IsNameType, IsUtf8
  <2>4. "class" \in Names
    BY DEF Names
  <2>5. i = Find(q, NameEntry(q, "class", c)) /\ i = Find(r, NameEntry(r, "class", c))
    BY <1>1, <1>3, <2>1, <2>3, <2>4, NameRead
  <2>6. j = Find(q, NameTypeEntry(q, n, d)) /\ j = Find(r, NameTypeEntry(r, n, d))
    BY <1>1, <1>3, <2>2, <2>3, NameTypeRead
  <2> QED BY <2>5, <2>6
<1>6. RefEntry(r, tag, c, n, d) = RefEntry(q, tag, c, n, d)
  BY <1>5 DEF RefEntry
<1>7. HasRef(r, tag, c, n, d)
  BY <1>3, <1>4, <1>6, RefFound DEF HasRef, IsRef
<1>8. ASSUME HasRef(p, tag, c, n, d) PROVE r = p
  <2>1. /\ HasName(p, "class", c) /\ HasNameType(p, n, d)
        /\ In(p, RefEntry(p, tag, c, n, d))
    BY <1>8, RefRead DEF HasRef
  <2> QED BY <1>1, <1>3, <2>1
<1>9. AddRef(p, tag, c, n, d) = r
  BY DEF AddRef, q, r
<1> QED BY <1>3, <1>4, <1>7, <1>8, <1>9

LEMMA InterfaceAdded ==
  ASSUME NEW p, Good(p), NEW c, NEW n, NEW d
  PROVE  /\ Good(AddInterface(p, c, n, d)) /\ Extends(p, AddInterface(p, c, n, d))
         /\ Len(AddInterface(p, c, n, d)) # 0
<1> DEFINE q == AddRefParts(p, c, n, d)
           r == Append(q, RefEntry(q, "interface", c, n, d))
<1>1. Good(q) /\ Extends(p, q) /\ HasName(q, "class", c) /\ HasNameType(q, n, d)
  BY RefPartsAdded
<1>a. Len(q) \in Nat /\ Len(q) # 0
  BY <1>1, GoodPool DEF HasName
<1> HIDE DEF q
<1>2. /\ Entry(RefEntry(q, "interface", c, n, d))
      /\ Refers(RefEntry(q, "interface", c, n, d), Len(q))
      /\ RefEntry(q, "interface", c, n, d)[1] = "interface"
  BY <1>1, EntriesRefer DEF RefEntry
<1>3. Good(r) /\ Extends(q, r) /\ Len(r) = Len(q) + 1
  BY <1>1, <1>2, AppendGood
<1> HIDE DEF r
<1>4. Extends(p, r) /\ Len(r) # 0
  BY <1>1, <1>3, <1>a, ExtendsTwice
<1>5. AddInterface(p, c, n, d) \in {q, r}
  BY DEF AddInterface, q, r
<1> QED BY <1>1, <1>3, <1>4, <1>5, <1>a

\* What the constants of each kind denote, and how they are added.
LEMMA Kinds ==
  ASSUME NEW k, Constant(k)
  PROVE  \/ /\ k[1] \in Texts
            /\ \A p, i : Denotes(p, i, k) <=> i \in DOMAIN p /\ p[i] = k
            /\ \A p : Add(p, k) = Intern(p, k) /\ Index(p, k) = Find(p, k)
            /\ Entry(k) /\ \A n : Refers(k, n)
         \/ /\ k[1] \in Names
            /\ \A p, i : Denotes(p, i, k) <=> IsName(p, i, k[1], k[2])
            /\ \A p : /\ Add(p, k) = AddName(p, k[1], k[2])
                      /\ Index(p, k) = Find(p, NameEntry(p, k[1], k[2]))
         \/ /\ k[1] = "nametype"
            /\ \A p, i : Denotes(p, i, k) <=> IsNameType(p, i, k[2], k[3])
            /\ \A p : /\ Add(p, k) = AddNameType(p, k[2], k[3])
                      /\ Index(p, k) = Find(p, NameTypeEntry(p, k[2], k[3]))
         \/ /\ k[1] \in Members
            /\ \A p, i : Denotes(p, i, k) <=> IsRef(p, i, k[1], k[2], k[3], k[4])
            /\ \A p : /\ Add(p, k) = AddRef(p, k[1], k[2], k[3], k[4])
                      /\ Index(p, k) = Find(p, RefEntry(p, k[1], k[2], k[3], k[4]))
         \/ /\ k[1] = "interface"
            /\ \A p : /\ Add(p, k) = AddInterface(p, k[2], k[3], k[4])
                      /\ Index(p, k) =
                            IF In(p, RefEntry(p, "method", k[2], k[3], k[4]))
                            THEN Find(p, RefEntry(p, "method", k[2], k[3], k[4]))
                            ELSE Len(p)
<1>1. CASE k[1] \in Texts
  BY <1>1 DEF Constant, Denotes, Add, Index, Entry, Refers, Texts, Names, Members
<1>2. CASE k[1] \in Names
  BY <1>2 DEF Denotes, Add, Index, Names
<1>3. CASE k[1] = "nametype"
  BY <1>3 DEF Denotes, Add, Index
<1>4. CASE k[1] \in Members
  BY <1>4 DEF Denotes, Add, Index, Members
<1>5. CASE k[1] = "interface"
  BY <1>5 DEF Add, Index
<1> QED BY <1>1, <1>2, <1>3, <1>4, <1>5 DEF Constant

\* Adding a constant keeps what is there, and a second time changes nothing;
LEMMA ConstantAdded ==
  ASSUME NEW p, Good(p), NEW k, Constant(k)
  PROVE  /\ Good(Add(p, k)) /\ Extends(p, Add(p, k))
         /\ k[1] # "interface" =>
               /\ Has(Add(p, k), k)
               /\ Has(p, k) => Add(p, k) = p
         /\ k[1] = "interface" => Len(Add(p, k)) # 0
<1>1. CASE k[1] \in Texts
  <2>1. /\ \A q, i : Denotes(q, i, k) <=> i \in DOMAIN q /\ q[i] = k
        /\ Add(p, k) = Intern(p, k) /\ Entry(k) /\ Refers(k, Len(p))
    BY <1>1, Kinds DEF Texts, Names, Members
  <2>2. k[1] # "interface"
    BY <1>1 DEF Texts
  <2>3. \A q : Has(q, k) <=> In(q, k)
    BY <2>1 DEF Has, In
  <2> QED BY <2>1, <2>2, <2>3, InternGood
<1>2. CASE k[1] \in Names
  <2>1. /\ \A q, i : Denotes(q, i, k) <=> IsName(q, i, k[1], k[2])
        /\ Add(p, k) = AddName(p, k[1], k[2]) /\ k[1] # "interface"
    BY <1>2, Kinds DEF Texts, Names, Members
  <2>2. \A q : Has(q, k) <=> HasName(q, k[1], k[2])
    BY <2>1 DEF Has, HasName
  <2> QED BY <1>2, <2>1, <2>2, NameAdded
<1>3. CASE k[1] = "nametype"
  <2>1. /\ \A q, i : Denotes(q, i, k) <=> IsNameType(q, i, k[2], k[3])
        /\ Add(p, k) = AddNameType(p, k[2], k[3])
    BY <1>3, Kinds DEF Texts, Names, Members
  <2>2. \A q : Has(q, k) <=> HasNameType(q, k[2], k[3])
    BY <2>1 DEF Has, HasNameType
  <2> QED BY <1>3, <2>1, <2>2, NameTypeAdded
<1>4. CASE k[1] \in Members
  <2>1. /\ \A q, i : Denotes(q, i, k) <=> IsRef(q, i, k[1], k[2], k[3], k[4])
        /\ Add(p, k) = AddRef(p, k[1], k[2], k[3], k[4]) /\ k[1] # "interface"
    BY <1>4, Kinds DEF Texts, Names, Members
  <2>2. \A q : Has(q, k) <=> HasRef(q, k[1], k[2], k[3], k[4])
    BY <2>1 DEF Has, HasRef
  <2> QED BY <1>4, <2>1, <2>2, RefAdded
<1>5. CASE k[1] = "interface"
  <2>1. Add(p, k) = AddInterface(p, k[2], k[3], k[4])
    BY <1>5, Kinds DEF Texts, Names, Members
  <2> QED BY <1>5, <2>1, InterfaceAdded
<1> QED BY <1>1, <1>2, <1>3, <1>4, <1>5 DEF Constant

\* and the index that is returned denotes it.
LEMMA IndexDenotes ==
  ASSUME NEW p, Good(p), NEW k, Constant(k), k[1] # "interface", Has(p, k)
  PROVE  Index(p, k) \in DOMAIN p /\ Denotes(p, Index(p, k), k)
<1>0. PICK i \in DOMAIN p : Denotes(p, i, k)
  BY DEF Has
<1>1. CASE k[1] \in Texts
  <2>1. Index(p, k) = Find(p, k) /\ p[i] = k
        /\ \A j : Denotes(p, j, k) <=> j \in DOMAIN p /\ p[j] = k
    BY <1>0, <1>1, Kinds DEF Texts, Names, Members
  <2>2. In(p, k)
    BY <2>1 DEF In
  <2> QED BY <2>1, <2>2, Lookup
<1>2. CASE k[1] \in Names
  <2>1. IsName(p, i, k[1], k[2]) /\ Index(p, k) = Find(p, NameEntry(p, k[1], k[2]))
    BY <1>0, <1>2, Kinds DEF Texts, Names, Members
  <2> QED BY <1>0, <1>2, <2>1, NameRead
<1>3. CASE k[1] = "nametype"
  <2>1. /\ IsNameType(p, i, k[2], k[3])
        /\ Index(p, k) = Find(p, NameTypeEntry(p, k[2], k[3]))
    BY <1>0, <1>3, Kinds DEF Texts, Names, Members
  <2> QED BY <1>0, <2>1, NameTypeRead
<1>4. CASE k[1] \in Members
  <2>1. /\ IsRef(p, i, k[1], k[2], k[3], k[4])
        /\ Index(p, k) = Find(p, RefEntry(p, k[1], k[2], k[3], k[4]))
    BY <1>0, <1>4, Kinds DEF Texts, Names, Members
  <2> QED BY <1>0, <1>4, <2>1, RefRead
<1> QED BY <1>1, <1>2, <1>3, <1>4 DEF Constant

LEMMA InterfaceIndex ==
  ASSUME NEW p, Good(p), NEW k, Constant(k), k[1] = "interface", Len(p) # 0
  PROVE  Index(p, k) \in DOMAIN p
<1>1. Index(p, k) = IF In(p, RefEntry(p, "method", k[2], k[3], k[4]))
                    THEN Find(p, RefEntry(p, "method", k[2], k[3], k[4]))
                    ELSE Len(p)
  BY Kinds DEF Texts, Names, Members
<1>2. Len(p) \in DOMAIN p
  BY GoodPool
<1> QED BY <1>1, <1>2, Lookup

-----------------------------------------------------------------------------
(* The steps.                                                              *)

LEMMA RefsStay ==
  ASSUME NEW p, NEW q, Good(p), Good(q), Extends(p, q), NEW asked, RefsGood(p, asked)
  PROVE  RefsGood(q, asked)
  BY EntryStays, DenotesStays DEF RefsGood

\* What a step of cp_add_* does.
LEMMA AddConstantPools ==
  ASSUME Pools, Work, AddConstant
  PROVE  Pools' /\ Extends(pool, pool')
<1> DEFINE k == Head(todo)
<1>1. Constant(k) /\ pool' = Add(pool, k)
      /\ refs' = refs \cup {<<Index(pool', k), k>>} /\ saved' = saved
  <2>1. k \in Elements(todo)
    BY HeadTailProper DEF AddConstant, Work
  <2> QED BY <2>1 DEF AddConstant, Work, Todo
<1> HIDE DEF k
<1>2. /\ Good(pool') /\ Extends(pool, pool')
      /\ k[1] # "interface" => Has(pool', k)
      /\ k[1] = "interface" => Len(pool') # 0
  BY <1>1, ConstantAdded DEF Pools
<1>3. Index(pool', k) \in DOMAIN pool' /\ (k[1] # "interface" => Denotes(pool', Index(pool', k), k))
  BY <1>1, <1>2, IndexDenotes, InterfaceIndex
<1>4. RefsGood(pool', refs)
  BY <1>2, RefsStay DEF Pools
<1>5. RefsGood(pool', refs')
  BY <1>1, <1>3, <1>4 DEF RefsGood
<1> QED BY <1>1, <1>2, <1>5 DEF Pools

LEMMA NextPools == Pools /\ Work /\ [Next]_vars => Pools'
<1> SUFFICES ASSUME Pools, Work, [Next]_vars PROVE Pools'
  OBVIOUS
<1>1. ASSUME UNCHANGED <<pool, refs, saved>> PROVE Pools'
  BY <1>1 DEF Pools
<1>2. CASE AddConstant
  BY <1>2, AddConstantPools
<1>3. CASE NextPart \/ EndText \/ WritePool \/ EndClass
  BY <1>1, <1>3 DEF NextPart, EndText, WritePool, EndClass
<1>4. ASSUME NEW k \in UserConstants, UseConstant(k) PROVE Pools'
  BY <1>1, <1>4 DEF UseConstant
<1>5. ASSUME NEW r \in Records, BeginRecord(r) PROVE Pools'
  <2>1. /\ pool' = <<>> /\ refs' = {}
        /\ saved'.pool = pool /\ saved'.refs = refs
    BY <1>5 DEF BeginRecord
  <2> QED BY <2>1, EmptyGood DEF Pools, RefsGood
<1>6. CASE EndRecord
  <2>1. /\ pool' = saved.pool /\ refs' = saved.refs
        /\ saved'.pool = <<>> /\ saved'.refs = {}
    BY <1>6 DEF EndRecord
  <2> QED BY <2>1, EmptyGood DEF Pools, RefsGood
<1>7. CASE UNCHANGED vars
  BY <1>1, <1>7 DEF vars
<1> QED BY <1>2, <1>3, <1>4, <1>5, <1>6, <1>7 DEF Next

-----------------------------------------------------------------------------
(* The parts that a class file is made of.                                 *)

Plain(k) == Constant(k) /\ k[1] # "interface"
Part(part) == Proper(part) /\ \A k \in Elements(part) : Plain(k)
Ready(seqs) == Proper(seqs) /\ \A part \in Elements(seqs) : Part(part)

LEMMA PlainConstants ==
  /\ \A s : Plain(Utf8(s)) /\ Plain(Class(s)) /\ Plain(String(s))
  /\ \A n, d : Plain(NameType(n, d))
  /\ \A c, n, d : Plain(FieldRef(c, n, d)) /\ Plain(MethodRef(c, n, d))
<1>1. \A s : Plain(Utf8(s)) /\ Plain(Class(s)) /\ Plain(String(s))
  BY DEF Plain, Constant, Utf8, Class, String, Texts, Names
<1>2. \A n, d : Plain(NameType(n, d))
  BY DEF Plain, Constant, NameType
<1>3. \A c, n, d : Plain(FieldRef(c, n, d)) /\ Plain(MethodRef(c, n, d))
  BY DEF Plain, Constant, FieldRef, MethodRef, Members
<1> QED BY <1>1, <1>2, <1>3

LEMMA SixLiterals ==
  ASSUME NEW a, NEW b, NEW c, NEW d, NEW e, NEW f
  PROVE  /\ Proper(<<a, b, c, d, e, f>>)
         /\ Elements(<<a, b, c, d, e, f>>) = {a, b, c, d, e, f}
  BY DEF Proper, Elements

LEMMA SevenLiterals ==
  ASSUME NEW a, NEW b, NEW c, NEW d, NEW e, NEW f, NEW g
  PROVE  /\ Proper(<<a, b, c, d, e, f, g>>)
         /\ Elements(<<a, b, c, d, e, f, g>>) = {a, b, c, d, e, f, g}
  BY DEF Proper, Elements

LEMMA ThirteenLiterals ==
  ASSUME NEW a, NEW b, NEW c, NEW d, NEW e, NEW f, NEW g, NEW h, NEW i, NEW j,
         NEW k, NEW l, NEW m
  PROVE  /\ Proper(<<a, b, c, d, e, f, g, h, i, j, k, l, m>>)
         /\ Elements(<<a, b, c, d, e, f, g, h, i, j, k, l, m>>)
               = {a, b, c, d, e, f, g, h, i, j, k, l, m}
  BY DEF Proper, Elements

LEMMA PartLiterals ==
  /\ Part(<<>>)
  /\ \A a : Plain(a) => Part(<<a>>)
  /\ \A a, b : Plain(a) /\ Plain(b) => Part(<<a, b>>)
  /\ \A a, b, c : Plain(a) /\ Plain(b) /\ Plain(c) => Part(<<a, b, c>>)
  BY Literals DEF Part

LEMMA PartConcat == \A s, t : Part(s) /\ Part(t) => Part(s \o t)
  BY ConcatProper DEF Part

LEMMA ReadyConcat ==
  ASSUME NEW s, NEW t, Ready(s), Ready(t)
  PROVE  Ready(s \o t) /\ AllOf(s \o t) = AllOf(s) \cup AllOf(t)
<1>1. Proper(s \o t) /\ Elements(s \o t) = Elements(s) \cup Elements(t)
  BY ConcatProper DEF Ready
<1> QED BY <1>1 DEF Ready, AllOf

\* One part for each element of a sequence.
LEMMA ReadyMap ==
  ASSUME NEW s, Proper(s), NEW f, f = [i \in DOMAIN s |-> f[i]],
         \A i \in DOMAIN s : Part(f[i])
  PROVE  Ready(f) /\ AllOf(f) = UNION {Elements(f[i]) : i \in DOMAIN s}
<1>1. Len(s) \in Nat /\ DOMAIN s = 1 .. Len(s) /\ DOMAIN f = DOMAIN s
  BY ProperSequence
<1>2. f \in [1 .. Len(s) -> Elements(f)]
  BY <1>1 DEF Elements
<1>3. f \in Seq(Elements(f))
  BY <1>1, <1>2, SeqDef
<1>4. Elements(f) = {f[i] : i \in DOMAIN s}
  BY <1>1 DEF Elements
<1>5. AllOf(f) = UNION {Elements(f[i]) : i \in DOMAIN s}
  BY <1>4 DEF AllOf
<1> QED BY <1>3, <1>4, <1>5 DEF Ready, Proper

LEMMA ReadyOne ==
  ASSUME NEW part, Part(part)
  PROVE  Ready(<<part>>) /\ AllOf(<<part>>) = Elements(part)
<1>1. Proper(<<part>>) /\ Elements(<<part>>) = {part}
  BY Literals
<1>2. Ready(<<part>>)
  BY <1>1 DEF Ready
<1>3. AllOf(<<part>>) = UNION {Elements(x) : x \in {part}}
  BY <1>1 DEF AllOf
<1> QED BY <1>2, <1>3

LEMMA NamedParts ==
  /\ \A n, d : Part(Named(n, d)) /\ Elements(Named(n, d)) = {Utf8(n), Utf8(d)}
  /\ \A n, d : /\ Part(Heading(n, d))
               /\ Elements(Heading(n, d)) = {Utf8(n), Utf8(d), Utf8("Code")}
  /\ \A n, d : Part(MethodPart(n, d))
<1>1. \A n, d : Part(Named(n, d)) /\ Elements(Named(n, d)) = {Utf8(n), Utf8(d)}
  BY PartLiterals, PlainConstants, Literals DEF Named
<1>2. ASSUME NEW n, NEW d
      PROVE  /\ Part(Heading(n, d))
             /\ Elements(Heading(n, d)) = {Utf8(n), Utf8(d), Utf8("Code")}
  <2>1. Part(<<Utf8("Code")>>) /\ Elements(<<Utf8("Code")>>) = {Utf8("Code")}
    BY PartLiterals, PlainConstants, Literals
  <2>2. Part(Named(n, d)) /\ Elements(Named(n, d)) = {Utf8(n), Utf8(d)}
    BY <1>1
  <2>3. Elements(Heading(n, d)) = Elements(Named(n, d)) \cup Elements(<<Utf8("Code")>>)
    BY <2>1, <2>2, ConcatProper DEF Heading, Part
  <2> QED BY <2>1, <2>2, <2>3, PartConcat DEF Heading
<1>3. ASSUME NEW n, NEW d PROVE Part(MethodPart(n, d))
  <2>1. Part(<<Utf8("Exceptions"), Class("java/lang/Exception")>>)
    BY PartLiterals, PlainConstants
  <2> QED BY <1>2, <2>1, PartConcat DEF MethodPart
<1> QED BY <1>1, <1>2, <1>3

LEMMA ModuleParts ==
  /\ Part(MainPart) /\ Part(ThisPart) /\ Part(Beginning) /\ Part(Halt) /\ Part(NeededLater)
  /\ Ready(RoutineParts) /\ Ready(VariableParts) /\ Ready(CanvasParts)
<1>1. Part(MainPart)
  BY NamedParts DEF MainPart
<1>2. Part(ThisPart) /\ Part(Halt)
  BY PartLiterals, PlainConstants DEF ThisPart, Halt
<1>3. Part(Beginning)
  <2>1. ASSUME NEW a, NEW b, NEW c, NEW d, NEW e, NEW f,
               Plain(a), Plain(b), Plain(c), Plain(d), Plain(e), Plain(f)
        PROVE  Part(<<a, b, c, d, e, f>>)
    BY <2>1, SixLiterals DEF Part
  <2> QED BY <2>1, PlainConstants DEF Beginning
<1>4. Part(NeededLater)
  <2>1. ASSUME NEW a, NEW b, NEW c, NEW d, NEW e, NEW f, NEW g, NEW h, NEW i, NEW j,
               NEW k, NEW l, NEW m,
               Plain(a), Plain(b), Plain(c), Plain(d), Plain(e), Plain(f), Plain(g),
               Plain(h), Plain(i), Plain(j), Plain(k), Plain(l), Plain(m)
        PROVE  Part(<<a, b, c, d, e, f, g, h, i, j, k, l, m>>)
    BY <2>1, ThirteenLiterals DEF Part
  <2> QED BY <2>1, PlainConstants DEF NeededLater
<1>5. Ready(RoutineParts)
  <2>1. Proper(Routines)
    BY ConstantAssumption DEF Proper, Elements
  <2>2. RoutineParts = [i \in DOMAIN Routines |-> RoutineParts[i]]
        /\ \A i \in DOMAIN Routines : Part(RoutineParts[i])
    BY NamedParts DEF RoutineParts
  <2> QED BY <2>1, <2>2, ReadyMap
<1>6. Ready(VariableParts)
  <2>1. Proper(Variables)
    BY ConstantAssumption DEF Proper, Elements
  <2>2. VariableParts = [i \in DOMAIN Variables |-> VariableParts[i]]
        /\ \A i \in DOMAIN Variables : Part(VariableParts[i])
    BY NamedParts DEF VariableParts
  <2> QED BY <2>1, <2>2, ReadyMap
<1>7. Ready(CanvasParts)
  <2>1. Part(ConstructorPart)
    BY PartLiterals, PlainConstants, NamedParts, PartConcat DEF ConstructorPart
  <2>2. Part(PaintPart) /\ Part(KeyPressedPart) /\ Part(KeyReleasedPart)
    BY PartLiterals, PlainConstants, NamedParts, PartConcat
       DEF PaintPart, KeyPressedPart, KeyReleasedPart
  <2>3. Part(RunPart)
    <3>1. Part(<<MethodRef("M", "R", "()V")>> \o Heading("run", "()V"))
      BY PartLiterals, PlainConstants, NamedParts, PartConcat
    <3>2. Part(<<Class("java/lang/Exception"), Utf8("StackMap"), Class("M")>>)
      BY PartLiterals, PlainConstants
    <3> QED BY <3>1, <3>2, PartConcat DEF RunPart
  <2>4. ASSUME NEW a, NEW b, NEW c, NEW d, NEW e,
               Part(a), Part(b), Part(c), Part(d), Part(e)
        PROVE  Ready(<<a, b, c, d, e>>)
    <3>1. Proper(<<a, b, c, d, e>>) /\ Elements(<<a, b, c, d, e>>) = {a, b, c, d, e}
      BY DEF Proper, Elements
    <3> QED BY <2>4, <3>1 DEF Ready
  <2>5. Ready(<<>>)
    BY Literals DEF Ready
  <2> QED BY <2>1, <2>2, <2>3, <2>4, <2>5 DEF CanvasParts
<1> QED BY <1>1, <1>2, <1>3, <1>4, <1>5, <1>6, <1>7

LEMMA ModuleDry ==
  /\ Ready(DryParts)
  /\ AllOf(DryParts) = Elements(ThisPart) \cup Elements(MainPart) \cup AllOf(RoutineParts)
        \cup AllOf(VariableParts) \cup AllOf(CanvasParts) \cup Elements(NeededLater)
<1>1. /\ Ready(<<ThisPart, MainPart>>)
      /\ AllOf(<<ThisPart, MainPart>>) = Elements(ThisPart) \cup Elements(MainPart)
  BY ModuleParts, Literals DEF Ready, AllOf
<1>2. /\ Ready(<<ThisPart, MainPart>> \o RoutineParts)
      /\ AllOf(<<ThisPart, MainPart>> \o RoutineParts)
            = AllOf(<<ThisPart, MainPart>>) \cup AllOf(RoutineParts)
  BY <1>1, ModuleParts, ReadyConcat
<1>3. /\ Ready(<<ThisPart, MainPart>> \o RoutineParts \o VariableParts)
      /\ AllOf(<<ThisPart, MainPart>> \o RoutineParts \o VariableParts)
            = AllOf(<<ThisPart, MainPart>> \o RoutineParts) \cup AllOf(VariableParts)
  BY <1>2, ModuleParts, ReadyConcat
<1>4. /\ Ready(<<ThisPart, MainPart>> \o RoutineParts \o VariableParts \o CanvasParts)
      /\ AllOf(<<ThisPart, MainPart>> \o RoutineParts \o VariableParts \o CanvasParts)
            = AllOf(<<ThisPart, MainPart>> \o RoutineParts \o VariableParts)
              \cup AllOf(CanvasParts)
  BY <1>3, ModuleParts, ReadyConcat
<1>5. Ready(<<NeededLater>>) /\ AllOf(<<NeededLater>>) = Elements(NeededLater)
  BY ModuleParts, ReadyOne
<1>6. /\ Ready(DryParts)
      /\ AllOf(DryParts)
            = AllOf(<<ThisPart, MainPart>> \o RoutineParts \o VariableParts \o CanvasParts)
              \cup AllOf(<<NeededLater>>)
  BY <1>4, <1>5, ReadyConcat DEF DryParts
<1> QED BY <1>1, <1>2, <1>3, <1>4, <1>5, <1>6

\* A constant has parts that are constants themselves.
LEMMA HasParts ==
  ASSUME NEW p, Good(p)
  PROVE  /\ \A n, d : Has(p, NameType(n, d)) => Has(p, Utf8(n)) /\ Has(p, Utf8(d))
         /\ \A c, n, d : Has(p, FieldRef(c, n, d)) => Has(p, Utf8(n)) /\ Has(p, Utf8(d))
<1>1. \A i, k : k[1] = "utf8" => (Denotes(p, i, k) <=> i \in DOMAIN p /\ p[i] = k)
  BY DEF Denotes
<1>2. ASSUME NEW s, In(p, Utf8(s)) PROVE Has(p, Utf8(s))
  BY <1>1, <1>2, Tuples DEF Has, In
<1>3. ASSUME NEW n, NEW d, NEW i, IsNameType(p, i, n, d)
      PROVE  Has(p, Utf8(n)) /\ Has(p, Utf8(d))
  BY <1>2, <1>3, NameTypeRead
<1>4. ASSUME NEW n, NEW d, Has(p, NameType(n, d)) PROVE Has(p, Utf8(n)) /\ Has(p, Utf8(d))
  <2>1. PICK i \in DOMAIN p : Denotes(p, i, NameType(n, d))
    BY <1>4 DEF Has
  <2>2. IsNameType(p, i, n, d)
    BY <2>1 DEF Denotes, NameType
  <2> QED BY <1>3, <2>2
<1>5. ASSUME NEW c, NEW n, NEW d, Has(p, FieldRef(c, n, d))
      PROVE  Has(p, Utf8(n)) /\ Has(p, Utf8(d))
  <2>1. PICK i \in DOMAIN p : Denotes(p, i, FieldRef(c, n, d))
    BY <1>5 DEF Has
  <2>2. IsRef(p, i, "field", c, n, d)
    BY <2>1 DEF Denotes, FieldRef
  <2> QED BY <1>3, <2>2 DEF IsRef
<1> QED BY <1>4, <1>5

\* The constants that are asked for after the pool was written were asked for
\* before, as such or as a part of another constant.
LEMMA FixedFieldsAsked ==
  /\ Ready(FixedFields)
  /\ \A p : Good(p) /\ (\A k \in Dry : Has(p, k)) => \A k \in AllOf(FixedFields) : Has(p, k)
<1>1. CASE unit
  <2>1. FixedFields = <<>>
    BY <1>1 DEF FixedFields
  <2> QED BY <2>1, Literals DEF Ready, AllOf
<1>2. CASE ~unit
  <2> DEFINE runnable == <<Class("java/lang/Runnable")>>
             rng == Named("RNG", RandomType)  i == Named("I", ImageType)
             t == Named("T", "LM;")           g == Named("G", GraphicsType)
             kc == Named("KC", "I")           kp == Named("KP", "I")
             ic == Named("IC", "[I")
  <2>1. FixedFields = <<runnable, rng, i, t, g, kc, kp, ic>>
    BY <1>2 DEF FixedFields
  <2>2. /\ Part(runnable) /\ Part(rng) /\ Part(i) /\ Part(t)
        /\ Part(g) /\ Part(kc) /\ Part(kp) /\ Part(ic)
    BY PartLiterals, PlainConstants, NamedParts
  <2>3. /\ Elements(runnable) = {Class("java/lang/Runnable")}
        /\ Elements(rng) = {Utf8("RNG"), Utf8(RandomType)}
        /\ Elements(i) = {Utf8("I"), Utf8(ImageType)}
        /\ Elements(t) = {Utf8("T"), Utf8("LM;")}
        /\ Elements(g) = {Utf8("G"), Utf8(GraphicsType)}
        /\ Elements(kc) = {Utf8("KC"), Utf8("I")}
        /\ Elements(kp) = {Utf8("KP"), Utf8("I")}
        /\ Elements(ic) = {Utf8("IC"), Utf8("[I")}
    BY NamedParts, Literals
  <2> HIDE DEF runnable, rng, i, t, g, kc, kp, ic
  <2>4. /\ Proper(FixedFields)
        /\ Elements(FixedFields) = {runnable, rng, i, t, g, kc, kp, ic}
    BY <2>1 DEF Proper, Elements
  <2>5. Ready(FixedFields)
    BY <2>2, <2>4 DEF Ready
  <2>6. Elements(NeededLater) \subseteq Dry
    BY ModuleDry DEF Dry
  <2>7. /\ Utf8("I") \in Elements(NeededLater) /\ Utf8("T") \in Elements(NeededLater)
        /\ Utf8("G") \in Elements(NeededLater) /\ Utf8("KC") \in Elements(NeededLater)
        /\ Utf8("KP") \in Elements(NeededLater) /\ Utf8("IC") \in Elements(NeededLater)
        /\ Utf8("[I") \in Elements(NeededLater)
        /\ Utf8(ImageType) \in Elements(NeededLater)
        /\ Utf8("LM;") \in Elements(NeededLater)
        /\ Utf8(GraphicsType) \in Elements(NeededLater)
        /\ Class("java/lang/Runnable") \in Elements(NeededLater)
    <3>1. /\ DOMAIN NeededLater = 1 .. 13
          /\ NeededLater[1] = Utf8("I")   /\ NeededLater[2] = Utf8("T")
          /\ NeededLater[3] = Utf8("G")   /\ NeededLater[4] = Utf8("KC")
          /\ NeededLater[5] = Utf8("KP")  /\ NeededLater[6] = Utf8("IC")
          /\ NeededLater[7] = Utf8("[I")  /\ NeededLater[8] = Utf8(ImageType)
          /\ NeededLater[9] = Utf8("LM;") /\ NeededLater[11] = Utf8(GraphicsType)
          /\ NeededLater[12] = Class("java/lang/Runnable")
      BY DEF NeededLater
    <3>2. \A n \in 1 .. 13 : NeededLater[n] \in Elements(NeededLater)
      BY <3>1 DEF Elements
    <3>3. /\ NeededLater[1] \in Elements(NeededLater)
          /\ NeededLater[2] \in Elements(NeededLater)
          /\ NeededLater[3] \in Elements(NeededLater)
          /\ NeededLater[4] \in Elements(NeededLater)
          /\ NeededLater[5] \in Elements(NeededLater)
          /\ NeededLater[6] \in Elements(NeededLater)
          /\ NeededLater[7] \in Elements(NeededLater)
          /\ NeededLater[8] \in Elements(NeededLater)
          /\ NeededLater[9] \in Elements(NeededLater)
          /\ NeededLater[11] \in Elements(NeededLater)
          /\ NeededLater[12] \in Elements(NeededLater)
      BY <3>2
    <3> QED BY <3>1, <3>3
  <2>8. FieldRef("M", "RNG", RandomType) \in Dry
    <3>1. FieldRef("M", "RNG", RandomType) \in Elements(Beginning)
      BY DEF Beginning, Elements
    <3> QED BY <1>2, <3>1 DEF Dry, Before
  <2>9. ASSUME NEW p, Good(p), \A k \in Dry : Has(p, k), NEW k \in AllOf(FixedFields)
        PROVE  Has(p, k)
    <3>1. PICK part \in {runnable, rng, i, t, g, kc, kp, ic} : k \in Elements(part)
      BY <2>4 DEF AllOf
    <3>2. k \in Elements(NeededLater) \/ k \in {Utf8("RNG"), Utf8(RandomType)}
      BY <2>3, <2>7, <3>1
    <3>3. Has(p, Utf8("RNG")) /\ Has(p, Utf8(RandomType))
      BY <2>8, <2>9, HasParts
    <3> QED BY <2>6, <2>9, <3>2, <3>3
  <2> QED BY <2>5, <2>9
<1> QED BY <1>1, <1>2

LEMMA ModuleRest ==
  /\ Ready(RestParts)
  /\ \A p : Good(p) /\ (\A k \in Dry : Has(p, k)) => \A k \in AllOf(RestParts) : Has(p, k)
<1>1. /\ Ready(FixedFields \o VariableParts)
      /\ AllOf(FixedFields \o VariableParts) = AllOf(FixedFields) \cup AllOf(VariableParts)
  BY FixedFieldsAsked, ModuleParts, ReadyConcat
<1>2. /\ Ready(FixedFields \o VariableParts \o CanvasParts)
      /\ AllOf(FixedFields \o VariableParts \o CanvasParts)
            = AllOf(FixedFields \o VariableParts) \cup AllOf(CanvasParts)
  BY <1>1, ModuleParts, ReadyConcat
<1>3. /\ Ready(FixedFields \o VariableParts \o CanvasParts \o RoutineParts)
      /\ AllOf(FixedFields \o VariableParts \o CanvasParts \o RoutineParts)
            = AllOf(FixedFields \o VariableParts \o CanvasParts) \cup AllOf(RoutineParts)
  BY <1>2, ModuleParts, ReadyConcat
<1>4. Ready(<<MainPart>>) /\ AllOf(<<MainPart>>) = Elements(MainPart)
  BY ModuleParts, ReadyOne
<1>5. /\ Ready(RestParts)
      /\ AllOf(RestParts)
            = AllOf(FixedFields \o VariableParts \o CanvasParts \o RoutineParts)
              \cup AllOf(<<MainPart>>)
  BY <1>3, <1>4, ReadyConcat DEF RestParts
<1>6. AllOf(RestParts) \subseteq AllOf(FixedFields) \cup Dry
  BY <1>1, <1>2, <1>3, <1>4, <1>5, ModuleDry DEF Dry
<1> QED BY <1>5, <1>6, FixedFieldsAsked

\* The same for the class of a record type.
LEMMA RecordDryParts ==
  ASSUME NEW r \in Records
  PROVE  /\ Part(RecordHead(r)) /\ Ready(RecordParts(r))
         /\ AllOf(FieldTypes(r)) \subseteq AllOf(RecordParts(r))
<1>0. Proper(r.fields)
  BY ConstantAssumption DEF Proper, Elements
<1>1. Part(RecordHead(r))
  BY SevenLiterals, PlainConstants DEF RecordHead, Part
<1>2. Ready(FieldTypes(r))
  <2>1. /\ FieldTypes(r) = [i \in DOMAIN r.fields |-> FieldTypes(r)[i]]
        /\ \A i \in DOMAIN r.fields : Part(FieldTypes(r)[i])
    BY PartLiterals, PlainConstants DEF FieldTypes
  <2> QED BY <1>0, <2>1, ReadyMap
<1> DEFINE object == << << MethodRef("java/lang/Object", "<init>", "()V") >> >>
           inits == [i \in DOMAIN r.fields |-> InitField(r.class, r.fields[i])]
           copies == [i \in DOMAIN r.fields |-> CopyField(r.class, r.fields[i])]
<1>3. Ready(object)
  BY PartLiterals, PlainConstants, ReadyOne
<1>4. Ready(inits)
  <2>1. ASSUME NEW c, NEW f PROVE Part(InitField(c, f))
    BY PartLiterals, PlainConstants, PartConcat DEF InitField
  <2>2. /\ inits = [i \in DOMAIN r.fields |-> inits[i]]
        /\ \A i \in DOMAIN r.fields : Part(inits[i])
    BY <2>1
  <2> HIDE DEF inits
  <2> QED BY <1>0, <2>2, ReadyMap
<1>5. Ready(copies)
  <2>1. ASSUME NEW c, NEW f PROVE Part(CopyField(c, f))
    BY PartLiterals, PlainConstants, PartConcat DEF CopyField
  <2>2. /\ copies = [i \in DOMAIN r.fields |-> copies[i]]
        /\ \A i \in DOMAIN r.fields : Part(copies[i])
    BY <2>1
  <2> HIDE DEF copies
  <2> QED BY <1>0, <2>2, ReadyMap
<1>6. RecordParts(r) = FieldTypes(r) \o object \o inits \o copies
  BY DEF RecordParts
<1> HIDE DEF object, inits, copies
<1>7. /\ Ready(FieldTypes(r) \o object)
      /\ AllOf(FieldTypes(r) \o object) = AllOf(FieldTypes(r)) \cup AllOf(object)
  BY <1>2, <1>3, ReadyConcat
<1>8. /\ Ready(FieldTypes(r) \o object \o inits)
      /\ AllOf(FieldTypes(r) \o object \o inits)
            = AllOf(FieldTypes(r) \o object) \cup AllOf(inits)
  BY <1>4, <1>7, ReadyConcat
<1>9. /\ Ready(RecordParts(r))
      /\ AllOf(RecordParts(r)) = AllOf(FieldTypes(r) \o object \o inits) \cup AllOf(copies)
  BY <1>5, <1>6, <1>8, ReadyConcat
<1> QED BY <1>1, <1>7, <1>8, <1>9

LEMMA RecordRestParts ==
  ASSUME NEW r \in Records
  PROVE  /\ Ready(RecordRest(r))
         /\ \A p : Good(p) /\ (\A k \in RecordDry(r) : Has(p, k))
               => \A k \in AllOf(RecordRest(r)) : Has(p, k)
<1>0. Proper(r.fields)
  BY ConstantAssumption DEF Proper, Elements
<1> DEFINE this == <<Class(r.class), Class("java/lang/Object")>>
           fields == [i \in DOMAIN r.fields |-> Named(r.fields[i].name, r.fields[i].desc)]
           new == Heading("<init>", "()V")
           copy == Heading("Copy", r.sig)
<1>1. Part(this) /\ Elements(this) = {Class(r.class), Class("java/lang/Object")}
  BY PartLiterals, PlainConstants, Literals
<1>2. /\ Part(new) /\ Elements(new) = {Utf8("<init>"), Utf8("()V"), Utf8("Code")}
      /\ Part(copy) /\ Elements(copy) = {Utf8("Copy"), Utf8(r.sig), Utf8("Code")}
  BY NamedParts
<1>3. /\ Ready(fields)
      /\ \A k \in AllOf(fields) : \E i \in DOMAIN r.fields :
            k \in {Utf8(r.fields[i].name), Utf8(r.fields[i].desc)}
  <2>1. /\ fields = [i \in DOMAIN r.fields |-> fields[i]]
        /\ \A i \in DOMAIN r.fields :
              /\ Part(fields[i])
              /\ Elements(fields[i]) = {Utf8(r.fields[i].name), Utf8(r.fields[i].desc)}
    BY NamedParts
  <2> HIDE DEF fields
  <2>2. Ready(fields) /\ AllOf(fields) = UNION {Elements(fields[i]) : i \in DOMAIN r.fields}
    BY <1>0, <2>1, ReadyMap
  <2> QED BY <2>1, <2>2
<1>4. RecordRest(r) = <<this>> \o fields \o <<new, copy>>
  BY DEF RecordRest
<1> HIDE DEF this, fields, new, copy
<1>5. Ready(<<this>>) /\ AllOf(<<this>>) = Elements(this)
  BY <1>1, ReadyOne
<1>6. Ready(<<new, copy>>) /\ AllOf(<<new, copy>>) = Elements(new) \cup Elements(copy)
  BY <1>2, Literals DEF Ready, AllOf
<1>7. Ready(<<this>> \o fields) /\ AllOf(<<this>> \o fields) = AllOf(<<this>>) \cup AllOf(fields)
  BY <1>3, <1>5, ReadyConcat
<1>8. /\ Ready(RecordRest(r))
      /\ AllOf(RecordRest(r)) = AllOf(<<this>> \o fields) \cup AllOf(<<new, copy>>)
  BY <1>4, <1>6, <1>7, ReadyConcat
<1>9. {Class(r.class), Class("java/lang/Object"), Utf8("<init>"), Utf8("()V"), Utf8("Code"),
       Utf8("Copy"), Utf8(r.sig)} \subseteq Elements(RecordHead(r))
  BY SevenLiterals DEF RecordHead
<1>10. ASSUME NEW i \in DOMAIN r.fields
       PROVE  NameType(r.fields[i].name, r.fields[i].desc) \in AllOf(FieldTypes(r))
  <2>1. /\ FieldTypes(r)[i] = <<NameType(r.fields[i].name, r.fields[i].desc)>>
        /\ i \in DOMAIN FieldTypes(r)
    BY DEF FieldTypes
  <2>2. FieldTypes(r)[i] \in Elements(FieldTypes(r))
    BY <2>1 DEF Elements
  <2>3. Elements(FieldTypes(r)[i]) = {NameType(r.fields[i].name, r.fields[i].desc)}
    BY <2>1, Literals
  <2> QED BY <2>2, <2>3 DEF AllOf
<1>11. ASSUME NEW p, Good(p), \A k \in RecordDry(r) : Has(p, k), NEW k \in AllOf(RecordRest(r))
       PROVE  Has(p, k)
  <2>1. CASE k \in AllOf(fields)
    <3>1. PICK i \in DOMAIN r.fields : k \in {Utf8(r.fields[i].name), Utf8(r.fields[i].desc)}
      BY <1>3, <2>1
    <3>2. NameType(r.fields[i].name, r.fields[i].desc) \in RecordDry(r)
      BY <1>10, RecordDryParts DEF RecordDry
    <3>3. Has(p, Utf8(r.fields[i].name)) /\ Has(p, Utf8(r.fields[i].desc))
      BY <1>11, <3>2, HasParts
    <3> QED BY <3>1, <3>3
  <2>2. CASE k \notin AllOf(fields)
    <3>1. k \in Elements(RecordHead(r))
      BY <1>1, <1>2, <1>5, <1>6, <1>7, <1>8, <1>9, <1>11, <2>2
    <3> QED BY <1>11, <3>1 DEF RecordDry
  <2> QED BY <2>1, <2>2
<1> QED BY <1>8, <1>11

-----------------------------------------------------------------------------
(* What is still to be added, step by step.                                *)

LEMMA DryPlain ==
  /\ \A k \in Dry : Plain(k)
  /\ \A k \in Before : Plain(k)
  /\ \A r \in Records : \A k \in RecordDry(r) : Plain(k)
<1>1. \A k \in Before : Plain(k)
  BY ModuleParts DEF Before, Part
<1>2. \A k \in AllOf(DryParts) : Plain(k)
  BY ModuleDry DEF Ready, AllOf, Part
<1>3. \A k \in Dry : Plain(k)
  BY <1>1, <1>2, ModuleParts DEF Dry, Part
<1>4. \A r \in Records : \A k \in RecordDry(r) : Plain(k)
  BY RecordDryParts DEF RecordDry, Ready, AllOf, Part
<1> QED BY <1>1, <1>3, <1>4

LEMMA IdleTodo == Idle => Todo = {}
  BY Literals DEF Idle, Todo, AllOf

LEMMA AddConstantTodo ==
  ASSUME Work, AddConstant
  PROVE  /\ Proper(todo') /\ Head(todo) \in Todo
         /\ Todo = {Head(todo)} \cup Todo'
  BY HeadTailProper DEF Work, AddConstant, Todo, AllOf

\* A constant that was to be added still is, or is there.
LEMMA AddConstantAsked ==
  ASSUME Pools, Work, AddConstant, NEW k, Plain(k), Has(pool, k) \/ k \in Todo
  PROVE  Has(pool', k) \/ k \in Todo'
<1>1. Good(pool) /\ Good(pool') /\ Extends(pool, pool')
  BY AddConstantPools DEF Pools
<1>2. CASE Has(pool, k)
  BY <1>1, <1>2, HasStays
<1>3. CASE k = Head(todo)
  <2>1. pool' = Add(pool, k)
    BY <1>3 DEF AddConstant
  <2> QED BY <1>1, <2>1, ConstantAdded DEF Plain
<1> QED BY <1>2, <1>3, AddConstantTodo

LEMMA HasNonEmpty == \A p, k : Has(p, k) => p # <<>>
  BY DEF Has

LEMMA AddConstantWork == Pools /\ Work /\ AddConstant => Work'
<1> SUFFICES ASSUME Pools, Work, AddConstant PROVE Work'
  OBVIOUS
<1>1. /\ UNCHANGED <<unit, canvas, phase, parts, record, saved, file>>
      /\ pool' = Add(pool, Head(todo))
  BY DEF AddConstant
<1>2. Dry' = Dry /\ Before' = Before
  BY <1>1 DEF Dry, Before, DryParts, ThisPart, MainPart, CanvasParts, ConstructorPart
<1>3. Proper(todo') /\ Head(todo) \in Todo /\ Todo' \subseteq Todo
  BY AddConstantTodo
<1>4. \A k : Plain(k) /\ (Has(pool, k) \/ k \in Todo) => Has(pool', k) \/ k \in Todo'
  BY AddConstantAsked
<1>5. phase = "parse" => Asked(Before)'
  BY <1>2, <1>4, DryPlain DEF Work, Asked
<1>6. phase = "dry" => Asked(Dry)'
  BY <1>2, <1>4, DryPlain DEF Work, Asked
<1>7. phase = "record dry" => Asked(RecordDry(record))'
  BY <1>1, <1>4, DryPlain DEF Work, Asked
<1>8. ASSUME Written
      PROVE  pool' = pool /\ \A k \in Todo' : Has(pool, k) /\ k[1] # "interface"
  <2>1. \A k \in Todo : Has(pool, k) /\ k[1] # "interface" /\ Constant(k)
    BY <1>8 DEF Work
  <2>2. Add(pool, Head(todo)) = pool
    BY <1>3, <2>1, ConstantAdded DEF Pools
  <2> QED BY <1>1, <1>3, <2>1, <2>2
<1>9. IF Written'
      THEN /\ pool' = file' /\ file' # NotWritten
           /\ \A k \in Todo' : Has(pool', k) /\ k[1] # "interface"
      ELSE file' = NotWritten
  BY <1>1, <1>8 DEF Work, Written, NotWritten
<1>10. /\ phase' \in {"parse", "record dry", "record rest", "dry", "rest", "done", "dead"}
       /\ record' \in Records \cup {None}
       /\ Proper(parts') /\ \A part \in Elements(parts') : Proper(part)
       /\ \A k \in Todo' : Constant(k)
       /\ phase' \in {"record dry", "record rest"} =>
             record' \in Records /\ \A k \in Before' : Has(saved'.pool, k)
  BY <1>1, <1>2, <1>3 DEF Work
<1> QED BY <1>1, <1>3, <1>5, <1>6, <1>7, <1>9, <1>10 DEF Work

LEMMA NextPartWork == Work /\ NextPart => Work'
<1> SUFFICES ASSUME Work, NextPart PROVE Work'
  OBVIOUS
<1>1. UNCHANGED <<unit, canvas, phase, pool, record, saved, file>>
  BY DEF NextPart
<1>2. Dry' = Dry /\ Before' = Before
  BY <1>1 DEF Dry, Before, DryParts, ThisPart, MainPart, CanvasParts, ConstructorPart
<1>3. /\ Proper(parts') /\ Head(parts) \in Elements(parts)
      /\ Elements(parts) = {Head(parts)} \cup Elements(parts')
  BY HeadTailProper DEF NextPart, Work
<1>4. Proper(todo') /\ \A part \in Elements(parts') : Proper(part)
  BY <1>3 DEF NextPart, Work
<1>5. Todo' = Todo
  <2>1. AllOf(parts) = Elements(Head(parts)) \cup AllOf(parts')
    BY <1>3 DEF AllOf
  <2>2. Elements(todo) = {} /\ todo' = Head(parts)
    BY Literals DEF NextPart
  <2> QED BY <2>1, <2>2 DEF Todo, AllOf
<1>6. Written' <=> Written
  BY <1>1 DEF Written
<1> QED BY <1>1, <1>2, <1>3, <1>4, <1>5, <1>6 DEF Work, Asked, NotWritten

\* A function that begins: its constants are what is to be added.
LEMMA TodoOf ==
  ASSUME Part(todo'), Ready(parts')
  PROVE  /\ Proper(todo') /\ Proper(parts') /\ \A part \in Elements(parts') : Proper(part)
         /\ Todo' = Elements(todo') \cup AllOf(parts')
         /\ \A k \in Todo' : Plain(k)
<1>1. Todo' = Elements(todo') \cup AllOf(parts')
  BY DEF Todo, AllOf, Elements
<1> QED BY <1>1 DEF Part, Ready, AllOf

LEMMA UseConstantWork ==
  ASSUME Work, NEW k \in UserConstants, UseConstant(k)
  PROVE  Work'
<1>1. /\ UNCHANGED <<unit, canvas, phase, parts, pool, record, saved, file>>
      /\ phase = "parse" /\ todo' = <<k>> /\ parts = <<>> /\ Todo = {}
  BY IdleTodo DEF UseConstant, Idle
<1>2. Before' = Before
  BY <1>1 DEF Before
<1>3. Constant(k)
  BY ConstantAssumption DEF Constant, Texts, Names, Members
<1>4. Proper(todo') /\ Elements(todo') = {k} /\ Elements(parts') = {} /\ Proper(parts')
  BY <1>1, Literals
<1>5. Todo' = {k}
  BY <1>4 DEF Todo, AllOf
<1>6. ~Written /\ ~Written'
  BY <1>1 DEF Written
<1>7. \A j \in Before' : Has(pool', j)
  BY <1>1, <1>2 DEF Work, Asked
<1> QED BY <1>1, <1>3, <1>4, <1>5, <1>6, <1>7 DEF Work, Asked, NotWritten

LEMMA BeginRecordWork ==
  ASSUME Work, NEW r \in Records, BeginRecord(r)
  PROVE  Work'
<1>1. /\ UNCHANGED <<unit, canvas, file>>
      /\ phase = "parse" /\ phase' = "record dry" /\ record' = r
      /\ saved'.pool = pool /\ todo' = RecordHead(r) /\ parts' = RecordParts(r) /\ Todo = {}
  BY IdleTodo DEF BeginRecord
<1>2. Before' = Before
  BY <1>1 DEF Before
<1>3. /\ Proper(todo') /\ Proper(parts') /\ \A part \in Elements(parts') : Proper(part)
      /\ Todo' = RecordDry(r) /\ \A k \in Todo' : Plain(k)
  BY <1>1, TodoOf, RecordDryParts DEF RecordDry
<1>4. \A k \in Before' : Has(saved'.pool, k)
  BY <1>1, <1>2 DEF Work, Asked
<1>5. ~Written /\ ~Written'
  BY <1>1 DEF Written
<1>6. Asked(RecordDry(record))'
  BY <1>1, <1>3 DEF Asked
<1> QED BY <1>1, <1>3, <1>4, <1>5, <1>6 DEF Work, Plain, NotWritten

LEMMA EndTextWork == Work /\ EndText => Work'
<1> SUFFICES ASSUME Work, EndText PROVE Work'
  OBVIOUS
<1>1. /\ UNCHANGED <<unit, canvas, pool, record, saved, file>>
      /\ phase = "parse" /\ phase' = "dry" /\ parts' = DryParts /\ Todo = {}
      /\ todo' = IF unit THEN <<>> ELSE Halt
  BY IdleTodo DEF EndText
<1>2. Dry' = Dry /\ Before' = Before
  BY <1>1 DEF Dry, Before, DryParts, ThisPart, MainPart, CanvasParts, ConstructorPart
<1>3. Part(todo') /\ Ready(parts')
  BY <1>1, ModuleParts, ModuleDry, PartLiterals
<1>4. /\ Proper(todo') /\ Proper(parts') /\ \A part \in Elements(parts') : Proper(part)
      /\ Todo' = Elements(todo') \cup AllOf(DryParts) /\ \A k \in Todo' : Plain(k)
  BY <1>1, <1>3, TodoOf
<1>5. Elements(todo') = IF unit THEN {} ELSE Elements(Halt)
  BY <1>1, Literals
<1>6. Dry = Before \cup Todo'
  BY <1>4, <1>5 DEF Dry
<1>7. Asked(Dry)'
  BY <1>1, <1>2, <1>6 DEF Work, Asked
<1>8. ~Written /\ ~Written'
  BY <1>1 DEF Written
<1> QED BY <1>1, <1>4, <1>7, <1>8 DEF Work, Plain, NotWritten

LEMMA WritePoolWork == Pools /\ Work /\ WritePool => Work'
<1> SUFFICES ASSUME Pools, Work, WritePool PROVE Work'
  OBVIOUS
<1>1. /\ UNCHANGED <<unit, canvas, todo, pool, record, saved>>
      /\ phase \in {"record dry", "dry"} /\ Todo = {} /\ todo = <<>> /\ parts = <<>>
  BY IdleTodo DEF WritePool, Idle
<1>2. Before' = Before
  BY <1>1 DEF Before
<1>3. ~Written /\ file = NotWritten
  BY <1>1 DEF Work, Written
<1>4. CASE \E i \in DOMAIN pool : pool[i][1] = "interface"
  <2>1. phase' = "dead" /\ UNCHANGED <<parts, file>>
    BY <1>4 DEF WritePool
  <2>2. Todo' = {} /\ ~Written'
    BY <1>1, <2>1 DEF Todo, AllOf, Written
  <2> QED BY <1>1, <1>3, <2>1, <2>2 DEF Work, NotWritten
<1>5. ASSUME ~\E i \in DOMAIN pool : pool[i][1] = "interface", phase = "dry" PROVE Work'
  <2>1. file' = pool /\ phase' = "rest" /\ parts' = RestParts
    BY <1>5 DEF WritePool
  <2>2. \A k \in Dry : Has(pool, k)
    BY <1>1, <1>5 DEF Work, Asked
  <2>3. pool # <<>>
    <3>1. NeededLater[1] \in Elements(NeededLater)
      <4>1. DOMAIN NeededLater = 1 .. 13
        BY DEF NeededLater
      <4> QED BY <4>1 DEF Elements
    <3>2. NeededLater[1] \in Dry
      BY <3>1, ModuleDry DEF Dry
    <3> QED BY <2>2, <3>2, HasNonEmpty
  <2>4. Part(todo') /\ Ready(parts') /\ Elements(todo') = {}
    BY <1>1, <2>1, ModuleRest, PartLiterals, Literals
  <2>5. /\ Proper(todo') /\ Proper(parts') /\ \A part \in Elements(parts') : Proper(part)
        /\ Todo' = AllOf(RestParts) /\ \A k \in Todo' : Plain(k)
    BY <2>1, <2>4, TodoOf
  <2>6. \A k \in Todo' : Has(pool, k)
    BY <2>2, <2>5, ModuleRest DEF Pools
  <2> QED BY <1>1, <1>2, <2>1, <2>3, <2>5, <2>6 DEF Work, Written, Plain, NotWritten
<1>6. ASSUME ~\E i \in DOMAIN pool : pool[i][1] = "interface", phase = "record dry" PROVE Work'
  <2>1. file' = pool /\ phase' = "record rest" /\ parts' = RecordRest(record)
    BY <1>6 DEF WritePool
  <2>2. record \in Records /\ \A k \in RecordDry(record) : Has(pool, k)
    BY <1>1, <1>6 DEF Work, Asked
  <2>3. pool # <<>>
    <3>1. RecordHead(record)[1] \in Elements(RecordHead(record))
      <4>1. DOMAIN RecordHead(record) = 1 .. 7
        BY DEF RecordHead
      <4> QED BY <4>1 DEF Elements
    <3>2. RecordHead(record)[1] \in RecordDry(record)
      BY <3>1 DEF RecordDry
    <3> QED BY <2>2, <3>2, HasNonEmpty
  <2>4. Part(todo') /\ Ready(parts') /\ Elements(todo') = {}
    BY <1>1, <2>1, <2>2, RecordRestParts, PartLiterals, Literals
  <2>5. /\ Proper(todo') /\ Proper(parts') /\ \A part \in Elements(parts') : Proper(part)
        /\ Todo' = AllOf(RecordRest(record)) /\ \A k \in Todo' : Plain(k)
    BY <2>1, <2>4, TodoOf
  <2>6. \A k \in Todo' : Has(pool, k)
    BY <2>2, <2>5, RecordRestParts DEF Pools
  <2>7. \A k \in Before' : Has(saved'.pool, k)
    BY <1>1, <1>2, <1>6 DEF Work
  <2> QED BY <1>1, <2>1, <2>2, <2>3, <2>5, <2>6, <2>7 DEF Work, Written, Plain, NotWritten
<1> QED BY <1>1, <1>4, <1>5, <1>6

LEMMA EndRecordWork == Work /\ EndRecord => Work'
<1> SUFFICES ASSUME Work, EndRecord PROVE Work'
  OBVIOUS
<1>1. /\ UNCHANGED <<unit, canvas, todo, parts>> /\ phase = "record rest"
      /\ phase' = "parse" /\ record' = None /\ pool' = saved.pool /\ file' = NotWritten
      /\ Todo = {}
  BY IdleTodo DEF EndRecord
<1>2. Before' = Before /\ Todo' = {}
  BY <1>1 DEF Before, Todo, AllOf
<1>3. Asked(Before)'
  BY <1>1, <1>2 DEF Work, Asked
<1>4. ~Written'
  BY <1>1 DEF Written
<1> QED BY <1>1, <1>2, <1>3, <1>4 DEF Work, NotWritten

LEMMA NextWork == Pools /\ Work /\ [Next]_vars => Work'
<1> SUFFICES ASSUME Pools, Work, [Next]_vars PROVE Work'
  OBVIOUS
<1>1. CASE EndClass
  <2>1. /\ UNCHANGED <<unit, canvas, todo, parts, pool, record, saved, file>>
        /\ phase = "rest" /\ phase' = "done"
    BY <1>1 DEF EndClass
  <2>2. Todo' = Todo /\ Written /\ Written'
    BY <2>1 DEF Todo, AllOf, Written
  <2> QED BY <2>1, <2>2 DEF Work, NotWritten
<1>2. CASE UNCHANGED vars
  <2>1. Dry' = Dry /\ Before' = Before
    BY <1>2 DEF vars, Dry, Before, DryParts, ThisPart, MainPart, CanvasParts, ConstructorPart
  <2>2. Todo' = Todo /\ (Written' <=> Written)
    BY <1>2 DEF vars, Todo, AllOf, Written
  <2> QED BY <1>2, <2>1, <2>2 DEF vars, Work, Asked, NotWritten
<1> QED BY <1>1, <1>2, AddConstantWork, NextPartWork, UseConstantWork, BeginRecordWork,
       EndTextWork, WritePoolWork, EndRecordWork DEF Next

-----------------------------------------------------------------------------
(* The theorems.                                                           *)

LEMMA InitInductive == Init => Inductive
<1> SUFFICES ASSUME Init PROVE Inductive
  OBVIOUS
<1>1. Pools
  BY EmptyGood DEF Init, Pools, RefsGood
<1>2. phase = "parse" /\ parts = <<>> /\ file = NotWritten /\ record = None
      /\ todo = IF unit THEN <<>> ELSE Beginning
  BY DEF Init
<1>3. Part(todo) /\ Elements(todo) = Before
  BY <1>2, ModuleParts, PartLiterals, Literals DEF Before
<1>4. Proper(parts) /\ Elements(parts) = {} /\ AllOf(parts) = {}
  BY <1>2, Literals DEF AllOf
<1>5. Todo = Before
  BY <1>3, <1>4 DEF Todo
<1>6. ~Written
  BY <1>2 DEF Written
<1>7. Work
  BY <1>2, <1>3, <1>4, <1>5, <1>6 DEF Work, Asked, Part, Plain
<1> QED BY <1>1, <1>7 DEF Inductive

\* The inductive invariant: the pools are well formed, and what a class file
\* asks for after its pool was written has been asked for before.
THEOREM InductiveInvariant == Spec => []Inductive
<1>1. Inductive /\ [Next]_vars => Inductive'
  BY NextPools, NextWork DEF Inductive
<1> QED BY <1>1, InitInductive, PTL DEF Spec

\* No constant has two entries, and an entry refers to earlier ones only.
THEOREM PoolsWellFormed == Spec => []WellFormed
<1>1. Inductive => WellFormed
  BY DEF Inductive, Pools, Good, WellFormed, Refers, Texts
<1> QED BY <1>1, InductiveInvariant, PTL

\* What is added after the pool was written was in it: the second run of the
\* functions of create_class_file and create_record_class finds every constant.
THEOREM PoolAlwaysComplete == Spec => []PoolComplete
<1>1. Inductive => PoolComplete
  BY DEF Inductive, Work, PoolComplete
<1> QED BY <1>1, InductiveInvariant, PTL

\* Each index that went into code or into a file denotes the constant it was
\* asked for, in the pool that is written to that file.
THEOREM IndicesAlwaysMean == Spec => []IndicesMean
<1>1. Inductive => IndicesMean
  BY DEF Inductive, Pools, Work, RefsGood, IndicesMean, Mean
<1> QED BY <1>1, InductiveInvariant, PTL

\* The variables have their types, whatever the module declares and uses.
THEOREM TypesHold == Spec => []TypeOK
<1>1. Inductive => TypeOK
  BY DEF Inductive, Pools, Work, RefsGood, TypeOK
<1> QED BY <1>1, InductiveInvariant, PTL
=============================================================================
