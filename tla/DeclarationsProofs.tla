------------------------- MODULE DeclarationsProofs -------------------------
(***************************************************************************)
(* Theorems about Declarations, for any number of names, parameter lists,  *)
(* types and declarations.                                                 *)
(***************************************************************************)
EXTENDS Declarations, TLAPS, FiniteSetTheorems, SequenceTheorems, WellFoundedInduction

-----------------------------------------------------------------------------
(* The inductive invariant, part by part.                                  *)

IsTable(t) ==
    /\ t = [n \in DOMAIN t |-> t[n]]
    /\ IsFiniteSet(DOMAIN t) /\ DOMAIN t \subseteq Names
    /\ \A n \in DOMAIN t : t[n] \in Entries

IsRoutine(t, r) ==
    /\ r = [name |-> r.name, params |-> r.params, result |-> r.result,
            locals |-> r.locals, next |-> r.next]
    /\ r.name \in DOMAIN t
    /\ r.params \in Params /\ r.result \in Results \cup {Void}
    /\ r.locals \in [DOMAIN r.locals -> Nat]
    /\ r.next \in Nat

Bodies == [name : Names, params : Params, sig : Signatures]

\* The shape of the state.
ShapeRest ==
    /\ part \in {"interface", "declarations", "main", "finished"}
    /\ nextVar \in Nat /\ inits \subseteq DOMAIN table
    /\ routine = None \/ IsRoutine(table, routine)
    /\ part \in {"main", "finished"} => routine = None
    /\ children \in Seq(Bodies)
    /\ calls \subseteq Names \X Signatures
    /\ errors \in BOOLEAN
    /\ count \in 0 .. MaxDeclarations

Shape == IsTable(table) /\ ShapeRest

\* Parameters, result and locals of the routine under way; a local never takes
\* the slot that was kept for the result.
SlotsKept ==
    routine # None =>
        LET slot == routine.locals IN
        /\ \A n \in DOMAIN slot :
              /\ slot[n] < routine.next
              /\ routine.result # Void => slot[n] # Len(routine.params)
              /\ \A m \in DOMAIN slot : slot[m] = slot[n] => m = n
        /\ routine.result # Void => Len(routine.params) < routine.next

\* A call was compiled against the descriptor that the table still holds.
CallsKnown ==
    \A c \in calls : /\ c[1] \in DOMAIN table
                     /\ table[c[1]].class \in RoutineKinds
                     /\ table[c[1]].sig = c[2]

\* What forward_declaration says of an entry, as long as nothing was refused:
\* -1 is only seen while that routine's body is parsed, 0 means that its one
\* body is there, and a body has the signature that was declared.
ForwardTells ==
    /\ \A n \in DOMAIN table :
          /\ table[n].class \notin RoutineKinds => table[n].forward = 0
          /\ table[n].forward = -1 => routine # None /\ routine.name = n
          /\ table[n].class \in RoutineKinds /\ table[n].forward = 0
                => \E i \in DOMAIN children : children[i].name = n
    /\ routine # None =>
          /\ table[routine.name].class \in RoutineKinds
          /\ table[routine.name].forward # 0
          /\ table[routine.name].forward = -1
                => table[routine.name].sig = Signature(routine.params, routine.result)
    /\ \A i \in DOMAIN children :
          /\ children[i].name \in DOMAIN table
          /\ table[children[i].name].class \in RoutineKinds
          /\ table[children[i].name].forward = 0
          /\ table[children[i].name].sig = children[i].sig
          /\ \A j \in DOMAIN children : children[i].name = children[j].name => i = j
    /\ part = "finished" => \A n \in DOMAIN table : ~IsForward(table, n)

\* Every variable that could be entered has counted once.
VariablesCounted == inits \subseteq Fields => nextVar = Cardinality(Fields)

Inductive ==
    /\ Shape
    /\ SlotsKept
    /\ CallsKnown
    /\ ~errors => ForwardTells
    /\ ~errors => VariablesCounted

-----------------------------------------------------------------------------
(* What the helpers do to a name table.                                    *)

LEMMA SignatureType ==
  ASSUME NEW p \in Params, NEW r \in Results \cup {Void}
  PROVE  Signature(p, r) \in Signatures
  BY DEF Signatures

LEMMA FieldType == \A class \in {"other", "variable"} : Field(class) \in Entries
  BY DEF Field, Entries, Signatures

\* name_table_insert adds at most the name, and leaves the entries alone.
Inserted(t, u, name, entry) ==
    /\ IsTable(u)
    /\ DOMAIN u = DOMAIN t \cup {name}
    /\ \A n \in DOMAIN t : u[n] = t[n]
    /\ name \notin DOMAIN t => u[name] = entry

LEMMA InsertTable ==
  ASSUME NEW t, IsTable(t), NEW name \in Names, NEW entry \in Entries,
         NEW u, u = Insert(t, name, entry)
  PROVE  Inserted(t, u, name, entry)
<1>1. /\ u = [n \in DOMAIN u |-> u[n]]
      /\ DOMAIN u = DOMAIN t \cup {name}
      /\ \A n \in DOMAIN t : u[n] = t[n]
      /\ name \notin DOMAIN t => u[name] = entry
  BY DEF Insert
<1>2. \A n \in DOMAIN u : u[n] \in Entries
  BY <1>1 DEF IsTable
<1>3. IsFiniteSet(DOMAIN u)
  BY <1>1, FS_AddElement DEF IsTable
<1> QED BY <1>1, <1>2, <1>3 DEF IsTable, Inserted

\* add_procedure and add_function: kind and signature of an entry stay as they
\* were first declared, forward_declaration of the one name may change.
Entered(t, u, name, sig, forward) ==
    /\ IsTable(u)
    /\ DOMAIN u = DOMAIN t \cup {name}
    /\ \A n \in DOMAIN t : u[n].class = t[n].class /\ u[n].sig = t[n].sig
    /\ \A n \in DOMAIN t : n # name => u[n] = t[n]
    /\ name \in DOMAIN t =>
          u[name].forward = IF t[name].forward = -1 \/ forward # -1
                            THEN forward ELSE t[name].forward
    /\ name \notin DOMAIN t =>
          /\ u[name].class \in RoutineKinds
          /\ u[name].forward = forward /\ u[name].sig = sig

LEMMA AddRoutineTable ==
  ASSUME NEW t, IsTable(t), NEW name \in Names, NEW sig \in Signatures,
         NEW forward \in {-1, 0, 1}, NEW u, u = AddRoutine(t, name, sig, forward)
  PROVE  Entered(t, u, name, sig, forward)
<1> DEFINE new == [class |-> Kind(sig.result), forward |-> forward, sig |-> sig]
<1>1. new \in Entries /\ new.class \in RoutineKinds /\ new.forward = forward
      /\ new.sig = sig
  BY DEF Entries, Kind, RoutineKinds
<1>2. CASE name \notin DOMAIN t
  <2>1. u = Insert(t, name, new)
    BY <1>2 DEF AddRoutine
  <2> HIDE DEF new
  <2>2. Inserted(t, u, name, new)
    BY <1>1, <2>1, InsertTable
  <2> QED BY <1>1, <1>2, <2>2 DEF Inserted, Entered
<1>3. CASE name \in DOMAIN t /\ ~(t[name].forward = -1 \/ forward # -1)
  <2>1. u = t
    BY <1>3 DEF AddRoutine
  <2> QED BY <1>3, <2>1 DEF Entered
<1>4. CASE name \in DOMAIN t /\ (t[name].forward = -1 \/ forward # -1)
  <2>1. u = [t EXCEPT ![name].forward = forward]
    BY <1>4 DEF AddRoutine
  <2>2. t[name] \in Entries
    BY <1>4 DEF IsTable
  <2>3. u = [n \in DOMAIN t |-> IF n = name THEN [t[name] EXCEPT !.forward = forward]
                                ELSE t[n]]
    BY <2>1 DEF IsTable
  <2>4. [t[name] EXCEPT !.forward = forward]
           = [class |-> t[name].class, forward |-> forward, sig |-> t[name].sig]
    BY <2>2 DEF Entries
  <2>5. u[name] = [class |-> t[name].class, forward |-> forward, sig |-> t[name].sig]
        /\ DOMAIN u = DOMAIN t /\ u = [n \in DOMAIN u |-> u[n]]
        /\ \A n \in DOMAIN t : n # name => u[n] = t[n]
    BY <1>4, <2>3, <2>4
  <2>6. u[name] \in Entries
    BY <2>2, <2>5 DEF Entries
  <2>7. IsTable(u)
    BY <2>5, <2>6 DEF IsTable
  <2> QED BY <1>4, <2>5, <2>7 DEF Entered
<1> QED BY <1>2, <1>3, <1>4

\* Each parameter list gives its names different slots, those of the list.
LEMMA SlotsApartOnce ==
  ASSUME NEW p \in Params
  PROVE  /\ Slots(p) \in [DOMAIN Slots(p) -> Nat]
         /\ Len(p) \in Nat
         /\ \A n \in DOMAIN Slots(p) :
               /\ Slots(p)[n] < Len(p)
               /\ \A m \in DOMAIN Slots(p) : Slots(p)[m] = Slots(p)[n] => m = n
<1>1. Len(p) \in Nat /\ DOMAIN p = 1 .. Len(p)
  BY ParamsAssumption
<1> DEFINE First(n, i) == /\ p[i].name = n
                          /\ \A j \in DOMAIN p : p[j].name = n => i <= j
<1>2. ASSUME NEW k \in DOMAIN p
      PROVE  \E i \in DOMAIN p : First(p[k].name, i)
  <2> DEFINE T == {i \in DOMAIN p : p[i].name = p[k].name}
  <2>1. T \subseteq Nat /\ T # {}
    BY <1>1
  <2>2. PICK i \in T : \A j \in T : ~ (<<j, i>> \in OpToRel(<, Nat))
    BY <2>1, WFMin, NatLessThanWellFounded
  <2>3. \A j \in T : ~ (j < i)
    BY <2>1, <2>2 DEF OpToRel
  <2> QED BY <1>1, <2>3
<1> DEFINE S == Slots(p)
<1>3. /\ DOMAIN S = {p[i].name : i \in DOMAIN p}
      /\ \A n \in DOMAIN S : S[n] = (CHOOSE i \in DOMAIN p : First(n, i)) - 1
      /\ S = [n \in DOMAIN S |-> S[n]]
  BY DEF Slots
<1> HIDE DEF S
<1>4. ASSUME NEW n \in DOMAIN S
      PROVE  S[n] + 1 \in DOMAIN p /\ p[S[n] + 1].name = n /\ S[n] \in Nat
  <2>1. PICK k \in DOMAIN p : n = p[k].name
    BY <1>3
  <2> DEFINE c == CHOOSE i \in DOMAIN p : First(n, i)
  <2>2. c \in DOMAIN p /\ First(n, c)
    BY <1>2, <2>1
  <2>3. S[n] = c - 1
    BY <1>3
  <2> HIDE DEF c
  <2>4. S[n] + 1 = c /\ S[n] \in Nat
    BY <1>1, <2>2, <2>3
  <2> QED BY <2>2, <2>4
<1>5. ASSUME NEW n \in DOMAIN S
      PROVE  S[n] < Len(p) /\ \A m \in DOMAIN S : S[m] = S[n] => m = n
  BY <1>1, <1>4
<1>6. S \in [DOMAIN S -> Nat]
  BY <1>3, <1>4
<1> QED BY <1>1, <1>5, <1>6 DEF S

LEMMA NoneIsNoRoutine == ASSUME NEW t, NEW r, IsRoutine(t, r) PROVE r # None
<1>1. "params" \in DOMAIN r
  BY DEF IsRoutine
<1>2. "params" \notin DOMAIN None
  BY DEF None
<1> QED BY <1>1, <1>2

-----------------------------------------------------------------------------
(* The invariance of each part.                                            *)

\* The kind and the signature under which a name was entered never change.
Kept(t, u) ==
    /\ IsTable(u)
    /\ \A n \in DOMAIN t : /\ n \in DOMAIN u
                           /\ u[n].class = t[n].class /\ u[n].sig = t[n].sig

LEMMA InsertKept ==
  ASSUME NEW t, IsTable(t), NEW name \in Names, NEW class \in {"other", "variable"},
         NEW u, u = Insert(t, name, Field(class))
  PROVE  Kept(t, u)
<1>1. Field(class) \in Entries
  BY FieldType
<1>2. Inserted(t, u, name, Field(class))
  BY <1>1, InsertTable
<1> QED BY <1>2 DEF Kept, Inserted

LEMMA AddRoutineKept ==
  ASSUME NEW t, IsTable(t), NEW name \in Names, NEW sig \in Signatures,
         NEW forward \in {-1, 0, 1}, NEW u, u = AddRoutine(t, name, sig, forward)
  PROVE  Kept(t, u)
<1>1. Entered(t, u, name, sig, forward)
  BY AddRoutineTable
<1> QED BY <1>1 DEF Kept, Entered

LEMMA KeptTwice ==
  ASSUME NEW t, NEW u, NEW v, Kept(t, u), Kept(u, v)
  PROVE  Kept(t, v)
  BY DEF Kept

LEMMA TableKept == Shape /\ [Next]_vars => Kept(table, table')
<1> SUFFICES ASSUME Shape, [Next]_vars PROVE Kept(table, table')
  OBVIOUS
<1>0. IsTable(table)
  BY DEF Shape, ShapeRest
<1>1. ASSUME NEW n \in Names, DeclareName(n) PROVE Kept(table, table')
  BY <1>0, <1>1, InsertKept DEF DeclareName
<1>2. ASSUME NEW n \in Names, DeclareVariable(n) PROVE Kept(table, table')
  BY <1>0, <1>2, InsertKept DEF DeclareVariable
<1>3. ASSUME NEW n \in Names, NEW p \in Params, NEW r \in Results \cup {Void},
             DeclareForward(n, p, r)
      PROVE  Kept(table, table')
  <2> DEFINE sig == Signature(p, r)
             t   == AddRoutine(table, n, sig, -1)
  <2>1. sig \in Signatures
    BY SignatureType
  <2>2. table' = AddRoutine(t, n, sig, 1)
    BY <1>3 DEF DeclareForward
  <2> HIDE DEF sig
  <2>3. Kept(table, t)
    BY <1>0, <2>1, AddRoutineKept
  <2> HIDE DEF t
  <2>4. Kept(t, table')
    BY <2>1, <2>2, <2>3, AddRoutineKept DEF Kept
  <2> QED BY <2>3, <2>4, KeptTwice
<1>4. ASSUME NEW n \in Names, NEW p \in Params, NEW r \in Results \cup {Void},
             BeginRoutine(n, p, r)
      PROVE  Kept(table, table')
  <2>1. Signature(p, r) \in Signatures
    BY SignatureType
  <2>2. table' = AddRoutine(table, n, Signature(p, r), -1)
    BY <1>4 DEF BeginRoutine
  <2> QED BY <1>0, <2>1, <2>2, AddRoutineKept
<1>5. CASE EndRoutine
  <2>1. IsRoutine(table, routine)
    BY <1>5 DEF Shape, ShapeRest, EndRoutine
  <2>2. /\ Signature(routine.params, routine.result) \in Signatures
        /\ routine.name \in Names
    BY <1>0, <2>1, SignatureType DEF IsRoutine, IsTable
  <2>3. table' = AddRoutine(table, routine.name,
                            Signature(routine.params, routine.result), 0)
    BY <1>5 DEF EndRoutine
  <2> QED BY <1>0, <2>2, <2>3, AddRoutineKept
<1>6. ASSUME NEW n \in Names, DeclareLocal(n) \/ Call(n) PROVE Kept(table, table')
  BY <1>0, <1>6 DEF DeclareLocal, Call, Kept
<1>7. CASE NextPart \/ Finish \/ UNCHANGED vars
  BY <1>0, <1>7 DEF NextPart, Finish, vars, Kept
<1> QED BY <1>1, <1>2, <1>3, <1>4, <1>5, <1>6, <1>7 DEF Next

\* A routine under way remains one when only the table grows.
LEMMA RoutineKept ==
  ASSUME NEW t, NEW u, NEW r, Kept(t, u), IsRoutine(t, r)
  PROVE  IsRoutine(u, r)
  BY DEF Kept, IsRoutine

LEMMA NextShape == Shape /\ [Next]_vars => Shape'
<1> SUFFICES ASSUME Shape, [Next]_vars PROVE Shape'
  OBVIOUS
<1>0. Kept(table, table') /\ IsTable(table) /\ IsTable(table')
  BY TableKept DEF Kept, Shape, ShapeRest
<1>a. DOMAIN table \subseteq DOMAIN table'
  BY <1>0 DEF Kept
<1>b. Declaring => count + 1 \in 0 .. MaxDeclarations
  BY BoundAssumption DEF Declaring, Shape, ShapeRest
<1>1. ASSUME NEW n \in Names, DeclareName(n) PROVE ShapeRest'
  BY <1>0, <1>a, <1>b, <1>1 DEF DeclareName, Shape, ShapeRest, Counted
<1>2. ASSUME NEW n \in Names, DeclareVariable(n) PROVE ShapeRest'
  <2>1. n \in DOMAIN table'
    BY <1>2 DEF DeclareVariable, Insert
  <2> QED BY <1>0, <1>a, <1>b, <1>2, <2>1 DEF DeclareVariable, Shape, ShapeRest, Counted
<1>3. ASSUME NEW n \in Names, NEW p \in Params, NEW r \in Results \cup {Void},
             DeclareForward(n, p, r)
      PROVE  ShapeRest'
  BY <1>0, <1>a, <1>b, <1>3 DEF DeclareForward, Shape, ShapeRest, Counted
<1>4. ASSUME NEW n \in Names, NEW p \in Params, NEW r \in Results \cup {Void},
             BeginRoutine(n, p, r)
      PROVE  ShapeRest'
  <2> DEFINE k == Len(p) + (IF r = Void THEN 0 ELSE 1)
  <2>1. routine' = [name |-> n, params |-> p, result |-> r,
                    locals |-> Slots(p), next |-> k]
    BY <1>4 DEF BeginRoutine
  <2>2. n \in DOMAIN table'
    <3>1. Entered(table, table', n, Signature(p, r), -1)
      BY <1>0, <1>4, SignatureType, AddRoutineTable DEF BeginRoutine
    <3> QED BY <3>1 DEF Entered
  <2>3. k \in Nat /\ Slots(p) \in [DOMAIN Slots(p) -> Nat]
    BY SlotsApartOnce
  <2> HIDE DEF k
  <2>4. IsRoutine(table', routine')
    BY <2>1, <2>2, <2>3 DEF IsRoutine
  <2> QED BY <1>0, <1>a, <1>b, <1>4, <2>4 DEF BeginRoutine, Shape, ShapeRest, Counted, Declaring
<1>5. ASSUME NEW n \in Names, DeclareLocal(n) PROVE ShapeRest'
  <2>1. IsRoutine(table, routine) /\ table' = table
    BY <1>5 DEF DeclareLocal, Shape, ShapeRest
  <2>2. routine' = [routine EXCEPT !.locals = Insert(@, n, routine.next),
                                   !.next = @ + 1]
    BY <1>5 DEF DeclareLocal
  <2>3. routine' = [name |-> routine.name, params |-> routine.params,
                    result |-> routine.result,
                    locals |-> Insert(routine.locals, n, routine.next),
                    next |-> routine.next + 1]
    BY <2>1, <2>2 DEF IsRoutine
  <2>4. Insert(routine.locals, n, routine.next)
           \in [DOMAIN Insert(routine.locals, n, routine.next) -> Nat]
    BY <2>1 DEF IsRoutine, Insert
  <2>5. IsRoutine(table', routine')
    BY <2>1, <2>3, <2>4 DEF IsRoutine
  <2> QED BY <1>0, <1>a, <1>b, <1>5, <2>5 DEF DeclareLocal, Shape, ShapeRest, Counted, Declaring
<1>6. ASSUME NEW n \in Names, Call(n) PROVE ShapeRest'
  <2>1. n \in DOMAIN table => <<n, table[n].sig>> \in Names \X Signatures
    BY <1>0 DEF IsTable, Entries
  <2> QED BY <1>0, <1>6, <2>1 DEF Call, Shape, ShapeRest
<1>7. ASSUME EndRoutine PROVE ShapeRest'
  <2>1. IsRoutine(table, routine)
    BY <1>7 DEF Shape, ShapeRest, EndRoutine
  <2>2. [name |-> routine.name, params |-> routine.params,
         sig |-> Signature(routine.params, routine.result)] \in Bodies
    BY <1>0, <2>1, SignatureType DEF IsRoutine, IsTable, Bodies
  <2>3. children' \in Seq(Bodies)
    BY <1>7, <2>2 DEF EndRoutine, Shape, ShapeRest
  <2> QED BY <1>0, <1>a, <1>7, <2>3 DEF EndRoutine, Shape, ShapeRest
<1>8. ASSUME NextPart \/ Finish \/ UNCHANGED vars PROVE ShapeRest'
  BY <1>0, <1>8 DEF NextPart, Finish, vars, Shape, ShapeRest
<1>9. ShapeRest'
  BY <1>1, <1>2, <1>3, <1>4, <1>5, <1>6, <1>7, <1>8 DEF Next
<1> QED BY <1>0, <1>9 DEF Shape, ShapeRest

\* A call keeps the signature it was compiled with.
LEMMA NextCalls == Shape /\ CallsKnown /\ [Next]_vars => CallsKnown'
<1> SUFFICES ASSUME Shape, CallsKnown, [Next]_vars PROVE CallsKnown'
  OBVIOUS
<1>1. Kept(table, table')
  BY TableKept
<1>2. ASSUME NEW n \in Names, Call(n) PROVE CallsKnown'
  BY <1>2 DEF Call, CallsKnown
<1>3. CASE calls' = calls
  BY <1>1, <1>3 DEF Kept, CallsKnown
<1>4. (\E n \in Names : Call(n)) \/ calls' = calls
  BY DEF Next, vars, DeclareName, DeclareVariable, DeclareForward, BeginRoutine,
     DeclareLocal, EndRoutine, NextPart, Finish
<1> QED BY <1>2, <1>3, <1>4

\* A local takes the next slot, which no other has.
LEMMA NextSlots == Shape /\ SlotsKept /\ [Next]_vars => SlotsKept'
<1> SUFFICES ASSUME Shape, SlotsKept, [Next]_vars PROVE SlotsKept'
  OBVIOUS
<1>1. ASSUME NEW n \in Names, NEW p \in Params, NEW r \in Results \cup {Void},
             BeginRoutine(n, p, r)
      PROVE  SlotsKept'
  <2>1. routine' = [name |-> n, params |-> p, result |-> r, locals |-> Slots(p),
                    next |-> Len(p) + (IF r = Void THEN 0 ELSE 1)]
    BY <1>1 DEF BeginRoutine
  <2>2. /\ routine'.locals = Slots(p) /\ routine'.params = p /\ routine'.result = r
        /\ routine'.next = Len(p) + (IF r = Void THEN 0 ELSE 1)
    BY <2>1
  <2> QED BY <2>2, SlotsApartOnce DEF SlotsKept
<1>2. ASSUME NEW n \in Names, DeclareLocal(n) PROVE SlotsKept'
  <2> DEFINE slot == routine.locals
  <2>1. IsRoutine(table, routine) /\ routine # None
    BY <1>2 DEF DeclareLocal, Shape, ShapeRest
  <2>2. routine' = [routine EXCEPT !.locals = Insert(@, n, routine.next),
                                   !.next = @ + 1]
    BY <1>2 DEF DeclareLocal
  <2>3. /\ routine'.locals = Insert(slot, n, routine.next)
        /\ routine'.next = routine.next + 1
        /\ routine'.params = routine.params /\ routine'.result = routine.result
    BY <2>1, <2>2 DEF IsRoutine
  <2>4. /\ DOMAIN routine'.locals = DOMAIN slot \cup {n}
        /\ \A m \in DOMAIN slot : routine'.locals[m] = slot[m]
        /\ n \notin DOMAIN slot => routine'.locals[n] = routine.next
    BY <2>3 DEF Insert
  <2>5. /\ \A m \in DOMAIN slot : slot[m] \in Nat
        /\ routine.next \in Nat
        /\ Len(routine.params) \in Nat
    BY <2>1, SlotsApartOnce DEF IsRoutine
  <2>6. /\ \A m \in DOMAIN slot :
              /\ slot[m] < routine.next
              /\ routine.result # Void => slot[m] # Len(routine.params)
              /\ \A k \in DOMAIN slot : slot[k] = slot[m] => k = m
        /\ routine.result # Void => Len(routine.params) < routine.next
    BY <2>1 DEF SlotsKept
  <2> HIDE DEF slot
  <2>7. ASSUME NEW m \in DOMAIN routine'.locals
        PROVE  /\ routine'.locals[m] < routine'.next
               /\ routine.result # Void => routine'.locals[m] # Len(routine.params)
    BY <2>3, <2>4, <2>5, <2>6
  <2>8. ASSUME NEW m \in DOMAIN routine'.locals, NEW k \in DOMAIN routine'.locals,
               routine'.locals[k] = routine'.locals[m]
        PROVE  k = m
    BY <2>4, <2>5, <2>6, <2>8
  <2>9. routine.result # Void => Len(routine.params) < routine'.next
    BY <2>3, <2>5, <2>6
  <2> QED BY <2>3, <2>7, <2>8, <2>9 DEF SlotsKept
<1>3. CASE routine' = None \/ routine' = routine
  BY <1>3 DEF SlotsKept
<1>4. \/ \E n \in Names : \E p \in Params, r \in Results \cup {Void} : BeginRoutine(n, p, r)
      \/ \E n \in Names : DeclareLocal(n)
      \/ routine' = None \/ routine' = routine
  BY DEF Next, vars, DeclareName, DeclareVariable, DeclareForward, Call,
     EndRoutine, NextPart, Finish
<1> QED BY <1>1, <1>2, <1>3, <1>4

\* error_count never goes down.
LEMMA ErrorsStay == Shape /\ [Next]_vars /\ errors => errors'
  BY DEF Next, vars, DeclareName, DeclareVariable, DeclareForward, BeginRoutine,
     DeclareLocal, Call, EndRoutine, NextPart, Finish

LEMMA NextForward ==
  Shape /\ (~errors => ForwardTells) /\ [Next]_vars => (~errors' => ForwardTells')
<1> SUFFICES ASSUME Shape, ForwardTells, [Next]_vars, ~errors, ~errors'
             PROVE  ForwardTells'
  BY ErrorsStay
<1>0. IsTable(table) /\ \A i \in DOMAIN children : children[i].name \in DOMAIN table
  BY DEF Shape, ShapeRest, ForwardTells
<1>1. ASSUME NEW n \in Names, NEW class \in {"other", "variable"},
             NameFree(table, n), table' = Insert(table, n, Field(class)),
             UNCHANGED <<part, routine, children>>, Declaring
      PROVE  ForwardTells'
  <2>1. Inserted(table, table', n, Field(class))
    BY <1>0, <1>1, FieldType, InsertTable
  <2>2. /\ DOMAIN table' = DOMAIN table \cup {n}
        /\ \A m \in DOMAIN table : table'[m] = table[m]
        /\ n \notin DOMAIN table => /\ table'[n].class \notin RoutineKinds
                                    /\ table'[n].forward = 0
    BY <1>1, <2>1 DEF Inserted, Field, RoutineKinds
  <2>3. part' # "finished"
    BY <1>1 DEF Declaring
  <2>4. routine # None => routine.name \in DOMAIN table
    BY DEF Shape, ShapeRest, IsRoutine
  <2> QED BY <1>0, <1>1, <2>2, <2>3, <2>4 DEF ForwardTells
<1>2. ASSUME NEW n \in Names, DeclareName(n) \/ DeclareVariable(n) PROVE ForwardTells'
  BY <1>1, <1>2 DEF DeclareName, DeclareVariable
<1>3. ASSUME NEW n \in Names, NEW p \in Params, NEW r \in Results \cup {Void},
             DeclareForward(n, p, r)
      PROVE  ForwardTells'
  <2> DEFINE sig == Signature(p, r)
             t   == AddRoutine(table, n, sig, -1)
  <2>1. /\ table' = AddRoutine(t, n, sig, 1)
        /\ NameFree(table, n) /\ ~Conflicts(t, n, sig, 1)
        /\ routine = None /\ UNCHANGED <<part, routine, children>>
        /\ part # "finished"
    BY <1>3 DEF DeclareForward, Declaring
  <2>2. sig \in Signatures
    BY SignatureType
  <2> HIDE DEF sig
  <2>3. Entered(table, t, n, sig, -1)
    BY <1>0, <2>2, AddRoutineTable
  <2> HIDE DEF t
  <2>4. Entered(t, table', n, sig, 1)
    <3>1. IsTable(t)
      BY <2>3 DEF Entered
    <3> QED BY <2>1, <2>2, <3>1, AddRoutineTable
  <2>5. n \notin DOMAIN table
    <3>1. SUFFICES ASSUME n \in DOMAIN table PROVE FALSE
      OBVIOUS
    <3>2. table[n].class \in RoutineKinds /\ table[n].forward = 1
      BY <2>1, <3>1 DEF NameFree, IsForward
    <3>3. n \in DOMAIN t /\ t[n].class \in RoutineKinds /\ t[n].forward = 1
      BY <2>3, <3>1, <3>2 DEF Entered
    <3> QED BY <2>1, <3>3 DEF Conflicts
  <2>6. /\ DOMAIN table' = DOMAIN table \cup {n}
        /\ \A m \in DOMAIN table : table'[m] = table[m]
        /\ table'[n].class \in RoutineKinds /\ table'[n].forward = 1
    BY <2>3, <2>4, <2>5 DEF Entered
  <2> QED BY <1>0, <2>1, <2>5, <2>6 DEF ForwardTells
<1>4. ASSUME NEW n \in Names, NEW p \in Params, NEW r \in Results \cup {Void},
             BeginRoutine(n, p, r)
      PROVE  ForwardTells'
  <2>1. /\ table' = AddRoutine(table, n, Signature(p, r), -1)
        /\ NameFree(table, n)
        /\ routine = None /\ UNCHANGED <<part, children>>
        /\ part # "finished"
    BY <1>4 DEF BeginRoutine, Declaring
  <2>2. /\ routine'.name = n
        /\ Signature(routine'.params, routine'.result) = Signature(p, r)
        /\ routine' # None
    <3>1. routine' = [name |-> n, params |-> p, result |-> r, locals |-> Slots(p),
                      next |-> Len(p) + (IF r = Void THEN 0 ELSE 1)]
      BY <1>4 DEF BeginRoutine
    <3>2. "params" \in DOMAIN routine' /\ "params" \notin DOMAIN None
      BY <3>1 DEF None
    <3> QED BY <3>1, <3>2
  <2>3. Entered(table, table', n, Signature(p, r), -1)
    BY <1>0, <2>1, SignatureType, AddRoutineTable
  <2>4. n \in DOMAIN table => /\ table[n].class \in RoutineKinds
                              /\ table[n].forward = 1
    BY <2>1 DEF NameFree, IsForward
  <2>5. /\ DOMAIN table' = DOMAIN table \cup {n}
        /\ \A m \in DOMAIN table : /\ table'[m].class = table[m].class
                                   /\ table'[m].sig = table[m].sig
                                   /\ table'[m].forward = table[m].forward
        /\ table'[n].class \in RoutineKinds
        /\ table'[n].forward \in {-1, 1}
        /\ table'[n].forward = -1 => table'[n].sig = Signature(p, r)
    BY <2>3, <2>4 DEF Entered
  <2> QED BY <1>0, <2>1, <2>2, <2>5 DEF ForwardTells
<1>5. ASSUME NEW n \in Names, DeclareLocal(n) PROVE ForwardTells'
  <2>1. IsRoutine(table, routine) /\ routine # None
    BY <1>5 DEF DeclareLocal, Shape, ShapeRest
  <2>2. routine' = [routine EXCEPT !.locals = Insert(@, n, routine.next),
                                   !.next = @ + 1]
    BY <1>5 DEF DeclareLocal
  <2>3. /\ routine'.name = routine.name
        /\ Signature(routine'.params, routine'.result)
              = Signature(routine.params, routine.result)
    BY <2>1, <2>2 DEF IsRoutine
  <2>4. UNCHANGED <<part, table, children>> /\ routine' # None
    <3>1. Shape'
      BY NextShape
    <3>2. "params" \in DOMAIN routine' /\ "params" \notin DOMAIN None
      BY <2>1, <2>2 DEF None, IsRoutine
    <3> QED BY <1>5, <3>2 DEF DeclareLocal
  <2> QED BY <2>1, <2>3, <2>4 DEF ForwardTells
<1>6. CASE EndRoutine
  <2> DEFINE name == routine.name
             sig  == Signature(routine.params, routine.result)
             body == [name |-> name, params |-> routine.params, sig |-> sig]
  <2>1. /\ IsRoutine(table, routine) /\ routine # None
        /\ name \in DOMAIN table /\ name \in Names /\ sig \in Signatures
    BY <1>0, <1>6, SignatureType DEF EndRoutine, Shape, ShapeRest, IsRoutine, IsTable
  <2>2. /\ table' = AddRoutine(table, name, sig, 0)
        /\ children' = Append(children, body)
        /\ routine' = None /\ part' = part
        /\ ~Conflicts(table, name, sig, 0)
    BY <1>6 DEF EndRoutine
  <2>3. body.name = name /\ body.sig = sig
    OBVIOUS
  <2>4. /\ table[name].class \in RoutineKinds
        /\ table[name].forward # 0
        /\ table[name].sig = sig
    <3>1. /\ table[name].class \in RoutineKinds
          /\ table[name].forward # 0
          /\ table[name].forward = -1 => table[name].sig = sig
      BY <2>1 DEF ForwardTells
    <3>2. table[name].forward # -1 => table[name].sig = sig
      BY <2>1, <2>2, <3>1 DEF Conflicts
    <3> QED BY <3>1, <3>2
  <2> HIDE DEF name, sig, body
  <2>5. Entered(table, table', name, sig, 0)
    BY <1>0, <2>1, <2>2, AddRoutineTable
  <2>6. /\ DOMAIN table' = DOMAIN table
        /\ \A m \in DOMAIN table : m # name => table'[m] = table[m]
        /\ table'[name].class \in RoutineKinds /\ table'[name].forward = 0
        /\ table'[name].sig = sig
    BY <2>1, <2>4, <2>5 DEF Entered
  <2>7. /\ Len(children) \in Nat /\ DOMAIN children = 1 .. Len(children)
        /\ DOMAIN children' = 1 .. Len(children) + 1
        /\ \A i \in DOMAIN children : children'[i] = children[i]
        /\ children'[Len(children) + 1] = body
    BY <2>2 DEF Shape, ShapeRest
  <2>8. \A i \in DOMAIN children : children[i].name # name
    BY <2>4 DEF ForwardTells
  <2>9. part # "finished"
    BY <2>1 DEF Shape, ShapeRest
  <2>10. ASSUME NEW m \in DOMAIN table'
         PROVE  /\ table'[m].class \notin RoutineKinds => table'[m].forward = 0
                /\ table'[m].forward # -1
                /\ table'[m].class \in RoutineKinds /\ table'[m].forward = 0
                      => \E i \in DOMAIN children' : children'[i].name = m
    <3>1. CASE m = name
      BY <2>3, <2>6, <2>7, <3>1
    <3>2. CASE m # name
      <4>1. /\ table[m].class \notin RoutineKinds => table[m].forward = 0
            /\ table[m].forward # -1
            /\ table[m].class \in RoutineKinds /\ table[m].forward = 0
                  => \E i \in DOMAIN children : children[i].name = m
        BY <2>6, <3>2 DEF ForwardTells, name
      <4> QED BY <2>6, <2>7, <3>2, <4>1
    <3> QED BY <3>1, <3>2
  <2>11. ASSUME NEW i \in DOMAIN children'
         PROVE  /\ children'[i].name \in DOMAIN table'
                /\ table'[children'[i].name].class \in RoutineKinds
                /\ table'[children'[i].name].forward = 0
                /\ table'[children'[i].name].sig = children'[i].sig
                /\ \A j \in DOMAIN children' :
                      children'[i].name = children'[j].name => i = j
    <3>1. CASE i \in DOMAIN children
      BY <2>3, <2>6, <2>7, <2>8, <3>1 DEF ForwardTells
    <3>2. CASE i = Len(children) + 1
      BY <2>1, <2>3, <2>6, <2>7, <2>8, <3>2
    <3> QED BY <2>7, <3>1, <3>2
  <2> QED BY <2>2, <2>9, <2>10, <2>11 DEF ForwardTells
<1>7. CASE Finish
  BY <1>7 DEF Finish, ForwardTells
<1>8. ASSUME NEW n \in Names, Call(n) PROVE ForwardTells'
  BY <1>8 DEF Call, ForwardTells
<1>9. CASE NextPart \/ UNCHANGED vars
  BY <1>9 DEF NextPart, ForwardTells, vars
<1> QED BY <1>2, <1>3, <1>4, <1>5, <1>6, <1>7, <1>8, <1>9 DEF Next

\* A variable that is entered counts once; one that is not has the name of a
\* routine, and is then no field.
LEMMA NextCounted ==
  Shape /\ (~errors => VariablesCounted) /\ [Next]_vars
    => (~errors' => VariablesCounted')
<1> SUFFICES ASSUME Shape, VariablesCounted, [Next]_vars, ~errors, ~errors'
             PROVE  VariablesCounted'
  BY ErrorsStay
<1>0. IsTable(table) /\ inits \subseteq DOMAIN table /\ nextVar \in Nat
  BY DEF Shape, ShapeRest
<1>1. Kept(table, table')
  BY TableKept
<1>2. IsFiniteSet(Fields)
  BY <1>0, FS_Subset DEF Fields, IsTable
<1>3. ASSUME NEW n \in Names, DeclareVariable(n) PROVE VariablesCounted'
  <2>1. /\ NameFree(table, n) /\ table' = Insert(table, n, Field("variable"))
        /\ nextVar' = nextVar + 1 /\ inits' = inits \cup {n}
    BY <1>3 DEF DeclareVariable
  <2>2. Inserted(table, table', n, Field("variable"))
    BY <1>0, <2>1, FieldType, InsertTable
  <2>3. CASE n \in DOMAIN table
    <3>1. table[n].class \in RoutineKinds
      BY <2>1, <2>3 DEF NameFree, IsForward
    <3>2. n \notin Fields'
      BY <2>2, <2>3, <3>1 DEF Inserted, Fields, RoutineKinds
    <3> QED BY <2>1, <3>2 DEF VariablesCounted
  <2>4. CASE n \notin DOMAIN table
    <3>1. Fields' = Fields \cup {n} /\ n \notin Fields
      BY <2>2, <2>4 DEF Inserted, Fields, Field
    <3>2. Cardinality(Fields') = Cardinality(Fields) + 1
      BY <1>2, <3>1, FS_AddElement
    <3>3. inits' \subseteq Fields' => inits \subseteq Fields
      BY <1>0, <2>1, <2>4, <3>1
    <3> QED BY <2>1, <3>2, <3>3 DEF VariablesCounted
  <2> QED BY <2>3, <2>4
<1>4. ASSUME Fields' = Fields, UNCHANGED <<nextVar, inits>> PROVE VariablesCounted'
  BY <1>4 DEF VariablesCounted
<1>5. ASSUME NEW n \in Names, DeclareName(n) PROVE VariablesCounted'
  <2>1. Inserted(table, table', n, Field("other"))
    BY <1>0, <1>5, FieldType, InsertTable DEF DeclareName
  <2>2. Fields' = Fields
    BY <2>1 DEF Inserted, Fields, Field
  <2> QED BY <1>4, <1>5, <2>2 DEF DeclareName
<1>6. ASSUME NEW name \in Names, NEW sig \in Signatures, NEW forward \in {-1, 0, 1},
             NEW t, NEW u, IsTable(t), u = AddRoutine(t, name, sig, forward)
      PROVE  {n \in DOMAIN u : u[n].class = "variable"}
                = {n \in DOMAIN t : t[n].class = "variable"}
  <2>1. Entered(t, u, name, sig, forward)
    BY <1>6, AddRoutineTable
  <2> QED BY <2>1 DEF Entered, RoutineKinds
<1>7. ASSUME NEW n \in Names, NEW p \in Params, NEW r \in Results \cup {Void},
             DeclareForward(n, p, r)
      PROVE  VariablesCounted'
  <2> DEFINE sig == Signature(p, r)
             t   == AddRoutine(table, n, sig, -1)
  <2>1. table' = AddRoutine(t, n, sig, 1) /\ sig \in Signatures
    BY <1>7, SignatureType DEF DeclareForward
  <2> HIDE DEF sig
  <2>2. Kept(table, t)
    BY <1>0, <2>1, AddRoutineKept
  <2>3. {m \in DOMAIN t : t[m].class = "variable"} = Fields
    BY <1>0, <1>6, <2>1 DEF Fields
  <2> HIDE DEF t
  <2>4. IsTable(t)
    BY <2>2 DEF Kept
  <2>5. Fields' = Fields
    BY <1>6, <2>1, <2>3, <2>4 DEF Fields
  <2> QED BY <1>4, <1>7, <2>5 DEF DeclareForward
<1>8. ASSUME NEW n \in Names, NEW p \in Params, NEW r \in Results \cup {Void},
             BeginRoutine(n, p, r)
      PROVE  VariablesCounted'
  <2>1. table' = AddRoutine(table, n, Signature(p, r), -1)
    BY <1>8 DEF BeginRoutine
  <2>2. Fields' = Fields
    BY <1>0, <1>6, <2>1, SignatureType DEF Fields
  <2> QED BY <1>4, <1>8, <2>2 DEF BeginRoutine
<1>9. CASE EndRoutine
  <2>1. /\ routine.name \in Names
        /\ Signature(routine.params, routine.result) \in Signatures
    BY <1>0, <1>9, SignatureType DEF EndRoutine, Shape, ShapeRest, IsRoutine, IsTable
  <2>2. table' = AddRoutine(table, routine.name,
                            Signature(routine.params, routine.result), 0)
    BY <1>9 DEF EndRoutine
  <2>3. Fields' = Fields
    BY <1>0, <1>6, <2>1, <2>2 DEF Fields
  <2> QED BY <1>4, <1>9, <2>3 DEF EndRoutine
<1>10. ASSUME NEW n \in Names, DeclareLocal(n) \/ Call(n) PROVE VariablesCounted'
  BY <1>4, <1>10 DEF DeclareLocal, Call, Fields
<1>11. CASE NextPart \/ Finish \/ UNCHANGED vars
  BY <1>4, <1>11 DEF NextPart, Finish, vars, Fields
<1> QED BY <1>3, <1>5, <1>7, <1>8, <1>9, <1>10, <1>11 DEF Next

-----------------------------------------------------------------------------
LEMMA InitInductive == Init => Inductive
<1> SUFFICES ASSUME Init PROVE Inductive
  OBVIOUS
<1>1. table = <<>> /\ DOMAIN table = {} /\ children = <<>> /\ DOMAIN children = {}
  BY DEF Init
<1>2. IsTable(table)
  BY <1>1, FS_EmptySet DEF IsTable
<1>3. ShapeRest
  <2>1. children \in Seq(Bodies)
    BY <1>1
  <2>2. inits \subseteq DOMAIN table /\ calls \subseteq Names \X Signatures
    BY DEF Init
  <2>3. count \in 0 .. MaxDeclarations /\ nextVar \in Nat
    BY BoundAssumption DEF Init
  <2> QED BY <2>1, <2>2, <2>3 DEF Init, ShapeRest
<1>4. SlotsKept /\ CallsKnown /\ ForwardTells
  BY <1>1 DEF Init, SlotsKept, CallsKnown, ForwardTells
<1>5. Fields = {} /\ VariablesCounted
  BY <1>1, FS_EmptySet DEF Init, Fields, VariablesCounted
<1> QED BY <1>2, <1>3, <1>4, <1>5 DEF Inductive, Shape

\* The inductive invariant: the slots given out so far are apart, and as long
\* as no error was reported the table says of each name what its callers and
\* its heading were told, and counts the variables it holds.
THEOREM InductiveInvariant == Spec => []Inductive
<1>1. Inductive /\ [Next]_vars => Inductive'
  BY NextShape, NextSlots, NextCalls, NextForward, NextCounted DEF Inductive
<1> QED BY InitInductive, <1>1, PTL DEF Spec

\* The name table is well formed, and the routine under way is in it, where
\* add_variables looks it up without a test.
THEOREM TypesHold == Spec => []TypeOK
<1>1. Inductive => TypeOK
  <2> SUFFICES ASSUME Inductive PROVE TypeOK
    OBVIOUS
  <2>1. IsTable(table) /\ ShapeRest
    BY DEF Inductive, Shape
  <2>2. \A i \in DOMAIN children : children[i].sig \in Signatures
    <3>1. \A i \in DOMAIN children : children[i] \in Bodies
      <4>1. children \in Seq(Bodies)
        BY <2>1 DEF ShapeRest
      <4> QED BY <4>1, ElementOfSeq, LenProperties
    <3> QED BY <3>1 DEF Bodies
  <2>3. routine # None =>
          /\ routine.name \in DOMAIN table
          /\ routine.params \in Params /\ routine.result \in Results \cup {Void}
          /\ \A n \in DOMAIN routine.locals : routine.locals[n] \in Nat
          /\ routine.next \in Nat
    BY <2>1 DEF ShapeRest, IsRoutine
  <2> QED BY <2>1, <2>2, <2>3 DEF TypeOK, IsTable, ShapeRest
<1> QED BY <1>1, InductiveInvariant, PTL

\* The slots of a routine's parameters, result and variables are different and
\* lie below the index that max_locals is made from, for routines of any length.
THEOREM SlotsStayApart == Spec => []SlotsApart
<1>1. Inductive => SlotsApart
  BY DEF Inductive, SlotsKept, SlotsApart
<1> QED BY <1>1, InductiveInvariant, PTL

\* The descriptor and the code of each method belong together, and no method
\* is written twice.
THEOREM MethodsAlwaysMatch == Spec => []MethodsMatch
<1>1. Inductive => MethodsMatch
  BY DEF Inductive, ForwardTells, MethodsMatch, Written
<1> QED BY <1>1, InductiveInvariant, PTL

\* What was called, after a forward or an interface declaration or from inside
\* the routine itself, is a method of the class file with that descriptor.
THEOREM CallsAlwaysLink == Spec => []CallsLink
<1>1. Inductive => CallsLink
  <2> SUFFICES ASSUME Inductive, Written, NEW c \in calls PROVE c \in Methods
    BY DEF CallsLink
  <2>1. ForwardTells /\ part = "finished" /\ routine = None
    BY DEF Inductive, Written, Shape, ShapeRest
  <2>2. /\ c[1] \in DOMAIN table /\ table[c[1]].class \in RoutineKinds
        /\ table[c[1]].sig = c[2]
    BY DEF Inductive, CallsKnown
  <2>3. table[c[1]].forward \in {-1, 0, 1}
    BY <2>2 DEF Inductive, Shape, IsTable, Entries
  <2>4. table[c[1]].forward = 0
    BY <2>1, <2>2, <2>3 DEF ForwardTells, IsForward
  <2>5. PICK i \in DOMAIN children : children[i].name = c[1]
    BY <2>1, <2>2, <2>4 DEF ForwardTells
  <2>6. c = <<c[1], c[2]>>
    BY DEF Inductive, Shape, ShapeRest
  <2> QED BY <2>2, <2>5, <2>6 DEF Methods
<1> QED BY <1>1, InductiveInvariant, PTL

\* create_class_file announces as many fields as it writes, unless a variable
\* that the main code initialises is none.
THEOREM FieldsAreCounted == Spec => []FieldsCounted
<1>1. Inductive => FieldsCounted
  BY DEF Inductive, VariablesCounted, FieldsCounted, Written
<1> QED BY <1>1, InductiveInvariant, PTL

\* No declaration changes what an earlier one said of a name: the kind and the
\* signature that calls were compiled with stay in the table.
THEOREM DescriptorsStay == Spec => [][Kept(table, table')]_vars
<1>1. Inductive /\ [Next]_vars => [Kept(table, table')]_vars
  BY TableKept DEF Inductive
<1> QED BY <1>1, InductiveInvariant, PTL DEF Spec
=============================================================================
