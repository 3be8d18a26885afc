----------------------------- MODULE ClassFile -----------------------------
(***************************************************************************)
(* The constant pool of constant_pool.c and the class files made around    *)
(* it.  While the text is parsed, constants are added as code is emitted.  *)
(* create_class_file then runs write_method and its like with no file, for *)
(* the constants they add, writes the pool, and runs them again with the   *)
(* file; what they add then must be there already.  A record declaration   *)
(* makes a class file of its own in the middle of the parsing: it puts the *)
(* pool aside and takes it back.                                           *)
(***************************************************************************)
EXTENDS Integers, Sequences

CONSTANTS
    UnitName,       \* name of the module, when it is a unit
    UserConstants,  \* constants that the code of the module may ask for
    Routines,       \* its routines: a sequence of [name, desc]
    Variables,      \* its global variables: a sequence of [name, desc]
    Records,        \* its record types: [class, sig, fields], a set
    MaxUses         \* bound: statements and record declarations of a module

\* Constants have the arguments that the functions of constant_pool.c take.
ASSUME ConstantAssumption ==
    /\ \A k \in UserConstants :
          \/ k[1] \in {"utf8", "integer", "class", "string"} /\ k = <<k[1], k[2]>>
          \/ k[1] = "nametype" /\ k = <<k[1], k[2], k[3]>>
          \/ k[1] \in {"field", "method", "interface"} /\ k = <<k[1], k[2], k[3], k[4]>>
    /\ Routines \in Seq({Routines[i] : i \in DOMAIN Routines})
    /\ Variables \in Seq({Variables[i] : i \in DOMAIN Variables})
    /\ \A r \in Records : r.fields \in Seq({r.fields[i] : i \in DOMAIN r.fields})

VARIABLES
    unit,           \* compiling_unit
    canvas,         \* the super class of a program
    phase,          \* what is being done
    todo,           \* constants that the function being executed adds next
    parts,          \* and those of the functions to be called after it
    pool,           \* constants: the entries, the first has index 1
    refs,           \* <<index, constant>>: what cp_add_* returned
    record,         \* the record type whose class is being made, or None
    saved,          \* the pool of the module meanwhile, and its refs
    file,           \* the pool that was written, or NotWritten
    uses            \* how many statements and record declarations there were

vars == <<unit, canvas, phase, todo, parts, pool, refs, record, saved, file, uses>>

None == [class |-> "none"]
NotWritten == <<>>
-----------------------------------------------------------------------------
(* Constants, as they are asked for. *)

Utf8(s)            == <<"utf8", s>>
Class(s)           == <<"class", s>>
String(s)          == <<"string", s>>
NameType(n, d)     == <<"nametype", n, d>>
FieldRef(c, n, d)  == <<"field", c, n, d>>
MethodRef(c, n, d) == <<"method", c, n, d>>
Interface(c, n, d) == <<"interface", c, n, d>>

(* Entries hold the index of another entry where a constant has a text. *)

Find(p, e) == CHOOSE i \in DOMAIN p : p[i] = e

\* Mutant: the search stops before the last entry.
InButLast(p, e) == \E i \in DOMAIN p : i < Len(p) /\ p[i] = e
In(p, e) == \E i \in DOMAIN p : p[i] = e

NameEntry(p, tag, s)   == <<tag, Find(p, Utf8(s))>>
NameTypeEntry(p, n, d) == <<"nametype", Find(p, Utf8(n)), Find(p, Utf8(d))>>
RefEntry(p, tag, c, n, d) ==
    <<tag, Find(p, NameEntry(p, "class", c)), Find(p, NameTypeEntry(p, n, d))>>

Intern(p, e) == IF In(p, e) THEN p ELSE Append(p, e)

\* cp_add_class and cp_add_string; cp_add_nameandtype; cp_add_fieldref and
\* cp_add_methodref.
AddName(p, tag, s) ==
    LET q == Intern(p, Utf8(s)) IN Intern(q, NameEntry(q, tag, s))

AddNameType(p, n, d) ==
    LET q == Intern(Intern(p, Utf8(n)), Utf8(d)) IN Intern(q, NameTypeEntry(q, n, d))

AddRefParts(p, c, n, d) == AddNameType(AddName(p, "class", c), n, d)

AddRef(p, tag, c, n, d) ==
    LET q == AddRefParts(p, c, n, d) IN Intern(q, RefEntry(q, tag, c, n, d))

\* cp_add_interface looks for a method with these parts.
AddInterface(p, c, n, d) ==
    LET q == AddRefParts(p, c, n, d)
    IN IF In(q, RefEntry(q, "method", c, n, d))
       THEN q ELSE Append(q, RefEntry(q, "interface", c, n, d))

Add(p, k) ==
    CASE k[1] \in {"utf8", "integer"}  -> Intern(p, k)
      [] k[1] \in {"class", "string"}  -> AddName(p, k[1], k[2])
      [] k[1] = "nametype"             -> AddNameType(p, k[2], k[3])
      [] k[1] \in {"field", "method"}  -> AddRef(p, k[1], k[2], k[3], k[4])
      [] k[1] = "interface"            -> AddInterface(p, k[2], k[3], k[4])

\* The index that is returned; q is the pool afterwards.
Index(q, k) ==
    CASE k[1] \in {"utf8", "integer"}  -> Find(q, k)
      [] k[1] \in {"class", "string"}  -> Find(q, NameEntry(q, k[1], k[2]))
      [] k[1] = "nametype"             -> Find(q, NameTypeEntry(q, k[2], k[3]))
      [] k[1] \in {"field", "method"}  -> Find(q, RefEntry(q, k[1], k[2], k[3], k[4]))
      [] k[1] = "interface"            ->
            IF In(q, RefEntry(q, "method", k[2], k[3], k[4]))
            THEN Find(q, RefEntry(q, "method", k[2], k[3], k[4])) ELSE Len(q)
-----------------------------------------------------------------------------
(* What the parts of a class file ask for. *)

RandomType == "Ljava/util/Random;"
ImageType  == "Ljavax/microedition/lcdui/Image;"
CanvasName == "javax/microedition/lcdui/Canvas"
FullName   == "javax/microedition/lcdui/game/GameCanvas"
NokiaName  == "com/nokia/mid/ui/FullCanvas"
GraphicsName == "javax/microedition/lcdui/Graphics"
GraphicsType == "Ljavax/microedition/lcdui/Graphics;"

\* parser_start, before and after the text of a program.
Beginning ==
    << FieldRef("M", "RNG", RandomType), Class("java/util/Random"),
       MethodRef("java/util/Random", "<init>", "()V"),
       FieldRef("M", "IC", "[I"), FieldRef("M", "KC", "I"), FieldRef("M", "KP", "I") >>

Halt == << FieldRef("FW", "fw", "LFW;"), MethodRef("FW", "destroyApp", "(Z)V") >>

Named(n, d) == << Utf8(n), Utf8(d) >>
Heading(n, d) == Named(n, d) \o << Utf8("Code") >>

\* write_method, of a routine and of the main code.
MethodPart(n, d) ==
    Heading(n, d) \o << Utf8("Exceptions"), Class("java/lang/Exception") >>
RoutineParts == [i \in DOMAIN Routines |-> MethodPart(Routines[i].name, Routines[i].desc)]
MainPart == MethodPart(IF unit THEN "<clinit>" ELSE "R", "()V")

VariableParts == [i \in DOMAIN Variables |-> Named(Variables[i].name, Variables[i].desc)]

ThisPart ==
    IF unit THEN << Class(UnitName), Class("java/lang/Object") >>
            ELSE << Class("M"), Class(canvas) >>

ConstructorPart ==
    (IF canvas = FullName
     THEN << MethodRef(FullName, "<init>", "(Z)V"),
             MethodRef(CanvasName, "setFullScreenMode", "(Z)V") >>
     ELSE << MethodRef(canvas, "<init>", "()V") >>) \o Heading("<init>", "()V")

PaintPart ==
    << FieldRef("M", "I", ImageType),
       MethodRef(GraphicsName, "drawImage", "(Ljavax/microedition/lcdui/Image;III)V") >>
    \o Heading("paint", "(Ljavax/microedition/lcdui/Graphics;)V")

RunPart ==
    << MethodRef("M", "R", "()V") >> \o Heading("run", "()V")
    \o << Class("java/lang/Exception"), Utf8("StackMap"), Class("M") >>

KeyPressedPart ==
    << FieldRef("M", "KC", "I"), FieldRef("M", "KP", "I") >> \o Heading("keyPressed", "(I)V")

KeyReleasedPart == << FieldRef("M", "KP", "I") >> \o Heading("keyReleased", "(I)V")

CanvasParts ==
    IF unit THEN <<>>
    ELSE << ConstructorPart, PaintPart, RunPart, KeyPressedPart, KeyReleasedPart >>

\* A mutant of NeededLater: the field T is forgotten.
NeededBarT ==
    << Utf8("I"), Utf8("G"), Utf8("KC"), Utf8("KP"), Utf8("IC"), Utf8("[I"),
       Utf8(ImageType), Utf8("LM;"), Class("M"), Utf8(GraphicsType),
       Class("java/lang/Runnable"), Utf8("StackMap") >>

\* create_class_file: "add data to constant pool that is later needed".
NeededLater ==
    << Utf8("I"), Utf8("T"), Utf8("G"), Utf8("KC"), Utf8("KP"), Utf8("IC"), Utf8("[I"),
       Utf8(ImageType), Utf8("LM;"), Class("M"), Utf8(GraphicsType),
       Class("java/lang/Runnable"), Utf8("StackMap") >>

FixedFields ==
    IF unit THEN <<>>
    ELSE << << Class("java/lang/Runnable") >>,
            Named("RNG", RandomType), Named("I", ImageType), Named("T", "LM;"),
            Named("G", GraphicsType), Named("KC", "I"), Named("KP", "I"),
            Named("IC", "[I") >>

\* create_class_file, with no file and with the file.
DryParts ==
    << ThisPart, MainPart >> \o RoutineParts \o VariableParts \o CanvasParts \o << NeededLater >>
RestParts ==
    FixedFields \o VariableParts \o CanvasParts \o RoutineParts \o << MainPart >>

(* create_record_class. *)

RecordHead(r) ==
    << Class(r.class), Class("java/lang/Object"), Utf8("<init>"), Utf8("()V"),
       Utf8("Code"), Utf8("Copy"), Utf8(r.sig) >>

\* create_record_fields, create_init_method and create_copy_method, of a field
\* of a simple or of a string type.
FieldTypes(r) == [i \in DOMAIN r.fields |-> << NameType(r.fields[i].name, r.fields[i].desc) >>]

IsString(f) == f.desc = "Ljava/lang/String;"

InitField(c, f) ==
    (IF IsString(f)
     THEN << Class("java/lang/String"), MethodRef("java/lang/String", "<init>", "()V") >>
     ELSE <<>>) \o << FieldRef(c, f.name, f.desc) >>

CopyField(c, f) ==
    << FieldRef(c, f.name, f.desc) >>
    \o (IF IsString(f)
        THEN << Class("java/lang/String"),
                MethodRef("java/lang/String", "<init>", "(Ljava/lang/String;)V") >>
        ELSE <<>>)

RecordParts(r) ==
    FieldTypes(r) \o << << MethodRef("java/lang/Object", "<init>", "()V") >> >>
    \o [i \in DOMAIN r.fields |-> InitField(r.class, r.fields[i])]
    \o [i \in DOMAIN r.fields |-> CopyField(r.class, r.fields[i])]

RecordRest(r) ==
    << << Class(r.class), Class("java/lang/Object") >> >>
    \o [i \in DOMAIN r.fields |-> Named(r.fields[i].name, r.fields[i].desc)]
    \o << Heading("<init>", "()V"), Heading("Copy", r.sig) >>
-----------------------------------------------------------------------------
Init ==
    /\ unit \in BOOLEAN
    /\ canvas \in {CanvasName, FullName, NokiaName}
    /\ phase = "parse"
    /\ todo = (IF unit THEN <<>> ELSE Beginning)
    /\ parts = <<>>
    /\ pool = <<>> /\ refs = {}
    /\ record = None
    /\ saved = [pool |-> <<>>, refs |-> {}]
    /\ file = NotWritten
    /\ uses = 0

\* A cp_add_* call.
AddConstant ==
    /\ todo # <<>>
    /\ pool' = Add(pool, Head(todo))
    /\ refs' = refs \cup {<<Index(pool', Head(todo)), Head(todo)>>}
    /\ todo' = Tail(todo)
    /\ UNCHANGED <<unit, canvas, phase, parts, record, saved, file, uses>>

NextPart ==
    /\ todo = <<>> /\ parts # <<>>
    /\ todo' = Head(parts) /\ parts' = Tail(parts)
    /\ UNCHANGED <<unit, canvas, phase, pool, refs, record, saved, file, uses>>

Idle == todo = <<>> /\ parts = <<>>

\* The code of a statement of the module.
UseConstant(k) ==
    /\ Idle /\ phase = "parse" /\ uses < MaxUses
    /\ todo' = <<k>>
    /\ uses' = uses + 1
    /\ UNCHANGED <<unit, canvas, phase, parts, pool, refs, record, saved, file>>

BeginRecord(r) ==
    /\ Idle /\ phase = "parse" /\ uses < MaxUses
    /\ uses' = uses + 1
    /\ phase' = "record dry" /\ record' = r
    /\ saved' = [pool |-> pool, refs |-> refs]
    /\ pool' = <<>> /\ refs' = {}
    /\ todo' = RecordHead(r) /\ parts' = RecordParts(r)
    /\ UNCHANGED <<unit, canvas, file>>

\* The end of the text; create_class_file begins.
EndText ==
    /\ Idle /\ phase = "parse"
    /\ phase' = "dry"
    /\ todo' = (IF unit THEN <<>> ELSE Halt)
    /\ parts' = DryParts
    /\ UNCHANGED <<unit, canvas, pool, refs, record, saved, file, uses>>

\* write_constant_pool, which cannot write what cp_add_interface adds: die(16).
WritePool ==
    /\ Idle /\ phase \in {"record dry", "dry"}
    /\ IF \E i \in DOMAIN pool : pool[i][1] = "interface"
       THEN phase' = "dead" /\ UNCHANGED <<parts, file>>
       ELSE /\ file' = pool
            /\ phase' = (IF phase = "dry" THEN "rest" ELSE "record rest")
            /\ parts' = (IF phase = "dry" THEN RestParts ELSE RecordRest(record))
    /\ UNCHANGED <<unit, canvas, todo, pool, refs, record, saved, uses>>

\* Mutant: the entries are taken back, their number is not.
EndRecordUncounted ==
    /\ Idle /\ phase = "record rest"
    /\ phase' = "parse" /\ record' = None
    /\ pool' = SubSeq(saved.pool, 1,
                      IF Len(pool) < Len(saved.pool) THEN Len(pool) ELSE Len(saved.pool))
    /\ refs' = saved.refs
    /\ saved' = [pool |-> <<>>, refs |-> {}]
    /\ file' = NotWritten
    /\ UNCHANGED <<unit, canvas, todo, parts, uses>>

\* Mutant: the file of the record stays open.
EndRecordOpen ==
    /\ Idle /\ phase = "record rest"
    /\ phase' = "parse" /\ record' = None
    /\ pool' = saved.pool /\ refs' = saved.refs
    /\ saved' = [pool |-> <<>>, refs |-> {}]
    /\ UNCHANGED <<unit, canvas, todo, parts, file, uses>>

EndRecord ==
    /\ Idle /\ phase = "record rest"
    /\ phase' = "parse" /\ record' = None
    /\ pool' = saved.pool /\ refs' = saved.refs
    /\ saved' = [pool |-> <<>>, refs |-> {}]
    /\ file' = NotWritten
    /\ UNCHANGED <<unit, canvas, todo, parts, uses>>

EndClass ==
    /\ Idle /\ phase = "rest"
    /\ phase' = "done"
    /\ UNCHANGED <<unit, canvas, todo, parts, pool, refs, record, saved, file, uses>>

Next ==
    \/ AddConstant \/ NextPart
    \/ \E k \in UserConstants : UseConstant(k)
    \/ \E r \in Records : BeginRecord(r)
    \/ EndText \/ WritePool \/ EndRecord \/ EndClass

Spec == Init /\ [][Next]_vars
-----------------------------------------------------------------------------
IsUtf8(p, i, s) == i \in DOMAIN p /\ p[i] = Utf8(s)
IsName(p, i, tag, s) ==
    i \in DOMAIN p /\ p[i][1] = tag /\ IsUtf8(p, p[i][2], s)
IsNameType(p, i, n, d) ==
    i \in DOMAIN p /\ p[i][1] = "nametype" /\ IsUtf8(p, p[i][2], n) /\ IsUtf8(p, p[i][3], d)
IsRef(p, i, tag, c, n, d) ==
    /\ i \in DOMAIN p /\ p[i][1] = tag
    /\ IsName(p, p[i][2], "class", c) /\ IsNameType(p, p[i][3], n, d)

\* What a class loader reads at index i of the pool p is the constant k.
Denotes(p, i, k) ==
    CASE k[1] \in {"utf8", "integer"} -> i \in DOMAIN p /\ p[i] = k
      [] k[1] \in {"class", "string"} -> IsName(p, i, k[1], k[2])
      [] k[1] = "nametype"            -> IsNameType(p, i, k[2], k[3])
      [] OTHER                        -> IsRef(p, i, k[1], k[2], k[3], k[4])
Written == phase \in {"record rest", "rest", "done"}

Mean(p, asked) == \A x \in asked : x[2][1] # "interface" => Denotes(p, x[1], x[2])

\* The type invariant.
TypeOK ==
    /\ phase \in {"parse", "record dry", "record rest", "dry", "rest", "done", "dead"}
    /\ record \in Records \cup {None}
    /\ \A x \in refs : x[1] \in DOMAIN pool
    /\ \A x \in saved.refs : x[1] \in DOMAIN saved.pool
    /\ file # NotWritten <=> Written

\* Each index that went into code or into the file denotes, in the pool that is
\* written to that file, the constant it was asked for; record declarations in
\* between, and constants that share a text, make no difference.
IndicesMean ==
    /\ Mean(IF Written THEN file ELSE pool, refs)
    /\ Mean(saved.pool, saved.refs)

\* What is added after the pool was written was in it.
PoolComplete == Written => pool = file

\* No constant has two entries, and an entry refers to earlier ones only.
WellFormed ==
    \A i \in DOMAIN pool :
        /\ \A j \in DOMAIN pool : pool[i] = pool[j] /\ pool[i][1] # "interface" => i = j
        /\ pool[i][1] \notin {"utf8", "integer"} =>
              \A n \in 2 .. Len(pool[i]) : pool[i][n] \in 1 .. i - 1
=============================================================================
