------------------------------- MODULE Build -------------------------------
(***************************************************************************)
(* A project of several modules compiled into one output directory.  Each *)
(* run of mp3cc is one process; runs share nothing but the files they      *)
(* leave: a unit's symbols (<unit>.bsf), one R_<n>.class per record type   *)
(* and one class per module.  The caller is the IDE that README.md and     *)
(* docs/compiler-output.md describe: it hands each run the next record     *)
(* number, one above the highest ^3 marker it has read, and takes a module *)
(* for built when its last run had the status 0 and neither its text nor a *)
(* unit it uses changed since.  The order of the runs is free.             *)
(*                                                                         *)
(* A source text is abstracted to its version, the kind of its error if it *)
(* has one, and the number of record types it declares.                    *)
(***************************************************************************)
EXTENDS Integers, Sequences, FiniteSets

CONSTANTS
    Units,          \* names of the units of the project
    Program,        \* the program: the module without a symbol file
    Libraries,      \* names N for which a library directory holds Lib_N.class
    Uses,           \* Uses[m]: the names in the uses clauses of m
    Public,         \* Public[m]: record types declared in m's interface
    Private,        \* Private[m]: record types declared outside it
    Detects,        \* modules on which the IDE runs -d passes
    Mistakes,       \* Mistakes[m]: the kinds of error a text of m may have
    MaxVersion,     \* bound: versions of a source text
    MaxRecord,      \* bound: record numbers
    ErrorLimit      \* errors after which the compiler gives up

Modules == Units \cup {Program}
Total(m) == Public[m] + Private[m]

\* Of a syntax error in the interface or after it, a name used twice, a library
\* that is no class file, and a constant that a class file cannot hold, a text
\* has at most one.
Faults == {"none", "interface", "body", "twice", "library", "constant"}

ASSUME ModuleAssumption ==
    /\ Program \notin Units
    /\ Uses \in [Modules -> SUBSET (Units \cup Libraries)]
    /\ Public \in [Modules -> Nat] /\ Private \in [Modules -> Nat]
    /\ Public[Program] = 0
    /\ Mistakes \in [Modules -> SUBSET Faults]
ASSUME BoundAssumption == MaxVersion \in Nat /\ MaxRecord \in Nat /\ ErrorLimit \in Nat

VARIABLES
    src,            \* src[m]: the source text of m
    bsf,            \* bsf[u]: the symbol file of unit u
    rec,            \* rec[n]: the file R_<n>.class
    class,          \* class[m]: the class file of m
    known,          \* the IDE: one above the highest ^3 marker read
    built,          \* the IDE: modules compiled since they or their units changed
    run,            \* the running compiler, Idle when there is none
    last            \* how the last run ended

vars == <<src, bsf, rec, class, known, built, run, last>>

NoFile == [kind |-> "none"]
Cut == [kind |-> "cut"]          \* opened for writing and left incomplete
Idle == [phase |-> "idle"]
NoRun == [printed |-> 0]

\* A process ended by a signal has no exit status.
BySignal == -1
ByFault == -2

Unit == run.m \in Units
At(phase) == run.phase = phase
Goto(phase) == run' = [run EXCEPT !.phase = phase]

\* A record type is known by its number; its layout is what the source of that
\* version declares there.
Layout(id) == <<run.m, src[run.m].ver, id - run.first>>
Types(ids) == {<<id, Layout(id)>> : id \in ids}
Record(layout) == [kind |-> "record", layout |-> layout]

\* A symbol file has no header and no end mark: any beginning of it is one.
Symbols(ids) == [kind |-> "symbols", ver |-> src[run.m].ver, types |-> Types(ids)]
-----------------------------------------------------------------------------
(* How a process ends.  The IDE sees the status, and has read every line,  *)
(* which compileMSG flushes one by one.                                    *)

Ends(status, errors) ==
    /\ run' = Idle
    /\ last' = [m |-> run.m, detect |-> run.detect, status |-> status,
                printed |-> errors]
    /\ built' = IF status = 0 /\ ~run.detect
                THEN {m \in built : run.m \notin Uses[m]} \cup {run.m}
                ELSE built

\* What exit and fclose leave of a symbol file that is open.
Flushed == IF run.open THEN [bsf EXCEPT ![run.m] = Symbols(run.public)] ELSE bsf

Exit(status, errors) == Ends(status, errors) /\ bsf' = Flushed

\* The return from main.
Return(errors) == Exit(errors, errors)

\* Mutants of Error: an error too many, and a fatal error that reports success.
ErrorOneMore(r) ==
    IF run.errors > ErrorLimit
    THEN Exit(1, run.errors + 1)
    ELSE /\ run' = [r EXCEPT !.errors = @ + 1]
         /\ UNCHANGED <<bsf, built, last>>

ErrorExitsZero(r) ==
    IF run.errors = ErrorLimit
    THEN Exit(0, run.errors + 1)
    ELSE /\ run' = [r EXCEPT !.errors = @ + 1]
         /\ UNCHANGED <<bsf, built, last>>

\* add_error_message: the run goes on as r, or dies of too many errors.
Error(r) ==
    IF run.errors = ErrorLimit
    THEN Exit(1, run.errors + 1)
    ELSE /\ run' = [r EXCEPT !.errors = @ + 1]
         /\ UNCHANGED <<bsf, built, last>>

\* A process that is killed leaves of the file it writes what was flushed.
Killed ==
    /\ run # Idle
    /\ Ends(BySignal, run.errors)
    /\ \/ UNCHANGED <<bsf, rec, class>>
       \/ /\ run.open
          /\ \E n \in run.first .. run.next :
                bsf' = [bsf EXCEPT ![run.m] = Symbols({id \in run.public : id < n})]
          /\ UNCHANGED <<rec, class>>
       \/ /\ run.marked
          /\ rec' = [rec EXCEPT ![Head(run.nest)] = Cut]
          /\ UNCHANGED <<bsf, class>>
       \/ /\ At("verify")
          /\ class' = [class EXCEPT ![run.m] = Cut]
          /\ UNCHANGED <<bsf, rec>>
    /\ UNCHANGED <<src, known>>
-----------------------------------------------------------------------------
Init ==
    /\ src = [m \in Modules |-> [ver |-> 0, fault |-> "none"]]
    /\ bsf = [u \in Units |-> NoFile]
    /\ rec = [n \in 0 .. MaxRecord - 1 |-> NoFile]
    /\ class = [m \in Modules |-> NoFile]
    /\ known = 0
    /\ built = {}
    /\ run = Idle
    /\ last = NoRun

Edit(m, fault) ==
    /\ run = Idle
    /\ src[m].ver < MaxVersion
    /\ src' = [src EXCEPT ![m] = [ver |-> @.ver + 1, fault |-> fault]]
    /\ built' = built \ {m}
    /\ last' = NoRun
    /\ UNCHANGED <<bsf, rec, class, known, run>>

\* A mutant of Start: initialize_compiler clears the record number too.
StartCleared(m, detect) ==
    /\ run = Idle
    /\ m \notin built
    /\ detect => m \in Detects
    /\ run' = [m |-> m, detect |-> detect, first |-> 0, next |-> 0,
               phase |-> IF m \in Units THEN "open" ELSE "uses",
               fault |-> src[m].fault, errors |-> 0,
               nest |-> <<>>, marked |-> FALSE, public |-> {}, open |-> FALSE,
               pending |-> Uses[m], imports |-> {}, against |-> [u \in Units |-> -1]]
    /\ last' = NoRun
    /\ UNCHANGED <<src, bsf, rec, class, known, built>>

\* -r is the next free number; initialize_compiler clears the rest.
Start(m, detect) ==
    /\ run = Idle
    /\ m \notin built
    /\ detect => m \in Detects
    /\ known + Total(m) <= MaxRecord
    /\ run' = [m |-> m, detect |-> detect, first |-> known, next |-> known,
               phase |-> IF m \in Units THEN "open" ELSE "uses",
               fault |-> src[m].fault, errors |-> 0,
               nest |-> <<>>, marked |-> FALSE, public |-> {}, open |-> FALSE,
               pending |-> Uses[m], imports |-> {}, against |-> [u \in Units |-> -1]]
    /\ last' = NoRun
    /\ UNCHANGED <<src, bsf, rec, class, known, built>>

\* parser_start opens the symbol file before it reads the interface.
OpenSymbols ==
    /\ At("open")
    /\ bsf' = [bsf EXCEPT ![run.m] = Symbols({})]
    /\ run' = [run EXCEPT !.open = TRUE, !.phase = "interface"]
    /\ UNCHANGED <<src, rec, class, known, built, last>>

\* RD_record_declaration: the number is taken where the declaration starts, so
\* a record type declared inside another has the higher number and is the
\* first to be written.
DeclareRecord ==
    /\ \/ At("interface") /\ run.next < run.first + Public[run.m]
       \/ At("body") /\ run.next < run.first + Total(run.m)
    /\ ~run.marked
    /\ run' = [run EXCEPT !.nest = <<run.next>> \o @, !.next = @ + 1]
    /\ UNCHANGED <<src, bsf, rec, class, known, built, last>>

\* create_record_class prints the ^3 marker, which a -d pass does not,
MarkRecord ==
    /\ At("interface") \/ At("body")
    /\ run.nest # <<>> /\ ~run.marked
    /\ run' = [run EXCEPT !.marked = TRUE]
    /\ known' = IF ~run.detect /\ Head(run.nest) >= known
                THEN Head(run.nest) + 1 ELSE known
    /\ UNCHANGED <<src, bsf, rec, class, built, last>>

\* A mutant of WriteRecord: the class file is written before the marker.
WriteRecordFirst ==
    /\ At("interface") \/ At("body")
    /\ run.nest # <<>>
    /\ LET id == Head(run.nest) IN
       /\ rec' = [rec EXCEPT ![id] = Record(Layout(id))]
       /\ run' = [run EXCEPT !.nest = Tail(@), !.marked = FALSE,
                             !.public = IF At("interface") THEN @ \cup {id} ELSE @]
    /\ UNCHANGED <<src, bsf, class, known, built, last>>

\* and then writes the class file, in both.
WriteRecord ==
    /\ At("interface") \/ At("body")
    /\ run.nest # <<>> /\ run.marked
    /\ LET id == Head(run.nest) IN
       /\ rec' = [rec EXCEPT ![id] = Record(Layout(id))]
       /\ run' = [run EXCEPT !.nest = Tail(@), !.marked = FALSE,
                             !.public = IF At("interface") THEN @ \cup {id} ELSE @]
    /\ UNCHANGED <<src, bsf, class, known, built, last>>

\* A syntax error; recovery may skip the declarations that are left, and from
\* an interface the implementation with its uses clauses too.
SyntaxError ==
    /\ \/ At("interface") /\ run.fault = "interface"
       \/ At("body") /\ run.fault = "body"
    /\ run.nest = <<>>
    /\ \E phase \in IF At("body") THEN {"body", "close"}
                                  ELSE {"interface", "uses", "close"} :
          Error([run EXCEPT !.phase = phase, !.fault = "none"])
    /\ UNCHANGED <<src, rec, class, known>>

EndInterface ==
    /\ At("interface") /\ run.nest = <<>> /\ run.fault # "interface"
    /\ run.next = run.first + Public[run.m] \/ run.errors > 0
    /\ Goto("uses")
    /\ UNCHANGED <<src, bsf, rec, class, known, built, last>>

(* load_extern_library, once for each name of the uses clauses. *)

\* A library comes before a unit of that name.  A -d pass does not read it;
\* a compilation that cannot dies.
LoadLibrary(name) ==
    /\ At("uses") /\ name \in run.pending \cap Libraries
    /\ IF run.fault = "library" /\ ~run.detect
       THEN Exit(1, run.errors + 1)
       ELSE /\ run' = [run EXCEPT !.pending = @ \ {name}]
            /\ UNCHANGED <<bsf, built, last>>
    /\ UNCHANGED <<src, rec, class, known>>

\* The declarations of m refer to all record types that u's interface has, so
\* a symbol file with some of them missing gives an error later on.
LoadUnit(u) ==
    /\ At("uses") /\ u \in run.pending \ Libraries
    /\ LET loaded == [run EXCEPT !.pending = @ \ {u}] IN
       IF run.detect
       THEN run' = loaded /\ UNCHANGED <<bsf, built, last>>
       ELSE IF bsf[u] = NoFile
       THEN Error(loaded)
       ELSE /\ run' = [loaded EXCEPT
                 !.imports = @ \cup bsf[u].types,
                 !.against[u] = bsf[u].ver,
                 !.fault = IF Cardinality(bsf[u].types) < Public[u] THEN "body" ELSE @]
            /\ UNCHANGED <<bsf, built, last>>
    /\ UNCHANGED <<src, rec, class, known>>

\* A name that the uses clauses give twice: E450, and fclose of a null pointer.
LoadTwice ==
    /\ At("uses") /\ run.fault = "twice" /\ run.pending # Uses[run.m]
    /\ \/ Error([run EXCEPT !.fault = "none"]) /\ UNCHANGED <<rec, class>>
       \/ /\ Ends(ByFault, run.errors + 1)
          /\ UNCHANGED <<bsf, rec, class>>
    /\ UNCHANGED <<src, known>>

\* RD_uses_list ends a -d pass by exit(0), errors or none.
EndUses ==
    /\ At("uses") /\ run.pending = {}
    /\ run.fault = "twice" => Uses[run.m] = {}
    /\ IF run.detect
       THEN Exit(0, run.errors)
       ELSE Goto("body") /\ UNCHANGED <<bsf, built, last>>
    /\ UNCHANGED <<src, rec, class, known>>

EndBody ==
    /\ At("body") /\ run.nest = <<>> /\ run.fault # "body"
    /\ run.next = run.first + Total(run.m) \/ run.errors > 0
    /\ Goto("close")
    /\ UNCHANGED <<src, bsf, rec, class, known, built, last>>

\* The end of the text: parser_start closes the symbol file and, when there
\* was no error, opens the class file.
CloseSymbols ==
    /\ At("close")
    /\ IF run.errors > 0 \/ run.detect
       THEN Return(run.errors) /\ UNCHANGED class
       ELSE /\ bsf' = Flushed
            /\ class' = [class EXCEPT ![run.m] = Cut]
            /\ run' = [run EXCEPT !.open = FALSE, !.phase = "class"]
            /\ UNCHANGED <<built, last>>
    /\ UNCHANGED <<src, rec, known>>

\* create_class_file; a constant that write_constant_pool cannot write is fatal
\* and leaves what was written so far.
WriteClass ==
    /\ At("class")
    /\ IF run.fault = "constant"
       THEN Exit(1, 0) /\ UNCHANGED class
       ELSE /\ class' = [class EXCEPT ![run.m] =
                 [kind |-> "raw", ver |-> src[run.m].ver, against |-> run.against,
                  types |-> Types(run.first .. run.next - 1) \cup run.imports]]
            /\ Goto("verify")
            /\ UNCHANGED <<bsf, built, last>>
    /\ UNCHANGED <<src, rec, known>>

\* The preverifier rewrites the class file, or exits; then main returns.
Verify ==
    /\ At("verify")
    /\ \/ /\ class' = [class EXCEPT ![run.m].kind = "class"]
          /\ Return(run.errors)
       \/ UNCHANGED class /\ Exit(1, run.errors)
    /\ UNCHANGED <<src, rec, known>>

Next ==
    \/ \E m \in Modules : \E fault \in Mistakes[m] \cup {"none"} : Edit(m, fault)
    \/ \E m \in Modules : \E detect \in BOOLEAN : Start(m, detect)
    \/ OpenSymbols \/ DeclareRecord \/ MarkRecord \/ WriteRecord
    \/ SyntaxError \/ EndInterface
    \/ \E name \in Units \cup Libraries : LoadLibrary(name) \/ LoadUnit(name)
    \/ LoadTwice \/ EndUses \/ EndBody \/ CloseSymbols \/ WriteClass \/ Verify
    \/ Killed

Spec == Init /\ [][Next]_vars
-----------------------------------------------------------------------------
Ids == 0 .. MaxRecord
Layouts == Modules \X (0 .. MaxVersion) \X Ids

\* The type invariant.
TypeOK ==
    /\ src \in [Modules -> [ver : 0 .. MaxVersion, fault : Faults]]
    /\ \A u \in Units : \/ bsf[u] = NoFile
                        \/ /\ bsf[u].ver \in 0 .. MaxVersion
                           /\ bsf[u].types \subseteq Ids \X Layouts
    /\ \A n \in DOMAIN rec : \/ rec[n] \in {NoFile, Cut}
                             \/ rec[n].layout \in Layouts
    /\ \A m \in Modules : class[m].kind \in {"none", "cut", "raw", "class"}
    /\ known \in Ids
    /\ built \subseteq Modules
    /\ run # Idle => /\ run.first \in Ids /\ run.next \in run.first .. MaxRecord
                     /\ run.errors \in 0 .. ErrorLimit
                     /\ run.public \subseteq run.first .. run.next - 1

\* After any number of edits, failed, killed and -d runs, the modules that the
\* IDE takes for built fit together: each class file is whole, preverified and
\* made from the present source, every record class it refers to is still the
\* one it was compiled with, and it knows each unit it uses as that unit was
\* compiled, record numbers included.  (Record types are equal when their
\* numbers are: two that shared one would break this.)
BuiltAgree ==
    \A m \in built :
        /\ class[m].kind = "class"
        /\ class[m].ver = src[m].ver
        /\ \A t \in class[m].types : rec[t[1]] = Record(t[2])
        /\ \A u \in (Uses[m] \ Libraries) \cap built :
              /\ class[m].against[u] = class[u].ver
              /\ \A t \in class[m].types : t[2][1] = u => t \in class[u].types

\* README.md: "take the highest ^3R_<n>.class marker reported so far and add
\* one" gives the next free number: no record class has it or a higher one,
\* at any moment, since the run may be killed at any moment.
NextIsFree == \A n \in DOMAIN rec : n >= known => rec[n] = NoFile

\* A compilation has the status 0 only when it printed no error message and
\* its class file is whole, preverified and made from the present source.
StatusTells ==
    last # NoRun /\ ~last.detect /\ last.status = 0 =>
        /\ last.printed = 0
        /\ class[last.m].kind = "class"
        /\ class[last.m].ver = src[last.m].ver
=============================================================================
