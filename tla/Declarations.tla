---------------------------- MODULE Declarations ----------------------------
(***************************************************************************)
(* The declarations of one program or unit: RD_var_declaration,            *)
(* RD_procedure_declaration, RD_function_declaration and RD_proc_block of  *)
(* parser.c over the name tables of block.c, and what create_class_file    *)
(* makes of them.  A routine may be declared forward, or in the interface  *)
(* of a unit, and is then called before its body is known; the table keeps *)
(* one descriptor for both declarations, with forward_declaration going    *)
(* from 1 (forward) to 0 (the body is there).  A routine that is new has   *)
(* -1 while its body is parsed.                                            *)
(*                                                                         *)
(* Names are compared without regard to case, so a model value stands for  *)
(* all spellings of a name.                                                *)
(***************************************************************************)
EXTENDS Integers, Sequences, FiniteSets

CONSTANTS
    Names,          \* identifiers
    Protected,      \* those of the predefined types, and "run"
    Params,         \* formal parameter lists: sequences of [name, type]
    Results,        \* result types of functions
    Void,           \* the result of a procedure
    MaxDeclarations \* bound on the declarations of a program

ASSUME NamesAssumption  == Protected \subseteq Names
ASSUME ResultAssumption == Void \notin Results
ASSUME ParamsAssumption ==
    \A p \in Params : p \in Seq([name : Names, type : {p[i].type : i \in DOMAIN p}])
ASSUME BoundAssumption  == MaxDeclarations \in Nat

VARIABLES
    part,           \* the part of the source text being parsed
    table,          \* the name table of the program block
    nextVar,        \* its next_variable_index
    inits,          \* variables that initialize_variable gave a first value
    routine,        \* the routine whose body is parsed, or None
    children,       \* the routines with a body, in order
    calls,          \* the calls compiled: names with the signature used
    errors,         \* error_count # 0
    count           \* declarations so far

vars == <<part, table, nextVar, inits, routine, children, calls, errors, count>>

None == [name |-> "none"]
RoutineKinds == {"procedure", "function"}

\* What a call has to agree with: the types of the parameters and the result.
Types(params) == [i \in DOMAIN params |-> params[i].type]
Signature(params, result) == [types |-> Types(params), result |-> result]
Kind(result) == IF result = Void THEN "procedure" ELSE "function"

Field(class) == [class |-> class, forward |-> 0, sig |-> Signature(<<>>, Void)]

\* name_table_insert ignores a name that is there.
Insert(t, name, entry) ==
    [n \in DOMAIN t \cup {name} |-> IF n \in DOMAIN t THEN t[n] ELSE entry]

IsForward(t, name) == t[name].class \in RoutineKinds /\ t[name].forward = 1

\* Mutant: a name that is taken is no matter.
NameNeverTaken(t, name) == name \notin Protected

\* block_check_name, and the check for "run" of a routine's name.
NameFree(t, name) ==
    /\ name \in DOMAIN t => IsForward(t, name)
    /\ name \notin Protected

\* Mutant: only a second forward declaration is noticed.
ConflictsTwice(t, name, sig, forward) ==
    /\ name \in DOMAIN t /\ t[name].class \in RoutineKinds
    /\ forward # -1 /\ t[name].forward # -1
    /\ forward = 1

\* check_forward_declaration: the second declaration is a forward one too, or
\* its kind, parameter types or result are not those of the first.
Conflicts(t, name, sig, forward) ==
    /\ name \in DOMAIN t /\ t[name].class \in RoutineKinds
    /\ forward # -1 /\ t[name].forward # -1
    /\ forward = 1 \/ sig # t[name].sig

\* add_procedure and add_function.
AddRoutine(t, name, sig, forward) ==
    IF name \in DOMAIN t
    THEN IF t[name].forward = -1 \/ forward # -1
         THEN [t EXCEPT ![name].forward = forward] ELSE t
    ELSE Insert(t, name, [class |-> Kind(sig.result), forward |-> forward, sig |-> sig])
-----------------------------------------------------------------------------
Init ==
    /\ part \in {"interface", "declarations"}     \* a unit, a program
    /\ table = <<>>
    /\ nextVar = 0 /\ inits = {}
    /\ routine = None
    /\ children = <<>>
    /\ calls = {}
    /\ errors = FALSE
    /\ count = 0

Declaring == part \in {"interface", "declarations"} /\ count < MaxDeclarations

Counted == count' = count + 1

\* A global constant or type: checked, then inserted all the same.
DeclareName(name) ==
    /\ Declaring /\ routine = None
    /\ errors' = (errors \/ ~NameFree(table, name))
    /\ table' = Insert(table, name, Field("other"))
    /\ Counted
    /\ UNCHANGED <<part, nextVar, inits, routine, children, calls>>

\* A global variable; it takes an index, and the main code initialises it,
\* whether or not the name could be inserted.
DeclareVariable(name) ==
    /\ Declaring /\ routine = None
    /\ errors' = (errors \/ ~NameFree(table, name))
    /\ table' = Insert(table, name, Field("variable"))
    /\ nextVar' = nextVar + 1
    /\ inits' = inits \cup {name}
    /\ Counted
    /\ UNCHANGED <<part, routine, children, calls>>

\* A heading without a body: "forward", or any in the interface of a unit.
DeclareForward(name, params, result) ==
    LET sig == Signature(params, result)
        t   == AddRoutine(table, name, sig, -1)
    IN
    /\ Declaring /\ routine = None
    /\ errors' = (errors \/ ~NameFree(table, name) \/ Conflicts(t, name, sig, 1))
    /\ table' = AddRoutine(t, name, sig, 1)
    /\ Counted
    /\ UNCHANGED <<part, nextVar, inits, routine, children, calls>>

\* The slots of the parameters; a name that comes twice keeps the first.
Slots(params) ==
    [n \in {params[i].name : i \in DOMAIN params} |->
        (CHOOSE i \in DOMAIN params :
            /\ params[i].name = n
            /\ \A j \in DOMAIN params : params[j].name = n => i <= j) - 1]

\* Mutant: the routine is entered into the table only when its body is complete.
BeginRoutineUnnamed(name, params, result) ==
    /\ Declaring /\ part # "interface" /\ routine = None
    /\ errors' = (errors \/ ~NameFree(table, name))
    /\ routine' = [name |-> name, params |-> params, result |-> result,
                   locals |-> Slots(params),
                   next |-> Len(params) + (IF result = Void THEN 0 ELSE 1)]
    /\ Counted
    /\ UNCHANGED <<part, table, nextVar, inits, children, calls>>

\* Mutant: no slot is kept for the result.
BeginRoutineUnkept(name, params, result) ==
    LET sig == Signature(params, result) IN
    /\ Declaring /\ part # "interface" /\ routine = None
    /\ errors' = (errors \/ ~NameFree(table, name))
    /\ table' = AddRoutine(table, name, sig, -1)
    /\ routine' = [name |-> name, params |-> params, result |-> result,
                   locals |-> Slots(params), next |-> Len(params)]
    /\ Counted
    /\ UNCHANGED <<part, nextVar, inits, children, calls>>

\* The heading of a routine with its body: slots 0.. are the parameters, the
\* next one is the result of a function, and then the variables follow.
BeginRoutine(name, params, result) ==
    LET sig == Signature(params, result) IN
    /\ Declaring /\ part # "interface" /\ routine = None
    /\ errors' = (errors \/ ~NameFree(table, name))
    /\ table' = AddRoutine(table, name, sig, -1)
    /\ routine' = [name |-> name, params |-> params, result |-> result,
                   locals |-> Slots(params),
                   next |-> Len(params) + (IF result = Void THEN 0 ELSE 1)]
    /\ Counted
    /\ UNCHANGED <<part, nextVar, inits, children, calls>>

DeclareLocal(name) ==
    /\ Declaring /\ routine # None
    /\ errors' = (errors \/ name \in DOMAIN routine.locals \/ name \in Protected)
    /\ routine' = [routine EXCEPT !.locals = Insert(@, name, routine.next),
                                  !.next = @ + 1]
    /\ Counted
    /\ UNCHANGED <<part, table, nextVar, inits, children, calls>>

\* A call, in a body or in the main block: get_identifier looks in the routine
\* and then in the program; the descriptor found gives the signature.
Call(name) ==
    /\ part = "main" \/ routine # None
    /\ IF /\ routine # None => name \notin DOMAIN routine.locals
          /\ name \in DOMAIN table /\ table[name].class \in RoutineKinds
       THEN calls' = calls \cup {<<name, table[name].sig>>} /\ UNCHANGED errors
       ELSE errors' = TRUE /\ UNCHANGED calls
    /\ UNCHANGED <<part, table, nextVar, inits, routine, children, count>>

EndRoutine ==
    LET sig == Signature(routine.params, routine.result) IN
    /\ routine # None
    /\ errors' = (errors \/ Conflicts(table, routine.name, sig, 0))
    /\ table' = AddRoutine(table, routine.name, sig, 0)
    /\ children' = Append(children, [name |-> routine.name, params |-> routine.params,
                                     sig |-> sig])
    /\ routine' = None
    /\ UNCHANGED <<part, nextVar, inits, calls, count>>

NextPart ==
    /\ routine = None
    /\ part' = CASE part = "interface" -> "declarations"
                 [] part = "declarations" -> "main"
                 [] OTHER -> part
    /\ part' # part
    /\ UNCHANGED <<table, nextVar, inits, routine, children, calls, errors, count>>

\* Mutant: the program ends with whatever was declared.
FinishUnchecked ==
    /\ part = "main"
    /\ part' = "finished"
    /\ UNCHANGED <<table, nextVar, inits, routine, children, calls, errors, count>>

\* check_unmatched_forward_declarations, at the end of the text.
Finish ==
    /\ part = "main"
    /\ part' = "finished"
    /\ errors' = (errors \/ \E n \in DOMAIN table : IsForward(table, n))
    /\ UNCHANGED <<table, nextVar, inits, routine, children, calls, count>>

Next ==
    \/ \E n \in Names :
          \/ DeclareName(n)
          \/ DeclareVariable(n)
          \/ \E p \in Params, r \in Results \cup {Void} :
                DeclareForward(n, p, r) \/ BeginRoutine(n, p, r)
          \/ DeclareLocal(n)
          \/ Call(n)
    \/ EndRoutine
    \/ NextPart
    \/ Finish

Spec == Init /\ [][Next]_vars
-----------------------------------------------------------------------------
Signatures == {Signature(p, r) : p \in Params, r \in Results \cup {Void}}
                 \cup {Signature(<<>>, Void)}

Entries == [class : RoutineKinds \cup {"other", "variable"},
            forward : {-1, 0, 1}, sig : Signatures]

\* The type invariant; the routine being parsed is in the table, where
\* add_variables looks it up for each local variable without a test.
TypeOK ==
    /\ part \in {"interface", "declarations", "main", "finished"}
    /\ DOMAIN table \subseteq Names
    /\ \A n \in DOMAIN table : table[n] \in Entries
    /\ nextVar \in Nat /\ inits \subseteq Names
    /\ routine # None =>
          /\ routine.name \in DOMAIN table
          /\ routine.params \in Params /\ routine.result \in Results \cup {Void}
          /\ \A n \in DOMAIN routine.locals : routine.locals[n] \in Nat
          /\ routine.next \in Nat
    /\ \A i \in DOMAIN children : children[i].sig \in Signatures
    /\ calls \subseteq Names \X Signatures
    /\ errors \in BOOLEAN
    /\ count \in 0 .. MaxDeclarations

\* parser_start writes a class file.
Written == part = "finished" /\ ~errors

\* The methods of the class file: the name of a body, with the descriptor of
\* the routine's entry in the table.
Methods == {<<children[i].name, table[children[i].name].sig>> : i \in DOMAIN children}
Fields  == {n \in DOMAIN table : table[n].class = "variable"}

\* Whatever was called, at a time when there may have been only a forward or
\* interface declaration, is in the class file as it was called.
CallsLink == Written => calls \subseteq Methods

\* write_method takes the descriptor from the table and the code from the body:
\* they agree, no method is there twice, and die(17) is never reached.
MethodsMatch ==
    Written => /\ \A i \in DOMAIN children :
                    /\ table[children[i].name].class \in RoutineKinds
                    /\ table[children[i].name].sig = children[i].sig
               /\ \A i, j \in DOMAIN children :
                    children[i].name = children[j].name => i = j

\* create_class_file gives next_variable_index as the number of fields and then
\* writes one for each variable in the table.
FieldsCounted ==
    Written /\ inits \subseteq Fields => nextVar = Cardinality(Fields)

\* The parameters, the result and the variables of a routine have a slot each,
\* below the next_variable_index that max_locals is made from.
SlotsApart ==
    routine # None =>
        LET slot == routine.locals IN
        /\ \A n \in DOMAIN slot :
              /\ slot[n] < routine.next
              /\ routine.result # Void => slot[n] # Len(routine.params)
              /\ \A m \in DOMAIN slot : slot[m] = slot[n] => m = n
        /\ routine.result # Void => Len(routine.params) < routine.next

\* docs/compiler-output.md, E400 "identifier already defined": a program that
\* is compiled gives a name one meaning in each scope.  For the variables: each
\* one that the main code initialises is a field of the class.
FieldsExist == Written => inits \subseteq Fields
=============================================================================
