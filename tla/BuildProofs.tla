---------------------------- MODULE BuildProofs ----------------------------
(***************************************************************************)
(* Theorems about Build, for any project: any number of units, programs,   *)
(* record types, errors, edits and runs.                                   *)
(***************************************************************************)
EXTENDS Build, TLAPS, SequenceTheorems

\* README.md keeps -d passes away from record numbers: a -d pass prints no
\* marker, so one over an interface with record types would take numbers that
\* the next run takes again.
DetectsNoRecords == \A m \in Detects : Public[m] = 0

-----------------------------------------------------------------------------
(* The inductive invariant, part by part.                                  *)

Versions == 0 .. MaxVersion
Phases == {"open", "interface", "uses", "body", "close", "class", "verify"}

Runs == [m : Modules, detect : BOOLEAN, first : Ids, next : Ids, phase : Phases,
         fault : Faults, errors : 0 .. ErrorLimit, nest : Seq(Ids),
         marked : BOOLEAN, public : SUBSET Ids, open : BOOLEAN,
         pending : SUBSET (Units \cup Libraries),
         imports : SUBSET (Ids \X Layouts), against : [Units -> Int]]

SymbolFiles == [kind : {"symbols"}, ver : Versions, types : SUBSET (Ids \X Layouts)]
RecordFiles == [kind : {"record"}, layout : Layouts]
ClassFiles  == [kind : {"raw", "class"}, ver : Versions, against : [Units -> Int],
                types : SUBSET (Ids \X Layouts)]

Shape ==
    /\ src \in [Modules -> [ver : Versions, fault : Faults]]
    /\ bsf \in [Units -> {NoFile} \cup SymbolFiles]
    /\ rec \in [0 .. MaxRecord - 1 -> {NoFile, Cut} \cup RecordFiles]
    /\ class \in [Modules -> {NoFile, Cut} \cup ClassFiles]
    /\ known \in Ids
    /\ built \subseteq Modules
    /\ run \in {Idle} \cup Runs

\* The class file before preverification.
RawClass == [kind |-> "raw", ver |-> src[run.m].ver, against |-> run.against,
             types |-> Types(run.first .. run.next - 1) \cup run.imports]

\* The compiler's own state, as far as the phase of its run tells.
RunShape ==
    run # Idle =>
        /\ run.m \notin built
        /\ run.first <= run.next /\ run.next <= run.first + Total(run.m)
        /\ run.first + Total(run.m) <= MaxRecord
        /\ run.public \subseteq run.first .. run.next - 1
        /\ \A i \in DOMAIN run.nest : run.nest[i] \in run.first .. run.next - 1
        /\ run.marked => run.nest # <<>>
        /\ run.phase \notin {"interface", "body"} => run.nest = <<>>
        /\ run.phase = "open" => Unit
        /\ run.open <=> Unit /\ run.phase \in {"interface", "uses", "body", "close"}
        /\ run.pending \subseteq Uses[run.m]
        /\ run.phase \in {"open", "interface"} => run.pending = Uses[run.m]
        /\ run.phase = "body" => run.pending = {}
        /\ run.phase = "close" => run.errors > 0 \/ run.pending = {}
        /\ run.phase \in {"class", "verify"} => run.errors = 0 /\ run.pending = {}
        /\ run.phase = "verify" => class[run.m] = RawClass
        /\ run.detect => /\ run.m \in Detects
                         /\ run.phase \notin {"body", "class", "verify"}
                         /\ DetectsNoRecords => run.next = run.first

\* The IDE only sees the status of a run that has ended.
StatusKept == StatusTells /\ (run # Idle => last = NoRun)

\* A record type whose number is taken is in its file before anything that
\* outlives the run refers to it.
RecordsWritten ==
    /\ NextIsFree
    /\ run # Idle =>
          /\ run.first <= known
          /\ run.marked => Head(run.nest) < known
          /\ \A id \in run.first .. run.next - 1 :
                \/ rec[id] = Record(Layout(id))
                \/ id \notin run.public /\ \E i \in DOMAIN run.nest : run.nest[i] = id

\* The types of a symbol file are its unit's, and their record classes are there.
SymbolsSound ==
    \A u \in Units : bsf[u] # NoFile =>
        \A t \in bsf[u].types :
            /\ t[1] \in DOMAIN rec /\ rec[t[1]] = Record(t[2])
            /\ t[2][1] = u
            /\ run # Idle /\ (u # run.m \/ run.phase = "open") => t[1] < run.first

OwnSymbols ==
    run # Idle =>
        /\ run.open => bsf[run.m] = Symbols({})
        /\ Unit /\ run.phase \in {"class", "verify"} =>
              /\ bsf[run.m] # NoFile
              /\ bsf[run.m].ver = src[run.m].ver
              /\ bsf[run.m].types \subseteq Types(run.first .. run.next - 1)

\* What the run has taken from the symbol files of other units is still there.
Loaded ==
    run # Idle =>
        /\ ~run.detect /\ run.errors = 0 =>
              \A u \in (Uses[run.m] \ Libraries) \ run.pending :
                 bsf[u] # NoFile /\ run.against[u] = bsf[u].ver
        /\ \A t \in run.imports :
              \E w \in Units : w # run.m /\ bsf[w] # NoFile /\ t \in bsf[w].types

\* BuiltAgree, with the record numbers below those of the run under way and the
\* symbol file of each built unit as its class file has it.
BuiltKept ==
    \A m \in built :
        /\ class[m].kind = "class"
        /\ class[m].ver = src[m].ver
        /\ \A t \in class[m].types :
              /\ t[1] \in DOMAIN rec /\ rec[t[1]] = Record(t[2])
              /\ run # Idle => t[1] < run.first
        /\ \A u \in (Uses[m] \ Libraries) \cap built :
              /\ class[m].against[u] = class[u].ver
              /\ \A t \in class[m].types : t[2][1] = u => t \in class[u].types
        /\ m \in Units =>
              /\ bsf[m] # NoFile /\ bsf[m].ver = class[m].ver
              /\ bsf[m].types \subseteq class[m].types

Files == RecordsWritten /\ SymbolsSound /\ OwnSymbols /\ Loaded /\ BuiltKept

Inductive ==
    /\ Shape
    /\ RunShape
    /\ StatusKept
    /\ DetectsNoRecords => Files

-----------------------------------------------------------------------------
LEMMA Running ==
  ASSUME Shape, run # Idle
  PROVE  run \in Runs
  BY DEF Shape

LEMMA RunningPhase ==
  ASSUME Shape, NEW phase \in Phases, At(phase)
  PROVE  run # Idle /\ run \in Runs
<1>1. Idle.phase \notin Phases
  BY DEF Idle, Phases
<1> QED BY <1>1 DEF At, Shape

LEMMA RunIsNotIdle == \A r \in Runs : r # Idle
<1>1. \A r \in Runs : r.phase \in Phases
  BY DEF Runs
<1>2. Idle.phase \notin Phases
  BY DEF Idle, Phases
<1> QED BY <1>1, <1>2

LEMMA Totals ==
  ASSUME NEW m \in Modules
  PROVE  /\ Public[m] \in Nat /\ Private[m] \in Nat /\ Total(m) \in Nat
         /\ Public[m] <= Total(m)
         /\ Uses[m] \subseteq Units \cup Libraries
<1>1. Public[m] \in Nat /\ Private[m] \in Nat
  BY ModuleAssumption
<1>2. Uses[m] \subseteq Units \cup Libraries
  BY ModuleAssumption
<1> QED BY <1>1, <1>2 DEF Total

LEMMA RunBounds ==
  ASSUME Shape, RunShape, run # Idle
  PROVE  /\ run \in Runs /\ run.m \in Modules
         /\ run.first \in Nat /\ run.next \in Nat /\ MaxRecord \in Nat
         /\ run.first <= run.next /\ run.next <= MaxRecord
         /\ run.first + Total(run.m) <= MaxRecord
         /\ Public[run.m] \in Nat /\ Total(run.m) \in Nat
         /\ Public[run.m] <= Total(run.m)
<1>1. run \in Runs /\ run.m \in Modules /\ run.first \in Ids /\ run.next \in Ids
  BY Running DEF Runs
<1>2. MaxRecord \in Nat
  BY BoundAssumption
<1>3. /\ Public[run.m] \in Nat /\ Total(run.m) \in Nat
      /\ Public[run.m] <= Total(run.m)
  BY <1>1, Totals
<1>4. /\ run.first <= run.next /\ run.next <= run.first + Total(run.m)
      /\ run.first + Total(run.m) <= MaxRecord
  BY DEF RunShape
<1> QED BY <1>1, <1>2, <1>3, <1>4 DEF Ids

LEMMA LayoutType ==
  ASSUME Shape, RunShape, run # Idle, NEW id \in run.first .. run.next - 1
  PROVE  /\ id \in Ids /\ id \in 0 .. MaxRecord - 1
         /\ Layout(id) \in Layouts
         /\ Record(Layout(id)) \in RecordFiles
<1>1. /\ run.m \in Modules
      /\ run.first \in Nat /\ run.next \in Nat /\ MaxRecord \in Nat
      /\ run.next <= MaxRecord
  BY RunBounds
<1>2. id \in 0 .. MaxRecord - 1 /\ id \in Ids /\ id - run.first \in Ids
  BY <1>1 DEF Ids
<1>3. src[run.m].ver \in Versions
  BY <1>1 DEF Shape
<1>4. Layout(id) \in Layouts
  BY <1>1, <1>2, <1>3 DEF Layout, Layouts, Versions
<1> QED BY <1>2, <1>4 DEF Record, RecordFiles

LEMMA SymbolsType ==
  ASSUME Shape, RunShape, run # Idle,
         NEW ids \in SUBSET (run.first .. run.next - 1)
  PROVE  /\ Types(ids) \subseteq Ids \X Layouts
         /\ Symbols(ids) \in SymbolFiles
<1>1. \A id \in ids : <<id, Layout(id)>> \in Ids \X Layouts
  BY LayoutType
<1>2. Types(ids) \subseteq Ids \X Layouts
  BY <1>1 DEF Types
<1>3. src[run.m].ver \in Versions
  BY RunBounds DEF Shape
<1> QED BY <1>2, <1>3 DEF Symbols, SymbolFiles

LEMMA FlushedType ==
  ASSUME Shape, RunShape, run # Idle
  PROVE  Flushed \in [Units -> {NoFile} \cup SymbolFiles]
<1>1. run.public \in SUBSET (run.first .. run.next - 1)
  BY DEF RunShape
<1>2. Symbols(run.public) \in SymbolFiles
  BY <1>1, SymbolsType
<1>3. bsf \in [Units -> {NoFile} \cup SymbolFiles]
  BY DEF Shape
<1> QED BY <1>2, <1>3 DEF Flushed

LEMMA EndsType ==
  ASSUME Shape, RunShape, run # Idle, NEW status, NEW errors, Ends(status, errors)
  PROVE  run' = Idle /\ built' \subseteq Modules
<1>1. run.m \in Modules /\ built \subseteq Modules
  BY RunBounds DEF Shape
<1> QED BY <1>1 DEF Ends

\* A step of the run that goes on as r, and leaves the files to their owner.
LEMMA NextRunType ==
  ASSUME Shape, RunShape, run # Idle, NEW r \in Runs, r.errors = run.errors, Error(r)
  PROVE  /\ bsf' \in [Units -> {NoFile} \cup SymbolFiles]
         /\ built' \subseteq Modules
         /\ run' \in {Idle} \cup Runs
         /\ run' # Idle => run' = [r EXCEPT !.errors = @ + 1]
<1>1. CASE run.errors = ErrorLimit
  <2>1. Ends(1, run.errors + 1) /\ bsf' = Flushed
    BY <1>1 DEF Error, Exit
  <2> QED BY <2>1, EndsType, FlushedType
<1>2. CASE run.errors # ErrorLimit
  <2>1. run' = [r EXCEPT !.errors = @ + 1] /\ bsf' = bsf /\ built' = built
    BY <1>2 DEF Error
  <2>2. r.errors + 1 \in 0 .. ErrorLimit
    BY <1>2, BoundAssumption DEF Runs
  <2>3. run' \in Runs
    BY <2>1, <2>2 DEF Runs
  <2> QED BY <2>1, <2>3 DEF Shape
<1> QED BY <1>1, <1>2

-----------------------------------------------------------------------------
(* The shape of the state, and of the run, after each step.                *)

Shaped == Shape /\ RunShape

\* A run that has ended has no shape to keep.
LEMMA EndsShaped ==
  ASSUME Shaped, run # Idle, NEW status, NEW errors, Ends(status, errors),
         bsf' \in [Units -> {NoFile} \cup SymbolFiles],
         rec' \in [0 .. MaxRecord - 1 -> {NoFile, Cut} \cup RecordFiles],
         class' \in [Modules -> {NoFile, Cut} \cup ClassFiles],
         UNCHANGED <<src, known>>
  PROVE  Shaped'
<1>1. run' = Idle /\ built' \subseteq Modules
  BY EndsType DEF Shaped
<1> QED BY <1>1 DEF Shaped, Shape, RunShape

LEMMA ExitShaped ==
  ASSUME Shaped, run # Idle, NEW status, NEW errors, Exit(status, errors),
         class' \in [Modules -> {NoFile, Cut} \cup ClassFiles],
         UNCHANGED <<src, rec, known>>
  PROVE  Shaped'
<1>1. Ends(status, errors) /\ bsf' \in [Units -> {NoFile} \cup SymbolFiles]
  BY FlushedType DEF Exit, Shaped
<1>2. rec' \in [0 .. MaxRecord - 1 -> {NoFile, Cut} \cup RecordFiles]
  BY DEF Shaped, Shape
<1> QED BY <1>1, <1>2, EndsShaped

LEMMA StartShaped ==
  ASSUME Shaped, NEW m \in Modules, NEW detect \in BOOLEAN, Start(m, detect)
  PROVE  Shaped'
<1>1. /\ known \in Nat /\ known \in Ids /\ Total(m) \in Nat
      /\ Public[m] \in Nat /\ known + Total(m) <= MaxRecord
  BY Totals DEF Start, Shaped, Shape, Ids
<1>2. /\ src[m].fault \in Faults /\ Uses[m] \in SUBSET (Units \cup Libraries)
      /\ m \notin built /\ (detect => m \in Detects)
  BY Totals DEF Start, Shaped, Shape
<1> DEFINE r == [m |-> m, detect |-> detect, first |-> known, next |-> known,
                 phase |-> IF m \in Units THEN "open" ELSE "uses",
                 fault |-> src[m].fault, errors |-> 0,
                 nest |-> <<>>, marked |-> FALSE, public |-> {}, open |-> FALSE,
                 pending |-> Uses[m], imports |-> {},
                 against |-> [u \in Units |-> -1]]
<1>3. run' = r /\ UNCHANGED <<src, bsf, rec, class, known, built>>
  BY DEF Start
<1>4. <<>> \in Seq(Ids) /\ 0 \in 0 .. ErrorLimit
  BY BoundAssumption
<1>5. r \in Runs
  BY <1>1, <1>2, <1>4 DEF Runs, Phases
<1>6. /\ r.m = m /\ r.first = known /\ r.next = known /\ r.public = {}
      /\ r.nest = <<>> /\ r.marked = FALSE /\ r.open = FALSE
      /\ r.phase = (IF m \in Units THEN "open" ELSE "uses")
      /\ r.pending = Uses[m] /\ r.detect = detect
  OBVIOUS
<1> HIDE DEF r
<1>7. Shape'
  BY <1>3, <1>5 DEF Shaped, Shape
<1>8. RunShape'
  BY <1>1, <1>2, <1>3, <1>6 DEF RunShape, Unit
<1> QED BY <1>7, <1>8 DEF Shaped

LEMMA OpenSymbolsShaped == Shaped /\ OpenSymbols => Shaped'
<1> SUFFICES ASSUME Shaped, OpenSymbols PROVE Shaped'
  OBVIOUS
<1>1. run \in Runs /\ run # Idle
  BY RunningPhase DEF OpenSymbols, Phases, Shaped
<1>2. run' \in Runs
  BY <1>1 DEF OpenSymbols, Runs, Phases
<1>3. Symbols({}) \in SymbolFiles
  BY <1>1, SymbolsType DEF Shaped
<1>4. Shape'
  BY <1>1, <1>2, <1>3 DEF Shape, OpenSymbols, Shaped
<1>5. RunShape'
  BY <1>1, <1>2 DEF RunShape, OpenSymbols, Shaped, Runs, At, Unit, Total
<1> QED BY <1>4, <1>5 DEF Shaped

LEMMA DeclareRecordShaped == Shaped /\ DeclareRecord => Shaped'
<1> SUFFICES ASSUME Shaped, DeclareRecord PROVE Shaped'
  OBVIOUS
<1>1. run \in Runs /\ run # Idle /\ run.phase \in {"interface", "body"}
  BY RunningPhase DEF DeclareRecord, Phases, Shaped, At
<1>2. /\ run.m \in Modules
      /\ run.first \in Nat /\ run.next \in Nat /\ MaxRecord \in Nat
      /\ run.first <= run.next
      /\ run.first + Total(run.m) <= MaxRecord
      /\ Public[run.m] \in Nat /\ Total(run.m) \in Nat
      /\ Public[run.m] <= Total(run.m)
  BY <1>1, RunBounds DEF Shaped
<1>3. run.next < run.first + Total(run.m)
  BY <1>2 DEF DeclareRecord
<1>4. run.next \in Ids /\ run.next + 1 \in Ids
  BY <1>2, <1>3 DEF Ids
<1>5. run.nest \in Seq(Ids)
  BY <1>1 DEF Runs
<1>6. <<run.next>> \in Seq(Ids)
  BY <1>4
<1> DEFINE nest == <<run.next>> \o run.nest
<1>7. nest \in Seq(Ids)
  BY <1>5, <1>6, ConcatProperties
<1>8. \A i \in DOMAIN nest : \/ nest[i] = run.next
                             \/ \E j \in DOMAIN run.nest : nest[i] = run.nest[j]
  <2>1. /\ Len(nest) = Len(run.nest) + 1 /\ Len(run.nest) \in Nat
        /\ DOMAIN nest = 1 .. Len(nest) /\ DOMAIN run.nest = 1 .. Len(run.nest)
        /\ \A i \in 1 .. Len(nest) : nest[i] = IF i <= 1 THEN run.next
                                               ELSE run.nest[i - 1]
    BY <1>5, <1>6, ConcatProperties, LenProperties
  <2> HIDE DEF nest
  <2> QED BY <2>1
<1>9. nest # <<>>
  BY <1>5
<1> HIDE DEF nest
<1>10. run' = [run EXCEPT !.nest = nest, !.next = run.next + 1]
       /\ UNCHANGED <<src, bsf, rec, class, known, built>> /\ ~run.marked
  BY DEF DeclareRecord, nest
<1>11. run' \in Runs
  BY <1>1, <1>4, <1>7, <1>10 DEF Runs
<1>12. Shape'
  BY <1>10, <1>11 DEF Shaped, Shape
<1>13. /\ run'.m = run.m /\ run'.first = run.first /\ run'.next = run.next + 1
       /\ run'.public = run.public /\ run'.nest = nest /\ run'.marked = run.marked
       /\ run'.phase = run.phase /\ run'.open = run.open /\ run'.errors = run.errors
       /\ run'.pending = run.pending /\ run'.detect = run.detect
  BY <1>1, <1>10 DEF Runs
<1>14. \A i \in DOMAIN nest : nest[i] \in run.first .. run.next
  BY <1>1, <1>2, <1>8 DEF Shaped, RunShape
<1>15. run.public \subseteq run.first .. run.next
  BY <1>1, <1>2 DEF Shaped, RunShape
<1>16. run.detect /\ DetectsNoRecords => FALSE
  <2>1. run.detect /\ DetectsNoRecords => /\ run.next = run.first
                                          /\ run.phase # "body"
                                          /\ Public[run.m] = 0
    BY <1>1 DEF Shaped, RunShape, DetectsNoRecords
  <2> QED BY <1>1, <1>2, <2>1 DEF DeclareRecord, At
<1>17. RunShape'
  BY <1>1, <1>2, <1>3, <1>10, <1>13, <1>14, <1>15, <1>16 DEF Shaped, RunShape, Unit
<1> QED BY <1>12, <1>17 DEF Shaped

LEMMA RecordShaped == Shaped /\ (MarkRecord \/ WriteRecord) => Shaped'
<1> SUFFICES ASSUME Shaped, MarkRecord \/ WriteRecord PROVE Shaped'
  OBVIOUS
<1>1. run \in Runs /\ run # Idle /\ run.phase \in {"interface", "body"}
  BY RunningPhase DEF MarkRecord, WriteRecord, Phases, Shaped, At
<1>2. /\ run.nest \in Seq(Ids) /\ run.nest # <<>>
  BY <1>1 DEF Runs, MarkRecord, WriteRecord
<1>3. /\ Head(run.nest) = run.nest[1] /\ 1 \in DOMAIN run.nest
      /\ Tail(run.nest) \in Seq(Ids)
      /\ \A i \in DOMAIN Tail(run.nest) : /\ i + 1 \in DOMAIN run.nest
                                          /\ Tail(run.nest)[i] = run.nest[i + 1]
  BY <1>2, HeadTailProperties, LenProperties
<1>4. Head(run.nest) \in run.first .. run.next - 1
  BY <1>1, <1>3 DEF Shaped, RunShape
<1>5. /\ run.first \in Nat /\ run.next \in Nat /\ MaxRecord \in Nat
      /\ run.next <= MaxRecord
  BY <1>1, RunBounds DEF Shaped
<1>6. Head(run.nest) + 1 \in Ids /\ Head(run.nest) \in Ids
  BY <1>4, <1>5 DEF Ids
<1>7. CASE MarkRecord
  <2>1. run' = [run EXCEPT !.marked = TRUE] /\ UNCHANGED <<src, bsf, rec, class, built>>
    BY <1>7 DEF MarkRecord
  <2>2. known' \in Ids
    BY <1>6, <1>7 DEF MarkRecord, Shaped, Shape
  <2>3. run' \in Runs
    BY <1>1, <2>1 DEF Runs
  <2>4. Shape'
    BY <2>1, <2>2, <2>3 DEF Shaped, Shape
  <2>5. RunShape'
    BY <1>1, <1>2, <2>1 DEF Shaped, RunShape, Runs, Unit
  <2> QED BY <2>4, <2>5 DEF Shaped
<1>8. CASE WriteRecord
  <2> DEFINE id == Head(run.nest)
             public == IF At("interface") THEN run.public \cup {id} ELSE run.public
  <2>1. /\ run' = [run EXCEPT !.nest = Tail(run.nest), !.marked = FALSE,
                              !.public = public]
        /\ rec' = [rec EXCEPT ![id] = Record(Layout(id))]
        /\ UNCHANGED <<src, bsf, class, known, built>>
    BY <1>8 DEF WriteRecord
  <2>2. public \in SUBSET Ids /\ public \subseteq run.first .. run.next - 1
    BY <1>1, <1>4, <1>6 DEF Runs, Shaped, RunShape
  <2>3. Record(Layout(id)) \in RecordFiles
    BY <1>1, <1>4, LayoutType DEF Shaped
  <2> HIDE DEF id, public
  <2>4. run' \in Runs
    BY <1>1, <1>3, <2>1, <2>2 DEF Runs
  <2>5. Shape'
    BY <2>1, <2>3, <2>4 DEF Shaped, Shape
  <2>6. /\ run'.m = run.m /\ run'.first = run.first /\ run'.next = run.next
        /\ run'.public = public /\ run'.nest = Tail(run.nest) /\ run'.marked = FALSE
        /\ run'.phase = run.phase /\ run'.open = run.open /\ run'.errors = run.errors
        /\ run'.pending = run.pending /\ run'.detect = run.detect
    BY <1>1, <2>1 DEF Runs
  <2>7. RunShape'
    BY <1>1, <1>3, <2>1, <2>2, <2>6 DEF Shaped, RunShape, Unit
  <2> QED BY <2>5, <2>7 DEF Shaped
<1> QED BY <1>7, <1>8

\* A step inside a run that changes no more of it than this.
LEMMA PhaseShaped ==
  ASSUME Shaped, run # Idle, run' \in Runs,
         run'.m = run.m, run'.detect = run.detect, run'.first = run.first,
         run'.next = run.next, run'.nest = run.nest, run'.marked = run.marked,
         run'.public = run.public,
         run'.phase # "open", run'.phase = "interface" => run.phase = "interface",
         run'.phase \notin {"interface", "body"} => run.nest = <<>>,
         run'.open <=> Unit /\ run'.phase \in {"interface", "uses", "body", "close"},
         run'.pending \subseteq run.pending,
         run'.phase = "interface" => run'.pending = run.pending,
         run'.phase = "body" => run'.pending = {} /\ ~run.detect,
         run'.phase = "close" => run'.errors > 0 \/ run'.pending = {},
         run'.phase \in {"class", "verify"}
            => run'.errors = 0 /\ run'.pending = {} /\ ~run.detect,
         run'.phase = "verify" => class'[run.m] = RawClass',
         bsf' \in [Units -> {NoFile} \cup SymbolFiles],
         class' \in [Modules -> {NoFile, Cut} \cup ClassFiles],
         UNCHANGED <<src, rec, known, built>>
  PROVE  Shaped'
<1>1. Shape'
  BY DEF Shaped, Shape
<1>2. RunShape'
  BY DEF Shaped, RunShape, Unit
<1> QED BY <1>1, <1>2 DEF Shaped

LEMMA SyntaxErrorShaped == Shaped /\ SyntaxError => Shaped'
<1> SUFFICES ASSUME Shaped, SyntaxError PROVE Shaped'
  OBVIOUS
<1>1. run \in Runs /\ run # Idle /\ run.phase \in {"interface", "body"}
  BY RunningPhase DEF SyntaxError, Phases, Shaped, At
<1>2. PICK phase \in IF At("body") THEN {"body", "close"}
                                   ELSE {"interface", "uses", "close"} :
         Error([run EXCEPT !.phase = phase, !.fault = "none"])
  BY DEF SyntaxError
<1> DEFINE r == [run EXCEPT !.phase = phase, !.fault = "none"]
<1>3. /\ phase \in {"interface", "uses", "body", "close"}
      /\ phase = "interface" => run.phase = "interface"
      /\ phase = "body" => run.phase = "body"
  BY <1>1, <1>2 DEF At
<1>4. r \in Runs /\ r.errors = run.errors
  BY <1>1, <1>3 DEF Runs, Phases, Faults
<1>5. run' # Idle => run' = [r EXCEPT !.errors = @ + 1]
  BY <1>1, <1>2, <1>4, NextRunType DEF Shaped
<1>6. /\ bsf' \in [Units -> {NoFile} \cup SymbolFiles]
      /\ built' \subseteq Modules
      /\ run' \in {Idle} \cup Runs
  BY <1>1, <1>2, <1>4, NextRunType DEF Shaped
<1>7. UNCHANGED <<src, rec, class, known>> /\ run.nest = <<>>
  BY DEF SyntaxError
<1>8. CASE run' = Idle
  BY <1>6, <1>7, <1>8 DEF Shaped, Shape, RunShape
<1>9. CASE run' # Idle
  <2>1. built' = built /\ run.errors \in Nat
    BY <1>1, <1>2, <1>9 DEF Error, Exit, Ends, Runs
  <2>2. run' = [run EXCEPT !.phase = phase, !.fault = "none", !.errors = @ + 1]
    BY <1>1, <1>5, <1>9 DEF Runs
  <2>3. run' \in Runs
    BY <1>6, <1>9
  <2> HIDE DEF r
  <2>4. /\ run'.m = run.m /\ run'.detect = run.detect /\ run'.first = run.first
        /\ run'.next = run.next /\ run'.nest = run.nest /\ run'.marked = run.marked
        /\ run'.public = run.public /\ run'.phase = phase /\ run'.open = run.open
        /\ run'.pending = run.pending /\ run'.errors = run.errors + 1
    BY <1>1, <2>2 DEF Runs
  <2>5. /\ run.open <=> Unit
        /\ run.phase = "body" => run.pending = {} /\ ~run.detect
    BY <1>1 DEF Shaped, RunShape
  <2>6. class' \in [Modules -> {NoFile, Cut} \cup ClassFiles]
    BY <1>7 DEF Shaped, Shape
  <2> QED BY <1>1, <1>3, <1>6, <1>7, <2>1, <2>3, <2>4, <2>5, <2>6, PhaseShaped
<1> QED BY <1>8, <1>9

LEMMA EndInterfaceShaped == Shaped /\ (EndInterface \/ EndBody) => Shaped'
<1> SUFFICES ASSUME Shaped, EndInterface \/ EndBody PROVE Shaped'
  OBVIOUS
<1>1. run \in Runs /\ run # Idle /\ run.phase \in {"interface", "body"}
  BY RunningPhase DEF EndInterface, EndBody, Phases, Shaped, At
<1>2. PICK phase \in {"uses", "close"} :
         /\ run' = [run EXCEPT !.phase = phase] /\ run.nest = <<>>
         /\ phase = "close" => run.phase = "body"
         /\ UNCHANGED <<src, bsf, rec, class, known, built>>
  BY DEF EndInterface, EndBody, Goto, At
<1>3. run' \in Runs
  BY <1>1, <1>2 DEF Runs, Phases
<1>4. /\ run'.m = run.m /\ run'.detect = run.detect /\ run'.first = run.first
      /\ run'.next = run.next /\ run'.nest = run.nest /\ run'.marked = run.marked
      /\ run'.public = run.public /\ run'.phase = phase /\ run'.open = run.open
      /\ run'.pending = run.pending /\ run'.errors = run.errors
  BY <1>1, <1>2 DEF Runs
<1>5. /\ run.open <=> Unit
      /\ run.phase = "body" => run.pending = {}
  BY <1>1 DEF Shaped, RunShape
<1>6. /\ class' \in [Modules -> {NoFile, Cut} \cup ClassFiles]
      /\ bsf' \in [Units -> {NoFile} \cup SymbolFiles]
  BY <1>2 DEF Shaped, Shape
<1> QED BY <1>1, <1>2, <1>3, <1>4, <1>5, <1>6, PhaseShaped

LEMMA LoadShaped ==
  ASSUME Shaped, NEW name \in Units \cup Libraries, LoadLibrary(name) \/ LoadUnit(name)
  PROVE  Shaped'
<1>1. run \in Runs /\ run # Idle /\ run.phase = "uses"
  BY RunningPhase DEF LoadLibrary, LoadUnit, Phases, Shaped, At
<1>2. /\ run.nest = <<>> /\ (run.open <=> Unit)
      /\ UNCHANGED <<src, rec, class, known>>
      /\ class' \in [Modules -> {NoFile, Cut} \cup ClassFiles]
  BY <1>1 DEF Shaped, Shape, RunShape, LoadLibrary, LoadUnit
<1> DEFINE loaded == [run EXCEPT !.pending = @ \ {name}]
<1>3. /\ loaded \in Runs /\ loaded.errors = run.errors
      /\ loaded.m = run.m /\ loaded.detect = run.detect /\ loaded.first = run.first
      /\ loaded.next = run.next /\ loaded.nest = run.nest /\ loaded.marked = run.marked
      /\ loaded.public = run.public /\ loaded.phase = "uses"
      /\ loaded.open = run.open /\ loaded.pending = run.pending \ {name}
  BY <1>1 DEF Runs
<1> HIDE DEF loaded
<1>4. ASSUME run' = loaded, UNCHANGED <<bsf, built>> PROVE Shaped'
  <2>1. bsf' \in [Units -> {NoFile} \cup SymbolFiles]
    BY <1>4 DEF Shaped, Shape
  <2> QED BY <1>1, <1>2, <1>3, <1>4, <2>1, PhaseShaped
<1>5. ASSUME Error(loaded) PROVE Shaped'
  <2>1. /\ bsf' \in [Units -> {NoFile} \cup SymbolFiles]
        /\ built' \subseteq Modules
        /\ run' \in {Idle} \cup Runs
        /\ run' # Idle => run' = [loaded EXCEPT !.errors = @ + 1]
    BY <1>1, <1>3, <1>5, NextRunType DEF Shaped
  <2>2. CASE run' = Idle
    BY <1>2, <2>1, <2>2 DEF Shaped, Shape, RunShape
  <2>3. CASE run' # Idle
    <3>1. built' = built
      BY <1>5, <2>3 DEF Error, Exit, Ends
    <3>2. /\ run' \in Runs
          /\ run'.m = loaded.m /\ run'.detect = loaded.detect
          /\ run'.first = loaded.first /\ run'.next = loaded.next
          /\ run'.nest = loaded.nest /\ run'.marked = loaded.marked
          /\ run'.public = loaded.public /\ run'.phase = "uses"
          /\ run'.open = loaded.open /\ run'.pending = loaded.pending
      BY <1>3, <2>1, <2>3 DEF Runs
    <3> QED BY <1>1, <1>2, <1>3, <2>1, <3>1, <3>2, PhaseShaped
  <2> QED BY <2>2, <2>3
<1>6. CASE LoadLibrary(name)
  <2>1. CASE run.fault = "library" /\ ~run.detect
    <3>1. Exit(1, run.errors + 1)
      BY <1>6, <2>1 DEF LoadLibrary
    <3> QED BY <1>1, <1>2, <3>1, ExitShaped
  <2>2. CASE ~(run.fault = "library" /\ ~run.detect)
    BY <1>4, <1>6, <2>2 DEF LoadLibrary, loaded
  <2> QED BY <2>1, <2>2
<1>7. CASE LoadUnit(name)
  <2>1. CASE run.detect
    BY <1>4, <1>7, <2>1 DEF LoadUnit, loaded
  <2>2. CASE ~run.detect /\ bsf[name] = NoFile
    BY <1>5, <1>7, <2>2 DEF LoadUnit, loaded
  <2>3. CASE ~run.detect /\ bsf[name] # NoFile
    <3>1. name \in Units
      BY <1>1, <1>7 DEF LoadUnit
    <3>2. bsf[name] \in SymbolFiles
      BY <2>3, <3>1 DEF Shaped, Shape
    <3> DEFINE fault == IF Cardinality(bsf[name].types) < Public[name]
                        THEN "body" ELSE loaded.fault
    <3>3. run' = [loaded EXCEPT !.imports = @ \cup bsf[name].types,
                                !.against[name] = bsf[name].ver,
                                !.fault = fault]
          /\ UNCHANGED <<bsf, built>>
      BY <1>7, <2>3 DEF LoadUnit, loaded
    <3>4. fault \in Faults
      BY <1>3 DEF Runs, Faults
    <3> HIDE DEF fault
    <3>5. bsf[name].ver \in Int /\ bsf[name].types \subseteq Ids \X Layouts
      BY <3>2 DEF SymbolFiles, Versions
    <3>6. [loaded.against EXCEPT ![name] = bsf[name].ver] \in [Units -> Int]
      BY <1>3, <3>5 DEF Runs
    <3>7. run' = [loaded EXCEPT !.imports = loaded.imports \cup bsf[name].types,
                       !.against = [loaded.against EXCEPT ![name] = bsf[name].ver],
                       !.fault = fault]
      BY <1>3, <3>3 DEF Runs
    <3>8. run' \in Runs
      BY <1>3, <3>4, <3>5, <3>6, <3>7 DEF Runs
    <3>9. /\ run'.m = loaded.m /\ run'.detect = loaded.detect
          /\ run'.first = loaded.first /\ run'.next = loaded.next
          /\ run'.nest = loaded.nest /\ run'.marked = loaded.marked
          /\ run'.public = loaded.public /\ run'.phase = "uses"
          /\ run'.open = loaded.open /\ run'.pending = loaded.pending
      BY <1>3, <3>7 DEF Runs
    <3>10. bsf' \in [Units -> {NoFile} \cup SymbolFiles]
      BY <3>3 DEF Shaped, Shape
    <3> QED BY <1>1, <1>2, <1>3, <3>3, <3>8, <3>9, <3>10, PhaseShaped
  <2> QED BY <2>1, <2>2, <2>3
<1> QED BY <1>6, <1>7

LEMMA LoadTwiceShaped == Shaped /\ LoadTwice => Shaped'
<1> SUFFICES ASSUME Shaped, LoadTwice PROVE Shaped'
  OBVIOUS
<1>1. run \in Runs /\ run # Idle /\ run.phase = "uses"
  BY RunningPhase DEF LoadTwice, Phases, Shaped, At
<1>2. /\ run.nest = <<>> /\ (run.open <=> Unit)
      /\ UNCHANGED <<src, rec, class, known>>
      /\ class' \in [Modules -> {NoFile, Cut} \cup ClassFiles]
      /\ rec' \in [0 .. MaxRecord - 1 -> {NoFile, Cut} \cup RecordFiles]
  BY <1>1 DEF Shaped, Shape, RunShape, LoadTwice
<1> DEFINE r == [run EXCEPT !.fault = "none"]
<1>3. r \in Runs /\ r.errors = run.errors
  BY <1>1 DEF Runs, Faults
<1>4. CASE Ends(ByFault, run.errors + 1) /\ UNCHANGED bsf
  <2>1. bsf' \in [Units -> {NoFile} \cup SymbolFiles]
    BY <1>4 DEF Shaped, Shape
  <2> QED BY <1>1, <1>2, <1>4, <2>1, EndsShaped
<1>5. CASE Error(r)
  <2>1. /\ bsf' \in [Units -> {NoFile} \cup SymbolFiles]
        /\ built' \subseteq Modules
        /\ run' \in {Idle} \cup Runs
        /\ run' # Idle => run' = [r EXCEPT !.errors = @ + 1]
    BY <1>1, <1>3, <1>5, NextRunType DEF Shaped
  <2>2. CASE run' = Idle
    BY <1>2, <2>1, <2>2 DEF Shaped, Shape, RunShape
  <2>3. CASE run' # Idle
    <3>1. built' = built
      BY <1>5, <2>3 DEF Error, Exit, Ends
    <3>2. /\ run' \in Runs
          /\ run'.m = run.m /\ run'.detect = run.detect
          /\ run'.first = run.first /\ run'.next = run.next
          /\ run'.nest = run.nest /\ run'.marked = run.marked
          /\ run'.public = run.public /\ run'.phase = "uses"
          /\ run'.open = run.open /\ run'.pending = run.pending
      BY <1>1, <2>1, <2>3 DEF Runs
    <3> QED BY <1>1, <1>2, <2>1, <3>1, <3>2, PhaseShaped
  <2> QED BY <2>2, <2>3
<1> QED BY <1>4, <1>5 DEF LoadTwice

LEMMA EndUsesShaped == Shaped /\ EndUses => Shaped'
<1> SUFFICES ASSUME Shaped, EndUses PROVE Shaped'
  OBVIOUS
<1>1. run \in Runs /\ run # Idle /\ run.phase = "uses"
  BY RunningPhase DEF EndUses, Phases, Shaped, At
<1>2. /\ run.nest = <<>> /\ (run.open <=> Unit) /\ run.pending = {}
      /\ UNCHANGED <<src, rec, class, known>>
      /\ class' \in [Modules -> {NoFile, Cut} \cup ClassFiles]
  BY <1>1 DEF Shaped, Shape, RunShape, EndUses
<1>3. CASE run.detect
  <2>1. Exit(0, run.errors)
    BY <1>3 DEF EndUses
  <2> QED BY <1>1, <1>2, <2>1, ExitShaped
<1>4. CASE ~run.detect
  <2>1. run' = [run EXCEPT !.phase = "body"] /\ UNCHANGED <<bsf, built>>
    BY <1>4 DEF EndUses, Goto
  <2>2. /\ run' \in Runs
        /\ run'.m = run.m /\ run'.detect = run.detect
        /\ run'.first = run.first /\ run'.next = run.next
        /\ run'.nest = run.nest /\ run'.marked = run.marked
        /\ run'.public = run.public /\ run'.phase = "body"
        /\ run'.open = run.open /\ run'.pending = run.pending
    BY <1>1, <2>1 DEF Runs, Phases
  <2>3. bsf' \in [Units -> {NoFile} \cup SymbolFiles]
    BY <2>1 DEF Shaped, Shape
  <2> QED BY <1>1, <1>2, <1>4, <2>1, <2>2, <2>3, PhaseShaped
<1> QED BY <1>3, <1>4

LEMMA CloseSymbolsShaped == Shaped /\ CloseSymbols => Shaped'
<1> SUFFICES ASSUME Shaped, CloseSymbols PROVE Shaped'
  OBVIOUS
<1>1. run \in Runs /\ run # Idle /\ run.phase = "close"
  BY RunningPhase DEF CloseSymbols, Phases, Shaped, At
<1>2. /\ run.nest = <<>> /\ (run.errors > 0 \/ run.pending = {})
      /\ UNCHANGED <<src, rec, known>>
      /\ class \in [Modules -> {NoFile, Cut} \cup ClassFiles]
      /\ run.errors \in Nat
  BY <1>1 DEF Shaped, Shape, RunShape, CloseSymbols, Runs
<1>3. CASE run.errors > 0 \/ run.detect
  <2>1. Exit(run.errors, run.errors) /\ class' = class
    BY <1>3 DEF CloseSymbols, Return
  <2> QED BY <1>1, <1>2, <2>1, ExitShaped
<1>4. CASE ~(run.errors > 0 \/ run.detect)
  <2>1. /\ run' = [run EXCEPT !.open = FALSE, !.phase = "class"]
        /\ bsf' = Flushed /\ class' = [class EXCEPT ![run.m] = Cut]
        /\ built' = built
    BY <1>4 DEF CloseSymbols
  <2>2. /\ run' \in Runs
        /\ run'.m = run.m /\ run'.detect = run.detect
        /\ run'.first = run.first /\ run'.next = run.next
        /\ run'.nest = run.nest /\ run'.marked = run.marked
        /\ run'.public = run.public /\ run'.phase = "class"
        /\ run'.open = FALSE /\ run'.pending = run.pending
        /\ run'.errors = run.errors
    BY <1>1, <2>1 DEF Runs, Phases
  <2>3. bsf' \in [Units -> {NoFile} \cup SymbolFiles]
    BY <1>1, <2>1, FlushedType DEF Shaped
  <2>4. class' \in [Modules -> {NoFile, Cut} \cup ClassFiles]
    BY <1>2, <2>1
  <2>5. run.errors = 0 /\ run.pending = {} /\ ~run.detect
    BY <1>2, <1>4
  <2> QED BY <1>1, <1>2, <2>1, <2>2, <2>3, <2>4, <2>5, PhaseShaped
<1> QED BY <1>3, <1>4

LEMMA WriteClassShaped == Shaped /\ WriteClass => Shaped'
<1> SUFFICES ASSUME Shaped, WriteClass PROVE Shaped'
  OBVIOUS
<1>1. run \in Runs /\ run # Idle /\ run.phase = "class"
  BY RunningPhase DEF WriteClass, Phases, Shaped, At
<1>2. /\ run.nest = <<>> /\ run.errors = 0 /\ run.pending = {} /\ ~run.detect /\ ~run.open
      /\ UNCHANGED <<src, rec, known>>
      /\ class \in [Modules -> {NoFile, Cut} \cup ClassFiles]
  BY <1>1 DEF Shaped, Shape, RunShape, WriteClass
<1>3. CASE run.fault = "constant"
  <2>1. Exit(1, 0) /\ class' = class
    BY <1>3 DEF WriteClass
  <2> QED BY <1>1, <1>2, <2>1, ExitShaped
<1>4. CASE run.fault # "constant"
  <2> DEFINE file == [kind |-> "raw", ver |-> src[run.m].ver, against |-> run.against,
                      types |-> Types(run.first .. run.next - 1) \cup run.imports]
  <2>1. /\ run' = [run EXCEPT !.phase = "verify"]
        /\ class' = [class EXCEPT ![run.m] = file]
        /\ UNCHANGED <<bsf, built>>
    BY <1>4 DEF WriteClass, Goto
  <2>2. file \in ClassFiles
    <3>1. Types(run.first .. run.next - 1) \subseteq Ids \X Layouts
      BY <1>1, SymbolsType DEF Shaped
    <3>2. src[run.m].ver \in Versions
      BY <1>1 DEF Shaped, Shape, Runs
    <3> QED BY <1>1, <3>1, <3>2 DEF ClassFiles, Runs
  <2> HIDE DEF file
  <2>3. /\ run' \in Runs
        /\ run'.m = run.m /\ run'.detect = run.detect
        /\ run'.first = run.first /\ run'.next = run.next
        /\ run'.nest = run.nest /\ run'.marked = run.marked
        /\ run'.public = run.public /\ run'.phase = "verify"
        /\ run'.open = run.open /\ run'.pending = run.pending
        /\ run'.errors = run.errors
    BY <1>1, <2>1 DEF Runs, Phases
  <2>4. bsf' \in [Units -> {NoFile} \cup SymbolFiles]
    BY <2>1 DEF Shaped, Shape
  <2>5. class' \in [Modules -> {NoFile, Cut} \cup ClassFiles]
    BY <1>2, <2>1, <2>2
  <2>6. class'[run.m] = RawClass'
    <3>1. class'[run.m] = file
      BY <1>1, <1>2, <2>1 DEF Runs
    <3>2. run'.against = run.against /\ run'.imports = run.imports
      BY <1>1, <2>1 DEF Runs
    <3> QED BY <1>2, <2>3, <3>1, <3>2 DEF file, RawClass, Types, Layout
  <2> QED BY <1>1, <1>2, <2>1, <2>3, <2>4, <2>5, <2>6, PhaseShaped
<1> QED BY <1>3, <1>4

LEMMA VerifyShaped == Shaped /\ Verify => Shaped'
<1> SUFFICES ASSUME Shaped, Verify PROVE Shaped'
  OBVIOUS
<1>1. run \in Runs /\ run # Idle /\ run.phase = "verify"
  BY RunningPhase DEF Verify, Phases, Shaped, At
<1>2. /\ UNCHANGED <<src, rec, known>> /\ run.m \in Modules
      /\ class \in [Modules -> {NoFile, Cut} \cup ClassFiles]
      /\ class[run.m] = RawClass
  BY <1>1 DEF Shaped, Shape, RunShape, Verify, Runs
<1>3. class[run.m] \in ClassFiles
  <2>1. RawClass.kind = "raw" /\ NoFile.kind = "none" /\ Cut.kind = "cut"
    BY DEF RawClass, NoFile, Cut
  <2> QED BY <1>2, <2>1
<1>4. CASE class' = [class EXCEPT ![run.m].kind = "class"] /\ Return(run.errors)
  <2>1. [class[run.m] EXCEPT !.kind = "class"] \in ClassFiles
    BY <1>3 DEF ClassFiles
  <2>2. class' = [class EXCEPT ![run.m] = [class[run.m] EXCEPT !.kind = "class"]]
    BY <1>4
  <2>3. class' \in [Modules -> {NoFile, Cut} \cup ClassFiles]
    BY <1>2, <2>1, <2>2
  <2>4. Exit(run.errors, run.errors)
    BY <1>4 DEF Return
  <2> QED BY <1>1, <1>2, <2>3, <2>4, ExitShaped
<1>5. CASE UNCHANGED class /\ Exit(1, run.errors)
  BY <1>1, <1>2, <1>5, ExitShaped
<1> QED BY <1>4, <1>5 DEF Verify

LEMMA KilledShaped == Shaped /\ Killed => Shaped'
<1> SUFFICES ASSUME Shaped, Killed PROVE Shaped'
  OBVIOUS
<1>1. run # Idle /\ run \in Runs /\ run.m \in Modules
  BY Running DEF Killed, Shaped, Runs
<1>2. Ends(BySignal, run.errors) /\ UNCHANGED <<src, known>>
  BY DEF Killed
<1>3. /\ bsf \in [Units -> {NoFile} \cup SymbolFiles]
      /\ rec \in [0 .. MaxRecord - 1 -> {NoFile, Cut} \cup RecordFiles]
      /\ class \in [Modules -> {NoFile, Cut} \cup ClassFiles]
  BY DEF Shaped, Shape
<1>4. bsf' \in [Units -> {NoFile} \cup SymbolFiles]
  <2>1. CASE bsf' = bsf
    BY <1>3, <2>1
  <2>2. ASSUME NEW n, bsf' = [bsf EXCEPT ![run.m] = Symbols({id \in run.public : id < n})]
        PROVE  bsf' \in [Units -> {NoFile} \cup SymbolFiles]
    <3>1. {id \in run.public : id < n} \in SUBSET (run.first .. run.next - 1)
      BY <1>1 DEF Shaped, RunShape
    <3> HIDE DEF Symbols
    <3>2. Symbols({id \in run.public : id < n}) \in SymbolFiles
      BY <1>1, <3>1, SymbolsType DEF Shaped
    <3> QED BY <1>3, <2>2, <3>2
  <2> QED BY <2>1, <2>2 DEF Killed
<1>5. rec' \in [0 .. MaxRecord - 1 -> {NoFile, Cut} \cup RecordFiles]
  BY <1>3 DEF Killed
<1>6. class' \in [Modules -> {NoFile, Cut} \cup ClassFiles]
  BY <1>3 DEF Killed
<1> QED BY <1>1, <1>2, <1>4, <1>5, <1>6, EndsShaped

LEMMA EditShaped ==
  ASSUME Shaped, NEW m \in Modules, NEW fault \in Faults, Edit(m, fault)
  PROVE  Shaped'
<1>1. /\ src' = [src EXCEPT ![m] = [ver |-> src[m].ver + 1, fault |-> fault]]
      /\ built' \subseteq Modules /\ run = Idle /\ run' = Idle
      /\ UNCHANGED <<bsf, rec, class, known>>
  BY DEF Edit, Shaped, Shape
<1>2. src[m].ver + 1 \in Versions
  BY BoundAssumption DEF Edit, Shaped, Shape, Versions
<1>3. src' \in [Modules -> [ver : Versions, fault : Faults]]
  BY <1>1, <1>2 DEF Shaped, Shape
<1> QED BY <1>1, <1>3 DEF Shaped, Shape, RunShape

LEMMA MistakesAreFaults ==
  ASSUME NEW m \in Modules, NEW fault \in Mistakes[m] \cup {"none"}
  PROVE  fault \in Faults
  BY ModuleAssumption DEF Faults

LEMMA NextShaped == Shaped /\ [Next]_vars => Shaped'
<1> SUFFICES ASSUME Shaped, [Next]_vars PROVE Shaped'
  OBVIOUS
<1>1. ASSUME NEW m \in Modules, NEW fault \in Mistakes[m] \cup {"none"}, Edit(m, fault)
      PROVE  Shaped'
  BY <1>1, MistakesAreFaults, EditShaped
<1>2. ASSUME NEW m \in Modules, NEW detect \in BOOLEAN, Start(m, detect)
      PROVE  Shaped'
  BY <1>2, StartShaped
<1>3. ASSUME NEW name \in Units \cup Libraries, LoadLibrary(name) \/ LoadUnit(name)
      PROVE  Shaped'
  BY <1>3, LoadShaped
<1>4. CASE OpenSymbols \/ DeclareRecord \/ MarkRecord \/ WriteRecord
  BY <1>4, OpenSymbolsShaped, DeclareRecordShaped, RecordShaped
<1>5. CASE SyntaxError \/ EndInterface \/ LoadTwice \/ EndUses \/ EndBody
  BY <1>5, SyntaxErrorShaped, EndInterfaceShaped, LoadTwiceShaped, EndUsesShaped
<1>6. CASE CloseSymbols \/ WriteClass \/ Verify \/ Killed
  BY <1>6, CloseSymbolsShaped, WriteClassShaped, VerifyShaped, KilledShaped
<1>7. CASE UNCHANGED vars
  BY <1>7 DEF vars, Shaped, Shape, RunShape, RawClass, Types, Layout, Unit
<1> QED BY <1>1, <1>2, <1>3, <1>4, <1>5, <1>6, <1>7 DEF Next

-----------------------------------------------------------------------------
(* Most steps are of one of two kinds: the run ends without a module being *)
(* built, or it goes on and leaves the files alone.                        *)

Fails ==
    /\ run # Idle /\ run' = Idle
    /\ UNCHANGED <<src, known, built>>
    /\ last'.status # 0 \/ last'.detect
    /\ bsf' = bsf \/ rec' = rec
    /\ \/ bsf' = bsf
       \/ run.open /\ \E ids \in SUBSET run.public :
                         bsf' = [bsf EXCEPT ![run.m] = Symbols(ids)]
    /\ \/ rec' = rec
       \/ run.marked /\ rec' = [rec EXCEPT ![Head(run.nest)] = Cut]
    /\ \A m \in Modules : m # run.m => class'[m] = class[m]

SameRun ==
    /\ run # Idle /\ run' # Idle
    /\ run'.m = run.m /\ run'.detect = run.detect /\ run'.first = run.first

Goes ==
    /\ SameRun
    /\ run'.next = run.next /\ run'.public = run.public
    /\ run'.nest = run.nest /\ run'.marked = run.marked /\ run'.open = run.open
    /\ run.phase \in {"interface", "uses", "body"}
    /\ run'.phase \in {"interface", "uses", "body", "close"}
    /\ UNCHANGED <<src, bsf, rec, class, known, built, last>>
    /\ run'.errors = 0 => run.errors = 0
    /\ \A u \in Units :
          /\ u \notin run.pending => run'.against[u] = run.against[u]
          /\ ~run.detect /\ run'.errors = 0 /\ u \notin Libraries
                /\ u \in run.pending /\ u \notin run'.pending
             => bsf[u] # NoFile /\ run'.against[u] = bsf[u].ver
    /\ \A t \in run'.imports :
          \/ t \in run.imports
          \/ \E u \in Units : bsf[u] # NoFile /\ t \in bsf[u].types

Closes == run.phase = "close" /\ run.errors = 0 /\ ~run.detect /\ CloseSymbols
Written == run.phase = "class" /\ run.fault # "constant" /\ WriteClass
Verified ==
    /\ run.phase = "verify"
    /\ class' = [class EXCEPT ![run.m].kind = "class"]
    /\ Return(run.errors)
    /\ UNCHANGED <<src, rec, known>>

LEMMA EndsFails ==
  ASSUME Shaped, run # Idle, NEW status \in Int, NEW errors, Ends(status, errors),
         status # 0 \/ run.detect
  PROVE  /\ run' = Idle /\ built' = built
         /\ last'.status # 0 \/ last'.detect
<1>1. /\ run' = Idle
      /\ last' = [m |-> run.m, detect |-> run.detect, status |-> status,
                  printed |-> errors]
      /\ built' = built
  BY DEF Ends
<1>2. last'.status = status /\ last'.detect = run.detect
  BY <1>1
<1> QED BY <1>1, <1>2

LEMMA ExitFails ==
  ASSUME Shaped, run # Idle, NEW status \in Int, NEW errors, Exit(status, errors),
         status # 0 \/ run.detect, UNCHANGED <<src, rec, known>>,
         \A m \in Modules : m # run.m => class'[m] = class[m]
  PROVE  Fails
<1>1. /\ run' = Idle /\ built' = built
      /\ last'.status # 0 \/ last'.detect
  BY EndsFails DEF Exit
<1>2. \/ bsf' = bsf
      \/ run.open /\ bsf' = [bsf EXCEPT ![run.m] = Symbols(run.public)]
  BY DEF Exit, Flushed
<1>3. run.public \in SUBSET run.public
  OBVIOUS
<1> QED BY <1>1, <1>2, <1>3 DEF Fails

\* An error either ends the run, or it goes on as r with one error more.
LEMMA ErrorSplits ==
  ASSUME Shaped, run # Idle, NEW r \in Runs, r.errors = run.errors, Error(r),
         UNCHANGED <<src, rec, class, known>>
  PROVE  \/ Fails
         \/ /\ UNCHANGED <<bsf, built, last>>
            /\ run' = [r EXCEPT !.errors = @ + 1]
<1>1. CASE run.errors = ErrorLimit
  <2>1. Exit(1, run.errors + 1)
    BY <1>1 DEF Error
  <2> QED BY <2>1, ExitFails
<1>2. CASE run.errors # ErrorLimit
  BY <1>2 DEF Error
<1> QED BY <1>1, <1>2

LEMMA SyntaxErrorGoes == Shaped /\ SyntaxError => Fails \/ Goes
<1> SUFFICES ASSUME Shaped, SyntaxError PROVE Fails \/ Goes
  OBVIOUS
<1>1. run \in Runs /\ run # Idle /\ run.phase \in {"interface", "body"}
  BY RunningPhase DEF SyntaxError, Phases, Shaped, At
<1>2. PICK phase \in {"interface", "uses", "body", "close"} :
         Error([run EXCEPT !.phase = phase, !.fault = "none"])
  BY DEF SyntaxError
<1> DEFINE r == [run EXCEPT !.phase = phase, !.fault = "none"]
<1>3. r \in Runs /\ r.errors = run.errors
  BY <1>1 DEF Runs, Phases, Faults
<1>a. run.errors \in Nat
  BY <1>1 DEF Runs
<1>4. \/ Fails
      \/ /\ UNCHANGED <<bsf, built, last>>
         /\ run' = [r EXCEPT !.errors = @ + 1]
  BY <1>1, <1>2, <1>3, ErrorSplits DEF SyntaxError
<1>5. ASSUME UNCHANGED <<bsf, built, last>>, run' = [r EXCEPT !.errors = @ + 1]
      PROVE  Goes
  <2>1. /\ run'.m = run.m /\ run'.detect = run.detect /\ run'.first = run.first
        /\ run'.next = run.next /\ run'.nest = run.nest /\ run'.marked = run.marked
        /\ run'.public = run.public /\ run'.phase = phase /\ run'.open = run.open
        /\ run'.pending = run.pending /\ run'.errors = run.errors + 1
        /\ run'.against = run.against /\ run'.imports = run.imports
    BY <1>1, <1>5 DEF Runs
  <2>2. run' \in Runs
    <3>1. Shape'
      BY NextShaped DEF Next, Shaped
    <3>2. run'.phase # Idle.phase
      BY <2>1 DEF Idle
    <3> QED BY <3>1, <3>2 DEF Shape
  <2>3. run' # Idle /\ run'.errors # 0
    BY <1>a, <2>1, <2>2, RunIsNotIdle
  <2> QED BY <1>1, <1>5, <2>1, <2>3 DEF Goes, SameRun, SyntaxError
<1> QED BY <1>4, <1>5

LEMMA EndInterfaceGoes == Shaped /\ (EndInterface \/ EndBody) => Goes
<1> SUFFICES ASSUME Shaped, EndInterface \/ EndBody PROVE Goes
  OBVIOUS
<1>1. run \in Runs /\ run # Idle /\ run.phase \in {"interface", "body"}
  BY RunningPhase DEF EndInterface, EndBody, Phases, Shaped, At
<1>2. PICK phase \in {"uses", "close"} :
         /\ run' = [run EXCEPT !.phase = phase]
         /\ UNCHANGED <<src, bsf, rec, class, known, built, last>>
  BY DEF EndInterface, EndBody, Goto
<1>3. run' \in Runs
  BY <1>1, <1>2 DEF Runs, Phases
<1>4. run' # Idle
  BY <1>3, RunIsNotIdle
<1>5. /\ run'.m = run.m /\ run'.detect = run.detect /\ run'.first = run.first
      /\ run'.next = run.next /\ run'.nest = run.nest /\ run'.marked = run.marked
      /\ run'.public = run.public /\ run'.phase = phase /\ run'.open = run.open
      /\ run'.pending = run.pending /\ run'.errors = run.errors
      /\ run'.against = run.against /\ run'.imports = run.imports
  BY <1>1, <1>2 DEF Runs
<1> QED BY <1>1, <1>2, <1>4, <1>5 DEF Goes, SameRun

LEMMA EndUsesGoes == Shaped /\ EndUses => Fails \/ Goes
<1> SUFFICES ASSUME Shaped, EndUses PROVE Fails \/ Goes
  OBVIOUS
<1>1. run \in Runs /\ run # Idle /\ run.phase = "uses"
  BY RunningPhase DEF EndUses, Phases, Shaped, At
<1>2. CASE run.detect
  <2>1. Exit(0, run.errors) /\ UNCHANGED <<src, rec, class, known>>
    BY <1>2 DEF EndUses
  <2> QED BY <1>1, <1>2, <2>1, ExitFails
<1>3. CASE ~run.detect
  <2>1. run' = [run EXCEPT !.phase = "body"]
        /\ UNCHANGED <<src, bsf, rec, class, known, built, last>>
    BY <1>3 DEF EndUses, Goto
  <2>2. run' \in Runs
    BY <1>1, <2>1 DEF Runs, Phases
  <2>3. run' # Idle
    BY <2>2, RunIsNotIdle
  <2>4. /\ run'.m = run.m /\ run'.detect = run.detect /\ run'.first = run.first
        /\ run'.next = run.next /\ run'.nest = run.nest /\ run'.marked = run.marked
        /\ run'.public = run.public /\ run'.phase = "body" /\ run'.open = run.open
        /\ run'.pending = run.pending /\ run'.errors = run.errors
        /\ run'.against = run.against /\ run'.imports = run.imports
    BY <1>1, <2>1 DEF Runs
  <2> QED BY <1>1, <2>1, <2>3, <2>4 DEF Goes, SameRun
<1> QED BY <1>2, <1>3

LEMMA LoadTwiceGoes == Shaped /\ LoadTwice => Fails \/ Goes
<1> SUFFICES ASSUME Shaped, LoadTwice PROVE Fails \/ Goes
  OBVIOUS
<1>1. run \in Runs /\ run # Idle /\ run.phase = "uses"
  BY RunningPhase DEF LoadTwice, Phases, Shaped, At
<1> DEFINE r == [run EXCEPT !.fault = "none"]
<1>2. r \in Runs /\ r.errors = run.errors
  BY <1>1 DEF Runs, Faults
<1>3. run.errors \in Nat
  BY <1>1 DEF Runs
<1>4. CASE Ends(ByFault, run.errors + 1) /\ UNCHANGED <<bsf, rec, class>>
  <2>1. ByFault \in Int /\ ByFault # 0
    BY DEF ByFault
  <2>2. /\ run' = Idle /\ built' = built
        /\ last'.status # 0 \/ last'.detect
    BY <1>1, <1>4, <2>1, EndsFails
  <2> QED BY <1>1, <1>4, <2>2 DEF Fails, LoadTwice
<1>5. CASE Error(r) /\ UNCHANGED <<rec, class>>
  <2>1. \/ Fails
        \/ /\ UNCHANGED <<bsf, built, last>>
           /\ run' = [r EXCEPT !.errors = @ + 1]
    BY <1>1, <1>2, <1>5, ErrorSplits DEF LoadTwice
  <2>2. ASSUME UNCHANGED <<bsf, built, last>>, run' = [r EXCEPT !.errors = @ + 1]
        PROVE  Goes
    <3>1. /\ run'.m = run.m /\ run'.detect = run.detect /\ run'.first = run.first
          /\ run'.next = run.next /\ run'.nest = run.nest /\ run'.marked = run.marked
          /\ run'.public = run.public /\ run'.phase = "uses" /\ run'.open = run.open
          /\ run'.pending = run.pending /\ run'.errors = run.errors + 1
          /\ run'.against = run.against /\ run'.imports = run.imports
      BY <1>1, <2>2 DEF Runs
    <3>2. run' # Idle /\ run'.errors # 0
      BY <1>3, <3>1 DEF Idle
    <3> QED BY <1>1, <1>5, <2>2, <3>1, <3>2 DEF Goes, SameRun, LoadTwice
  <2> QED BY <2>1, <2>2
<1> QED BY <1>4, <1>5 DEF LoadTwice

LEMMA LoadGoes ==
  ASSUME Shaped, NEW name \in Units \cup Libraries, LoadLibrary(name) \/ LoadUnit(name)
  PROVE  Fails \/ Goes
<1>1. run \in Runs /\ run # Idle /\ run.phase = "uses"
  BY RunningPhase DEF LoadLibrary, LoadUnit, Phases, Shaped, At
<1>2. UNCHANGED <<src, rec, class, known>> /\ run.errors \in Nat
  BY <1>1 DEF LoadLibrary, LoadUnit, Runs
<1> DEFINE loaded == [run EXCEPT !.pending = @ \ {name}]
<1>3. /\ loaded \in Runs /\ loaded.errors = run.errors
      /\ loaded.m = run.m /\ loaded.detect = run.detect /\ loaded.first = run.first
      /\ loaded.next = run.next /\ loaded.nest = run.nest /\ loaded.marked = run.marked
      /\ loaded.public = run.public /\ loaded.phase = "uses"
      /\ loaded.open = run.open /\ loaded.pending = run.pending \ {name}
      /\ loaded.against = run.against /\ loaded.imports = run.imports
  BY <1>1 DEF Runs
<1> HIDE DEF loaded
<1>4. ASSUME run' = loaded, UNCHANGED <<bsf, built, last>>,
             name \in Libraries \/ run.detect
      PROVE  Goes
  <2>1. run' # Idle
    BY <1>3, <1>4, RunIsNotIdle
  <2> QED BY <1>1, <1>2, <1>3, <1>4, <2>1 DEF Goes, SameRun
<1>5. CASE LoadLibrary(name)
  <2>1. CASE run.fault = "library" /\ ~run.detect
    <3>1. Exit(1, run.errors + 1)
      BY <1>5, <2>1 DEF LoadLibrary
    <3> QED BY <1>1, <1>2, <3>1, ExitFails
  <2>2. CASE ~(run.fault = "library" /\ ~run.detect)
    BY <1>4, <1>5, <2>2 DEF LoadLibrary, loaded
  <2> QED BY <2>1, <2>2
<1>6. CASE LoadUnit(name)
  <2>0. name \in Units \ Libraries
    <3>1. name \notin Libraries
      BY <1>6 DEF LoadUnit
    <3> QED BY <3>1
  <2>1. CASE run.detect
    BY <1>4, <1>6, <2>1 DEF LoadUnit, loaded
  <2>2. CASE ~run.detect /\ bsf[name] = NoFile
    <3>1. Error(loaded)
      BY <1>6, <2>2 DEF LoadUnit, loaded
    <3>2. \/ Fails
          \/ /\ UNCHANGED <<bsf, built, last>>
             /\ run' = [loaded EXCEPT !.errors = @ + 1]
      BY <1>1, <1>2, <1>3, <3>1, ErrorSplits
    <3>3. ASSUME UNCHANGED <<bsf, built, last>>, run' = [loaded EXCEPT !.errors = @ + 1]
          PROVE  Goes
      <4>1. /\ run'.m = loaded.m /\ run'.detect = loaded.detect
            /\ run'.first = loaded.first /\ run'.next = loaded.next
            /\ run'.nest = loaded.nest /\ run'.marked = loaded.marked
            /\ run'.public = loaded.public /\ run'.phase = "uses"
            /\ run'.open = loaded.open /\ run'.pending = loaded.pending
            /\ run'.errors = loaded.errors + 1
            /\ run'.against = loaded.against /\ run'.imports = loaded.imports
        BY <1>3, <3>3 DEF Runs
      <4>2. run' # Idle /\ run'.errors # 0
        BY <1>2, <1>3, <4>1 DEF Idle
      <4> QED BY <1>1, <1>2, <1>3, <3>3, <4>1, <4>2 DEF Goes, SameRun
    <3> QED BY <3>2, <3>3
  <2>3. CASE ~run.detect /\ bsf[name] # NoFile
    <3> DEFINE fault == IF Cardinality(bsf[name].types) < Public[name]
                        THEN "body" ELSE loaded.fault
    <3>1. run' = [loaded EXCEPT !.imports = @ \cup bsf[name].types,
                                !.against[name] = bsf[name].ver,
                                !.fault = fault]
          /\ UNCHANGED <<bsf, built, last>>
      BY <1>6, <2>3 DEF LoadUnit, loaded
    <3> HIDE DEF fault
    <3>2. run' = [loaded EXCEPT !.imports = loaded.imports \cup bsf[name].types,
                       !.against = [loaded.against EXCEPT ![name] = bsf[name].ver],
                       !.fault = fault]
      BY <1>3, <3>1 DEF Runs
    <3>3. /\ run'.m = loaded.m /\ run'.detect = loaded.detect
          /\ run'.first = loaded.first /\ run'.next = loaded.next
          /\ run'.nest = loaded.nest /\ run'.marked = loaded.marked
          /\ run'.public = loaded.public /\ run'.phase = "uses"
          /\ run'.open = loaded.open /\ run'.pending = loaded.pending
          /\ run'.errors = loaded.errors
          /\ run'.against = [loaded.against EXCEPT ![name] = bsf[name].ver]
          /\ run'.imports = loaded.imports \cup bsf[name].types
      BY <1>3, <3>2 DEF Runs
    <3>4. /\ run'.against[name] = bsf[name].ver
          /\ \A u \in Units : u # name => run'.against[u] = run.against[u]
      <4>1. loaded.against \in [Units -> Int]
        BY <1>3 DEF Runs
      <4> QED BY <1>3, <2>0, <3>3, <4>1
    <3>5. run' # Idle
      BY <3>3 DEF Idle
    <3>6. name \in run.pending
      BY <1>6 DEF LoadUnit
    <3> QED BY <1>1, <1>2, <1>3, <2>0, <2>3, <3>1, <3>3, <3>4, <3>5, <3>6 DEF Goes, SameRun
  <2> QED BY <2>1, <2>2, <2>3
<1> QED BY <1>5, <1>6

\* The steps by what they do to the files.
LEMMA StepKinds ==
  ASSUME Shaped, Next
  PROVE  \/ \E m \in Modules : \E fault \in Faults : Edit(m, fault)
         \/ \E m \in Modules : \E detect \in BOOLEAN : Start(m, detect)
         \/ OpenSymbols \/ DeclareRecord \/ MarkRecord \/ WriteRecord
         \/ Fails \/ Goes \/ Closes \/ Written \/ Verified
<1>1. ASSUME CloseSymbols PROVE Fails \/ Closes
  <2>1. run \in Runs /\ run # Idle /\ run.phase = "close" /\ run.errors \in Nat
    <3>1. run \in Runs /\ run # Idle
      BY <1>1, RunningPhase DEF CloseSymbols, Phases, Shaped
    <3> QED BY <1>1, <3>1 DEF CloseSymbols, At, Runs
  <2>2. CASE run.errors > 0 \/ run.detect
    <3>1. Exit(run.errors, run.errors) /\ UNCHANGED <<src, rec, class, known>>
      BY <1>1, <2>2 DEF CloseSymbols, Return
    <3>2. run.errors # 0 \/ run.detect
      BY <2>1, <2>2
    <3>3. run.errors \in Int
      BY <2>1
    <3> QED BY <2>1, <3>1, <3>2, <3>3, ExitFails
  <2>3. CASE ~(run.errors > 0 \/ run.detect)
    BY <1>1, <2>1, <2>3 DEF Closes
  <2> QED BY <2>2, <2>3
<1>2. ASSUME WriteClass PROVE Fails \/ Written
  <2>1. run # Idle /\ run.phase = "class"
    BY <1>2, RunningPhase DEF WriteClass, Phases, Shaped, At
  <2>2. CASE run.fault = "constant"
    <3>1. Exit(1, 0) /\ UNCHANGED <<src, rec, class, known>>
      BY <1>2, <2>2 DEF WriteClass
    <3> QED BY <2>1, <3>1, ExitFails
  <2> QED BY <1>2, <2>1, <2>2 DEF Written
<1>3. ASSUME Verify PROVE Fails \/ Verified
  <2>1. run # Idle /\ run.phase = "verify"
    BY <1>3, RunningPhase DEF Verify, Phases, Shaped, At
  <2>2. CASE UNCHANGED class /\ Exit(1, run.errors)
    <3>1. UNCHANGED <<src, rec, class, known>>
      BY <1>3, <2>2 DEF Verify
    <3> QED BY <2>1, <2>2, <3>1, ExitFails
  <2> QED BY <1>3, <2>1, <2>2 DEF Verify, Verified
<1>4. ASSUME Killed PROVE Fails
  <2>1. run # Idle /\ Ends(BySignal, run.errors) /\ UNCHANGED <<src, known>>
    BY <1>4 DEF Killed
  <2>2. BySignal \in Int /\ BySignal # 0
    BY DEF BySignal
  <2>3. /\ run' = Idle /\ built' = built
        /\ last'.status # 0 \/ last'.detect
    BY <2>1, <2>2, EndsFails
  <2>4. \A m \in Modules : m # run.m => class'[m] = class[m]
    BY <1>4 DEF Killed, Shaped, Shape
  <2>5. ASSUME NEW n, bsf' = [bsf EXCEPT ![run.m] = Symbols({id \in run.public : id < n})]
        PROVE  \E ids \in SUBSET run.public : bsf' = [bsf EXCEPT ![run.m] = Symbols(ids)]
    <3>1. {id \in run.public : id < n} \in SUBSET run.public
      OBVIOUS
    <3> QED BY <2>5, <3>1
  <2>6. /\ bsf' = bsf \/ rec' = rec
        /\ \/ bsf' = bsf
           \/ run.open /\ \E ids \in SUBSET run.public :
                             bsf' = [bsf EXCEPT ![run.m] = Symbols(ids)]
        /\ \/ rec' = rec
           \/ run.marked /\ rec' = [rec EXCEPT ![Head(run.nest)] = Cut]
    BY <1>4, <2>5 DEF Killed
  <2> QED BY <2>1, <2>3, <2>4, <2>6 DEF Fails
<1>5. ASSUME NEW m \in Modules, NEW fault \in Mistakes[m] \cup {"none"}, Edit(m, fault)
      PROVE  \E f \in Faults : Edit(m, f)
  BY <1>5, MistakesAreFaults
<1> QED BY <1>1, <1>2, <1>3, <1>4, <1>5, SyntaxErrorGoes, EndInterfaceGoes, EndUsesGoes,
       LoadTwiceGoes, LoadGoes DEF Next

-----------------------------------------------------------------------------
(* The invariance of the other parts.                                      *)

\* What the preverifier makes of the class file the run has written.
LEMMA VerifiedClass ==
  ASSUME Shaped, Verified
  PROVE  /\ run # Idle /\ run' = Idle /\ run.errors = 0 /\ ~run.detect
         /\ run.m \in Modules /\ bsf' = bsf
         /\ class'[run.m].kind = "class"
         /\ class'[run.m].ver = src[run.m].ver
         /\ class'[run.m].against = run.against
         /\ class'[run.m].types = Types(run.first .. run.next - 1) \cup run.imports
         /\ \A m \in Modules : m # run.m => class'[m] = class[m]
         /\ last' = [m |-> run.m, detect |-> FALSE, status |-> 0, printed |-> 0]
         /\ built' = {m \in built : run.m \notin Uses[m]} \cup {run.m}
<1>1. run \in Runs /\ run # Idle
  BY RunningPhase DEF Verified, Phases, Shaped, At
<1>2. /\ run.errors = 0 /\ ~run.detect /\ ~run.open /\ class[run.m] = RawClass
      /\ run.m \in Modules /\ run.detect = FALSE
  BY <1>1 DEF Shaped, RunShape, Verified, Runs
<1>3. Ends(0, 0) /\ bsf' = bsf
  BY <1>2 DEF Verified, Return, Exit, Flushed
<1>4. class \in [Modules -> {NoFile, Cut} \cup ClassFiles]
  BY DEF Shaped, Shape
<1>5. class' = [class EXCEPT ![run.m] = [RawClass EXCEPT !.kind = "class"]]
  BY <1>2 DEF Verified
<1>6. /\ class'[run.m] = [RawClass EXCEPT !.kind = "class"]
      /\ \A m \in Modules : m # run.m => class'[m] = class[m]
  BY <1>2, <1>4, <1>5
<1>7. /\ class'[run.m].kind = "class"
      /\ class'[run.m].ver = src[run.m].ver
      /\ class'[run.m].against = run.against
      /\ class'[run.m].types = Types(run.first .. run.next - 1) \cup run.imports
  BY <1>6 DEF RawClass
<1> QED BY <1>1, <1>2, <1>3, <1>6, <1>7 DEF Ends

LEMMA NextStatus == Shaped /\ StatusKept /\ [Next]_vars => StatusKept'
<1> SUFFICES ASSUME Shaped, StatusKept, [Next]_vars PROVE StatusKept'
  OBVIOUS
<1>1. ASSUME last' = NoRun PROVE StatusKept'
  BY <1>1 DEF StatusKept, StatusTells
<1>2. ASSUME run # Idle, last' = last PROVE StatusKept'
  BY <1>1, <1>2 DEF StatusKept
<1>3. ASSUME NEW m \in Modules, NEW fault \in Faults, Edit(m, fault) PROVE StatusKept'
  BY <1>1, <1>3 DEF Edit
<1>4. ASSUME NEW m \in Modules, NEW detect \in BOOLEAN, Start(m, detect)
      PROVE  StatusKept'
  BY <1>1, <1>4 DEF Start
<1>5. CASE OpenSymbols \/ DeclareRecord \/ MarkRecord \/ WriteRecord
  <2>1. run # Idle
    BY <1>5, RunningPhase DEF OpenSymbols, DeclareRecord, MarkRecord, WriteRecord,
       Phases, Shaped
  <2> QED BY <1>2, <1>5, <2>1 DEF OpenSymbols, DeclareRecord, MarkRecord, WriteRecord
<1>6. CASE Fails
  BY <1>6 DEF Fails, StatusKept, StatusTells
<1>7. CASE Goes
  BY <1>2, <1>7 DEF Goes, SameRun
<1>8. CASE Closes \/ Written
  <2>1. run # Idle
    BY <1>8, RunningPhase DEF Closes, Written, Phases, Shaped, At
  <2>2. last' = last
    <3>1. CASE Closes
      <4>1. ~(run.errors > 0 \/ run.detect)
        BY <3>1 DEF Closes
      <4> QED BY <3>1, <4>1 DEF Closes, CloseSymbols
    <3>2. CASE Written
      BY <3>2 DEF Written, WriteClass
    <3> QED BY <1>8, <3>1, <3>2
  <2> QED BY <1>2, <2>1, <2>2
<1>9. CASE Verified
  <2>1. last'.printed = 0 /\ last'.m = run.m
    BY <1>9, VerifiedClass
  <2>2. /\ run' = Idle /\ src' = src
        /\ class'[run.m].kind = "class" /\ class'[run.m].ver = src[run.m].ver
    BY <1>9, VerifiedClass DEF Verified
  <2> QED BY <2>1, <2>2 DEF StatusKept, StatusTells
<1>10. CASE UNCHANGED vars
  BY <1>10 DEF vars, StatusKept, StatusTells
<1> QED BY <1>3, <1>4, <1>5, <1>6, <1>7, <1>8, <1>9, <1>10, StepKinds

\* Only a run that may write record types writes one, and the number of a
\* record type is known before its file is written.
LEMMA MarkKnown ==
  ASSUME Shaped, RecordsWritten, DetectsNoRecords, MarkRecord
  PROVE  known <= known' /\ Head(run.nest) < known' /\ known' \in Nat
<1>1. run \in Runs /\ run # Idle /\ run.phase \in {"interface", "body"}
  BY RunningPhase DEF MarkRecord, Phases, Shaped, At
<1>2. run.nest \in Seq(Ids) /\ run.nest # <<>>
  BY <1>1 DEF Runs, MarkRecord
<1>3. 1 \in DOMAIN run.nest /\ Head(run.nest) = run.nest[1]
  BY <1>2, LenProperties
<1>4. Head(run.nest) \in run.first .. run.next - 1
  BY <1>1, <1>3 DEF Shaped, RunShape
<1>5. run.first \in Nat /\ run.next \in Nat
  BY <1>1, RunBounds DEF Shaped
<1>6. ~run.detect
  <2>1. run.detect => run.next = run.first
    BY <1>1 DEF Shaped, RunShape
  <2> QED BY <1>4, <1>5, <2>1
<1>7. known \in Nat
  BY DEF Shaped, Shape, Ids
<1>8. known' = IF Head(run.nest) >= known THEN Head(run.nest) + 1 ELSE known
  BY <1>6 DEF MarkRecord
<1> QED BY <1>4, <1>5, <1>7, <1>8

LEMMA OpenSymbolsFields ==
  ASSUME Shaped, OpenSymbols
  PROVE  /\ SameRun /\ run.m \in Units /\ run.phase = "open"
         /\ run'.next = run.next /\ run'.nest = run.nest /\ run'.marked = run.marked
         /\ run'.public = run.public /\ run'.phase = "interface" /\ run'.open = TRUE
         /\ run'.pending = run.pending /\ run'.errors = run.errors
         /\ run'.against = run.against /\ run'.imports = run.imports
         /\ bsf' = [bsf EXCEPT ![run.m] = Symbols({})]
         /\ UNCHANGED <<src, rec, class, known, built, last>>
<1>1. run \in Runs /\ run # Idle /\ run.phase = "open"
  BY RunningPhase DEF OpenSymbols, Phases, Shaped, At
<1>2. run.m \in Units
  BY <1>1 DEF Shaped, RunShape, Unit
<1>3. run' = [run EXCEPT !.open = TRUE, !.phase = "interface"]
  BY DEF OpenSymbols
<1>4. run'.phase = "interface"
  BY <1>1, <1>3 DEF Runs
<1>5. run' # Idle
  BY <1>4 DEF Idle
<1> QED BY <1>1, <1>2, <1>3, <1>5 DEF SameRun, OpenSymbols, Runs

LEMMA DeclareRecordFields ==
  ASSUME Shaped, DeclareRecord
  PROVE  /\ SameRun /\ run.phase \in {"interface", "body"}
         /\ run'.next = run.next + 1 /\ run'.marked = run.marked /\ ~run.marked
         /\ run'.public = run.public /\ run'.phase = run.phase /\ run'.open = run.open
         /\ run'.pending = run.pending /\ run'.errors = run.errors
         /\ run'.against = run.against /\ run'.imports = run.imports
         /\ \A id \in Ids : (\E i \in DOMAIN run.nest : run.nest[i] = id) \/ id = run.next
               => \E i \in DOMAIN run'.nest : run'.nest[i] = id
         /\ UNCHANGED <<src, bsf, rec, class, known, built, last>>
<1>1. run \in Runs /\ run # Idle /\ run.phase \in {"interface", "body"}
  BY RunningPhase DEF DeclareRecord, Phases, Shaped, At
<1> DEFINE nest == <<run.next>> \o run.nest
<1>2. run' = [run EXCEPT !.nest = nest, !.next = run.next + 1]
  BY DEF DeclareRecord
<1>3. run.nest \in Seq(Ids) /\ <<run.next>> \in Seq(Ids)
  BY <1>1 DEF Runs
<1>4. /\ Len(nest) = Len(run.nest) + 1 /\ Len(run.nest) \in Nat
      /\ DOMAIN nest = 1 .. Len(nest) /\ DOMAIN run.nest = 1 .. Len(run.nest)
      /\ \A i \in 1 .. Len(nest) : nest[i] = IF i <= 1 THEN run.next
                                             ELSE run.nest[i - 1]
  BY <1>3, ConcatProperties, LenProperties
<1> HIDE DEF nest
<1>5. nest[1] = run.next /\ 1 \in DOMAIN nest
  BY <1>4
<1>6. \A i \in DOMAIN run.nest : i + 1 \in DOMAIN nest /\ nest[i + 1] = run.nest[i]
  BY <1>4
<1>7. /\ run'.m = run.m /\ run'.detect = run.detect /\ run'.first = run.first
      /\ run'.next = run.next + 1 /\ run'.nest = nest /\ run'.marked = run.marked
      /\ run'.public = run.public /\ run'.phase = run.phase /\ run'.open = run.open
      /\ run'.pending = run.pending /\ run'.errors = run.errors
      /\ run'.against = run.against /\ run'.imports = run.imports
  BY <1>1, <1>2 DEF Runs
<1>8. run' # Idle
  BY <1>1, <1>7 DEF Idle
<1>9. ASSUME NEW id \in Ids,
             (\E i \in DOMAIN run.nest : run.nest[i] = id) \/ id = run.next
      PROVE  \E i \in DOMAIN nest : nest[i] = id
  BY <1>5, <1>6, <1>9
<1> QED BY <1>1, <1>7, <1>8, <1>9 DEF SameRun, DeclareRecord

LEMMA WriteRecordFields ==
  ASSUME Shaped, WriteRecord
  PROVE  /\ SameRun /\ run.phase \in {"interface", "body"}
         /\ run'.next = run.next /\ run'.marked = FALSE /\ run.marked
         /\ run'.public = (IF run.phase = "interface"
                           THEN run.public \cup {Head(run.nest)} ELSE run.public)
         /\ run'.phase = run.phase /\ run'.open = run.open
         /\ run'.pending = run.pending /\ run'.errors = run.errors
         /\ run'.against = run.against /\ run'.imports = run.imports
         /\ Head(run.nest) \in run.first .. run.next - 1
         /\ \A i \in DOMAIN run.nest :
               run.nest[i] = Head(run.nest)
               \/ \E j \in DOMAIN run'.nest : run'.nest[j] = run.nest[i]
         /\ rec' = [rec EXCEPT ![Head(run.nest)] = Record(Layout(Head(run.nest)))]
         /\ UNCHANGED <<src, bsf, class, known, built, last>>
<1>1. run \in Runs /\ run # Idle /\ run.phase \in {"interface", "body"}
  BY RunningPhase DEF WriteRecord, Phases, Shaped, At
<1>2. run.nest \in Seq(Ids) /\ run.nest # <<>>
  BY <1>1 DEF Runs, WriteRecord
<1>3. /\ Head(run.nest) = run.nest[1] /\ 1 \in DOMAIN run.nest
      /\ \A i \in DOMAIN run.nest :
            \/ i = 1
            \/ /\ i - 1 \in DOMAIN Tail(run.nest)
               /\ Tail(run.nest)[i - 1] = run.nest[i]
  BY <1>2, HeadTailProperties, LenProperties
<1>4. Head(run.nest) \in run.first .. run.next - 1
  BY <1>1, <1>3 DEF Shaped, RunShape
<1> DEFINE public == IF run.phase = "interface"
                     THEN run.public \cup {Head(run.nest)} ELSE run.public
<1>5. run' = [run EXCEPT !.nest = Tail(run.nest), !.marked = FALSE, !.public = public]
  BY DEF WriteRecord, At
<1> HIDE DEF public
<1>6. /\ run'.m = run.m /\ run'.detect = run.detect /\ run'.first = run.first
      /\ run'.next = run.next /\ run'.nest = Tail(run.nest) /\ run'.marked = FALSE
      /\ run'.public = public /\ run'.phase = run.phase /\ run'.open = run.open
      /\ run'.pending = run.pending /\ run'.errors = run.errors
      /\ run'.against = run.against /\ run'.imports = run.imports
  BY <1>1, <1>5 DEF Runs
<1>7. run' # Idle
  BY <1>1, <1>6 DEF Idle
<1>8. ASSUME NEW i \in DOMAIN run.nest
      PROVE  \/ run.nest[i] = Head(run.nest)
             \/ \E j \in DOMAIN run'.nest : run'.nest[j] = run.nest[i]
  BY <1>3, <1>6
<1> QED BY <1>1, <1>4, <1>6, <1>7, <1>8 DEF SameRun, WriteRecord, public

LEMMA MarkRecordFields ==
  ASSUME Shaped, MarkRecord
  PROVE  /\ SameRun /\ run.phase \in {"interface", "body"}
         /\ run'.next = run.next /\ run'.nest = run.nest
         /\ run'.public = run.public
         /\ run'.phase = run.phase /\ run'.open = run.open
         /\ run'.pending = run.pending /\ run'.errors = run.errors
         /\ run'.against = run.against /\ run'.imports = run.imports
         /\ UNCHANGED <<src, bsf, rec, class, built, last>>
<1>1. run \in Runs /\ run # Idle /\ run.phase \in {"interface", "body"}
  BY RunningPhase DEF MarkRecord, Phases, Shaped, At
<1>2. run' = [run EXCEPT !.marked = TRUE]
  BY DEF MarkRecord
<1>3. run'.phase = run.phase
  BY <1>1, <1>2 DEF Runs
<1>4. run' # Idle
  BY <1>1, <1>3 DEF Idle
<1> QED BY <1>1, <1>2, <1>4 DEF SameRun, MarkRecord, Runs

LEMMA ClosesFields ==
  ASSUME Shaped, Closes
  PROVE  /\ SameRun /\ run.phase = "close" /\ run'.phase = "class"
         /\ run'.next = run.next /\ run'.nest = run.nest /\ run'.marked = run.marked
         /\ run'.public = run.public /\ run'.open = FALSE
         /\ run'.pending = run.pending /\ run'.errors = run.errors
         /\ run'.against = run.against /\ run'.imports = run.imports
         /\ bsf' = Flushed
         /\ \A m \in Modules : m # run.m => class'[m] = class[m]
         /\ UNCHANGED <<src, rec, known, built, last>>
<1>1. run \in Runs /\ run # Idle /\ run.phase = "close" /\ ~(run.errors > 0 \/ run.detect)
  BY RunningPhase DEF Closes, Phases, Shaped, At
<1>2. /\ run' = [run EXCEPT !.open = FALSE, !.phase = "class"]
      /\ bsf' = Flushed /\ class' = [class EXCEPT ![run.m] = Cut]
      /\ UNCHANGED <<src, rec, known, built, last>>
  BY <1>1 DEF Closes, CloseSymbols
<1>3. run'.phase = "class"
  BY <1>1, <1>2 DEF Runs
<1>4. run' # Idle
  BY <1>3 DEF Idle
<1>5. \A m \in Modules : m # run.m => class'[m] = class[m]
  BY <1>2 DEF Shaped, Shape
<1> QED BY <1>1, <1>2, <1>4, <1>5 DEF SameRun, Runs

LEMMA WrittenFields ==
  ASSUME Shaped, Written
  PROVE  /\ SameRun /\ run.phase = "class" /\ run'.phase = "verify"
         /\ run'.next = run.next /\ run'.nest = run.nest /\ run'.marked = run.marked
         /\ run'.public = run.public /\ run'.open = run.open
         /\ run'.pending = run.pending /\ run'.errors = run.errors
         /\ run'.against = run.against /\ run'.imports = run.imports
         /\ \A m \in Modules : m # run.m => class'[m] = class[m]
         /\ UNCHANGED <<src, bsf, rec, known, built, last>>
<1>1. run \in Runs /\ run # Idle /\ run.phase = "class"
  BY RunningPhase DEF Written, Phases, Shaped, At
<1>2. /\ run' = [run EXCEPT !.phase = "verify"]
      /\ UNCHANGED <<src, bsf, rec, known, built, last>>
  BY <1>1 DEF Written, WriteClass, Goto
<1>3. run'.phase = "verify"
  BY <1>1, <1>2 DEF Runs
<1>4. run' # Idle
  BY <1>3 DEF Idle
<1>5. \A m \in Modules : m # run.m => class'[m] = class[m]
  BY DEF Shaped, Shape, Written, WriteClass
<1> QED BY <1>1, <1>2, <1>4, <1>5 DEF SameRun, Runs

\* Nothing that the record classes depend on is touched.
LEMMA RecordsStay ==
  ASSUME Shaped, RecordsWritten, SameRun, UNCHANGED <<src, rec, known>>,
         run'.next = run.next, run'.nest = run.nest, run'.marked = run.marked,
         run'.public = run.public
  PROVE  RecordsWritten'
<1>1. NextIsFree'
  BY DEF RecordsWritten, NextIsFree
<1>2. \A id : Layout(id)' = Layout(id)
  BY DEF Layout, SameRun
<1>3. /\ run.first <= known
      /\ run.marked => Head(run.nest) < known
      /\ \A id \in run.first .. run.next - 1 :
            \/ rec[id] = Record(Layout(id))
            \/ id \notin run.public /\ \E i \in DOMAIN run.nest : run.nest[i] = id
  BY DEF RecordsWritten, SameRun
<1>4. \A id \in run'.first .. run'.next - 1 :
            \/ rec'[id] = Record(Layout(id))'
            \/ id \notin run'.public /\ \E i \in DOMAIN run'.nest : run'.nest[i] = id
  BY <1>2, <1>3 DEF SameRun, Record
<1> QED BY <1>1, <1>3, <1>4 DEF RecordsWritten, SameRun

LEMMA NextRecords ==
  Shaped /\ RecordsWritten /\ DetectsNoRecords /\ [Next]_vars => RecordsWritten'
<1> SUFFICES ASSUME Shaped, RecordsWritten, DetectsNoRecords, [Next]_vars
             PROVE  RecordsWritten'
  OBVIOUS
<1>0. known \in Nat /\ rec \in [0 .. MaxRecord - 1 -> {NoFile, Cut} \cup RecordFiles]
  BY DEF Shaped, Shape, Ids
<1>1. ASSUME run' = Idle, NextIsFree' PROVE RecordsWritten'
  BY <1>1 DEF RecordsWritten
<1>2. ASSUME NEW m \in Modules, NEW fault \in Faults, Edit(m, fault)
      PROVE  RecordsWritten'
  <2>1. run' = Idle /\ UNCHANGED <<rec, known>>
    BY <1>2 DEF Edit
  <2> QED BY <1>1, <2>1 DEF RecordsWritten, NextIsFree
<1>3. ASSUME NEW m \in Modules, NEW detect \in BOOLEAN, Start(m, detect)
      PROVE  RecordsWritten'
  <2>1. /\ run'.first = known /\ run'.next = known /\ run'.marked = FALSE
        /\ UNCHANGED <<rec, known>>
    BY <1>3 DEF Start
  <2>2. NextIsFree'
    BY <2>1 DEF RecordsWritten, NextIsFree
  <2>3. run'.first .. run'.next - 1 = {}
    BY <1>0, <2>1
  <2> QED BY <1>0, <2>1, <2>2, <2>3 DEF RecordsWritten
<1>4. CASE OpenSymbols
  BY <1>4, OpenSymbolsFields, RecordsStay
<1>5. CASE DeclareRecord
  <2>1. NextIsFree'
    BY <1>5 DEF RecordsWritten, NextIsFree, DeclareRecord
  <2>2. \A id : Layout(id)' = Layout(id)
    BY <1>5, DeclareRecordFields DEF Layout, SameRun
  <2>3. /\ run # Idle /\ run'.first = run.first /\ run'.next = run.next + 1
        /\ run'.public = run.public /\ run'.marked = FALSE
        /\ UNCHANGED <<rec, known>>
        /\ \A id \in Ids : (\E i \in DOMAIN run.nest : run.nest[i] = id) \/ id = run.next
               => \E i \in DOMAIN run'.nest : run'.nest[i] = id
    <3>1. ~run.marked /\ run.marked \in BOOLEAN
      BY <1>5, DeclareRecordFields, Running DEF SameRun, Shaped, Runs
    <3> QED BY <1>5, <3>1, DeclareRecordFields DEF SameRun
  <2>4. /\ run.first <= known
        /\ \A id \in run.first .. run.next - 1 :
              \/ rec[id] = Record(Layout(id))
              \/ id \notin run.public /\ \E i \in DOMAIN run.nest : run.nest[i] = id
        /\ run.public \subseteq run.first .. run.next - 1
    BY <2>3 DEF RecordsWritten, Shaped, RunShape
  <2>5. run.first \in Nat /\ run.next \in Nat /\ MaxRecord \in Nat
        /\ run.next <= MaxRecord /\ run.first <= run.next
    BY <2>3, RunBounds DEF Shaped
  <2>6. ASSUME NEW id \in run'.first .. run'.next - 1
        PROVE  \/ rec'[id] = Record(Layout(id))'
               \/ id \notin run'.public /\ \E i \in DOMAIN run'.nest : run'.nest[i] = id
    <3>1. id \in Ids
      BY <2>3, <2>5 DEF Ids
    <3>2. CASE id = run.next
      BY <2>3, <2>4, <2>5, <3>1, <3>2
    <3>3. CASE id # run.next
      <4>1. id \in run.first .. run.next - 1
        BY <2>3, <2>5, <3>3
      <4> QED BY <2>2, <2>3, <2>4, <3>1, <4>1 DEF Record
    <3> QED BY <3>2, <3>3
  <2> QED BY <2>1, <2>3, <2>4, <2>6 DEF RecordsWritten
<1>6. CASE MarkRecord
  <2>1. known <= known' /\ Head(run.nest) < known' /\ known' \in Nat
    BY <1>6, MarkKnown
  <2>2. /\ SameRun /\ run'.next = run.next /\ run'.nest = run.nest
        /\ run'.public = run.public /\ UNCHANGED <<src, rec>>
    BY <1>6, MarkRecordFields
  <2>3. NextIsFree'
    BY <1>0, <2>1, <2>2 DEF RecordsWritten, NextIsFree
  <2>4. \A id : Layout(id)' = Layout(id)
    BY <2>2 DEF Layout, SameRun
  <2>5. /\ run.first <= known
        /\ \A id \in run.first .. run.next - 1 :
              \/ rec[id] = Record(Layout(id))
              \/ id \notin run.public /\ \E i \in DOMAIN run.nest : run.nest[i] = id
    BY <2>2 DEF RecordsWritten, SameRun
  <2>6. run.first \in Nat
    BY <2>2, RunBounds DEF Shaped, SameRun
  <2>7. \A id \in run'.first .. run'.next - 1 :
              \/ rec'[id] = Record(Layout(id))'
              \/ id \notin run'.public /\ \E i \in DOMAIN run'.nest : run'.nest[i] = id
    BY <2>2, <2>4, <2>5 DEF SameRun, Record
  <2>8. run'.first <= known'
    BY <1>0, <2>1, <2>2, <2>5, <2>6 DEF SameRun
  <2> QED BY <2>1, <2>2, <2>3, <2>7, <2>8 DEF RecordsWritten
<1>7. CASE WriteRecord
  <2> DEFINE h == Head(run.nest)
  <2>1. /\ SameRun /\ run'.next = run.next /\ run'.marked = FALSE /\ run.marked
        /\ run'.public \subseteq run.public \cup {h}
        /\ h \in run.first .. run.next - 1
        /\ \A i \in DOMAIN run.nest :
              run.nest[i] = h \/ \E j \in DOMAIN run'.nest : run'.nest[j] = run.nest[i]
        /\ rec' = [rec EXCEPT ![h] = Record(Layout(h))]
        /\ UNCHANGED <<src, known>>
    BY <1>7, WriteRecordFields
  <2>2. /\ run.first <= known /\ h < known
        /\ \A id \in run.first .. run.next - 1 :
              \/ rec[id] = Record(Layout(id))
              \/ id \notin run.public /\ \E i \in DOMAIN run.nest : run.nest[i] = id
    BY <2>1 DEF RecordsWritten, SameRun
  <2>3. h \in 0 .. MaxRecord - 1
    BY <2>1, LayoutType DEF Shaped, SameRun
  <2> HIDE DEF h
  <2>4. /\ DOMAIN rec' = DOMAIN rec /\ rec'[h] = Record(Layout(h))
        /\ \A id \in DOMAIN rec : id # h => rec'[id] = rec[id]
    BY <1>0, <2>1, <2>3
  <2>5. NextIsFree'
    BY <1>0, <2>1, <2>2, <2>3, <2>4 DEF RecordsWritten, NextIsFree
  <2>6. \A id : Layout(id)' = Layout(id)
    BY <2>1 DEF Layout, SameRun
  <2>7. ASSUME NEW id \in run'.first .. run'.next - 1
        PROVE  \/ rec'[id] = Record(Layout(id))'
               \/ id \notin run'.public /\ \E i \in DOMAIN run'.nest : run'.nest[i] = id
    <3>1. id \in run.first .. run.next - 1 /\ id \in DOMAIN rec
      BY <1>0, <2>1, LayoutType DEF Shaped, SameRun
    <3>2. CASE id = h
      BY <2>4, <2>6, <3>2 DEF Record
    <3>3. CASE id # h
      <4>1. rec'[id] = rec[id]
        BY <2>4, <3>1, <3>3
      <4>2. CASE rec[id] = Record(Layout(id))
        BY <2>6, <4>1, <4>2 DEF Record
      <4>3. CASE id \notin run.public /\ \E i \in DOMAIN run.nest : run.nest[i] = id
        <5>1. id \notin run'.public
          BY <2>1, <3>3, <4>3
        <5>2. PICK i \in DOMAIN run.nest : run.nest[i] = id
          BY <4>3
        <5>3. \E j \in DOMAIN run'.nest : run'.nest[j] = id
          BY <2>1, <3>3, <5>2
        <5> QED BY <5>1, <5>3
      <4> QED BY <2>2, <3>1, <4>2, <4>3
    <3> QED BY <3>2, <3>3
  <2> QED BY <2>1, <2>2, <2>5, <2>7 DEF RecordsWritten, SameRun
<1>8. CASE Fails
  <2>1. run.marked => Head(run.nest) < known
    BY <1>8 DEF Fails, RecordsWritten
  <2>2. NextIsFree'
    <3>1. CASE rec' = rec
      BY <1>8, <3>1 DEF Fails, RecordsWritten, NextIsFree
    <3>2. CASE run.marked /\ rec' = [rec EXCEPT ![Head(run.nest)] = Cut]
      <4>1. \A n \in DOMAIN rec' : n \in DOMAIN rec /\ (n # Head(run.nest) => rec'[n] = rec[n])
        BY <1>0, <3>2
      <4>2. \A n \in DOMAIN rec : n \in Nat
        BY <1>0
      <4>3. run # Idle /\ known' = known
        BY <1>8 DEF Fails
      <4>4. Head(run.nest) \in Nat
        <5>1. run.nest \in Seq(Ids) /\ run.nest # <<>>
          BY <3>2, <4>3, Running DEF Shaped, RunShape, Runs
        <5>2. Head(run.nest) \in Ids
          BY <5>1, HeadTailProperties
        <5> QED BY <5>2 DEF Ids
      <4> QED BY <1>0, <2>1, <3>2, <4>1, <4>2, <4>3, <4>4 DEF RecordsWritten, NextIsFree
    <3> QED BY <1>8, <3>1, <3>2 DEF Fails
  <2> QED BY <1>1, <1>8, <2>2 DEF Fails
<1>9. CASE Goes
  BY <1>9, RecordsStay DEF Goes
<1>10. CASE Closes
  BY <1>10, ClosesFields, RecordsStay
<1>11. CASE Written
  BY <1>11, WrittenFields, RecordsStay
<1>12. CASE Verified
  <2>1. run' = Idle /\ UNCHANGED <<rec, known>>
    BY <1>12, VerifiedClass DEF Verified
  <2> QED BY <1>1, <2>1 DEF RecordsWritten, NextIsFree
<1>13. CASE UNCHANGED vars
  BY <1>13 DEF vars, RecordsWritten, NextIsFree, Record, Layout
<1> QED BY <1>2, <1>3, <1>4, <1>5, <1>6, <1>7, <1>8, <1>9, <1>10, <1>11, <1>12, <1>13,
       StepKinds

\* The record types of a part of the unit's interface, once it has been read.
LEMMA PublicWritten ==
  ASSUME Shaped, RecordsWritten, run # Idle, NEW ids \in SUBSET run.public,
         NEW t \in Types(ids)
  PROVE  /\ t[1] \in run.first .. run.next - 1
         /\ t[1] \in DOMAIN rec /\ rec[t[1]] = Record(t[2])
         /\ t[2][1] = run.m
<1>1. PICK id \in ids : t = <<id, Layout(id)>>
  BY DEF Types
<1>2. id \in run.public /\ id \in run.first .. run.next - 1
  BY DEF Shaped, RunShape
<1>3. id \in 0 .. MaxRecord - 1
  BY <1>2, LayoutType DEF Shaped
<1>4. id \in DOMAIN rec
  BY <1>3 DEF Shaped, Shape
<1>5. rec[id] = Record(Layout(id))
  BY <1>2 DEF RecordsWritten
<1>6. t[1] = id /\ t[2] = Layout(id) /\ Layout(id)[1] = run.m
  BY <1>1 DEF Layout
<1> QED BY <1>2, <1>4, <1>5, <1>6

\* While the unit itself is being read its symbol file is empty.
LEMMA OwnSymbolsEmpty ==
  ASSUME OwnSymbols, run # Idle, run.open
  PROVE  /\ bsf[run.m] # NoFile /\ bsf[run.m].types = {}
         /\ bsf[run.m].ver = src[run.m].ver
<1>1. bsf[run.m] = [kind |-> "symbols", ver |-> src[run.m].ver, types |-> {}]
  BY DEF OwnSymbols, Symbols, Types
<1> QED BY <1>1 DEF NoFile

\* so that what the symbol files refer to is older than the run.
LEMMA SymbolsAreOlder ==
  ASSUME Shaped, SymbolsSound, OwnSymbols, run # Idle, run.phase \in {"interface", "body"},
         NEW u \in Units, bsf[u] # NoFile, NEW t \in bsf[u].types
  PROVE  t[1] < run.first /\ t[1] \notin run.first .. run.next - 1
<1>1. run.first \in Nat /\ run.next \in Nat
  BY RunBounds DEF Shaped
<1>2. t[1] \in DOMAIN rec /\ DOMAIN rec = 0 .. MaxRecord - 1
  BY DEF SymbolsSound, Shaped, Shape
<1>3. t[1] \in Int
  BY <1>2, BoundAssumption
<1>4. u # run.m
  <2>1. u = run.m => run.open
    BY DEF Shaped, RunShape, Unit
  <2> QED BY <2>1, OwnSymbolsEmpty
<1>5. t[1] < run.first
  BY <1>4 DEF SymbolsSound
<1> QED BY <1>1, <1>3, <1>5

LEMMA RecordIsAFile == \A layout : Record(layout) # NoFile
<1>1. \A layout : Record(layout).kind = "record"
  BY DEF Record
<1>2. NoFile.kind = "none"
  BY DEF NoFile
<1> QED BY <1>1, <1>2

\* A step that leaves the symbol files alone.
LEMMA SymbolsKept ==
  ASSUME Shaped, SymbolsSound, bsf' = bsf, DOMAIN rec' = DOMAIN rec,
         \A u \in Units : bsf[u] # NoFile => \A t \in bsf[u].types :
            rec'[t[1]] = rec[t[1]],
         \/ run' = Idle
         \/ SameRun /\ run'.phase # "open"
  PROVE  SymbolsSound'
<1> SUFFICES ASSUME NEW u \in Units, bsf[u] # NoFile, NEW t \in bsf[u].types
             PROVE  /\ t[1] \in DOMAIN rec' /\ rec'[t[1]] = Record(t[2])
                    /\ t[2][1] = u
                    /\ run' # Idle /\ (u # run'.m \/ run'.phase = "open")
                          => t[1] < run'.first
  BY DEF SymbolsSound, Record
<1>1. /\ t[1] \in DOMAIN rec /\ rec[t[1]] = Record(t[2])
      /\ t[2][1] = u
      /\ run # Idle /\ u # run.m => t[1] < run.first
  BY DEF SymbolsSound
<1> QED BY <1>1 DEF SameRun

\* A step that rewrites the symbol file of the unit being compiled.
LEMMA SymbolsReplaced ==
  ASSUME Shaped, RecordsWritten, SymbolsSound, run # Idle, run.m \in Units,
         NEW ids \in SUBSET run.public,
         bsf' = [bsf EXCEPT ![run.m] = Symbols(ids)], rec' = rec,
         \/ run' = Idle
         \/ SameRun /\ run'.phase # "open"
  PROVE  SymbolsSound'
<1>1. /\ bsf'[run.m] = Symbols(ids)
      /\ \A u \in Units : u # run.m => bsf'[u] = bsf[u]
  BY DEF Shaped, Shape
<1>2. bsf'[run.m].types = Types(ids)
  BY <1>1 DEF Symbols
<1> SUFFICES ASSUME NEW u \in Units, bsf'[u] # NoFile, NEW t \in bsf'[u].types
             PROVE  /\ t[1] \in DOMAIN rec /\ rec[t[1]] = Record(t[2])
                    /\ t[2][1] = u
                    /\ run' # Idle /\ (u # run'.m \/ run'.phase = "open")
                          => t[1] < run'.first
  BY DEF SymbolsSound, Record
<1>3. CASE u = run.m
  BY <1>2, <1>3, PublicWritten DEF SameRun
<1>4. CASE u # run.m
  <2>1. /\ t[1] \in DOMAIN rec /\ rec[t[1]] = Record(t[2])
        /\ t[2][1] = u
        /\ u # run.m => t[1] < run.first
    BY <1>1, <1>4 DEF SymbolsSound
  <2> QED BY <1>4, <2>1 DEF SameRun
<1> QED BY <1>3, <1>4

LEMMA NextSymbols ==
  Shaped /\ RecordsWritten /\ SymbolsSound /\ OwnSymbols /\ [Next]_vars => SymbolsSound'
<1> SUFFICES ASSUME Shaped, RecordsWritten, SymbolsSound, OwnSymbols, [Next]_vars
             PROVE  SymbolsSound'
  OBVIOUS
<1>0. rec \in [0 .. MaxRecord - 1 -> {NoFile, Cut} \cup RecordFiles]
  BY DEF Shaped, Shape
<1>1. ASSUME UNCHANGED <<bsf, rec>>, run' = Idle \/ (SameRun /\ run'.phase # "open")
      PROVE  SymbolsSound'
  BY <1>1, SymbolsKept
<1>2. ASSUME NEW m \in Modules, NEW fault \in Faults, Edit(m, fault)
      PROVE  SymbolsSound'
  BY <1>1, <1>2 DEF Edit
<1>3. ASSUME NEW m \in Modules, NEW detect \in BOOLEAN, Start(m, detect)
      PROVE  SymbolsSound'
  <2>1. run'.first = known /\ UNCHANGED <<bsf, rec>>
    BY <1>3 DEF Start
  <2>2. ASSUME NEW u \in Units, bsf[u] # NoFile, NEW t \in bsf[u].types
        PROVE  /\ t[1] \in DOMAIN rec /\ rec[t[1]] = Record(t[2])
               /\ t[2][1] = u /\ t[1] < known
    <3>1. t[1] \in DOMAIN rec /\ rec[t[1]] = Record(t[2]) /\ t[2][1] = u
      BY <2>2 DEF SymbolsSound
    <3>2. ~(t[1] >= known)
      BY <3>1, RecordIsAFile DEF RecordsWritten, NextIsFree
    <3>3. t[1] \in Int /\ known \in Int
      BY <1>0, <3>1, BoundAssumption DEF Shaped, Shape, Ids
    <3> QED BY <3>1, <3>2, <3>3
  <2> QED BY <2>1, <2>2 DEF SymbolsSound, Record
<1>4. CASE OpenSymbols
  <2>1. {} \in SUBSET run.public
    OBVIOUS
  <2>2. /\ SameRun /\ run.m \in Units /\ run # Idle /\ run'.phase # "open"
        /\ bsf' = [bsf EXCEPT ![run.m] = Symbols({})] /\ rec' = rec
    BY <1>4, OpenSymbolsFields DEF SameRun
  <2> QED BY <2>1, <2>2, SymbolsReplaced
<1>5. CASE DeclareRecord
  BY <1>1, <1>5, DeclareRecordFields
<1>6. CASE MarkRecord
  BY <1>1, <1>6, MarkRecordFields
<1>7. CASE WriteRecord
  <2>1. /\ SameRun /\ run # Idle /\ run.phase \in {"interface", "body"}
        /\ run'.phase = run.phase /\ bsf' = bsf
        /\ Head(run.nest) \in run.first .. run.next - 1
        /\ rec' = [rec EXCEPT ![Head(run.nest)] = Record(Layout(Head(run.nest)))]
    BY <1>7, WriteRecordFields DEF SameRun
  <2>2. ASSUME NEW u \in Units, bsf[u] # NoFile, NEW t \in bsf[u].types
        PROVE  rec'[t[1]] = rec[t[1]]
    <3>1. t[1] \notin run.first .. run.next - 1
      BY <2>1, <2>2, SymbolsAreOlder
    <3>2. t[1] \in DOMAIN rec
      BY <2>2 DEF SymbolsSound
    <3> QED BY <1>0, <2>1, <3>1, <3>2
  <2> QED BY <1>0, <2>1, <2>2, SymbolsKept
<1>8. CASE Fails
  <2>1. run' = Idle /\ run # Idle
    BY <1>8 DEF Fails
  <2>2. CASE bsf' = bsf /\ rec' = rec
    BY <1>1, <2>1, <2>2
  <2>3. CASE bsf' # bsf
    <3>1. /\ rec' = rec /\ run.open
          /\ \E ids \in SUBSET run.public : bsf' = [bsf EXCEPT ![run.m] = Symbols(ids)]
      BY <1>8, <2>3 DEF Fails
    <3>2. run.m \in Units
      BY <2>1, <3>1 DEF Shaped, RunShape, Unit
    <3> QED BY <2>1, <3>1, <3>2, SymbolsReplaced
  <2>4. CASE rec' # rec
    <3>1. /\ bsf' = bsf /\ run.marked
          /\ rec' = [rec EXCEPT ![Head(run.nest)] = Cut]
      BY <1>8, <2>4 DEF Fails
    <3>2. /\ run.nest # <<>> /\ run.phase \in {"interface", "body"}
          /\ \A i \in DOMAIN run.nest : run.nest[i] \in run.first .. run.next - 1
      BY <2>1, <3>1 DEF Shaped, RunShape
    <3>3. run.nest \in Seq(Ids)
      BY <2>1, Running DEF Shaped, Runs
    <3>4. Head(run.nest) \in run.first .. run.next - 1
      <4>1. 1 \in DOMAIN run.nest /\ Head(run.nest) = run.nest[1]
        BY <3>2, <3>3, LenProperties
      <4> QED BY <3>2, <4>1
    <3>5. ASSUME NEW u \in Units, bsf[u] # NoFile, NEW t \in bsf[u].types
          PROVE  rec'[t[1]] = rec[t[1]]
      <4>1. t[1] \notin run.first .. run.next - 1
        BY <2>1, <3>2, <3>5, SymbolsAreOlder
      <4>2. t[1] \in DOMAIN rec
        BY <3>5 DEF SymbolsSound
      <4> QED BY <1>0, <3>1, <3>4, <4>1, <4>2
    <3> QED BY <1>0, <2>1, <3>1, <3>5, SymbolsKept
  <2> QED BY <2>2, <2>3, <2>4
<1>9. CASE Goes
  <2>1. SameRun /\ run'.phase # "open" /\ UNCHANGED <<bsf, rec>>
    BY <1>9 DEF Goes
  <2> QED BY <1>1, <2>1
<1>10. CASE Closes
  <2>1. /\ SameRun /\ run # Idle /\ run'.phase # "open" /\ rec' = rec /\ bsf' = Flushed
    BY <1>10, ClosesFields DEF SameRun
  <2>2. CASE run.open
    <3>1. run.m \in Units /\ run.public \in SUBSET run.public
      BY <2>1, <2>2 DEF Shaped, RunShape, Unit
    <3>2. bsf' = [bsf EXCEPT ![run.m] = Symbols(run.public)]
      BY <2>1, <2>2 DEF Flushed
    <3> QED BY <2>1, <3>1, <3>2, SymbolsReplaced
  <2>3. CASE ~run.open
    BY <1>1, <2>1, <2>3 DEF Flushed
  <2> QED BY <2>2, <2>3
<1>11. CASE Written
  BY <1>1, <1>11, WrittenFields
<1>12. CASE Verified
  <2>1. run' = Idle /\ UNCHANGED <<bsf, rec>>
    BY <1>12, VerifiedClass DEF Verified
  <2> QED BY <1>1, <2>1
<1>13. CASE UNCHANGED vars
  BY <1>13 DEF vars, SymbolsSound, Record
<1> QED BY <1>2, <1>3, <1>4, <1>5, <1>6, <1>7, <1>8, <1>9, <1>10, <1>11, <1>12, <1>13,
       StepKinds

LEMMA NextOwnSymbols == Shaped /\ OwnSymbols /\ [Next]_vars => OwnSymbols'
<1> SUFFICES ASSUME Shaped, OwnSymbols, [Next]_vars PROVE OwnSymbols'
  OBVIOUS
<1>1. ASSUME run' = Idle PROVE OwnSymbols'
  BY <1>1 DEF OwnSymbols
<1>2. ASSUME SameRun, UNCHANGED <<src, bsf>>, run'.open = run.open,
             run'.phase \notin {"class", "verify"}
      PROVE  OwnSymbols'
  BY <1>2 DEF OwnSymbols, SameRun, Symbols, Types
<1>3. ASSUME NEW m \in Modules, NEW fault \in Faults, Edit(m, fault)
      PROVE  OwnSymbols'
  BY <1>1, <1>3 DEF Edit
<1>4. ASSUME NEW m \in Modules, NEW detect \in BOOLEAN, Start(m, detect)
      PROVE  OwnSymbols'
  <2>1. run'.open = FALSE /\ run'.phase \notin {"class", "verify"}
    BY <1>4 DEF Start
  <2> QED BY <2>1 DEF OwnSymbols
<1>5. CASE OpenSymbols
  <2>1. /\ SameRun /\ run.m \in Units /\ run'.phase = "interface"
        /\ bsf' = [bsf EXCEPT ![run.m] = Symbols({})] /\ src' = src
    BY <1>5, OpenSymbolsFields
  <2>2. bsf'[run.m] = Symbols({})
    BY <2>1 DEF Shaped, Shape
  <2>3. Symbols({})' = Symbols({})
    BY <2>1 DEF Symbols, Types, SameRun
  <2> QED BY <2>1, <2>2, <2>3 DEF OwnSymbols, SameRun
<1>6. CASE DeclareRecord
  BY <1>2, <1>6, DeclareRecordFields
<1>7. CASE MarkRecord
  BY <1>2, <1>7, MarkRecordFields
<1>8. CASE WriteRecord
  BY <1>2, <1>8, WriteRecordFields
<1>9. CASE Fails
  BY <1>1, <1>9 DEF Fails
<1>10. CASE Goes
  <2>1. /\ SameRun /\ UNCHANGED <<src, bsf>> /\ run'.open = run.open
        /\ run'.phase \notin {"class", "verify"}
    BY <1>10 DEF Goes
  <2> QED BY <1>2, <2>1
<1>11. CASE Closes
  <2>1. /\ SameRun /\ run # Idle /\ run.phase = "close" /\ run'.phase = "class"
        /\ run'.next = run.next /\ run'.open = FALSE /\ bsf' = Flushed /\ src' = src
    BY <1>11, ClosesFields DEF SameRun
  <2>2. ASSUME run.m \in Units
        PROVE  /\ bsf'[run.m] # NoFile
               /\ bsf'[run.m].ver = src[run.m].ver
               /\ bsf'[run.m].types \subseteq Types(run.first .. run.next - 1)
    <3>1. run.open /\ run.public \subseteq run.first .. run.next - 1
      BY <2>1, <2>2 DEF Shaped, RunShape, Unit
    <3>2. bsf'[run.m] = Symbols(run.public)
      BY <2>1, <2>2, <3>1 DEF Flushed, Shaped, Shape
    <3>3. /\ bsf'[run.m].kind = "symbols" /\ bsf'[run.m].ver = src[run.m].ver
          /\ bsf'[run.m].types = Types(run.public)
      BY <3>2 DEF Symbols
    <3>4. Types(run.public) \subseteq Types(run.first .. run.next - 1)
      BY <3>1 DEF Types
    <3> QED BY <3>3, <3>4 DEF NoFile
  <2>3. Types(run.first .. run.next - 1)' = Types(run.first .. run.next - 1)
    BY <2>1 DEF Types, Layout, SameRun
  <2> QED BY <2>1, <2>2, <2>3 DEF OwnSymbols, SameRun, Unit
<1>12. CASE Written
  <2>1. /\ SameRun /\ run # Idle /\ run.phase = "class" /\ run'.next = run.next
        /\ run'.open = run.open /\ UNCHANGED <<src, bsf>>
    BY <1>12, WrittenFields DEF SameRun
  <2>2. ~run.open
    BY <2>1 DEF Shaped, RunShape
  <2>3. Types(run.first .. run.next - 1)' = Types(run.first .. run.next - 1)
    BY <2>1 DEF Types, Layout, SameRun
  <2> QED BY <2>1, <2>2, <2>3 DEF OwnSymbols, SameRun, Unit
<1>13. CASE Verified
  BY <1>1, <1>13, VerifiedClass
<1>14. CASE UNCHANGED vars
  BY <1>14 DEF vars, OwnSymbols, Symbols, Types, Layout, Unit
<1> QED BY <1>3, <1>4, <1>5, <1>6, <1>7, <1>8, <1>9, <1>10, <1>11, <1>12, <1>13, <1>14,
       StepKinds

\* A step that loads nothing, and rewrites no symbol file but the unit's own.
LEMMA LoadedStays ==
  ASSUME Shaped, Loaded, SameRun, run'.pending = run.pending, run'.errors = run.errors,
         run'.against = run.against, run'.imports = run.imports,
         \A u \in Units : u # run.m => bsf'[u] = bsf[u],
         \/ run.m \in Units => bsf'[run.m] = bsf[run.m]
         \/ run.pending = Uses[run.m]
         \/ /\ bsf[run.m] # NoFile /\ bsf'[run.m] # NoFile
            /\ bsf'[run.m].ver = bsf[run.m].ver
  PROVE  Loaded'
<1>1. run # Idle
  BY DEF SameRun
<1>2. Uses[run.m] \subseteq Units \cup Libraries
  BY <1>1, RunBounds, Totals DEF Shaped
<1>3. ASSUME ~run'.detect, run'.errors = 0,
             NEW u \in (Uses[run'.m] \ Libraries) \ run'.pending
      PROVE  bsf'[u] # NoFile /\ run'.against[u] = bsf'[u].ver
  <2>1. u \in Units /\ u \in (Uses[run.m] \ Libraries) \ run.pending
    BY <1>2, <1>3 DEF SameRun
  <2>2. bsf[u] # NoFile /\ run.against[u] = bsf[u].ver
    BY <1>1, <1>3, <2>1 DEF Loaded, SameRun
  <2>3. u \notin run.pending /\ u \in Uses[run.m]
    BY <2>1
  <2> QED BY <2>1, <2>2, <2>3
<1>4. ASSUME NEW t \in run'.imports
      PROVE  \E w \in Units : w # run'.m /\ bsf'[w] # NoFile /\ t \in bsf'[w].types
  <2>1. PICK w \in Units : w # run.m /\ bsf[w] # NoFile /\ t \in bsf[w].types
    BY <1>1, <1>4 DEF Loaded
  <2> QED BY <2>1 DEF SameRun
<1> QED BY <1>3, <1>4 DEF Loaded

LEMMA NextLoaded == Shaped /\ OwnSymbols /\ Loaded /\ [Next]_vars => Loaded'
<1> SUFFICES ASSUME Shaped, OwnSymbols, Loaded, [Next]_vars PROVE Loaded'
  OBVIOUS
<1>1. ASSUME run' = Idle PROVE Loaded'
  BY <1>1 DEF Loaded
<1>2. ASSUME SameRun, bsf' = bsf, run'.pending = run.pending, run'.errors = run.errors,
             run'.against = run.against, run'.imports = run.imports
      PROVE  Loaded'
  BY <1>2, LoadedStays
<1>3. ASSUME NEW m \in Modules, NEW fault \in Faults, Edit(m, fault)
      PROVE  Loaded'
  BY <1>1, <1>3 DEF Edit
<1>4. ASSUME NEW m \in Modules, NEW detect \in BOOLEAN, Start(m, detect)
      PROVE  Loaded'
  <2>1. run'.m = m /\ run'.pending = Uses[m] /\ run'.imports = {}
    BY <1>4 DEF Start
  <2> QED BY <2>1 DEF Loaded
<1>5. CASE OpenSymbols
  <2>1. /\ SameRun /\ run # Idle /\ run.phase = "open"
        /\ run'.pending = run.pending /\ run'.errors = run.errors
        /\ run'.against = run.against /\ run'.imports = run.imports
        /\ bsf' = [bsf EXCEPT ![run.m] = Symbols({})]
    BY <1>5, OpenSymbolsFields DEF SameRun
  <2>2. \A u \in Units : u # run.m => bsf'[u] = bsf[u]
    BY <2>1 DEF Shaped, Shape
  <2>3. run.pending = Uses[run.m]
    BY <2>1 DEF Shaped, RunShape
  <2> QED BY <2>1, <2>2, <2>3, LoadedStays
<1>6. CASE DeclareRecord
  BY <1>2, <1>6, DeclareRecordFields
<1>7. CASE MarkRecord
  BY <1>2, <1>7, MarkRecordFields
<1>8. CASE WriteRecord
  BY <1>2, <1>8, WriteRecordFields
<1>9. CASE Fails
  BY <1>1, <1>9 DEF Fails
<1>10. CASE Goes
  <2>1. SameRun /\ run # Idle /\ bsf' = bsf
    BY <1>10 DEF Goes, SameRun
  <2>2. Uses[run.m] \subseteq Units \cup Libraries
    BY <2>1, RunBounds, Totals DEF Shaped
  <2>3. ASSUME ~run'.detect, run'.errors = 0,
               NEW u \in (Uses[run'.m] \ Libraries) \ run'.pending
        PROVE  bsf'[u] # NoFile /\ run'.against[u] = bsf'[u].ver
    <3>1. /\ u \in Units /\ u \in Uses[run.m] /\ u \notin Libraries
          /\ u \notin run'.pending /\ ~run.detect
      BY <2>1, <2>2, <2>3 DEF SameRun
    <3>2. CASE u \in run.pending
      BY <1>10, <2>3, <3>1, <3>2 DEF Goes
    <3>3. CASE u \notin run.pending
      <4>1. run'.against[u] = run.against[u] /\ run.errors = 0
        BY <1>10, <2>3, <3>1, <3>3 DEF Goes
      <4>2. u \in (Uses[run.m] \ Libraries) \ run.pending
        BY <3>1, <3>3
      <4>3. bsf[u] # NoFile /\ run.against[u] = bsf[u].ver
        BY <2>1, <3>1, <4>1, <4>2 DEF Loaded
      <4> QED BY <2>1, <4>1, <4>3
    <3> QED BY <3>2, <3>3
  <2>4. ASSUME NEW t \in run'.imports
        PROVE  \E w \in Units : w # run'.m /\ bsf'[w] # NoFile /\ t \in bsf'[w].types
    <3>1. CASE t \in run.imports
      BY <2>1, <3>1 DEF Loaded, SameRun
    <3>2. CASE t \notin run.imports
      <4>1. PICK u \in Units : bsf[u] # NoFile /\ t \in bsf[u].types
        BY <1>10, <2>4, <3>2 DEF Goes
      <4>2. run.m \in Units => run.open
        BY <1>10, <2>1 DEF Goes, Shaped, RunShape, Unit
      <4>3. u # run.m
        BY <2>1, <4>1, <4>2, OwnSymbolsEmpty
      <4> QED BY <2>1, <4>1, <4>3 DEF SameRun
    <3> QED BY <3>1, <3>2
  <2> QED BY <2>3, <2>4 DEF Loaded
<1>11. CASE Closes
  <2>1. /\ SameRun /\ run # Idle /\ bsf' = Flushed
        /\ run'.pending = run.pending /\ run'.errors = run.errors
        /\ run'.against = run.against /\ run'.imports = run.imports
    BY <1>11, ClosesFields DEF SameRun
  <2>2. CASE run.open
    <3>1. bsf' = [bsf EXCEPT ![run.m] = Symbols(run.public)] /\ run.m \in Units
      BY <2>1, <2>2 DEF Flushed, Shaped, RunShape, Unit
    <3>2. /\ bsf'[run.m] = Symbols(run.public)
          /\ \A u \in Units : u # run.m => bsf'[u] = bsf[u]
      BY <3>1 DEF Shaped, Shape
    <3>3. bsf'[run.m].kind = "symbols" /\ bsf'[run.m].ver = src[run.m].ver
      BY <3>2 DEF Symbols
    <3>4. bsf'[run.m] # NoFile
      BY <3>3 DEF NoFile
    <3>5. bsf[run.m] # NoFile /\ bsf'[run.m].ver = bsf[run.m].ver
      BY <2>1, <2>2, <3>3, OwnSymbolsEmpty
    <3> QED BY <2>1, <3>2, <3>4, <3>5, LoadedStays
  <2>3. CASE ~run.open
    BY <1>2, <2>1, <2>3 DEF Flushed
  <2> QED BY <2>2, <2>3
<1>12. CASE Written
  BY <1>2, <1>12, WrittenFields
<1>13. CASE Verified
  BY <1>1, <1>13, VerifiedClass
<1>14. CASE UNCHANGED vars
  BY <1>14 DEF vars, Loaded
<1> QED BY <1>3, <1>4, <1>5, <1>6, <1>7, <1>8, <1>9, <1>10, <1>11, <1>12, <1>13, <1>14,
       StepKinds

\* What the built modules are made of is older than the run under way.
LEMMA BuiltStays ==
  ASSUME Shaped, BuiltKept, run # Idle, UNCHANGED <<src, built>>,
         \A m \in Modules : m # run.m => class'[m] = class[m],
         \A u \in Units : u # run.m => bsf'[u] = bsf[u],
         DOMAIN rec' = DOMAIN rec,
         \A n \in DOMAIN rec : n < run.first => rec'[n] = rec[n],
         run' = Idle \/ SameRun
  PROVE  BuiltKept'
<1>1. run.m \notin built /\ built \subseteq Modules
  BY DEF Shaped, Shape, RunShape
<1> SUFFICES ASSUME NEW m \in built
             PROVE  /\ class'[m].kind = "class"
                    /\ class'[m].ver = src[m].ver
                    /\ \A t \in class'[m].types :
                          /\ t[1] \in DOMAIN rec' /\ rec'[t[1]] = Record(t[2])
                          /\ run' # Idle => t[1] < run'.first
                    /\ \A u \in (Uses[m] \ Libraries) \cap built :
                          /\ class'[m].against[u] = class'[u].ver
                          /\ \A t \in class'[m].types :
                                t[2][1] = u => t \in class'[u].types
                    /\ m \in Units =>
                          /\ bsf'[m] # NoFile /\ bsf'[m].ver = class'[m].ver
                          /\ bsf'[m].types \subseteq class'[m].types
  BY DEF BuiltKept, Record
<1>2. m # run.m /\ class'[m] = class[m]
  BY <1>1
<1>3. /\ class[m].kind = "class" /\ class[m].ver = src[m].ver
      /\ m \in Units =>
            /\ bsf[m] # NoFile /\ bsf[m].ver = class[m].ver
            /\ bsf[m].types \subseteq class[m].types
  BY DEF BuiltKept
<1>4. ASSUME NEW t \in class'[m].types
      PROVE  /\ t[1] \in DOMAIN rec' /\ rec'[t[1]] = Record(t[2])
             /\ run' # Idle => t[1] < run'.first
  <2>1. t[1] \in DOMAIN rec /\ rec[t[1]] = Record(t[2]) /\ t[1] < run.first
    BY <1>2 DEF BuiltKept
  <2> QED BY <2>1 DEF SameRun
<1>5. ASSUME NEW u \in (Uses[m] \ Libraries) \cap built
      PROVE  /\ class'[m].against[u] = class'[u].ver
             /\ \A t \in class'[m].types : t[2][1] = u => t \in class'[u].types
  <2>1. class'[u] = class[u]
    BY <1>1
  <2>2. /\ class[m].against[u] = class[u].ver
        /\ \A t \in class[m].types : t[2][1] = u => t \in class[u].types
    BY DEF BuiltKept
  <2> QED BY <1>2, <2>1, <2>2
<1> QED BY <1>2, <1>3, <1>4, <1>5

\* The module that a run has just compiled fits to those built before.
LEMMA VerifiedFits ==
  ASSUME Shaped, Files, Verified
  PROVE  /\ \A t \in class'[run.m].types : t[1] \in DOMAIN rec /\ rec[t[1]] = Record(t[2])
         /\ \A u \in (Uses[run.m] \ Libraries) \cap (built \cup {run.m}) :
               /\ class'[run.m].against[u] = class'[u].ver
               /\ \A t \in class'[run.m].types : t[2][1] = u => t \in class'[u].types
         /\ run.m \in Units =>
               /\ bsf[run.m] # NoFile /\ bsf[run.m].ver = class'[run.m].ver
               /\ bsf[run.m].types \subseteq class'[run.m].types
<1> DEFINE own == Types(run.first .. run.next - 1)
<1>1. /\ run # Idle /\ run.errors = 0 /\ ~run.detect /\ run.m \in Modules
      /\ class'[run.m].ver = src[run.m].ver
      /\ class'[run.m].against = run.against
      /\ class'[run.m].types = own \cup run.imports
      /\ \A m \in Modules : m # run.m => class'[m] = class[m]
      /\ run.phase = "verify"
  BY VerifiedClass DEF Verified
<1>2. /\ run.nest = <<>> /\ run.pending = {} /\ run.m \notin built /\ built \subseteq Modules
  BY <1>1 DEF Shaped, Shape, RunShape
<1>3. run.m \in Units =>
         /\ bsf[run.m] # NoFile /\ bsf[run.m].ver = src[run.m].ver
         /\ bsf[run.m].types \subseteq own
  BY <1>1 DEF Files, OwnSymbols, Unit
<1>4. ASSUME NEW t \in own
      PROVE  t[1] \in DOMAIN rec /\ rec[t[1]] = Record(t[2]) /\ t[2][1] = run.m
  <2>1. PICK id \in run.first .. run.next - 1 : t = <<id, Layout(id)>>
    BY DEF Types
  <2>2. id \in DOMAIN rec
    BY <1>1, LayoutType DEF Shaped, Shape
  <2>3. rec[id] = Record(Layout(id))
    <3>1. DOMAIN run.nest = {}
      BY <1>2
    <3> QED BY <1>1, <3>1 DEF Files, RecordsWritten
  <2>4. Layout(id)[1] = run.m
    BY DEF Layout
  <2> QED BY <2>1, <2>2, <2>3, <2>4
<1> HIDE DEF own
<1>5. ASSUME NEW t \in run.imports
      PROVE  /\ t[1] \in DOMAIN rec /\ rec[t[1]] = Record(t[2])
             /\ \E w \in Units : w # run.m /\ bsf[w] # NoFile /\ t \in bsf[w].types
                                 /\ t[2][1] = w
  <2>1. PICK w \in Units : w # run.m /\ bsf[w] # NoFile /\ t \in bsf[w].types
    BY <1>1 DEF Files, Loaded
  <2>2. t[1] \in DOMAIN rec /\ rec[t[1]] = Record(t[2]) /\ t[2][1] = w
    BY <2>1 DEF Files, SymbolsSound
  <2> QED BY <2>1, <2>2
<1>6. ASSUME NEW u \in (Uses[run.m] \ Libraries) \cap (built \cup {run.m})
      PROVE  /\ class'[run.m].against[u] = class'[u].ver
             /\ \A t \in class'[run.m].types : t[2][1] = u => t \in class'[u].types
  <2>1. u \in Units
    BY <1>1, Totals
  <2>2. run.against[u] = bsf[u].ver
    BY <1>1, <1>2 DEF Files, Loaded
  <2>3. CASE u = run.m
    BY <1>1, <1>3, <2>1, <2>2, <2>3
  <2>4. CASE u # run.m
    <3>1. u \in built /\ class'[u] = class[u]
      BY <1>1, <1>2, <2>4
    <3>2. bsf[u].ver = class[u].ver /\ bsf[u].types \subseteq class[u].types
      BY <2>1, <3>1 DEF Files, BuiltKept
    <3>3. ASSUME NEW t \in class'[run.m].types, t[2][1] = u PROVE t \in bsf[u].types
      <4>1. t \notin own
        BY <1>4, <2>4, <3>3
      <4>2. t \in run.imports
        BY <1>1, <4>1
      <4> QED BY <1>5, <3>3, <4>2
    <3> QED BY <1>1, <2>2, <3>1, <3>2, <3>3
  <2> QED BY <2>3, <2>4
<1> QED BY <1>1, <1>3, <1>4, <1>5, <1>6

LEMMA NextBuilt == Shaped /\ Files /\ [Next]_vars => BuiltKept'
<1> SUFFICES ASSUME Shaped, Files, [Next]_vars PROVE BuiltKept'
  OBVIOUS
<1>0. BuiltKept /\ rec \in [0 .. MaxRecord - 1 -> {NoFile, Cut} \cup RecordFiles]
  BY DEF Shaped, Shape, Files
<1>1. ASSUME SameRun, UNCHANGED <<src, bsf, rec, class, built>> PROVE BuiltKept'
  BY <1>0, <1>1, BuiltStays DEF SameRun
<1>2. ASSUME NEW m \in Modules, NEW fault \in Faults, Edit(m, fault)
      PROVE  BuiltKept'
  <2>1. /\ built' = built \ {m} /\ run' = Idle /\ UNCHANGED <<bsf, rec, class>>
        /\ \A b \in Modules : b # m => src'[b] = src[b]
    BY <1>2 DEF Edit, Shaped, Shape
  <2>2. built \subseteq Modules
    BY DEF Shaped, Shape
  <2> QED BY <1>0, <2>1, <2>2 DEF BuiltKept, Record
<1>3. ASSUME NEW m \in Modules, NEW detect \in BOOLEAN, Start(m, detect)
      PROVE  BuiltKept'
  <2>1. run'.first = known /\ UNCHANGED <<src, bsf, rec, class, built>>
    BY <1>3 DEF Start
  <2>2. ASSUME NEW b \in built, NEW t \in class[b].types PROVE t[1] < known
    <3>1. t[1] \in DOMAIN rec /\ rec[t[1]] = Record(t[2])
      BY <1>0, <2>2 DEF BuiltKept
    <3>2. ~(t[1] >= known)
      BY <3>1, RecordIsAFile DEF Files, RecordsWritten, NextIsFree
    <3>3. t[1] \in Int /\ known \in Int
      BY <1>0, <3>1, BoundAssumption DEF Shaped, Shape, Ids
    <3> QED BY <3>2, <3>3
  <2> QED BY <1>0, <2>1, <2>2 DEF BuiltKept, Record
<1>4. CASE OpenSymbols
  <2>1. /\ SameRun /\ run # Idle /\ UNCHANGED <<src, rec, class, built>>
        /\ bsf' = [bsf EXCEPT ![run.m] = Symbols({})]
    BY <1>4, OpenSymbolsFields DEF SameRun
  <2>2. \A u \in Units : u # run.m => bsf'[u] = bsf[u]
    BY <2>1 DEF Shaped, Shape
  <2> QED BY <1>0, <2>1, <2>2, BuiltStays
<1>5. CASE DeclareRecord
  BY <1>1, <1>5, DeclareRecordFields
<1>6. CASE MarkRecord
  BY <1>1, <1>6, MarkRecordFields
<1>7. CASE WriteRecord
  <2>1. /\ SameRun /\ run # Idle /\ UNCHANGED <<src, bsf, class, built>>
        /\ Head(run.nest) \in run.first .. run.next - 1
        /\ rec' = [rec EXCEPT ![Head(run.nest)] = Record(Layout(Head(run.nest)))]
    BY <1>7, WriteRecordFields DEF SameRun
  <2>2. run.first \in Nat
    BY <2>1, RunBounds DEF Shaped
  <2>3. /\ DOMAIN rec' = DOMAIN rec
        /\ \A n \in DOMAIN rec : n < run.first => rec'[n] = rec[n]
    BY <1>0, <2>1, <2>2, BoundAssumption
  <2> QED BY <1>0, <2>1, <2>3, BuiltStays
<1>8. CASE Fails
  <2>1. /\ run # Idle /\ run' = Idle /\ UNCHANGED <<src, built>>
        /\ \A m \in Modules : m # run.m => class'[m] = class[m]
    BY <1>8 DEF Fails
  <2>2. \A u \in Units : u # run.m => bsf'[u] = bsf[u]
    BY <1>8 DEF Fails, Shaped, Shape
  <2>3. /\ DOMAIN rec' = DOMAIN rec
        /\ \A n \in DOMAIN rec : n < run.first => rec'[n] = rec[n]
    <3>1. CASE run.marked /\ rec' = [rec EXCEPT ![Head(run.nest)] = Cut]
      <4>1. /\ run.nest # <<>>
            /\ \A i \in DOMAIN run.nest : run.nest[i] \in run.first .. run.next - 1
        BY <2>1, <3>1 DEF Shaped, RunShape
      <4>2. run.nest \in Seq(Ids)
        BY <2>1, Running DEF Shaped, Runs
      <4>3. 1 \in DOMAIN run.nest /\ Head(run.nest) = run.nest[1]
        BY <4>1, <4>2, LenProperties
      <4>4. Head(run.nest) \in run.first .. run.next - 1
        BY <4>1, <4>3
      <4>5. run.first \in Nat /\ run.next \in Nat
        BY <2>1, RunBounds DEF Shaped
      <4> QED BY <1>0, <3>1, <4>4, <4>5, BoundAssumption
    <3> QED BY <1>8, <3>1 DEF Fails
  <2> QED BY <1>0, <2>1, <2>2, <2>3, BuiltStays
<1>9. CASE Goes
  <2>1. SameRun /\ UNCHANGED <<src, bsf, rec, class, built>>
    BY <1>9 DEF Goes
  <2> QED BY <1>1, <2>1
<1>10. CASE Closes
  <2>1. /\ SameRun /\ run # Idle /\ UNCHANGED <<src, rec, built>> /\ bsf' = Flushed
        /\ \A m \in Modules : m # run.m => class'[m] = class[m]
    BY <1>10, ClosesFields DEF SameRun
  <2>2. \A u \in Units : u # run.m => bsf'[u] = bsf[u]
    BY <2>1 DEF Flushed, Shaped, Shape
  <2> QED BY <1>0, <2>1, <2>2, BuiltStays
<1>11. CASE Written
  <2>1. /\ SameRun /\ run # Idle /\ UNCHANGED <<src, bsf, rec, built>>
        /\ \A m \in Modules : m # run.m => class'[m] = class[m]
    BY <1>11, WrittenFields DEF SameRun
  <2> QED BY <1>0, <2>1, BuiltStays
<1>12. CASE Verified
  <2>1. /\ run' = Idle /\ UNCHANGED <<src, bsf, rec>> /\ run.m \in Modules
        /\ class'[run.m].kind = "class" /\ class'[run.m].ver = src[run.m].ver
        /\ \A m \in Modules : m # run.m => class'[m] = class[m]
        /\ built' = {m \in built : run.m \notin Uses[m]} \cup {run.m}
    BY <1>12, VerifiedClass DEF Verified
  <2>2. built \subseteq Modules
    BY DEF Shaped, Shape
  <2> SUFFICES ASSUME NEW m \in built'
               PROVE  /\ class'[m].kind = "class"
                      /\ class'[m].ver = src[m].ver
                      /\ \A t \in class'[m].types :
                            t[1] \in DOMAIN rec /\ rec[t[1]] = Record(t[2])
                      /\ \A u \in (Uses[m] \ Libraries) \cap built' :
                            /\ class'[m].against[u] = class'[u].ver
                            /\ \A t \in class'[m].types :
                                  t[2][1] = u => t \in class'[u].types
                      /\ m \in Units =>
                            /\ bsf[m] # NoFile /\ bsf[m].ver = class'[m].ver
                            /\ bsf[m].types \subseteq class'[m].types
    BY <2>1 DEF BuiltKept, Record
  <2>3. CASE m = run.m
    <3>1. (Uses[m] \ Libraries) \cap built'
             \subseteq (Uses[run.m] \ Libraries) \cap (built \cup {run.m})
      BY <2>1, <2>3
    <3> QED BY <1>12, <2>1, <2>3, <3>1, VerifiedFits
  <2>4. CASE m # run.m
    <3>1. m \in built /\ run.m \notin Uses[m] /\ class'[m] = class[m]
      BY <2>1, <2>2, <2>4
    <3>2. ASSUME NEW u \in (Uses[m] \ Libraries) \cap built'
          PROVE  u \in (Uses[m] \ Libraries) \cap built /\ class'[u] = class[u]
      BY <2>1, <2>2, <3>1
    <3>3. /\ class[m].kind = "class" /\ class[m].ver = src[m].ver
          /\ \A t \in class[m].types : t[1] \in DOMAIN rec /\ rec[t[1]] = Record(t[2])
          /\ m \in Units =>
                /\ bsf[m] # NoFile /\ bsf[m].ver = class[m].ver
                /\ bsf[m].types \subseteq class[m].types
      BY <1>0, <3>1 DEF BuiltKept
    <3>4. \A u \in (Uses[m] \ Libraries) \cap built :
             /\ class[m].against[u] = class[u].ver
             /\ \A t \in class[m].types : t[2][1] = u => t \in class[u].types
      BY <1>0, <3>1 DEF BuiltKept
    <3> QED BY <3>1, <3>2, <3>3, <3>4
  <2> QED BY <2>3, <2>4
<1>13. CASE UNCHANGED vars
  BY <1>0, <1>13 DEF vars, BuiltKept, Record
<1> QED BY <1>2, <1>3, <1>4, <1>5, <1>6, <1>7, <1>8, <1>9, <1>10, <1>11, <1>12, <1>13,
       StepKinds

-----------------------------------------------------------------------------
(* The theorems.                                                           *)

LEMMA InitInductive == Init => Inductive
<1> SUFFICES ASSUME Init PROVE Inductive
  OBVIOUS
<1>1. Shape
  <2>1. "none" \in Faults /\ 0 \in Versions /\ 0 \in Ids
    BY BoundAssumption DEF Faults, Versions, Ids
  <2> QED BY <2>1 DEF Init, Shape
<1>2. RunShape /\ StatusKept
  BY DEF Init, RunShape, StatusKept, StatusTells
<1>3. RecordsWritten /\ SymbolsSound /\ OwnSymbols /\ Loaded /\ BuiltKept
  BY DEF Init, RecordsWritten, NextIsFree, SymbolsSound, OwnSymbols, Loaded, BuiltKept
<1> QED BY <1>1, <1>2, <1>3 DEF Inductive, Files

\* The inductive invariant: what the process holds, what it has left on the
\* disk and what the IDE believes, related to each other at every step.
THEOREM InductiveInvariant == Spec => []Inductive
<1>1. Inductive /\ [Next]_vars => Inductive'
  <2> SUFFICES ASSUME Inductive, [Next]_vars PROVE Inductive'
    OBVIOUS
  <2>1. Shaped /\ StatusKept
    BY DEF Inductive, Shaped
  <2>2. Shaped' /\ StatusKept'
    BY <2>1, NextShaped, NextStatus
  <2>3. ASSUME DetectsNoRecords PROVE Files'
    <3>1. Files
      BY <2>3 DEF Inductive
    <3>2. RecordsWritten /\ SymbolsSound /\ OwnSymbols /\ Loaded
      BY <3>1 DEF Files
    <3> QED BY <2>1, <2>3, <3>1, <3>2, NextRecords, NextSymbols, NextOwnSymbols,
           NextLoaded, NextBuilt DEF Files
  <2>4. DetectsNoRecords' = DetectsNoRecords
    BY DEF DetectsNoRecords
  <2> QED BY <2>2, <2>3, <2>4 DEF Inductive, Shaped
<1> QED BY <1>1, InitInductive, PTL DEF Spec

\* The files, the numbers and the state of a run have their types, whatever
\* edits, errors, kills and -d passes came before.
THEOREM TypesHold == Spec => []TypeOK
<1>1. Inductive => TypeOK
  <2> SUFFICES ASSUME Shape, RunShape PROVE TypeOK
    BY DEF Inductive
  <2>1. \A u \in Units : \/ bsf[u] = NoFile
                         \/ /\ bsf[u].ver \in 0 .. MaxVersion
                            /\ bsf[u].types \subseteq Ids \X Layouts
    BY DEF Shape, SymbolFiles, Versions
  <2>2. \A n \in DOMAIN rec : rec[n] \in {NoFile, Cut} \/ rec[n].layout \in Layouts
    BY DEF Shape, RecordFiles
  <2>3. \A m \in Modules : class[m].kind \in {"none", "cut", "raw", "class"}
    BY DEF Shape, ClassFiles, NoFile, Cut
  <2>4. ASSUME run # Idle
        PROVE  /\ run.first \in Ids /\ run.next \in run.first .. MaxRecord
               /\ run.errors \in 0 .. ErrorLimit
               /\ run.public \subseteq run.first .. run.next - 1
    <3>1. /\ run.first \in Ids /\ run.errors \in 0 .. ErrorLimit
          /\ run.public \subseteq run.first .. run.next - 1
      BY <2>4, Running DEF Runs, RunShape
    <3>2. run.next \in run.first .. MaxRecord
      BY <2>4, RunBounds
    <3> QED BY <3>1, <3>2
  <2> QED BY <2>1, <2>2, <2>3, <2>4 DEF TypeOK, Shape, Versions
<1> QED BY <1>1, InductiveInvariant, PTL

\* A compilation has the status 0 only when it printed no error message and
\* its class file is whole, preverified and made from the present source.
THEOREM StatusAlwaysTells == Spec => []StatusTells
<1>1. Inductive => StatusTells
  BY DEF Inductive, StatusKept
<1> QED BY <1>1, InductiveInvariant, PTL

\* When -d passes stay away from interfaces with record types, the number that
\* the IDE takes for the next record type is free at any moment.
THEOREM NextAlwaysFree ==
  ASSUME DetectsNoRecords
  PROVE  Spec => []NextIsFree
<1>1. Inductive => NextIsFree
  BY DEF Inductive, Files, RecordsWritten
<1> QED BY <1>1, InductiveInvariant, PTL

\* Under the same condition the modules that the IDE takes for built fit
\* together: sources, class files, record classes and the units they use.
THEOREM BuiltAlwaysAgree ==
  ASSUME DetectsNoRecords
  PROVE  Spec => []BuiltAgree
<1>1. Inductive => BuiltAgree
  BY DEF Inductive, Files, BuiltKept, BuiltAgree
<1> QED BY <1>1, InductiveInvariant, PTL
=============================================================================
