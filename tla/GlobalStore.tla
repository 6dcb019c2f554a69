---------------------------- MODULE GlobalStore ----------------------------
(***************************************************************************)
(* The life of a script's global values: AllocGlobalValue, HotReload,      *)
(* SaveGlobalValue, RestoreGlobalValue and SetGlobalVariable of            *)
(* VirtualMachine.cpp, called by the host between two executions.          *)
(*                                                                         *)
(* The globals are the bottom of the value stack, one cell for each        *)
(* allocation instruction of the program.  HotReload decides whether to    *)
(* throw the values away by comparing the head of the two code tables and  *)
(* the two class tables; a host that wants to keep its values across a     *)
(* reload saves them before and restores them after.                       *)
(*                                                                         *)
(* Programs are file-loaded compiled data (Compiler::InputCompiledData).   *)
(* The host clears nothing itself and allocates once, as main.cpp does, so *)
(* that globalValue_base is 0.                                             *)
(***************************************************************************)
EXTENDS Integers, Sequences, FiniteSets, SequencesExt

CONSTANTS
  Programs,       \* the compiled programs the host loads
  Globals,        \* Globals[p]: the declared globals of p, [type, ref]
  Kind,           \* Kind[p][t]: what p takes type t for, one of Kinds
  ClassTable,     \* ClassTable[p]: list_scriptClassInfo
  Body,           \* Body[p]: the bytes of the functions of p
  Values,         \* the values a script computes; 0 is the initial one
  MaxCounter      \* bound on globalValueAllocOpSize

\* A script's own enums are in list_scriptClassInfo, so that InputCompiledData
\* takes isSystem from them; "enum" is one the host registered.
Kinds == {"plain", "class", "enum", "scriptEnum", "function"}
Types == UNION {DOMAIN Kind[p] : p \in Programs}

ASSUME ProgramsAssumption ==
  /\ Kind \in [Programs -> [Types -> Kinds]]
  /\ Globals \in [Programs -> Seq([type : Types, ref : BOOLEAN])]

\* A file holds no allocation function for references to enums and functions:
\* programs with one among their globals crash at once and are left out.
ASSUME ReferencesAllocatable ==
  \A p \in Programs : \A i \in 1 .. Len(Globals[p]) :
    Globals[p][i].ref =>
      \A q \in Programs : Kind[q][Globals[p][i].type] \in {"plain", "class"}

ASSUME BoundsAssumption ==
  /\ 0 \in Values
  /\ MaxCounter \in Nat
  /\ \A p \in Programs : Len(Globals[p]) <= MaxCounter

VARIABLES
  vlp_data,                 \* the compiled data
  commandTable,             \* the program whose code and class table are in use
  valueStack,               \* the cells, all of them globals
  globalValue_size,
  globalValueAllocOpSize,
  status,                   \* "ok", or how the machine became unusable
  saved,                    \* the host's last save: [type, obj] per global
  atSave,                   \* history: the cells at that time
  previous,                 \* history: the program before the last reload
  kept,                     \* history: the programs a host keeps alive
  last                      \* history: what the last step was

vars == <<vlp_data, commandTable, valueStack, globalValue_size,
          globalValueAllocOpSize, status, saved, atSave, previous, kept, last>>

-----------------------------------------------------------------------------
\* What valueData points to: nothing, or a value of some kind.  A value may
\* itself have a pointer into the compiled data of some program: an enum to its
\* tag, a function to the jump table, a class value that was restored to its
\* class info.  A class value the machine allocated points to the machine's.
Nothing == [k |-> "nothing", v |-> 0, tag |-> {}]
Content(k, v, p) ==
  [k |-> k, v |-> v, tag |-> IF k \in {"enum", "scriptEnum", "function"} THEN {p} ELSE {}]
FromSave(k, v, p) == [k |-> k, v |-> v, tag |-> IF k = "plain" THEN {} ELSE {p}]

\* The bytes of the code: VM_HALT, an opcode and four bytes of type for each
\* global, VM_HALT again, and the functions.
Opcode(p, g) ==
  CASE ~g.ref /\ Kind[p][g.type] = "scriptEnum" -> "enum"
    [] ~g.ref -> Kind[p][g.type]
    [] g.ref /\ Kind[p][g.type] = "class" -> "classRef"
    [] OTHER -> "ref"
Bytes(p) ==
  <<"halt">>
    \o FlattenSeq([i \in 1 .. Len(Globals[p]) |->
         <<Opcode(p, Globals[p][i]), ToString(Globals[p][i].type), "0", "0", "0">>])
    \o <<"halt">> \o Body[p]

\* memcmp of the first n bytes; beyond the end of a table it may find anything.
DifferWithin(p, q, n) ==
  LET b == Bytes(p)
      c == Bytes(q)
  IN  \E i \in 1 .. n : i <= Len(b) /\ i <= Len(c) /\ b[i] # c[i]

\* Faulty: the last byte is not compared.
DiffersShort(p, q, n) == {DifferWithin(p, q, n - 1)}

Differs(p, q, n) ==
  IF DifferWithin(p, q, n) THEN {TRUE}
  ELSE IF n <= Len(Bytes(p)) /\ n <= Len(Bytes(q)) THEN {FALSE} ELSE BOOLEAN

\* The globals of p, freshly allocated by a machine whose vlp_data is q.
FreshCells(p, q) ==
  [i \in 1 .. Len(Globals[p]) |->
     LET g == Globals[p][i] IN
     [type |-> g.type, ref |-> g.ref,
      obj |-> IF g.ref THEN Nothing ELSE Content(Kind[p][g.type], 0, q)]]

\* The globals whose allocation throws: an enum type vlp_data does not have.
Enums == {"enum", "scriptEnum"}
Unallocatable(p) ==
  {i \in 1 .. Len(Globals[p]) :
     /\ ~Globals[p][i].ref
     /\ Kind[p][Globals[p][i].type] \in Enums
     /\ Kind[vlp_data][Globals[p][i].type] \notin Enums}

Ready == status = "ok"

-----------------------------------------------------------------------------
\* A new machine: the constructor, Initialize and AllocGlobalValue.
Load(p) ==
  /\ vlp_data' = p
  /\ commandTable' = p
  /\ valueStack' = FreshCells(p, p)
  /\ globalValue_size' = Len(Globals[p])
  /\ globalValueAllocOpSize' = Len(Globals[p])
  /\ status' = "ok"
  /\ previous' = p
  /\ kept' = {p}
  /\ last' = "load"
  /\ UNCHANGED <<saved, atSave>>

\* Faulty: globalValue_size is not set again.
ReallocateOldSize(p) ==
  /\ Unallocatable(p) = {}
  /\ globalValueAllocOpSize + Len(Globals[p]) <= MaxCounter
  /\ commandTable' = p
  /\ valueStack' = FreshCells(p, vlp_data)
  /\ globalValueAllocOpSize' = globalValueAllocOpSize + Len(Globals[p])
  /\ vlp_data' = p
  /\ previous' = vlp_data
  /\ kept' = {vlp_data, p}
  /\ last' = "reallocate"
  /\ UNCHANGED <<globalValue_size, status, saved, atSave>>

\* Faulty: only the cells of another type are allocated again.
ReallocateChanged(p) ==
  /\ Unallocatable(p) = {}
  /\ globalValueAllocOpSize + Len(Globals[p]) <= MaxCounter
  /\ commandTable' = p
  /\ valueStack' = [i \in 1 .. Len(Globals[p]) |->
       IF i \in DOMAIN valueStack /\ valueStack[i].type = Globals[p][i].type
       THEN valueStack[i] ELSE FreshCells(p, vlp_data)[i]]
  /\ globalValueAllocOpSize' = globalValueAllocOpSize + Len(Globals[p])
  /\ globalValue_size' = Len(Globals[p])
  /\ vlp_data' = p
  /\ previous' = vlp_data
  /\ kept' = {vlp_data, p}
  /\ last' = "reallocate"
  /\ UNCHANGED <<status, saved, atSave>>

\* HotReload finds a change: Clear, then AllocGlobalValue with the new code,
\* while vlp_data, where the tags of enums are looked up, is still the old one.
\* An exception from the allocation leaves the machine with the new code, the
\* old compiled data and some of the globals.
Reallocate(p) ==
  /\ globalValueAllocOpSize + Len(Globals[p]) <= MaxCounter
  /\ commandTable' = p
  /\ \/ /\ Unallocatable(p) = {}
        /\ valueStack' = FreshCells(p, vlp_data)
        /\ globalValueAllocOpSize' = globalValueAllocOpSize + Len(Globals[p])
        /\ globalValue_size' = Len(Globals[p])
        /\ vlp_data' = p
        /\ previous' = vlp_data
        /\ kept' = {vlp_data, p}
        /\ UNCHANGED status
     \/ \E i \in Unallocatable(p) :
        /\ \A j \in Unallocatable(p) : i <= j
        /\ valueStack' = SubSeq(FreshCells(p, vlp_data), 1, i - 1)
        /\ globalValueAllocOpSize' = globalValueAllocOpSize + i
        /\ status' = "threw"
        /\ UNCHANGED <<globalValue_size, vlp_data, previous, kept>>
  /\ last' = "reallocate"
  /\ UNCHANGED <<saved, atSave>>

\* The same cell with the tag p has for its type; a null one if it has none.
Retagged(c, p) == [c EXCEPT !.obj.tag = IF Kind[p][c.type] = "enum" THEN {p} ELSE {}]

\* Faulty: the enum values keep their tags.
KeepTags(p) ==
  /\ commandTable' = p
  /\ vlp_data' = p
  /\ previous' = vlp_data
  /\ kept' = kept \cup {p}
  /\ last' = "keep"
  /\ UNCHANGED <<valueStack, globalValue_size, globalValueAllocOpSize, status, saved, atSave>>

\* HotReload finds none: the values stay.  The values of enums the host has
\* registered get the tag of the new program; a value of a script's own enum
\* goes the way of the classes, where SetClassInfoUpdate does nothing.  Which
\* ones these are is read from the type in the old program; an enum variable the
\* script has assigned holds an integer object, and writing the tag into it is
\* undefined.
Keep(p) ==
  LET enums == {i \in 1 .. globalValue_size :
                  ~valueStack[i].ref /\ Kind[vlp_data][valueStack[i].type] = "enum"}
  IN  /\ commandTable' = p
      /\ vlp_data' = p
      /\ previous' = vlp_data
      /\ kept' = kept \cup {p}
      /\ IF \A i \in enums : valueStack[i].obj.k = "enum"
         THEN /\ valueStack' = [i \in DOMAIN valueStack |->
                   IF i \in enums THEN Retagged(valueStack[i], p) ELSE valueStack[i]]
              /\ UNCHANGED status
         ELSE status' = "corrupt" /\ UNCHANGED valueStack
      /\ last' = "keep"
      /\ UNCHANGED <<globalValue_size, globalValueAllocOpSize, saved, atSave>>

HotReload(p) ==
  /\ Ready
  /\ \E differs \in Differs(commandTable, p, globalValueAllocOpSize) :
       IF differs \/ ClassTable[commandTable] # ClassTable[p]
       THEN Reallocate(p)
       ELSE Keep(p)

\* A script assigns a global (PopValue), or the host does (SetGlobalVariable).
\* The cell keeps its type; an enum literal is an integer object.
Assign(i, v) ==
  /\ Ready
  /\ LET c == valueStack[i]
         kind == Kind[vlp_data][c.type]
     IN  valueStack' = [valueStack EXCEPT ![i].obj =
           Content(IF kind \in Enums THEN "plain" ELSE kind, v, vlp_data)]
  /\ last' = "assign"
  /\ UNCHANGED <<vlp_data, commandTable, globalValue_size, globalValueAllocOpSize,
                 status, saved, atSave, previous, kept>>

\* A script assigns one global to another of its type, with all it points to.
Copy(i, j) ==
  /\ Ready
  /\ valueStack[i].type = valueStack[j].type
  /\ valueStack[j].obj.k # "nothing"
  /\ valueStack' = [valueStack EXCEPT ![i].obj = valueStack[j].obj]
  /\ last' = "assign"
  /\ UNCHANGED <<vlp_data, commandTable, globalValue_size, globalValueAllocOpSize,
                 status, saved, atSave, previous, kept>>

\* References, and variables that hold nothing, are saved as nothing; of a value
\* the save holds what it is, and no pointer.
Untagged(c) == [c EXCEPT !.obj.tag = {}]
SaveGlobalValue ==
  /\ Ready
  /\ saved' = [i \in 1 .. globalValue_size |->
       LET c == valueStack[i] IN
       [type |-> c.type, ref |-> c.ref,
        obj |-> IF c.ref THEN Nothing ELSE Untagged(c).obj]]
  /\ atSave' = [i \in 1 .. globalValue_size |-> Untagged(valueStack[i])]
  /\ last' = "save"
  /\ UNCHANGED <<vlp_data, commandTable, valueStack, globalValue_size,
                 globalValueAllocOpSize, status, previous, kept>>

\* Faulty: the types are not compared.
RestoredAnyway(c, s) ==
  IF s.obj.k = "nothing" THEN c
  ELSE [c EXCEPT !.obj = FromSave(s.obj.k, s.obj.v, vlp_data)]

\* The value is made anew, pointing into the loaded program.
Restored(c, s) ==
  IF c.type # s.type \/ c.ref # s.ref \/ s.obj.k = "nothing" THEN c
  ELSE [c EXCEPT !.obj = FromSave(s.obj.k, s.obj.v, vlp_data)]

\* Faulty: stops at the first global whose type is another one.
RestoreUpToDifference ==
  /\ Ready
  /\ globalValue_size = Len(saved)
  /\ valueStack' = [i \in 1 .. globalValue_size |->
       IF \E j \in 1 .. i : valueStack[j].type # saved[j].type THEN valueStack[i]
       ELSE Restored(valueStack[i], saved[i])]
  /\ last' = "restore"
  /\ UNCHANGED <<vlp_data, commandTable, globalValue_size, globalValueAllocOpSize,
                 status, saved, atSave, previous, kept>>

RestoreGlobalValue ==
  /\ Ready
  /\ IF globalValue_size # Len(saved)
     THEN valueStack' = valueStack /\ last' = "refuse"
     ELSE /\ valueStack' = [i \in 1 .. globalValue_size |-> Restored(valueStack[i], saved[i])]
          /\ last' = "restore"
  /\ UNCHANGED <<vlp_data, commandTable, globalValue_size, globalValueAllocOpSize,
                 status, saved, atSave, previous, kept>>

Init ==
  \E p \in Programs :
    /\ vlp_data = p
    /\ commandTable = p
    /\ valueStack = FreshCells(p, p)
    /\ globalValue_size = Len(Globals[p])
    /\ globalValueAllocOpSize = Len(Globals[p])
    /\ status = "ok"
    /\ saved = <<>>
    /\ atSave = <<>>
    /\ previous = p
    /\ kept = {p}
    /\ last = "load"

Next ==
  \/ \E p \in Programs : Load(p) \/ HotReload(p)
  \/ \E i \in DOMAIN valueStack, v \in Values : Assign(i, v)
  \/ \E i, j \in DOMAIN valueStack : Copy(i, j)
  \/ SaveGlobalValue
  \/ RestoreGlobalValue

Spec == Init /\ [][Next]_vars

-----------------------------------------------------------------------------
Object == [k : Kinds \cup {"nothing"}, v : Values, tag : SUBSET Programs]
Cell == [type : Types, ref : BOOLEAN, obj : Object]

TypeOK ==
  /\ vlp_data \in Programs /\ commandTable \in Programs /\ previous \in Programs
  /\ kept \subseteq Programs
  /\ valueStack \in Seq(Cell) /\ saved \in Seq(Cell) /\ atSave \in Seq(Cell)
  /\ globalValueAllocOpSize \in 0 .. MaxCounter
  /\ status \in {"ok", "threw", "corrupt"}
  /\ Ready => globalValue_size = Len(valueStack) /\ commandTable = vlp_data

\* HotReload compares globalValueAllocOpSize bytes of code, and that is the
\* number of globals at least.  Two programs are told apart by it for certain
\* if they declare the same globals, or differ in the class table or in as many
\* bytes as the first has globals.
ToldApart(p, q) ==
  \/ Globals[p] = Globals[q] /\ Kind[p] = Kind[q]
  \/ ClassTable[p] # ClassTable[q]
  \/ DifferWithin(p, q, Len(Globals[p]))
Distinct == \A p, q \in Programs : ToldApart(p, q)

\* However often the machine was reloaded, its globals are the ones the loaded
\* program declares, of the declared types: the functions of that program
\* address them by position.  For programs that HotReload tells apart.
DeclaredByLoaded ==
  Distinct /\ Ready =>
    /\ Len(valueStack) = Len(Globals[vlp_data])
    /\ \A i \in DOMAIN valueStack :
         [type |-> valueStack[i].type, ref |-> valueStack[i].ref] = Globals[vlp_data][i]

\* Save, any number of reloads and assignments, then Restore: every global
\* that has the position and the type it had at the save has its value again,
\* also behind one whose type has changed.
RestoreBringsBack ==
  last = "restore" =>
    \A i \in DOMAIN atSave :
      LET old == atSave[i] new == valueStack[i] IN
      old.type = new.type /\ ~old.ref /\ ~new.ref =>
        old.obj.k = new.obj.k /\ old.obj.v = new.obj.v

\* RestoreGlobalValue compares the index of a type and not what it is: the
\* programs must mean the same by the types of their globals.
SameKinds ==
  \A p, q \in Programs : \A i \in DOMAIN Globals[p], j \in DOMAIN Globals[q] :
    LET t == Globals[p][i].type IN
    t = Globals[q][j].type => Kind[p][t] = Kind[q][t]

\* What the cell c holds is what p takes it for; an enum variable may hold a
\* plain integer, a reference nothing.
Fits(c, p) ==
  \/ c.obj.k = Kind[p][c.type]
  \/ c.obj.k = "nothing" /\ c.ref
  \/ c.obj.k = "plain" /\ Kind[p][c.type] \in Enums

\* No sequence of reloads, assignments, saves and restores leaves an object in
\* a cell that is not of the kind the loaded program takes it for.  For
\* programs that HotReload tells apart and that agree on their types.
KindsAgree ==
  Distinct /\ SameKinds /\ Ready =>
    \A i \in DOMAIN valueStack : Fits(valueStack[i], vlp_data)

\* The value of an enum the host has registered has its tag in the loaded
\* program or the one before, whichever way the reloads went.  For the same
\* programs.
TagsAtMostOneBehind ==
  Distinct /\ SameKinds /\ Ready => \A i \in DOMAIN valueStack :
    valueStack[i].obj.k = "enum" => valueStack[i].obj.tag \subseteq {vlp_data, previous}

\* What the result of HotReload tells the host: after a reload that reports a
\* change nothing points into a program older than the one it replaced; after
\* one that reports none, any program since may still be pointed into, by
\* functions, a script's own enums and restored class values, and must be kept.
NothingPointsToFreed ==
  Ready => \A i \in DOMAIN valueStack : valueStack[i].obj.tag \subseteq kept

\* AllocGlobalValue.  VirtualMachine.h:1333 says of globalValueAllocOpSize: the number of
\* instructions that allocate the globals.
CountsAllocInstructions == Ready => globalValueAllocOpSize = Len(Globals[vlp_data])

\* RestoreGlobalValue.  VirtualMachine.cpp:289, the message of a refused restore: the number of
\* saved values and the number of globals defined in the script differ.
RefusedForTheirNumber == last = "refuse" => Len(saved) # Len(Globals[vlp_data])
=============================================================================
