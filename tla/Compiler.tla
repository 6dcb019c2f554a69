------------------------------ MODULE Compiler ------------------------------
(***************************************************************************)
(* Compiler::Compile, as a machine that compiles one script after another: *)
(* the passes of Compiler::Analyze over the parsed script, the labels, the *)
(* data the virtual machine gets.  What the passes do to the compiler is   *)
(* module Codegen, a call at a time; what its output must be is module     *)
(* Bytecode.                                                               *)
(***************************************************************************)
EXTENDS Codegen

CONSTANT Scripts    \* the scripts the host may compile

ASSUME ScriptsAssumption == Scripts \subseteq [globals : Seq(Globals), functions : Seq(FunctionForms(Statements))]

VARIABLES
  phase,        \* the pass of Analyze that is made or comes next, or "idle", or "data"
  script,       \* the script being compiled
  analyzed,     \* how many of its functions are generated, or begun
  positions,    \* the address of each label, when LabelSetting has run
  out           \* CompiledData

vars == <<codegen, phase, script, analyzed, positions, out>>

NoScript == [globals |-> <<>>, functions |-> <<>>]
NoData == [entryPoints |-> <<>>]

\* Compiler::Clear; neither the break label nor the namespace is reset.
Clear ==
  /\ statement' = <<>> /\ places' = <<>> /\ labels' = 0 /\ errorCount' = 0
  /\ functions' = <<>> /\ positions' = <<>>
  /\ frames' = <<>> /\ depth' = 0 /\ notes' = {} /\ doubts' = {}

-----------------------------------------------------------------------------
(* LabelSetting and CreateData.                                            *)

\* Faulty: the labels take up room.
PositionCountingLabels(label) ==
  LET at == {i \in DOMAIN places : places[i].label = label}
  IN IF at = {} THEN 0 ELSE places[Max(at)].address + Max(at) - 1

\* The address of a label: the last place it is set at; 0 if there is none.
Position(label) ==
  LET at == {i \in DOMAIN places : places[i].label = label}
  IN IF at = {} THEN 0 ELSE places[Max(at)].address

SetAddress(i) ==
  IF i.op \in {"jmp", "jmpnc", "call"} THEN Instruction(i.op, Position(i.arg), i.n) ELSE i

Position_of(i) == positions[functions[i].label]

\* Faulty: emplace under the name alone; a second function of the name is lost.
EntryPointsByName ==
  LET key(i) == <<functions[i].name>>
  IN [k \in {key(i) : i \in DOMAIN functions} |->
        Position_of(CHOOSE i \in DOMAIN functions : key(i) = k)]

\* map_entryPoints: the first function of a name gets the name for its key, the
\* others their name with their parameters.
EntryPoints ==
  LET key(i) == IF \E j \in 1 .. i - 1 : functions[j].name = functions[i].name
                THEN <<functions[i].name, functions[i].arity>> ELSE <<functions[i].name>>
  IN [k \in {key(i) : i \in DOMAIN functions} |->
        Position_of(CHOOSE i \in DOMAIN functions : key(i) = k)]

-----------------------------------------------------------------------------
(* The output as module Bytecode sees it: without the allocation of the    *)
(* globals and the second VM_HALT behind it, which Initialize runs and no  *)
(* function reaches, so that VM_HALT has address 0 and no other.           *)

Section == Len(script.globals) + 1

Shifted(a) == IF a = 0 THEN 0 ELSE a - Section

Bytecode ==
  [a \in 0 .. Len(statement) - Section - 1 |->
     LET i == statement[IF a = 0 THEN 1 ELSE a + Section + 1] IN
     IF i.op \in {"jmp", "jmpnc", "call"} THEN Instruction(i.op, Shifted(i.arg), i.n) ELSE i]

\* CompiledData, with what module Bytecode asks about it.
Data ==
  LET address == [i \in DOMAIN functions |-> Shifted(Position_of(i))]
      entries == {0} \cup {address[i] : i \in DOMAIN address}
      tag(a) == functions[CHOOSE i \in DOMAIN address : address[i] = a]
  IN [entryPoints |-> EntryPoints,
      bytecode |-> Bytecode,
      address |-> address,
      arity |-> [a \in entries |-> IF a = 0 THEN 0 ELSE tag(a).arity],
      results |-> [a \in entries |-> IF a = 0 THEN 0 ELSE tag(a).ret],
      owner |-> [a \in DOMAIN Bytecode |-> IF a = 0 THEN 0 ELSE address[frames[a + Section + 1].owner]],
      depth |-> [a \in DOMAIN Bytecode |-> IF a = 0 THEN 0 ELSE frames[a + Section + 1].depth]]

-----------------------------------------------------------------------------
Init ==
  /\ phase = "idle" /\ script = NoScript /\ analyzed = 0 /\ positions = <<>> /\ out = NoData
  /\ work = <<>> /\ type = "none"
  /\ statement = <<>> /\ places = <<>> /\ labels = 0 /\ breakIndex = -1 /\ errorCount = 0
  /\ variables = <<>> /\ functions = <<>> /\ currentNameSpace = <<>>
  /\ currentFunction = [tag |-> 0, ret |-> 0]
  /\ frames = <<>> /\ depth = 0 /\ notes = {} /\ doubts = {}

\* Compile, up to the parsed script; and DeclareValues.
Compile(s) ==
  /\ phase = "idle"
  /\ phase' = "values"
  /\ script' = s
  /\ analyzed' = 0
  /\ Clear
  /\ variables' = <<ValueTable(0)>>
  /\ work' = <<Emit("halt", 0, 0)>>
               \o [i \in DOMAIN s.globals |-> [do |-> "global", g |-> s.globals[i]]]
               \o <<Emit("halt", 0, 0)>>
  /\ UNCHANGED <<type, breakIndex, currentNameSpace, currentFunction, out>>

DeclareFunctions ==
  /\ phase = "values" /\ work = <<>>
  /\ phase' = "functions"
  /\ work' = [i \in DOMAIN script.functions |-> [do |-> "regist", f |-> script.functions[i]]]
  /\ UNCHANGED <<type, errorCount, emitted, labelled, tables, noted, script, analyzed, positions, out>>

AnalyzeFunctions ==
  /\ phase = "functions" /\ work = <<>>
  /\ analyzed < Len(script.functions)
  /\ analyzed' = analyzed + 1
  /\ work' = <<[do |-> "function", f |-> script.functions[analyzed + 1]]>>
  /\ UNCHANGED <<type, errorCount, emitted, labelled, tables, noted, phase, script, positions, out>>

\* Analyze puts the namespace back in the end.
LabelSetting ==
  /\ phase = "functions" /\ work = <<>>
  /\ analyzed = Len(script.functions)
  /\ phase' = "create"
  /\ statement' = [a \in DOMAIN statement |-> SetAddress(statement[a])]
  /\ positions' = [l \in 0 .. labels - 1 |-> Position(l)]
  /\ currentNameSpace' = <<>>
  /\ UNCHANGED <<work, type, errorCount, frames, depth, labelled, variables, functions, currentFunction, noted,
                 script, analyzed, out>>

\* The errors that were counted do not matter.
CreateData ==
  /\ phase = "create"
  /\ phase' = "data"
  /\ out' = Data
  /\ UNCHANGED <<codegen, script, analyzed, positions>>

\* Compile returns, with the compiler cleared, and the host has the data.
Return ==
  /\ phase = "data"
  /\ phase' = "idle"
  /\ script' = NoScript
  /\ analyzed' = 0
  /\ Clear
  /\ variables' = <<>>
  /\ out' = NoData
  /\ UNCHANGED <<work, type, breakIndex, currentNameSpace, currentFunction>>

Next ==
  \/ Generate /\ UNCHANGED <<phase, script, analyzed, positions, out>>
  \/ \E s \in Scripts : Compile(s)
  \/ DeclareFunctions \/ AnalyzeFunctions \/ LabelSetting \/ CreateData \/ Return

Spec == Init /\ [][Next]_vars
-----------------------------------------------------------------------------
(* Properties.  Compile reports errors and returns data all the same; what *)
(* is said of the data is said of scripts without errors.                  *)

Correct == phase = "data" /\ errorCount = 0

\* The types of the state; the labels of functions are labels that were made
\* (RegistFunction).
TypeOK ==
  /\ phase \in {"idle", "values", "functions", "create", "data"}
  /\ analyzed \in 0 .. Len(script.functions)
  /\ type \in {"int", "void", "none"}
  /\ labels \in Nat /\ errorCount \in Nat /\ breakIndex \in Int
  /\ Len(frames) = Len(statement)
  /\ currentFunction.ret \in {0, 1}
  /\ \A i \in DOMAIN functions : functions[i].label \in 0 .. labels - 1

\* Between two functions, and between two scripts, nothing is left of the last
\* one: Function::Analyze, the statements and Clear put back the break label
\* and the tables of variables, also when they met errors.
BetweenFunctions ==
  work = <<>> => breakIndex = -1 /\ Len(variables) = IF phase = "idle" THEN 0 ELSE 1

\* Every label the statements and functions of a script make is set, once: a
\* jump to a label that is not set would go to address 0, and a second place
\* would take the label away from the first (MakeLabel, SetLabel,
\* CalcAddress).
LabelsSetOnce ==
  phase = "functions" /\ analyzed = Len(script.functions) /\ work = <<>> /\ "label" \notin doubts =>
    \A l \in 0 .. labels - 1 : \E i \in DOMAIN places : \A j \in DOMAIN places : places[j].label = l <=> j = i

Out ==
  INSTANCE Bytecode WITH
    CodeSize <- Cardinality(DOMAIN out.bytecode), Code <- out.bytecode,
    Functions <- {out.address[i] : i \in DOMAIN out.address}, Lambdas <- {},
    Arity <- out.arity, Returns <- out.results,
    Captures <- [a \in DOMAIN out.arity |-> 0],
    Owner <- out.owner, MinDepth <- out.depth

\* The data is what the machine's properties are claimed for: nothing pops or
\* addresses a cell the function does not have, calls have their arguments,
\* control stays in its function.
OutputWellFormed == Correct /\ doubts = {} => Out!WellFormed(Len(script.globals))

\* Variables that code may name at the same time have different addresses
\* (BlockIn, ValueTable::Add, Function::Analyze).
LiveVariablesDistinct ==
  \A i, j \in 2 .. Len(variables) : \A v \in variables[i].vars, w \in variables[j].vars :
    v.address = w.address => i = j /\ v = w

\* CreateData gives the host a name for every function, overloaded ones too.
HostFindsEveryFunction ==
  Correct =>
    \A i \in DOMAIN out.address :
      \E k \in DOMAIN out.entryPoints :
        k[1] = functions[i].name /\ Shifted(out.entryPoints[k]) = out.address[i]

\* An argument becomes the parameter at its place, and is checked against that
\* parameter's type (set_arg, Function::Analyze).
ArgumentsChecked ==
  Correct =>
    \A a, p \in notes :
      a.of = "argument" /\ p.of = "parameter" /\ a.f = p.f /\ a.address = p.address =>
        a.is = p.is /\ a.checked = p.is

\* The cells a block reserves are the ones its variables address (AllocStack,
\* BlockIn).
ReservedWhereAddressed == Doing("alloc") /\ errorCount = 0 => depth = variables[Len(variables)].start

\* A name means the variable of the innermost block that has one of the name
\* (GetValueTag).
NamesInnermost ==
  \A name \in {work[i].e.name : i \in {j \in DOMAIN work : j = 1 /\ work[j].do = "push" /\ work[j].e.k = "var"}}
              \cup {work[i].name : i \in {j \in DOMAIN work : j = 1 /\ work[j].do = "store"}} :
    Known(name) =>
      Found(name) = Max(UNION {TablesWith(Append(Prefix(n), name)) : n \in 0 .. Len(currentNameSpace)})

\* A value is taken only where one was left (Node::Push, Statement_return).
ValuesTaken == errorCount = 0 => "value" \notin doubts
=============================================================================
