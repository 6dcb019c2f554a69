------------------------------- MODULE Codegen -------------------------------
(***************************************************************************)
(* Node.cpp, Declaration.cpp and the parts of Compiler.cpp they call: what *)
(* Push, Assign and Analyze of each node of the syntax tree do to the      *)
(* compiler.                                                               *)
(*                                                                         *)
(* The nodes call each other, and work is what is left of the calls in     *)
(* progress: the first of the sequence is made next, and a call of a node  *)
(* is replaced by what that node does, in order.  A call is a record; do   *)
(* names it.                                                               *)
(*                                                                         *)
(* A type is "int", "void" or "none", the -1 of a node that has no type.   *)
(* Classes, enums, references, arrays and function types are left out, and *)
(* with them the casts and the choice among the operators' instructions.   *)
(***************************************************************************)
EXTENDS Syntax, FiniteSets, SequencesExt

CONSTANTS
  Expressions,  \* the expressions of all scripts, with the ones inside them
  Statements    \* their statements, likewise

ASSUME NodesAssumption ==
  /\ Expressions \subseteq ExpressionForms(Expressions)
  /\ \A e \in Expressions : e.k = "incr" => Var(e.name) \in Expressions
  /\ Statements \subseteq StatementForms(Expressions, Statements)

VARIABLES
  work,             \* what is left to do
  type,             \* the type that the last Push returned
  statement,        \* the instructions so far; opcodes are those of Bytecode
  places,           \* the labels that were set, with the number of instructions
                    \* in front of them: their commands have no size
  labels,           \* how many labels were made
  breakIndex,
  errorCount,
  variables,        \* the tables of variables, the globals' first, each with the
                    \* first address it gives out, the next one, and its contents
  functions,        \* the script's functions, in the order they were registered
  currentNameSpace, \* as the sequence of its names
  currentFunction,  \* the place of its tag, and whether it returns a value
  \* For the properties only:
  frames,           \* for each instruction its function, and a number of cells
                    \* that the function has for its own when it gets there
  depth,            \* the same for the next instruction
  notes,            \* how parameters and arguments were numbered
  doubts            \* "value": one was taken where none was left; "label": one was
                    \* set whose number was never assigned

emitted == <<statement, frames, depth>>
labelled == <<labels, places, breakIndex>>
tables == <<variables, functions, currentNameSpace, currentFunction>>
noted == <<notes, doubts>>
codegen == <<work, type, errorCount, emitted, labelled, tables, noted>>

-----------------------------------------------------------------------------
(* What there is to do.                                                    *)

Push(e) == [do |-> "push", e |-> e]
Analyze(s) == [do |-> "analyze", s |-> s]
Emit(op, arg, n) == [do |-> "emit", op |-> op, arg |-> arg, n |-> n]
\* An instruction for the value that the last Push has left.
EmitOn(op, arg, n) == [do |-> "emitOn", op |-> op, arg |-> arg, n |-> n]
Yields(t) == [do |-> "returns", type |-> t]
\* least: cells of its own that the function has however it comes to the label;
\* for the properties only.
SetLabel(label, least) == [do |-> "setLabel", label |-> label, least |-> least]
SetBreakLabel(label) == [do |-> "setBreakLabel", label |-> label]

Doing(what) == work # <<>> /\ work[1].do = what

Then(calls) == work' = calls \o Tail(work)

\* What takes only other calls.
Expand(calls) == Then(calls) /\ UNCHANGED <<type, errorCount, emitted, labelled, tables, noted>>

Error == errorCount' = errorCount + 1

Instruction(op, arg, n) == [op |-> op, arg |-> arg, n |-> n]

\* Instructions of which all but the last leave a cell.
Add(code, after) ==
  /\ statement' = statement \o code
  /\ frames' = frames \o [i \in DOMAIN code |-> [owner |-> currentFunction.tag, depth |-> depth + i - 1]]
  /\ depth' = after

\* What an instruction changes the number of cells by, as long as it stays in its
\* function.
Change(i) ==
  CASE i.op \in {"pushConst", "pushLocal", "pushGlobal"} -> 1
    [] i.op \in {"pop", "popLocal", "popGlobal", "jmpnc"} -> -1
    [] i.op = "oper" -> 1 - i.arg
    [] i.op = "sysCall" -> i.n - i.arg - 1
    [] OTHER -> 0

EmitNext ==
  /\ Doing("emit") \/ Doing("emitOn")
  /\ LET i == Instruction(work[1].op, work[1].arg, work[1].n) IN Add(<<i>>, depth + Change(i))
  /\ doubts' = IF Doing("emitOn") /\ type = "void" THEN doubts \cup {"value"} ELSE doubts
  /\ Then(<<>>)
  /\ UNCHANGED <<type, errorCount, labelled, tables, notes>>

ReturnType ==
  /\ Doing("returns")
  /\ type' = work[1].type
  /\ Then(<<>>)
  /\ UNCHANGED <<errorCount, emitted, labelled, tables, noted>>

Place(label, least) ==
  /\ places' = Append(places, [label |-> label, address |-> Len(statement)])
  /\ depth' = least

SetLabelNext ==
  /\ Doing("setLabel")
  /\ Place(work[1].label, work[1].least)
  /\ Then(<<>>)
  /\ UNCHANGED <<type, errorCount, statement, frames, labels, breakIndex, tables, noted>>

SetBreakLabelNext ==
  /\ Doing("setBreakLabel")
  /\ breakIndex' = work[1].label
  /\ Then(<<>>)
  /\ UNCHANGED <<type, errorCount, emitted, labels, places, tables, noted>>

-----------------------------------------------------------------------------
(* Names.                                                                  *)

\* The n outermost names of the current namespace.
Prefix(n) == SubSeq(currentNameSpace, 1, n)

TablesWith(key) == {i \in DOMAIN variables : \E v \in variables[i].vars : v.name = key}

\* GetValueTag: for each namespace from the inside, every table from the inside.
Spaces(name) == {n \in 0 .. Len(currentNameSpace) : TablesWith(Append(Prefix(n), name)) # {}}

Known(name) == Spaces(name) # {}

Key(name) == Append(Prefix(Max(Spaces(name))), name)

Found(name) == Max(TablesWith(Key(name)))

Tag(name) == CHOOSE v \in variables[Found(name)].vars : v.name = Key(name)

\* GetFunctionTag: the functions of the name with as many parameters, from the
\* inside.
Overloads(name, arity) ==
  {p \in (0 .. Len(currentNameSpace)) \X DOMAIN functions :
     functions[p[2]].name = Append(Prefix(p[1]), name) /\ functions[p[2]].arity = arity}

FindFunction(name, arity) ==
  (CHOOSE p \in Overloads(name, arity) : \A q \in Overloads(name, arity) : q[1] <= p[1])[2]

-----------------------------------------------------------------------------
(* Expressions.                                                            *)

\* Node::Push of the nodes without names.  The instruction of an increment changes
\* the object that the variable's cell holds, and leaves the cell on the stack.
Operation(e) ==
  CASE e.k = "int" -> <<Emit("pushConst", e.v, 0), Yields("int")>>
    [] e.k = "read" -> <<Emit("pushConst", 0, 0), Emit("sysCall", 0, 1), Yields("int")>>
    [] e.k = "print" ->
         <<Emit("pushConst", e.v, 0), Emit("pushConst", 1, 0), Emit("sysCall", 1, 0), Yields("void")>>
    [] e.k = "incr" -> <<Push(Var(e.name)), EmitOn("oper", 1, 0)>>
    [] e.k = "sum" -> <<Push(e.left), [do |-> "right", e |-> e.right]>>
    [] e.k = "not" -> <<Push(e.e), [do |-> "negate", e |-> e.e]>>

PushOperation ==
  /\ Doing("push")
  /\ work[1].e.k \notin {"var", "call"}
  /\ Expand(Operation(work[1].e))

\* Node_value::Push
PushValue ==
  /\ Doing("push")
  /\ work[1].e.k = "var" /\ Known(work[1].e.name)
  /\ LET tag == Tag(work[1].e.name) IN
     Expand(<<Emit(IF tag.isGlobal THEN "pushGlobal" ELSE "pushLocal", tag.address, 0), Yields("int")>>)

\* Neither a variable nor a function of the name.
PushUnknown ==
  /\ Doing("push")
  /\ \/ work[1].e.k = "var" /\ ~Known(work[1].e.name)
     \/ work[1].e.k = "call" /\ Overloads(work[1].e.name, Len(work[1].e.args)) = {}
  /\ Error
  /\ type' = "none"
  /\ Then(<<>>)
  /\ UNCHANGED <<emitted, labelled, tables, noted>>

\* The case of OP_NOT has no return for a number: it goes on as OP_INCREMENT.
\* Of what is not a number, OpNullCheck.
Negate ==
  /\ Doing("negate")
  /\ Expand(IF type = "int"
            THEN <<EmitOn("oper", 1, 1), Push(work[1].e), EmitOn("oper", 1, 0)>>
            ELSE <<EmitOn("oper", 1, 0), EmitOn("oper", 1, 1), Yields("int")>>)

PushRight ==
  /\ Doing("right")
  /\ Expand(<<Push(work[1].e), [do |-> "operator", left |-> type]>>)

\* An operand without type was an error already; with one that has no value no
\* instruction is made, and it is no error.
Operator ==
  /\ Doing("operator")
  /\ LET left == work[1].left IN
     /\ Then(IF {left, type} = {"int"} THEN <<Emit("oper", 2, 0)>> ELSE <<>>)
     /\ type' = IF "none" \in {left, type} THEN "none" ELSE "int"
     /\ doubts' = IF {left, type} = {"void"} THEN doubts \cup {"value"} ELSE doubts
  /\ UNCHANGED <<errorCount, emitted, labelled, tables, notes>>

Arguments(f, e, i) == [do |-> "arguments", f |-> f, e |-> e, i |-> i]

\* Node_functionCall::Push.
PushCall ==
  /\ Doing("push")
  /\ LET e == work[1].e IN
     /\ e.k = "call" /\ Overloads(e.name, Len(e.args)) # {}
     /\ Expand(<<Arguments(FindFunction(e.name, Len(e.args)), e, Len(e.args))>>)

\* The arguments are pushed from the last to the first.
PushArgument ==
  /\ Doing("arguments")
  /\ LET call == work[1] IN
     /\ call.i > 0
     /\ Expand(<<Push(call.e.args[call.i]), [do |-> "setArg", f |-> call.f, i |-> call.i],
                 Arguments(call.f, call.e, call.i - 1)>>)

\* Each argument gets a set_arg of its own, which starts at the last parameter.
SetArg ==
  /\ Doing("setArg")
  /\ LET f == work[1].f
         i == work[1].i
     IN notes' = notes \cup {[of |-> "argument", f |-> f, is |-> i, checked |-> functions[f].arity, address |-> -3 - i]}
  /\ IF type = "int" THEN UNCHANGED errorCount ELSE Error
  /\ Then(<<>>)
  /\ UNCHANGED <<type, emitted, labelled, tables, doubts>>

\* Faulty: the number of arguments is not pushed.
CallFunctionUncounted ==
  /\ Doing("arguments") /\ work[1].i = 0
  /\ LET f == functions[work[1].f] IN
     /\ Add(<<Instruction("call", f.label, 0)>>, depth - f.arity + f.ret)
     /\ type' = IF f.ret = 1 THEN "int" ELSE "void"
  /\ Then(<<>>)
  /\ UNCHANGED <<errorCount, labelled, tables, noted>>

\* The number of the arguments, and the call.
CallFunction ==
  /\ Doing("arguments") /\ work[1].i = 0
  /\ LET f == functions[work[1].f] IN
     /\ Add(<<Instruction("pushConst", Len(work[1].e.args), 0), Instruction("call", f.label, 0)>>,
            depth - f.arity + f.ret)
     /\ type' = IF f.ret = 1 THEN "int" ELSE "void"
  /\ Then(<<>>)
  /\ UNCHANGED <<errorCount, labelled, tables, noted>>

Expression ==
  PushOperation \/ PushValue \/ PushUnknown \/ Negate \/ PushRight \/ Operator
  \/ PushCall \/ PushArgument \/ SetArg \/ CallFunction

-----------------------------------------------------------------------------
(* Statements.                                                             *)

\* The value of a unary statement is dropped only if it is an increment.
AnalyzeUnary ==
  /\ Doing("analyze") /\ work[1].s.k = "unary"
  /\ LET e == work[1].s.e IN
     Expand(IF e.k = "incr" THEN <<Push(e), EmitOn("pop", 0, 0)>> ELSE <<Push(e)>>)

AnalyzeNop == Doing("analyze") /\ work[1].s.k = "nop" /\ Expand(<<>>)

\* Node::Assign.  The name of nothing has a type, void.
AnalyzeAssign ==
  /\ Doing("analyze") /\ work[1].s.k = "assign"
  /\ LET s == work[1].s
         known == Known(s.name)
     IN /\ Then(<<Push(s.e), [do |-> "store", name |-> s.name, left |-> IF known THEN "int" ELSE "void"]>>)
        /\ IF known THEN UNCHANGED errorCount ELSE Error
  /\ UNCHANGED <<type, emitted, labelled, tables, noted>>

\* Node_value::Pop
Store ==
  /\ Doing("store") /\ type = work[1].left
  /\ IF Known(work[1].name)
     THEN LET tag == Tag(work[1].name) IN
          /\ Then(<<Emit(IF tag.isGlobal THEN "popGlobal" ELSE "popLocal", tag.address, 0)>>)
          /\ UNCHANGED errorCount
     ELSE Then(<<>>) /\ Error
  /\ UNCHANGED <<type, emitted, labelled, tables, noted>>

\* A type that does not fit: of those who call Analyze, only the loop of
\* Block::Analyze ends with it.
StoreFails ==
  /\ Doing("store") /\ type # work[1].left
  /\ work' = IF Len(work) > 1 /\ work[2].do = "block" THEN Tail(Tail(work)) ELSE Tail(work)
  /\ Error
  /\ UNCHANGED <<type, emitted, labelled, tables, noted>>

AnalyzeBreak ==
  /\ Doing("analyze") /\ work[1].s.k = "break"
  /\ IF breakIndex < 0 THEN Then(<<>>) /\ Error
     ELSE Then(<<Emit("jmp", breakIndex, 0)>>) /\ UNCHANGED errorCount
  /\ UNCHANGED <<type, emitted, labelled, tables, noted>>

\* CanTypeCast refuses strings only: a function that returns a value may
\* return the result of one that does not.
AnalyzeReturn ==
  /\ Doing("analyze") /\ work[1].s.k = "return"
  /\ LET e == work[1].s.e IN
     /\ Then(CASE currentFunction.ret = 0 -> <<Emit("ret", 0, 0)>>
               [] currentFunction.ret = 1 /\ e = None -> <<Emit("retv", 0, 0)>>
               [] currentFunction.ret = 1 /\ e # None -> <<Push(e), EmitOn("retv", 0, 0)>>)
     /\ IF (currentFunction.ret = 0) = (e = None) THEN UNCHANGED errorCount ELSE Error
  /\ UNCHANGED <<type, emitted, labelled, tables, noted>>

AnalyzeIf ==
  /\ Doing("analyze") /\ work[1].s.k = "if"
  /\ Expand(<<Push(work[1].s.e), [do |-> "then", s |-> work[1].s]>>)

Else(s, label, least) == [do |-> "else", s |-> s, label |-> label, least |-> least]

\* OpNullCheck, of what is not a number.
AnalyzeThen ==
  /\ Doing("then")
  /\ labels' = labels + 1
  /\ Then((IF type = "int" THEN <<>> ELSE <<EmitOn("oper", 1, 0)>>)
          \o <<EmitOn("jmpnc", labels, 0), Analyze(work[1].s.then),
               Else(work[1].s.else, labels, depth - 1)>>)
  /\ UNCHANGED <<type, errorCount, emitted, places, breakIndex, tables, noted>>

\* Faulty: without an else the label is forgotten.
AnalyzeElseForgets ==
  /\ Doing("else")
  /\ IF work[1].s = None THEN Then(<<>>) /\ UNCHANGED labels
     ELSE /\ labels' = labels + 1
          /\ Then(<<Emit("jmp", labels, 0), SetLabel(work[1].label, work[1].least), Analyze(work[1].s),
                 SetLabel(labels, work[1].least)>>)
  /\ UNCHANGED <<type, errorCount, emitted, places, breakIndex, tables, noted>>

AnalyzeElse ==
  /\ Doing("else")
  /\ IF work[1].s = None THEN Then(<<SetLabel(work[1].label, work[1].least)>>) /\ UNCHANGED labels
     ELSE /\ labels' = labels + 1
          /\ Then(<<Emit("jmp", labels, 0), SetLabel(work[1].label, work[1].least), Analyze(work[1].s),
                 SetLabel(labels, work[1].least)>>)
  /\ UNCHANGED <<type, errorCount, emitted, places, breakIndex, tables, noted>>

\* The first and third expression of a for statement.
Part(s) ==
  CASE s.k = "none" -> <<>>
    [] s.k = "assign" -> <<Analyze(s)>>
    [] s.k = "unary" -> <<Push(s.e)>>

\* Faulty: the condition is tested before the label is set.
LoopTestsOnce(init, e, step, body, label1, label2) ==
  Part(init) \o <<Push(e), EmitOn("jmpnc", label2, 0), SetLabel(label1, depth), Analyze(body)>>
    \o Part(step) \o <<Emit("jmp", label1, 0), SetLabel(label2, depth), SetBreakLabel(breakIndex)>>

\* Faulty: the label of the loop around is not put back.
LoopKeepsLabel(init, e, step, body, label1, label2) ==
  Part(init) \o <<SetLabel(label1, depth), Push(e), EmitOn("jmpnc", label2, 0), Analyze(body)>>
    \o Part(step) \o <<Emit("jmp", label1, 0), SetLabel(label2, depth)>>

\* while and for.  The value the third expression pushes stays on the stack.
LoopCode(init, e, step, body, label1, label2) ==
  Part(init) \o <<SetLabel(label1, depth), Push(e), EmitOn("jmpnc", label2, 0), Analyze(body)>>
    \o Part(step) \o <<Emit("jmp", label1, 0), SetLabel(label2, depth), SetBreakLabel(breakIndex)>>

AnalyzeLoop ==
  /\ Doing("analyze") /\ work[1].s.k \in {"while", "for"}
  /\ LET s == work[1].s IN
     Then(IF s.k = "while" THEN LoopCode(None, s.e, None, s.body, labels, labels + 1)
          ELSE LoopCode(s.init, s.e, s.step, s.body, labels, labels + 1))
  /\ labels' = labels + 2
  /\ breakIndex' = labels + 1
  /\ UNCHANGED <<type, errorCount, emitted, places, tables, noted>>

AnalyzeSwitch ==
  /\ Doing("analyze") /\ work[1].s.k = "switch"
  /\ LET s == work[1].s IN
     Expand(IF s.items = <<>> THEN <<>> ELSE <<Push(s.e), [do |-> "cases", items |-> s.items]>>)

\* No case or default says what it is in front of the jump (the Case_Analyze of
\* Statement is called, and no class overrides it): the default label is the
\* end's.
AnalyzeCases ==
  /\ Doing("cases")
  /\ LET items == work[1].items IN
     Then(<<EmitOn("pop", 0, 0), Emit("jmp", labels, 0)>> \o [i \in DOMAIN items |-> Analyze(items[i])]
          \o <<SetLabel(labels, depth - 1), SetBreakLabel(breakIndex)>>)
  /\ labels' = labels + 1
  /\ breakIndex' = labels
  /\ UNCHANGED <<type, errorCount, emitted, places, tables, noted>>

\* A case or default sets the label its label_ holds.
AnalyzeCase ==
  /\ Doing("analyze") /\ work[1].s.k \in {"case", "default"}
  /\ Then(<<SetLabel(work[1].s.label, depth)>>)
  /\ doubts' = doubts \cup {"label"}
  /\ UNCHANGED <<type, errorCount, emitted, labelled, tables, notes>>

-----------------------------------------------------------------------------
(* Blocks.                                                                 *)

ValueTable(start) == [start |-> start, next |-> start, vars |-> {}]

\* Faulty: the variables of every block start at the bottom of the frame.
BlockInAtBottom(isSubFunction) == variables' = Append(variables, ValueTable(0))

\* A block goes on with the addresses of the block around it; a function starts
\* at 0.
BlockIn(isSubFunction) ==
  variables' = Append(variables, ValueTable(IF Len(variables) > 1 /\ ~isSubFunction
                                            THEN variables[Len(variables)].next ELSE 0))

\* ValueTable::Add and add_arg, in the innermost table: a name that the table
\* has is an error, and add_arg gives out no address.
Define(key, address, isLocal) ==
  LET last == Len(variables)
      table == variables[last]
      tag == [name |-> key, address |-> address, isGlobal |-> last = 1]
  IN IF \E v \in table.vars : v.name = key THEN Error /\ UNCHANGED variables
     ELSE /\ variables' = [variables EXCEPT ![last] =
               [start |-> table.start, next |-> IF isLocal THEN table.next + 1 ELSE table.next,
                vars |-> table.vars \cup {tag}]]
          /\ UNCHANGED errorCount

AddValue(name) == Define(Append(currentNameSpace, name), variables[Len(variables)].next, TRUE)

DefineValue ==
  /\ Doing("define")
  /\ AddValue(work[1].name)
  /\ Then(<<>>)
  /\ UNCHANGED <<type, emitted, labelled, functions, currentNameSpace, currentFunction, noted>>

\* Block::Analyze, the declarations and then the statements.
Body(block) ==
  [i \in DOMAIN block.decls |-> [do |-> "define", name |-> block.decls[i]]]
    \o <<[do |-> IF block.decls = <<>> THEN "block" ELSE "alloc", items |-> block.items]>>

\* One instruction for each variable of the innermost table that has an address of
\* its own.
AllocStack ==
  /\ Doing("alloc")
  /\ LET table == variables[Len(variables)] IN
     Add([v \in 1 .. table.next - table.start |-> Instruction("alloc", 0, 0)], depth + table.next - table.start)
  /\ Then(<<[work[1] EXCEPT !.do = "block"]>>)
  /\ UNCHANGED <<type, errorCount, labelled, tables, noted>>

AnalyzeAll ==
  /\ Doing("block")
  /\ LET items == work[1].items IN
     Expand(IF items = <<>> THEN <<>> ELSE <<Analyze(Head(items)), [do |-> "block", items |-> Tail(items)]>>)

AnalyzeBlock ==
  /\ Doing("analyze") /\ work[1].s.k = "block"
  /\ BlockIn(FALSE)
  /\ Then(Body(work[1].s) \o <<[do |-> "blockOut"]>>)
  /\ UNCHANGED <<type, errorCount, emitted, labelled, functions, currentNameSpace, currentFunction, noted>>

BlockOut ==
  /\ Doing("blockOut")
  /\ variables' = Front(variables)
  /\ Then(<<>>)
  /\ UNCHANGED <<type, errorCount, emitted, labelled, functions, currentNameSpace, currentFunction, noted>>

Statement ==
  AnalyzeUnary \/ AnalyzeNop \/ AnalyzeAssign \/ Store \/ StoreFails \/ AnalyzeBreak \/ AnalyzeReturn
  \/ AnalyzeIf \/ AnalyzeThen \/ AnalyzeElse \/ AnalyzeLoop \/ AnalyzeSwitch \/ AnalyzeCases \/ AnalyzeCase
  \/ DefineValue \/ AllocStack \/ AnalyzeAll \/ AnalyzeBlock \/ BlockOut

-----------------------------------------------------------------------------
(* Functions.                                                              *)

Registered(f) ==
  {i \in DOMAIN functions : functions[i].name = Append(f.ns, f.name) /\ functions[i].arity = Len(f.params)}

\* Faulty: the function's label is not counted.
RegistFunctionUncounted ==
  /\ Doing("regist")
  /\ LET f == work[1].f IN
     functions' = IF Registered(f) # {} THEN functions
                  ELSE Append(functions, [name |-> Append(f.ns, f.name), arity |-> Len(f.params), ret |-> f.ret,
                                          label |-> labels, isDefinition |-> FALSE])
  /\ Then(<<>>)
  /\ UNCHANGED <<type, errorCount, emitted, labelled, variables, currentNameSpace, currentFunction, noted>>

\* A second function of the name and the same parameters gets no tag of its own.
RegistFunction ==
  /\ Doing("regist")
  /\ LET f == work[1].f IN
     IF Registered(f) # {} THEN UNCHANGED <<functions, labels>>
     ELSE /\ functions' = Append(functions, [name |-> Append(f.ns, f.name), arity |-> Len(f.params), ret |-> f.ret,
                                             label |-> labels, isDefinition |-> FALSE])
          /\ labels' = labels + 1
  /\ Then(<<>>)
  /\ UNCHANGED <<type, errorCount, emitted, places, breakIndex, variables, currentNameSpace, currentFunction, noted>>

\* Function::Analyze.  The parameters, from the last to the first, downwards from
\* -4; then the body.
AnalyzeFunction ==
  /\ Doing("function")
  /\ LET f == work[1].f
         i == CHOOSE j \in Registered(f) : TRUE
         n == Len(f.params)
     IN /\ currentNameSpace' = Append(f.ns, f.name)
        /\ IF functions[i].isDefinition
           THEN Error /\ Then(<<>>) /\ UNCHANGED <<functions, currentFunction, variables, places, depth>>
           ELSE /\ functions' = [functions EXCEPT ![i].isDefinition = TRUE]
                /\ currentFunction' = [tag |-> i, ret |-> f.ret]
                /\ Place(functions[i].label, 0)
                /\ BlockIn(TRUE)
                /\ Then([p \in 1 .. n |-> [do |-> "parameter", f |-> i, is |-> n + 1 - p, name |-> f.params[n + 1 - p]]]
                        \o Body(f.body) \o <<[do |-> "close"], [do |-> "blockOut"]>>)
                /\ UNCHANGED errorCount
  /\ UNCHANGED <<type, statement, frames, labels, breakIndex, noted>>

\* The names of parameters belong to no namespace.
AddArgument ==
  /\ Doing("parameter")
  /\ LET p == work[1]
         address == -4 - (functions[p.f].arity - p.is)
     IN /\ Define(<<p.name>>, address, FALSE)
        /\ notes' = notes \cup {[of |-> "parameter", f |-> p.f, is |-> p.is, address |-> address]}
  /\ Then(<<>>)
  /\ UNCHANGED <<type, emitted, labelled, functions, currentNameSpace, currentFunction, doubts>>

\* The last command, which may be a label's.
LastCommand ==
  IF places # <<>> /\ places[Len(places)].address = Len(statement) THEN "label"
  ELSE statement[Len(statement)].op

\* The instruction that closes a function: added to one without result, asked of
\* one with.
CloseFunction ==
  /\ Doing("close")
  /\ Then(IF currentFunction.ret = 0 /\ LastCommand # "ret" THEN <<Emit("ret", 0, 0)>> ELSE <<>>)
  /\ IF currentFunction.ret = 1 /\ LastCommand # "retv" THEN Error ELSE UNCHANGED errorCount
  /\ UNCHANGED <<type, emitted, labelled, tables, noted>>

\* A global; one whose name is taken is an error, and its cell is allocated all the
\* same.
DefineGlobal ==
  /\ Doing("global")
  /\ LET key == Append(work[1].g.ns, work[1].g.name) IN Define(key, variables[Len(variables)].next, TRUE)
  /\ currentNameSpace' = work[1].g.ns
  /\ Add(<<Instruction("alloc", 0, 0)>>, depth + 1)
  /\ Then(<<>>)
  /\ UNCHANGED <<type, labelled, functions, currentFunction, noted>>

Declarations == RegistFunction \/ AnalyzeFunction \/ AddArgument \/ CloseFunction \/ DefineGlobal

Generate ==
  EmitNext \/ ReturnType \/ SetLabelNext \/ SetBreakLabelNext \/ Expression \/ Statement \/ Declarations
=============================================================================
