--------------------------- MODULE CompilerProofs ---------------------------
(***************************************************************************)
(* Theorems of module Compiler, for every set of scripts.                  *)
(*                                                                         *)
(* The calls that are pending make the state hard to describe: what is     *)
(* true between two functions is true because each call leaves behind what *)
(* the next one needs.  The invariant Sound says so of all of work:        *)
(*   Typed     the types of the state and of the pending calls;            *)
(*   InPlace   with each call goes a number of tables and a break label;   *)
(*             the one in front leaves behind those of the next, and the   *)
(*             last leaves one table and no break label;                   *)
(*   Stages    what is left between the passes;                            *)
(*   Callees   a call that names a function names one that is registered;  *)
(*   Registry  a name and a number of parameters have one tag, and every   *)
(*             function without code is still to come;                     *)
(*   Bounded   the labels of functions are labels that were made.          *)
(***************************************************************************)
EXTENDS Compiler, FiniteSetTheorems, WellFoundedInduction, SequenceTheorems, TLAPS

-----------------------------------------------------------------------------

(* The types of the state.                                                 *)

Types == {"int", "void", "none"}

Opcodes == {"halt", "pushConst", "pushLocal", "pushGlobal", "alloc", "popLocal", "popGlobal", "pop", "oper",
            "sysCall", "jmp", "jmpnc", "call", "ret", "retv"}

Instructions == [op : Opcodes, arg : Int, n : {0, 1}]

ExpressionCalls ==
  [do : {"push", "right", "negate"}, e : Expressions] \cup [do : {"operator"}, left : Types]
    \cup [do : {"returns"}, type : Types] \cup [do : {"emit", "emitOn"}, op : Opcodes, arg : Int, n : {0, 1}]
    \cup [do : {"arguments"}, f : Nat, e : {e \in Expressions : e.k = "call"}, i : Nat] \cup [do : {"setArg"}, f : Nat, i : Nat]

StatementCalls ==
  [do : {"analyze"}, s : Statements] \cup [do : {"then"}, s : {s \in Statements : s.k = "if"}] \cup [do : {"store"}, name : STRING, left : Types]
    \cup [do : {"else"}, s : Statements \cup {None}, label : Int, least : Int]
    \cup [do : {"setLabel"}, label : Int, least : Int] \cup [do : {"setBreakLabel"}, label : Int]
    \cup [do : {"cases", "alloc", "block"}, items : Seq(Statements)]
    \cup [do : {"define"}, name : STRING] \cup [do : {"blockOut"}]

DeclarationCalls ==
  [do : {"regist", "function"}, f : FunctionForms(Statements)] \cup [do : {"global"}, g : Globals]
    \cup [do : {"parameter"}, f : Nat, is : Nat, name : STRING] \cup [do : {"close"}]

Calls == ExpressionCalls \cup StatementCalls \cup DeclarationCalls

FunctionTags == [name : Seq(STRING), arity : Nat, ret : {0, 1}, label : Nat, isDefinition : BOOLEAN]

Variables == [name : Seq(STRING), address : Int, isGlobal : BOOLEAN]

ValueTables == [start : Nat, next : Nat, vars : SUBSET Variables]

\* The types of the whole state.
Typed ==
  /\ work \in Seq(Calls) /\ type \in Types
  /\ statement \in Seq(Instructions)
  /\ places \in Seq([label : Int, address : Nat])
  /\ labels \in Nat /\ breakIndex \in Int /\ errorCount \in Nat
  /\ variables \in Seq(ValueTables)
  /\ functions \in Seq(FunctionTags)
  /\ currentNameSpace \in Seq(STRING)
  /\ currentFunction \in [tag : Nat, ret : {0, 1}]
  /\ frames \in Seq([owner : Nat, depth : Int]) /\ Len(frames) = Len(statement)
  /\ depth \in Int
  /\ doubts \subseteq {"value", "label"}
  /\ phase \in {"idle", "values", "functions", "create", "data"}
  /\ script \in [globals : Seq(Globals), functions : Seq(FunctionForms(Statements))]
  /\ analyzed \in 0 .. Len(script.functions)

-----------------------------------------------------------------------------
(* Nodes and calls. *)

\* What the nodes of a script consist of.
LEMMA ExpressionParts ==
  ASSUME NEW e \in Expressions
  PROVE  /\ e.k \in {"int", "print", "var", "incr", "read", "sum", "not", "call"}
         /\ e.k \in {"int", "print"} => e.v \in Nat
         /\ e.k \in {"var", "incr"} => e.name \in STRING
         /\ e.k = "incr" => Var(e.name) \in Expressions
         /\ e.k = "sum" => e.left \in Expressions /\ e.right \in Expressions
         /\ e.k = "not" => e.e \in Expressions
         /\ e.k = "call" => e.name \in STRING /\ e.args \in Seq(Expressions)
BY NodesAssumption DEF ExpressionForms

LEMMA StatementParts ==
  ASSUME NEW s \in Statements
  PROVE  /\ s.k \in {"nop", "break", "assign", "unary", "return", "if", "while", "for", "switch", "case", "default",
                     "block"}
         /\ s.k = "assign" => s.name \in STRING
         /\ s.k \in {"assign", "unary", "if", "while", "for", "switch"} => s.e \in Expressions
         /\ s.k = "return" => s.e \in Expressions \cup {None}
         /\ s.k = "if" => s.then \in Statements /\ s.else \in Statements \cup {None}
         /\ s.k \in {"while", "for"} => s.body \in Statements
         /\ s.k = "for" => /\ s.init \in Statements \cup {None} /\ IsPart(s.init)
                           /\ s.step \in Statements \cup {None} /\ IsPart(s.step)
         /\ s.k \in {"switch", "block"} => s.items \in Seq(Statements)
         /\ s.k = "block" => s.decls \in Seq(STRING)
         /\ s.k \in {"case", "default"} => s.label \in Int
BY NodesAssumption DEF StatementForms

\* What a pending call consists of, and which records are pending calls.
LEMMA CallParts ==
  ASSUME NEW c \in Calls
  PROVE  /\ c.do \in {"push", "right", "negate"} => c.e \in Expressions
         /\ c.do = "operator" => c.left \in Types
         /\ c.do = "returns" => c.type \in Types
         /\ c.do \in {"emit", "emitOn"} => c.op \in Opcodes /\ c.arg \in Int /\ c.n \in {0, 1}
         /\ c.do = "arguments" => c.f \in Nat /\ c.e \in Expressions /\ c.e.k = "call" /\ c.i \in Nat
         /\ c.do = "setArg" => c.f \in Nat /\ c.i \in Nat
         /\ c.do \in {"analyze", "then"} => c.s \in Statements
         /\ c.do = "then" => c.s.k = "if"
         /\ c.do = "store" => c.name \in STRING /\ c.left \in Types
         /\ c.do = "else" => c.s \in Statements \cup {None} /\ c.label \in Int /\ c.least \in Int
         /\ c.do = "setLabel" => c.label \in Int /\ c.least \in Int
         /\ c.do = "setBreakLabel" => c.label \in Int
         /\ c.do \in {"cases", "alloc", "block"} => c.items \in Seq(Statements)
         /\ c.do = "define" => c.name \in STRING
         /\ c.do \in {"regist", "function"} => c.f \in FunctionForms(Statements)
         /\ c.do = "global" => c.g \in Globals
         /\ c.do = "parameter" => c.f \in Nat /\ c.is \in Nat /\ c.name \in STRING
BY DEF Calls, ExpressionCalls, StatementCalls, DeclarationCalls

LEMMA CallTypes ==
  /\ \A e \in Expressions : /\ Push(e) \in Calls
                            /\ [do |-> "right", e |-> e] \in Calls
                            /\ [do |-> "negate", e |-> e] \in Calls
  /\ \A t \in Types : [do |-> "operator", left |-> t] \in Calls /\ Yields(t) \in Calls
  /\ \A op \in Opcodes, arg \in Int, n \in {0, 1} : Emit(op, arg, n) \in Calls /\ EmitOn(op, arg, n) \in Calls
  /\ \A f \in Nat, e \in {x \in Expressions : x.k = "call"}, i \in Nat : Arguments(f, e, i) \in Calls
  /\ \A f \in Nat, i \in Nat : [do |-> "setArg", f |-> f, i |-> i] \in Calls
  /\ \A s \in Statements : Analyze(s) \in Calls /\ (s.k = "if" => [do |-> "then", s |-> s] \in Calls)
  /\ \A n \in STRING, t \in Types : [do |-> "store", name |-> n, left |-> t] \in Calls
  /\ \A s \in Statements \cup {None}, l \in Int, n \in Int : Else(s, l, n) \in Calls
  /\ \A l \in Int, n \in Int : SetLabel(l, n) \in Calls
  /\ \A l \in Int : SetBreakLabel(l) \in Calls
  /\ \A x \in {"cases", "alloc", "block"}, items \in Seq(Statements) : [do |-> x, items |-> items] \in Calls
  /\ \A n \in STRING : [do |-> "define", name |-> n] \in Calls
  /\ \A x \in {"blockOut", "close"} : [do |-> x] \in Calls
  /\ \A x \in {"regist", "function"}, f \in FunctionForms(Statements) : [do |-> x, f |-> f] \in Calls
  /\ \A g \in Globals : [do |-> "global", g |-> g] \in Calls
  /\ \A f \in Nat, i \in Nat, n \in STRING : [do |-> "parameter", f |-> f, is |-> i, name |-> n] \in Calls
<1>1.
  /\ \A e \in Expressions : /\ Push(e) \in ExpressionCalls
                            /\ [do |-> "right", e |-> e] \in ExpressionCalls
                            /\ [do |-> "negate", e |-> e] \in ExpressionCalls
  /\ \A t \in Types : [do |-> "operator", left |-> t] \in ExpressionCalls /\ Yields(t) \in ExpressionCalls
  /\ \A op \in Opcodes, arg \in Int, n \in {0, 1} :
       Emit(op, arg, n) \in ExpressionCalls /\ EmitOn(op, arg, n) \in ExpressionCalls
  /\ \A f \in Nat, e \in {x \in Expressions : x.k = "call"}, i \in Nat : Arguments(f, e, i) \in ExpressionCalls
  /\ \A f \in Nat, i \in Nat : [do |-> "setArg", f |-> f, i |-> i] \in ExpressionCalls
  BY DEF ExpressionCalls, Push, Yields, Emit, EmitOn, Arguments
<1>2.
  /\ \A s \in Statements : Analyze(s) \in StatementCalls /\ (s.k = "if" => [do |-> "then", s |-> s] \in StatementCalls)
  /\ \A n \in STRING, t \in Types : [do |-> "store", name |-> n, left |-> t] \in StatementCalls
  /\ \A s \in Statements \cup {None}, l \in Int, n \in Int : Else(s, l, n) \in StatementCalls
  /\ \A l \in Int, n \in Int : SetLabel(l, n) \in StatementCalls
  /\ \A l \in Int : SetBreakLabel(l) \in StatementCalls
  /\ \A x \in {"cases", "alloc", "block"}, items \in Seq(Statements) : [do |-> x, items |-> items] \in StatementCalls
  /\ \A n \in STRING : [do |-> "define", name |-> n] \in StatementCalls
  /\ [do |-> "blockOut"] \in StatementCalls
  BY DEF StatementCalls, Analyze, Else, SetLabel, SetBreakLabel
<1>3.
  /\ [do |-> "close"] \in DeclarationCalls
  /\ \A x \in {"regist", "function"}, f \in FunctionForms(Statements) : [do |-> x, f |-> f] \in DeclarationCalls
  /\ \A g \in Globals : [do |-> "global", g |-> g] \in DeclarationCalls
  /\ \A f \in Nat, i \in Nat, n \in STRING : [do |-> "parameter", f |-> f, is |-> i, name |-> n] \in DeclarationCalls
  BY DEF DeclarationCalls
<1> QED BY <1>1, <1>2, <1>3 DEF Calls

\* A sequence whose first element is replaced by others.
LEMMA Spliced ==
  ASSUME NEW S, NEW w \in Seq(S), w # <<>>, NEW c \in Seq(S), NEW r, r = c \o Tail(w)
  PROVE  /\ r \in Seq(S)
         /\ Len(r) = Len(c) + Len(w) - 1
         /\ DOMAIN r = 1 .. Len(r) /\ Len(w) >= 1 /\ Len(c) \in Nat /\ Len(r) \in Nat /\ Len(w) \in Nat
         /\ \A i \in 1 .. Len(c) : r[i] = c[i]
         /\ \A i \in 2 .. Len(w) : r[Len(c) + i - 1] = w[i]
         /\ \A j \in Len(c) + 1 .. Len(r) : j - Len(c) + 1 \in 2 .. Len(w) /\ r[j] = w[j - Len(c) + 1]
OBVIOUS

-----------------------------------------------------------------------------
(* Names.                                                                  *)

\* Max of a set of numbers, over the library's order of the naturals.
Less == {ss \in Nat \X Nat : ss[1] < ss[2]}

LEMMA HasMax ==
  ASSUME NEW n \in Nat, NEW S \in SUBSET (0 .. n), S # {}
  PROVE  /\ Max(S) \in S
         /\ \A x \in S : x <= Max(S)
  <1> DEFINE T == {n - x : x \in S}
  <1>1. IsWellFoundedOn(Less, Nat) BY NatLessThanWellFounded, Zenon DEF OpToRel, Less
  <1>0. \A x \in S : x \in Nat /\ n - x \in Nat OBVIOUS
  <1>2. T \in SUBSET Nat /\ T # {} BY <1>0
  <1>3. PICK x \in T : \A y \in T : <<y, x>> \notin Less BY <1>1, <1>2, WFMin, Zenon
  <1>4. \A y \in T : <<y, x>> \in Less <=> y < x BY <1>2 DEF Less
  <1>5. \A y \in T : ~(y < x) BY <1>3, <1>4
  <1>6. PICK m \in S : x = n - m OBVIOUS
  <1>7. \A y \in S : n - y \in T OBVIOUS
  <1>8. \A y \in S : m >= y
    <2> TAKE y \in S
    <2>1. ~(n - y < n - m) BY <1>5, <1>6, <1>7
    <2> HIDE DEF T
    <2> QED BY <2>1, <1>0
  <1>9. /\ Max(S) \in S
        /\ \A y \in S : Max(S) >= y
    BY <1>8 DEF Max
  <1> QED BY <1>9

\* The calls that need a function that is there.
Callee(c) ==
  /\ c.do \in {"arguments", "setArg", "parameter"} => c.f \in DOMAIN functions
  /\ c.do = "arguments" => c.i <= Len(c.e.args) /\ Len(c.e.args) = functions[c.f].arity

Callees == \A i \in DOMAIN work : Callee(work[i])

Quiet == {"push", "right", "negate", "operator", "returns", "emit", "emitOn", "arguments", "setArg", "analyze", "then",
          "store", "cases", "define", "alloc", "block", "close"}

\* Calls that leave the level, the labels and the functions alone.
Calm(c) ==
  /\ c \in Seq(Calls)
  /\ \A i \in DOMAIN c : c[i].do \in Quiet
  /\ \A i \in DOMAIN c : Callee(c[i])

\* A name that GetValueTag finds is in a table (GetValueTag).
LEMMA Looked ==
  ASSUME Typed, NEW name \in STRING, Known(name)
  PROVE  /\ Found(name) \in DOMAIN variables
         /\ Tag(name) \in variables[Found(name)].vars
         /\ Tag(name).name = Key(name)
         /\ Tag(name).address \in Int
  <1> DEFINE n == Len(currentNameSpace)
  <1>1. n \in Nat /\ Spaces(name) \in SUBSET (0 .. n) /\ Spaces(name) # {} BY DEF Typed, Spaces, Known
  <1>2. Max(Spaces(name)) \in Spaces(name) BY <1>1, HasMax, Zenon
  <1>3. TablesWith(Key(name)) # {} BY <1>2 DEF Spaces, Key
  <1>4. Len(variables) \in Nat /\ TablesWith(Key(name)) \in SUBSET (0 .. Len(variables)) BY DEF TablesWith, Typed
  <1>5. Found(name) \in TablesWith(Key(name)) BY <1>3, <1>4, HasMax, Zenon DEF Found
  <1>6. Found(name) \in DOMAIN variables /\ \E v \in variables[Found(name)].vars : v.name = Key(name)
    BY <1>5 DEF TablesWith
  <1>7. Tag(name) \in variables[Found(name)].vars /\ Tag(name).name = Key(name) BY <1>6, Zenon DEF Tag
  <1>8. variables[Found(name)] \in ValueTables BY <1>6 DEF Typed
  <1> QED BY <1>6, <1>7, <1>8 DEF ValueTables, Variables

\* A function that GetFunctionTag finds is registered and has as many parameters
\* as it was given arguments (GetFunctionTag).
LEMMA Resolved ==
  ASSUME Typed, NEW name \in STRING, NEW arity \in Nat, Overloads(name, arity) # {}
  PROVE  /\ FindFunction(name, arity) \in DOMAIN functions
         /\ functions[FindFunction(name, arity)].arity = arity
  <1> DEFINE O == Overloads(name, arity)
             S == {p[1] : p \in O}
             n == Len(currentNameSpace)
  <1>1. n \in Nat /\ S \in SUBSET (0 .. n) /\ S # {} BY DEF Typed, Overloads
  <1>2. Max(S) \in S /\ \A x \in S : x <= Max(S) BY <1>1, HasMax, Zenon
  <1>3. \E p \in O : \A q \in O : q[1] <= p[1] BY <1>2, Zenon
  <1>4. \A p \in O : p[2] \in DOMAIN functions /\ functions[p[2]].arity = arity BY DEF Overloads
  <1> HIDE DEF O
  <1>5. (CHOOSE p \in O : \A q \in O : q[1] <= p[1]) \in O BY <1>3, Zenon
  <1>6. FindFunction(name, arity) = (CHOOSE p \in O : \A q \in O : q[1] <= p[1])[2] BY Zenon DEF FindFunction, O
  <1> QED BY <1>4, <1>5, <1>6, Zenon

-----------------------------------------------------------------------------
(* The steps that make no label, open no table and begin no function.      *)

\* A step that puts calm calls in the place of a call of that kind.
QuietStep ==
  /\ Typed'
  /\ work # <<>> /\ work[1].do \in Quiet \cup {"global", "parameter"}
  /\ \E c : Calm(c) /\ work' = c \o Tail(work) /\ (c = <<>> \/ work[1].do \in Quiet \ {"emit"})
  /\ UNCHANGED <<labels, places, breakIndex, functions, currentFunction, phase, script, analyzed>>
  /\ Len(variables') = Len(variables)

\* Codegen leaves the state of the passes alone.
Fixed == UNCHANGED <<phase, script, analyzed>>

\* Calls that are written out.
LEMMA HeadParts ==
  ASSUME Typed, work # <<>>
  PROVE  work[1] \in Calls
BY DEF Typed

LEMMA NoCalls == Calm(<<>>)
BY DEF Calm

LEMMA OneCall ==
  ASSUME NEW x \in Calls, x.do \in Quiet, Callee(x)
  PROVE  Calm(<<x>>)
BY DEF Calm

LEMMA TwoCalls ==
  ASSUME NEW x \in Calls, x.do \in Quiet, Callee(x),
         NEW y \in Calls, y.do \in Quiet, Callee(y)
  PROVE  Calm(<<x, y>>)
BY DEF Calm

LEMMA ThreeCalls ==
  ASSUME NEW x \in Calls, x.do \in Quiet, Callee(x),
         NEW y \in Calls, y.do \in Quiet, Callee(y),
         NEW z \in Calls, z.do \in Quiet, Callee(z)
  PROVE  Calm(<<x, y, z>>)
BY DEF Calm

LEMMA Continued ==
  ASSUME Typed, work # <<>>, NEW c, Calm(c), work' = c \o Tail(work)
  PROVE  work' \in Seq(Calls)
BY DEF Typed, Calm

\* Actions that change nothing but work.
LEMMA Expanded ==
  ASSUME Typed, work # <<>>, work[1].do \in Quiet \ {"emit"}, NEW c, Calm(c), Expand(c), Fixed
  PROVE  QuietStep
  <1>1. work' = c \o Tail(work) BY DEF Expand, Then
  <1>2. work' \in Seq(Calls) BY <1>1, Continued
  <1>3. Typed' BY <1>2 DEF Typed, Expand, Fixed, emitted, labelled, tables, noted
  <1>4. Len(variables') = Len(variables) BY DEF Expand, tables
  <1>5. UNCHANGED <<labels, places, breakIndex, functions, currentFunction, phase, script, analyzed>>
    BY DEF Expand, Fixed, labelled, tables
  <1> QED BY <1>1, <1>3, <1>4, <1>5, Zenon DEF QuietStep

\* Each action of Node::Push is such a step.
LEMMA QuietPushOperation ==
  ASSUME Typed, Fixed, PushOperation
  PROVE  QuietStep
  <1> DEFINE e == work[1].e
  <1>1. work # <<>> /\ work[1].do = "push" /\ e.k \notin {"var", "call"} /\ Expand(Operation(e))
    BY DEF PushOperation, Doing
  <1>2. e \in Expressions BY <1>1, HeadParts, CallParts
  <1>3. Calm(Operation(e))
    <2>1. CASE e.k = "int"
      <3>1. Operation(e) = <<Emit("pushConst", e.v, 0), Yields("int")>> BY <2>1 DEF Operation
      <3>2. Emit("pushConst", e.v, 0) \in Calls /\ Yields("int") \in Calls
        BY <2>1, <1>2, ExpressionParts, CallTypes DEF Opcodes, Types
      <3> QED BY <3>1, <3>2, TwoCalls DEF Emit, Yields, Quiet, Callee
    <2>2. CASE e.k = "read"
      <3>1. Operation(e) = <<Emit("pushConst", 0, 0), Emit("sysCall", 0, 1), Yields("int")>> BY <2>2 DEF Operation
      <3>2. Emit("pushConst", 0, 0) \in Calls /\ Emit("sysCall", 0, 1) \in Calls /\ Yields("int") \in Calls
        BY CallTypes DEF Opcodes, Types
      <3> QED BY <3>1, <3>2, ThreeCalls DEF Emit, Yields, Quiet, Callee
    <2>3. CASE e.k = "print"
      <3>1. Operation(e) =
         <<Emit("pushConst", e.v, 0), Emit("pushConst", 1, 0), Emit("sysCall", 1, 0), Yields("void")>>
        BY <2>3 DEF Operation
      <3>2. /\ Emit("pushConst", e.v, 0) \in Calls /\ Emit("pushConst", 1, 0) \in Calls
            /\ Emit("sysCall", 1, 0) \in Calls /\ Yields("void") \in Calls
        BY <2>3, <1>2, ExpressionParts, CallTypes DEF Opcodes, Types
      <3>3. /\ Emit("pushConst", e.v, 0).do = "emit" /\ Emit("pushConst", 1, 0).do = "emit"
            /\ Emit("sysCall", 1, 0).do = "emit" /\ Yields("void").do = "returns"
        BY DEF Emit, Yields
      <3> QED BY <3>1, <3>2, <3>3 DEF Calm, Quiet, Callee
    <2>4. CASE e.k = "incr"
      <3>1. Operation(e) = <<Push(Var(e.name)), EmitOn("oper", 1, 0)>> BY <2>4 DEF Operation
      <3>0. Var(e.name) \in Expressions BY <2>4, <1>2, ExpressionParts
      <3>1a. Push(Var(e.name)) \in Calls BY <3>0, CallTypes
      <3>2. Push(Var(e.name)) \in Calls /\ EmitOn("oper", 1, 0) \in Calls
        BY <3>1a, CallTypes DEF Opcodes
      <3> QED BY <3>1, <3>2, TwoCalls DEF Push, EmitOn, Quiet, Callee
    <2>5. CASE e.k = "sum"
      <3>1. Operation(e) = <<Push(e.left), [do |-> "right", e |-> e.right]>> BY <2>5 DEF Operation
      <3>2. Push(e.left) \in Calls /\ [do |-> "right", e |-> e.right] \in Calls
        BY <2>5, <1>2, ExpressionParts, CallTypes
      <3> QED BY <3>1, <3>2, TwoCalls DEF Push, Quiet, Callee
    <2>6. CASE e.k = "not"
      <3>1. Operation(e) = <<Push(e.e), [do |-> "negate", e |-> e.e]>> BY <2>6 DEF Operation
      <3>2. Push(e.e) \in Calls /\ [do |-> "negate", e |-> e.e] \in Calls
        BY <2>6, <1>2, ExpressionParts, CallTypes
      <3> QED BY <3>1, <3>2, TwoCalls DEF Push, Quiet, Callee
    <2> QED BY <1>1, <1>2, <2>1, <2>2, <2>3, <2>4, <2>5, <2>6, ExpressionParts
  <1> QED BY <1>1, <1>3, Expanded DEF Quiet

\* What a step leaves alone is as it was.
LEMMA Steady ==
  ASSUME NEW c, work # <<>>, work[1].do \in Quiet \cup {"global", "parameter"},
         Calm(c), work' = c \o Tail(work), c = <<>> \/ work[1].do \in Quiet \ {"emit"}, Typed', Fixed,
         UNCHANGED <<labels, places, breakIndex, functions, currentFunction>>, Len(variables') = Len(variables)
  PROVE  QuietStep
BY Zenon DEF QuietStep, Fixed

LEMMA QuietReturnType ==
  ASSUME Typed, Fixed, ReturnType
  PROVE  QuietStep
  <1>1. work # <<>> /\ work[1].do = "returns" /\ work' = <<>> \o Tail(work) /\ type' = work[1].type
    BY DEF ReturnType, Doing, Then
  <1>2. type' \in Types BY <1>1, HeadParts, CallParts
  <1>3. work' \in Seq(Calls) BY <1>1, NoCalls, Continued
  <1>4. Typed' BY <1>2, <1>3 DEF Typed, ReturnType, Fixed, emitted, labelled, tables, noted
  <1> QED BY <1>1, <1>4, NoCalls, Steady DEF ReturnType, labelled, tables, Quiet

LEMMA TagParts ==
  ASSUME NEW f \in FunctionTags
  PROVE  f.name \in Seq(STRING) /\ f.arity \in Nat /\ f.ret \in {0, 1} /\ f.label \in Nat
BY DEF FunctionTags

LEMMA Joined ==
  ASSUME NEW S, NEW s \in Seq(S), NEW t \in Seq(S)
  PROVE  /\ s \o t \in Seq(S) /\ Len(s \o t) = Len(s) + Len(t)
         /\ \A i \in 1 .. Len(s) : (s \o t)[i] = s[i]
         /\ \A i \in 1 .. Len(t) : (s \o t)[Len(s) + i] = t[i]
OBVIOUS

\* One instruction more, and the number of cells it leaves.
LEMMA Added ==
  ASSUME Typed, NEW code \in Seq(Instructions), NEW after \in Int, Add(code, after)
  PROVE  /\ statement' \in Seq(Instructions)
         /\ frames' \in Seq([owner : Nat, depth : Int]) /\ Len(frames') = Len(statement')
         /\ depth' \in Int
  <1> DEFINE F == [i \in DOMAIN code |-> [owner |-> currentFunction.tag, depth |-> depth + i - 1]]
  <1>1. currentFunction.tag \in Nat /\ depth \in Int /\ frames \in Seq([owner : Nat, depth : Int])
        /\ statement \in Seq(Instructions) /\ Len(frames) = Len(statement)
    BY DEF Typed
  <1>2. Len(code) \in Nat /\ DOMAIN code = 1 .. Len(code) OBVIOUS
  <1>3. F \in [1 .. Len(code) -> [owner : Nat, depth : Int]] BY <1>1, <1>2
  <1>4. F \in Seq([owner : Nat, depth : Int]) /\ Len(F) = Len(code) BY <1>2, <1>3
  <1> HIDE DEF F
  <1>5. statement' = statement \o code /\ frames' = frames \o F /\ depth' = after BY DEF Add, F
  <1>6. statement' \in Seq(Instructions) /\ Len(statement') = Len(statement) + Len(code) BY <1>1, <1>5, Joined
  <1>7. frames' \in Seq([owner : Nat, depth : Int]) /\ Len(frames') = Len(frames) + Len(F) BY <1>1, <1>4, <1>5, Joined
  <1> QED BY <1>1, <1>4, <1>5, <1>6, <1>7

LEMMA ChangeType ==
  ASSUME NEW i \in Instructions
  PROVE  Change(i) \in Int
BY DEF Instructions, Change

LEMMA QuietEmitNext ==
  ASSUME Typed, Fixed, EmitNext
  PROVE  QuietStep
  <1> DEFINE i == Instruction(work[1].op, work[1].arg, work[1].n)
  <1>1. work # <<>> /\ work[1].do \in {"emit", "emitOn"} /\ work' = <<>> \o Tail(work)
        /\ Add(<<i>>, depth + Change(i))
    BY DEF EmitNext, Doing, Then
  <1>2. i \in Instructions BY <1>1, HeadParts, CallParts DEF Instruction, Instructions
  <1>3. depth + Change(i) \in Int BY <1>2, ChangeType DEF Typed
  <1> HIDE DEF i
  <1>4. <<i>> \in Seq(Instructions) BY <1>2
  <1>5. /\ statement' \in Seq(Instructions)
        /\ frames' \in Seq([owner : Nat, depth : Int]) /\ Len(frames') = Len(statement')
        /\ depth' \in Int
    BY <1>1, <1>3, <1>4, Added
  <1>6. work' \in Seq(Calls) BY <1>1, NoCalls, Continued
  <1>7. doubts' \subseteq {"value", "label"} BY DEF Typed, EmitNext
  <1>8. UNCHANGED <<type, errorCount, labelled, tables, notes>> BY DEF EmitNext
  <1>9. Typed' BY <1>5, <1>6, <1>7, <1>8 DEF Typed, Fixed, labelled, tables
  <1> QED BY <1>1, <1>8, <1>9, NoCalls, Steady DEF labelled, tables, Quiet

LEMMA QuietPushValue ==
  ASSUME Typed, Fixed, PushValue
  PROVE  QuietStep
  <1> DEFINE name == work[1].e.name
             x == Emit(IF Tag(name).isGlobal THEN "pushGlobal" ELSE "pushLocal", Tag(name).address, 0)
  <1>1. work # <<>> /\ work[1].do = "push" /\ work[1].e.k = "var" /\ Known(name) /\ Expand(<<x, Yields("int")>>)
    BY DEF PushValue, Doing
  <1>2. name \in STRING BY <1>1, HeadParts, CallParts, ExpressionParts
  <1>3. Tag(name).address \in Int BY <1>1, <1>2, Looked
  <1>4. x \in Calls BY <1>3, CallTypes DEF Opcodes
  <1>5. x.do = "emit" /\ Yields("int").do = "returns" BY DEF Emit, Yields
  <1>6. Yields("int") \in Calls BY CallTypes DEF Types
  <1> HIDE DEF x
  <1>7. Calm(<<x, Yields("int")>>) BY <1>4, <1>5, <1>6, TwoCalls DEF Quiet, Callee
  <1> QED BY <1>1, <1>7, Expanded DEF Quiet

LEMMA QuietPushUnknown ==
  ASSUME Typed, Fixed, PushUnknown
  PROVE  QuietStep
  <1>1. work # <<>> /\ work[1].do = "push" /\ work' = <<>> \o Tail(work) /\ type' = "none"
        /\ errorCount' = errorCount + 1 /\ UNCHANGED <<emitted, labelled, tables, noted>>
    BY DEF PushUnknown, Doing, Then, Error
  <1>2. work' \in Seq(Calls) BY <1>1, NoCalls, Continued
  <1>3. Typed' BY <1>1, <1>2 DEF Typed, Fixed, emitted, labelled, tables, noted, Types
  <1> QED BY <1>1, <1>3, NoCalls, Steady DEF labelled, tables, Quiet

LEMMA QuietNegate ==
  ASSUME Typed, Fixed, Negate
  PROVE  QuietStep
  <1> DEFINE c1 == <<EmitOn("oper", 1, 1), Push(work[1].e), EmitOn("oper", 1, 0)>>
             c2 == <<EmitOn("oper", 1, 0), EmitOn("oper", 1, 1), Yields("int")>>
  <1>1. work # <<>> /\ work[1].do = "negate" /\ Expand(IF type = "int" THEN c1 ELSE c2)
    BY DEF Negate, Doing
  <1>2. work[1].e \in Expressions BY <1>1, HeadParts, CallParts
  <1>3. EmitOn("oper", 1, 1) \in Calls /\ EmitOn("oper", 1, 0) \in Calls BY CallTypes DEF Opcodes
  <1>4. Push(work[1].e) \in Calls BY <1>2, CallTypes
  <1>5. Yields("int") \in Calls BY CallTypes DEF Types
  <1>6. Calm(c1) BY <1>3, <1>4, ThreeCalls DEF EmitOn, Push, Quiet, Callee
  <1>7. Calm(c2) BY <1>3, <1>5, ThreeCalls DEF EmitOn, Yields, Quiet, Callee
  <1> HIDE DEF c1, c2
  <1>8. Calm(IF type = "int" THEN c1 ELSE c2) BY <1>6, <1>7
  <1> QED BY <1>1, <1>8, Expanded DEF Quiet

LEMMA QuietPushRight ==
  ASSUME Typed, Fixed, PushRight
  PROVE  QuietStep
  <1> DEFINE x == [do |-> "operator", left |-> type]
  <1>1. work # <<>> /\ work[1].do = "right" /\ Expand(<<Push(work[1].e), x>>)
    BY DEF PushRight, Doing
  <1>2. work[1].e \in Expressions /\ type \in Types BY <1>1, HeadParts, CallParts DEF Typed
  <1>3. Push(work[1].e) \in Calls /\ x \in Calls BY <1>2, CallTypes
  <1>4. Push(work[1].e).do = "push" /\ x.do = "operator" BY DEF Push
  <1> HIDE DEF x
  <1>5. Calm(<<Push(work[1].e), x>>) BY <1>3, <1>4, TwoCalls DEF Quiet, Callee
  <1> QED BY <1>1, <1>5, Expanded DEF Quiet

LEMMA QuietOperator ==
  ASSUME Typed, Fixed, Operator
  PROVE  QuietStep
  <1> DEFINE c == IF {work[1].left, type} = {"int"} THEN <<Emit("oper", 2, 0)>> ELSE <<>>
  <1>1. work # <<>> /\ work[1].do = "operator" /\ work' = c \o Tail(work)
        /\ UNCHANGED <<errorCount, emitted, labelled, tables, notes>>
    BY DEF Operator, Doing, Then
  <1>2. type' \in Types /\ doubts' \subseteq {"value", "label"} BY DEF Operator, Types, Typed
  <1>3. Emit("oper", 2, 0) \in Calls BY CallTypes DEF Opcodes
  <1>4. Calm(<<Emit("oper", 2, 0)>>) BY <1>3, OneCall DEF Emit, Quiet, Callee
  <1>5. Calm(c) BY <1>4, NoCalls
  <1> HIDE DEF c
  <1>6. work' \in Seq(Calls) BY <1>1, <1>5, Continued
  <1>7. Typed' BY <1>1, <1>2, <1>6 DEF Typed, Fixed, emitted, labelled, tables
  <1> QED BY <1>1, <1>5, <1>7, Steady DEF labelled, tables, Quiet

LEMMA QuietPushCall ==
  ASSUME Typed, Fixed, PushCall
  PROVE  QuietStep
  <1> DEFINE e == work[1].e
             f == FindFunction(e.name, Len(e.args))
             x == Arguments(f, e, Len(e.args))
  <1>1. work # <<>> /\ work[1].do = "push" /\ e.k = "call" /\ Overloads(e.name, Len(e.args)) # {} /\ Expand(<<x>>)
    BY DEF PushCall, Doing
  <1>2. e \in Expressions BY <1>1, HeadParts, CallParts
  <1>3. e.name \in STRING /\ Len(e.args) \in Nat BY <1>1, <1>2, ExpressionParts
  <1>4. f \in DOMAIN functions /\ functions[f].arity = Len(e.args) BY <1>1, <1>3, Resolved
  <1>5. f \in Nat BY <1>4 DEF Typed
  <1>6. x \in Calls BY <1>1, <1>2, <1>3, <1>5, CallTypes
  <1>7. x.do = "arguments" /\ x.f = f /\ x.e = e /\ x.i = Len(e.args) BY DEF Arguments
  <1> HIDE DEF x, f
  <1>8. Calm(<<x>>) BY <1>3, <1>4, <1>6, <1>7, OneCall DEF Quiet, Callee
  <1> QED BY <1>1, <1>8, Expanded DEF Quiet

LEMMA QuietPushArgument ==
  ASSUME Typed, Callees, Fixed, PushArgument
  PROVE  QuietStep
  <1> DEFINE p == work[1]
             x == Push(p.e.args[p.i])
             y == [do |-> "setArg", f |-> p.f, i |-> p.i]
             z == Arguments(p.f, p.e, p.i - 1)
  <1>1. work # <<>> /\ p.do = "arguments" /\ p.i > 0 /\ Expand(<<x, y, z>>)
    BY DEF PushArgument, Doing
  <1>2. p.e \in Expressions /\ p.e.k = "call" /\ p.f \in Nat /\ p.i \in Nat BY <1>1, HeadParts, CallParts
  <1>3. p.f \in DOMAIN functions /\ p.i <= Len(p.e.args) /\ Len(p.e.args) = functions[p.f].arity
    BY <1>1 DEF Callees, Callee, Typed
  <1>4. p.e.args \in Seq(Expressions) BY <1>2, ExpressionParts
  <1>5. p.e.args[p.i] \in Expressions BY <1>1, <1>2, <1>3, <1>4
  <1>6. x \in Calls BY <1>5, CallTypes
  <1>7. y \in Calls BY <1>2, CallTypes
  <1>8. p.i - 1 \in Nat BY <1>1, <1>2
  <1>9. z \in Calls BY <1>2, <1>8, CallTypes
  <1>10. x.do = "push" /\ y.do = "setArg" /\ y.f = p.f
        /\ z.do = "arguments" /\ z.f = p.f /\ z.e = p.e /\ z.i = p.i - 1
    BY DEF Push, Arguments
  <1> HIDE DEF x, y, z
  <1>12. Callee(x) /\ Callee(y) /\ Callee(z) BY <1>2, <1>3, <1>10 DEF Callee
  <1>11. Calm(<<x, y, z>>) BY <1>3, <1>6, <1>7, <1>9, <1>10, <1>12, ThreeCalls DEF Quiet
  <1> QED BY <1>1, <1>11, Expanded DEF Quiet

LEMMA QuietSetArg ==
  ASSUME Typed, Fixed, SetArg
  PROVE  QuietStep
  <1>1. work # <<>> /\ work[1].do = "setArg" /\ work' = <<>> \o Tail(work)
        /\ UNCHANGED <<type, emitted, labelled, tables, doubts>>
    BY DEF SetArg, Doing, Then
  <1>0. errorCount' = errorCount \/ errorCount' = errorCount + 1 BY DEF SetArg, Error
  <1>2. errorCount' \in Nat BY <1>0 DEF Typed
  <1>3. work' \in Seq(Calls) BY <1>1, NoCalls, Continued
  <1>4. Typed' BY <1>1, <1>2, <1>3 DEF Typed, Fixed, emitted, labelled, tables
  <1> QED BY <1>1, <1>4, NoCalls, Steady DEF labelled, tables, Quiet

LEMMA QuietCallFunction ==
  ASSUME Typed, Callees, Fixed, CallFunction
  PROVE  QuietStep
  <1> DEFINE f == functions[work[1].f]
             n == Len(work[1].e.args)
             x == Instruction("pushConst", n, 0)
             y == Instruction("call", f.label, 0)
  <1>1. work # <<>> /\ work[1].do = "arguments" /\ work' = <<>> \o Tail(work)
        /\ Add(<<x, y>>, depth - f.arity + f.ret)
        /\ type' = (IF f.ret = 1 THEN "int" ELSE "void")
        /\ UNCHANGED <<errorCount, labelled, tables, noted>>
    BY DEF CallFunction, Doing, Then
  <1>2. work[1].f \in DOMAIN functions /\ n = f.arity BY <1>1 DEF Callees, Callee, Typed
  <1>3. f \in FunctionTags BY <1>2 DEF Typed
  <1>3b. depth \in Int BY DEF Typed
  <1>3a. f.arity \in Nat /\ f.ret \in Int /\ f.label \in Nat /\ depth \in Int BY <1>3, <1>3b, TagParts
  <1>4. depth - f.arity + f.ret \in Int BY <1>3a
  <1>5. x \in Instructions /\ y \in Instructions BY <1>2, <1>3a DEF Instruction, Instructions, Opcodes
  <1>6. <<x, y>> \in Seq(Instructions) BY <1>5
  <1>7. /\ statement' \in Seq(Instructions)
        /\ frames' \in Seq([owner : Nat, depth : Int]) /\ Len(frames') = Len(statement')
        /\ depth' \in Int
    BY <1>1, <1>4, <1>6, Added
  <1>8. work' \in Seq(Calls) BY <1>1, NoCalls, Continued
  <1>9. Typed' BY <1>1, <1>7, <1>8 DEF Typed, Fixed, labelled, tables, noted, Types
  <1> QED BY <1>1, <1>9, NoCalls, Steady DEF labelled, tables, Quiet

\* So is each action of the statements that makes no label and opens no block.
LEMMA QuietAnalyzeUnary ==
  ASSUME Typed, Fixed, AnalyzeUnary
  PROVE  QuietStep
  <1> DEFINE e == work[1].s.e
             c == IF e.k = "incr" THEN <<Push(e), EmitOn("pop", 0, 0)>> ELSE <<Push(e)>>
  <1>1. work # <<>> /\ work[1].do = "analyze" /\ work[1].s.k = "unary" /\ Expand(c)
    BY DEF AnalyzeUnary, Doing
  <1>2. e \in Expressions BY <1>1, HeadParts, CallParts, StatementParts
  <1>3. Push(e) \in Calls BY <1>2, CallTypes
  <1>4. EmitOn("pop", 0, 0) \in Calls BY CallTypes DEF Opcodes
  <1>5. Push(e).do = "push" /\ EmitOn("pop", 0, 0).do = "emitOn" BY DEF Push, EmitOn
  <1>6. Calm(<<Push(e)>>) BY <1>3, <1>5, OneCall DEF Quiet, Callee
  <1>7. Calm(<<Push(e), EmitOn("pop", 0, 0)>>) BY <1>3, <1>4, <1>5, TwoCalls DEF Quiet, Callee
  <1>8. Calm(c) BY <1>6, <1>7
  <1> HIDE DEF c
  <1> QED BY <1>1, <1>8, Expanded DEF Quiet

LEMMA QuietAnalyzeNop ==
  ASSUME Typed, Fixed, AnalyzeNop
  PROVE  QuietStep
BY NoCalls, Expanded DEF AnalyzeNop, Doing, Quiet

LEMMA QuietAnalyzeAssign ==
  ASSUME Typed, Fixed, AnalyzeAssign
  PROVE  QuietStep
  <1> DEFINE s == work[1].s
             t == IF Known(s.name) THEN "int" ELSE "void"
             x == [do |-> "store", name |-> s.name, left |-> t]
             c == <<Push(s.e), x>>
  <1>1. work # <<>> /\ work[1].do = "analyze" /\ s.k = "assign" /\ work' = c \o Tail(work)
        /\ UNCHANGED <<type, emitted, labelled, tables, noted>>
    BY DEF AnalyzeAssign, Doing, Then
  <1>2. s.e \in Expressions /\ s.name \in STRING BY <1>1, HeadParts, CallParts, StatementParts
  <1>3. Push(s.e) \in Calls BY <1>2, CallTypes
  <1>4. t \in Types BY DEF Types
  <1>5. x \in Calls BY <1>2, <1>4, CallTypes
  <1>6. Push(s.e).do = "push" /\ x.do = "store" BY DEF Push
  <1>7. errorCount' = errorCount \/ errorCount' = errorCount + 1 BY DEF AnalyzeAssign, Error
  <1> HIDE DEF x
  <1>8. Calm(c) BY <1>3, <1>5, <1>6, TwoCalls DEF Quiet, Callee
  <1> HIDE DEF c
  <1>9. work' \in Seq(Calls) BY <1>1, <1>8, Continued
  <1>10. errorCount' \in Nat BY <1>7 DEF Typed
  <1>11. Typed' BY <1>1, <1>9, <1>10 DEF Typed, Fixed, emitted, labelled, tables, noted
  <1> QED BY <1>1, <1>8, <1>11, Steady DEF labelled, tables, Quiet

LEMMA QuietStore ==
  ASSUME Typed, Fixed, Store
  PROVE  QuietStep
  <1> DEFINE name == work[1].name
             x == Emit(IF Tag(name).isGlobal THEN "popGlobal" ELSE "popLocal", Tag(name).address, 0)
             c == IF Known(name) THEN <<x>> ELSE <<>>
  <1>1. work # <<>> /\ work[1].do = "store" /\ work' = c \o Tail(work)
        /\ UNCHANGED <<type, emitted, labelled, tables, noted>>
    BY DEF Store, Doing, Then
  <1>2. name \in STRING BY <1>1, HeadParts, CallParts
  <1>3. ASSUME Known(name) PROVE Calm(<<x>>)
    <2>1. Tag(name).address \in Int BY <1>2, <1>3, Looked
    <2>2. x \in Calls BY <2>1, CallTypes DEF Opcodes
    <2>3. x.do = "emit" BY DEF Emit
    <2> HIDE DEF x
    <2> QED BY <2>2, <2>3, OneCall DEF Quiet, Callee
  <1>5. Calm(c) BY <1>3, NoCalls
  <1> HIDE DEF c
  <1>7. errorCount' = errorCount \/ errorCount' = errorCount + 1 BY DEF Store, Error
  <1>9. work' \in Seq(Calls) BY <1>1, <1>5, Continued
  <1>10. errorCount' \in Nat BY <1>7 DEF Typed
  <1>11. Typed' BY <1>1, <1>9, <1>10 DEF Typed, Fixed, emitted, labelled, tables, noted
  <1> QED BY <1>1, <1>5, <1>11, Steady DEF labelled, tables, Quiet

LEMMA QuietAnalyzeBreak ==
  ASSUME Typed, Fixed, AnalyzeBreak
  PROVE  QuietStep
  <1> DEFINE x == Emit("jmp", breakIndex, 0)
             c == IF breakIndex < 0 THEN <<>> ELSE <<x>>
  <1>1. work # <<>> /\ work[1].do = "analyze" /\ work' = c \o Tail(work)
        /\ UNCHANGED <<type, emitted, labelled, tables, noted>>
    BY DEF AnalyzeBreak, Doing, Then
  <1>2. breakIndex \in Int BY DEF Typed
  <1>3. x \in Calls BY <1>2, CallTypes DEF Opcodes
  <1>4. x.do = "emit" BY DEF Emit
  <1> HIDE DEF x
  <1>5. Calm(c) BY <1>3, <1>4, NoCalls, OneCall DEF Quiet, Callee
  <1> HIDE DEF c
  <1>7. errorCount' = errorCount \/ errorCount' = errorCount + 1 BY DEF AnalyzeBreak, Error
  <1>9. work' \in Seq(Calls) BY <1>1, <1>5, Continued
  <1>10. errorCount' \in Nat BY <1>7 DEF Typed
  <1>11. Typed' BY <1>1, <1>9, <1>10 DEF Typed, Fixed, emitted, labelled, tables, noted
  <1> QED BY <1>1, <1>5, <1>11, Steady DEF labelled, tables, Quiet

LEMMA QuietAnalyzeReturn ==
  ASSUME Typed, Fixed, AnalyzeReturn
  PROVE  QuietStep
  <1> DEFINE e == work[1].s.e
  <1>1. work # <<>> /\ work[1].do = "analyze" /\ work[1].s.k = "return"
        /\ UNCHANGED <<type, emitted, labelled, tables, noted>>
    BY DEF AnalyzeReturn, Doing
  <1>2. e \in Expressions \cup {None} BY <1>1, HeadParts, CallParts, StatementParts
  <1>3. currentFunction.ret \in {0, 1} BY DEF Typed
  <1>4. \E c : Calm(c) /\ work' = c \o Tail(work)
    <2>1. CASE currentFunction.ret = 0
      <3>1. work' = <<Emit("ret", 0, 0)>> \o Tail(work) BY <2>1 DEF AnalyzeReturn, Then
      <3>2. Emit("ret", 0, 0) \in Calls BY CallTypes DEF Opcodes
      <3>3. Emit("ret", 0, 0).do = "emit" BY DEF Emit
      <3>4. Calm(<<Emit("ret", 0, 0)>>) BY <3>2, <3>3, OneCall DEF Quiet, Callee
      <3> QED BY <3>1, <3>4
    <2>2. CASE currentFunction.ret = 1 /\ e = None
      <3>1. work' = <<Emit("retv", 0, 0)>> \o Tail(work) BY <2>2 DEF AnalyzeReturn, Then
      <3>2. Emit("retv", 0, 0) \in Calls BY CallTypes DEF Opcodes
      <3>3. Emit("retv", 0, 0).do = "emit" BY DEF Emit
      <3>4. Calm(<<Emit("retv", 0, 0)>>) BY <3>2, <3>3, OneCall DEF Quiet, Callee
      <3> QED BY <3>1, <3>4
    <2>3. CASE currentFunction.ret = 1 /\ e # None
      <3>1. work' = <<Push(e), EmitOn("retv", 0, 0)>> \o Tail(work) BY <2>3 DEF AnalyzeReturn, Then
      <3>2. EmitOn("retv", 0, 0) \in Calls BY CallTypes DEF Opcodes
      <3>3. Push(e) \in Calls BY <1>2, <2>3, CallTypes
      <3>4. EmitOn("retv", 0, 0).do = "emitOn" /\ Push(e).do = "push" BY DEF EmitOn, Push
      <3>5. Calm(<<Push(e), EmitOn("retv", 0, 0)>>) BY <3>2, <3>3, <3>4, TwoCalls DEF Quiet, Callee
      <3> QED BY <3>1, <3>5
    <2> QED BY <1>3, <2>1, <2>2, <2>3
  <1>5. PICK c : Calm(c) /\ work' = c \o Tail(work) BY <1>4
  <1>7. errorCount' = errorCount \/ errorCount' = errorCount + 1 BY DEF AnalyzeReturn, Error
  <1>9. work' \in Seq(Calls) BY <1>1, <1>5, Continued
  <1>10. errorCount' \in Nat BY <1>7 DEF Typed
  <1>11. Typed' BY <1>1, <1>9, <1>10 DEF Typed, Fixed, emitted, labelled, tables, noted
  <1> QED BY <1>1, <1>5, <1>11, Steady DEF labelled, tables, Quiet

LEMMA QuietAnalyzeIf ==
  ASSUME Typed, Fixed, AnalyzeIf
  PROVE  QuietStep
  <1> DEFINE s == work[1].s
             x == [do |-> "then", s |-> s]
  <1>1. work # <<>> /\ work[1].do = "analyze" /\ s.k = "if" /\ Expand(<<Push(s.e), x>>)
    BY DEF AnalyzeIf, Doing
  <1>2. s \in Statements BY <1>1, HeadParts, CallParts
  <1>3. s.e \in Expressions BY <1>1, <1>2, StatementParts
  <1>4. Push(s.e) \in Calls BY <1>3, CallTypes
  <1>5. x \in Calls BY <1>1, <1>2, CallTypes
  <1>6. Push(s.e).do = "push" /\ x.do = "then" BY DEF Push
  <1> HIDE DEF x
  <1>7. Calm(<<Push(s.e), x>>) BY <1>4, <1>5, <1>6, TwoCalls DEF Quiet, Callee
  <1> QED BY <1>1, <1>7, Expanded DEF Quiet

LEMMA QuietAnalyzeSwitch ==
  ASSUME Typed, Fixed, AnalyzeSwitch
  PROVE  QuietStep
  <1> DEFINE s == work[1].s
             x == [do |-> "cases", items |-> s.items]
             c == IF s.items = <<>> THEN <<>> ELSE <<Push(s.e), x>>
  <1>1. work # <<>> /\ work[1].do = "analyze" /\ s.k = "switch" /\ Expand(c)
    BY DEF AnalyzeSwitch, Doing
  <1>2. s \in Statements BY <1>1, HeadParts, CallParts
  <1>3. s.e \in Expressions /\ s.items \in Seq(Statements) BY <1>1, <1>2, StatementParts
  <1>4. Push(s.e) \in Calls BY <1>3, CallTypes
  <1>5. x \in Calls BY <1>3, CallTypes
  <1>6. Push(s.e).do = "push" /\ x.do = "cases" BY DEF Push
  <1> HIDE DEF x
  <1>7. Calm(<<Push(s.e), x>>) BY <1>4, <1>5, <1>6, TwoCalls DEF Quiet, Callee
  <1>8. Calm(c) BY <1>7, NoCalls
  <1> HIDE DEF c
  <1> QED BY <1>1, <1>8, Expanded DEF Quiet

LEMMA QuietAnalyzeAll ==
  ASSUME Typed, Fixed, AnalyzeAll
  PROVE  QuietStep
  <1> DEFINE items == work[1].items
             x == [do |-> "block", items |-> Tail(items)]
             c == IF items = <<>> THEN <<>> ELSE <<Analyze(Head(items)), x>>
  <1>1. work # <<>> /\ work[1].do = "block" /\ Expand(c) BY DEF AnalyzeAll, Doing
  <1>2. items \in Seq(Statements) BY <1>1, HeadParts, CallParts
  <1>3. ASSUME items # <<>> PROVE Calm(<<Analyze(Head(items)), x>>)
    <2>1. Head(items) \in Statements /\ Tail(items) \in Seq(Statements) BY <1>2, <1>3
    <2>2. Analyze(Head(items)) \in Calls BY <2>1, CallTypes
    <2>3. x \in Calls BY <2>1, CallTypes
    <2>4. Analyze(Head(items)).do = "analyze" /\ x.do = "block" BY DEF Analyze
    <2> HIDE DEF x
    <2> QED BY <2>2, <2>3, <2>4, TwoCalls DEF Quiet, Callee
  <1>5. Calm(c) BY <1>3, NoCalls
  <1> HIDE DEF c
  <1> QED BY <1>1, <1>5, Expanded DEF Quiet

LEMMA QuietCloseFunction ==
  ASSUME Typed, Fixed, CloseFunction
  PROVE  QuietStep
  <1> DEFINE x == Emit("ret", 0, 0)
             c == IF currentFunction.ret = 0 /\ LastCommand # "ret" THEN <<x>> ELSE <<>>
  <1>1. work # <<>> /\ work[1].do = "close" /\ work' = c \o Tail(work)
        /\ UNCHANGED <<type, emitted, labelled, tables, noted>>
    BY DEF CloseFunction, Doing, Then
  <1>3. x \in Calls BY CallTypes DEF Opcodes
  <1>4. x.do = "emit" BY DEF Emit
  <1> HIDE DEF x
  <1>5. Calm(c) BY <1>3, <1>4, NoCalls, OneCall DEF Quiet, Callee
  <1> HIDE DEF c
  <1>7. errorCount' = errorCount \/ errorCount' = errorCount + 1 BY DEF CloseFunction, Error
  <1>9. work' \in Seq(Calls) BY <1>1, <1>5, Continued
  <1>10. errorCount' \in Nat BY <1>7 DEF Typed
  <1>11. Typed' BY <1>1, <1>9, <1>10 DEF Typed, Fixed, emitted, labelled, tables, noted
  <1> QED BY <1>1, <1>5, <1>11, Steady DEF labelled, tables, Quiet

\* A definition keeps the types of the tables, and their number.
LEMMA Defined ==
  ASSUME Typed, variables # <<>>, NEW key \in Seq(STRING), NEW address \in Int, NEW isLocal \in BOOLEAN,
         Define(key, address, isLocal)
  PROVE  /\ variables' \in Seq(ValueTables) /\ Len(variables') = Len(variables)
         /\ errorCount' \in Nat
  <1> DEFINE last == Len(variables)
             table == variables[last]
             n == IF isLocal THEN table.next + 1 ELSE table.next
             tag == [name |-> key, address |-> address, isGlobal |-> last = 1]
             new == [start |-> table.start, next |-> n, vars |-> table.vars \cup {tag}]
  <1>1. last \in DOMAIN variables /\ variables \in Seq(ValueTables) /\ errorCount \in Nat BY DEF Typed
  <1>2. table \in ValueTables BY <1>1
  <1>3. table.start \in Nat /\ n \in Nat /\ table.vars \in SUBSET Variables BY <1>2 DEF ValueTables
  <1>4. (last = 1) \in BOOLEAN OBVIOUS
  <1>5. tag \in Variables BY <1>4 DEF Variables
  <1> HIDE DEF tag, n
  <1>6. new \in ValueTables BY <1>3, <1>5 DEF ValueTables
  <1>7. \/ errorCount' = errorCount + 1 /\ variables' = variables
        \/ errorCount' = errorCount /\ variables' = [variables EXCEPT ![last] = new]
    BY DEF Define, Error, tag, n
  <1> HIDE DEF new
  <1> QED BY <1>1, <1>6, <1>7

LEMMA QuietDefineValue ==
  ASSUME Typed, variables # <<>>, Fixed, DefineValue
  PROVE  QuietStep
  <1> DEFINE key == Append(currentNameSpace, work[1].name)
             address == variables[Len(variables)].next
  <1>1. work # <<>> /\ work[1].do = "define" /\ work' = <<>> \o Tail(work) /\ Define(key, address, TRUE)
        /\ UNCHANGED <<type, emitted, labelled, functions, currentNameSpace, currentFunction, noted>>
    BY DEF DefineValue, Doing, Then, AddValue
  <1>2. work[1].name \in STRING BY <1>1, HeadParts, CallParts
  <1>3. currentNameSpace \in Seq(STRING) BY DEF Typed
  <1>4. key \in Seq(STRING) BY <1>2, <1>3
  <1>5. variables[Len(variables)] \in ValueTables BY DEF Typed
  <1>6. address \in Int BY <1>5 DEF ValueTables
  <1> HIDE DEF key, address
  <1>7. /\ variables' \in Seq(ValueTables) /\ Len(variables') = Len(variables)
        /\ errorCount' \in Nat
    BY <1>1, <1>4, <1>6, Defined
  <1>8. work' \in Seq(Calls) BY <1>1, NoCalls, Continued
  <1>9. Typed' BY <1>1, <1>7, <1>8 DEF Typed, Fixed, emitted, labelled, noted
  <1> QED BY <1>1, <1>7, <1>9, NoCalls, Steady DEF labelled, Quiet

LEMMA QuietAllocStack ==
  ASSUME Typed, variables # <<>>, Fixed, AllocStack
  PROVE  QuietStep
  <1> DEFINE table == variables[Len(variables)]
             n == table.next - table.start
             code == [v \in 1 .. n |-> Instruction("alloc", 0, 0)]
             x == [work[1] EXCEPT !.do = "block"]
             y == [do |-> "block", items |-> work[1].items]
  <1>1. work # <<>> /\ work[1].do = "alloc" /\ work' = <<x>> \o Tail(work) /\ Add(code, depth + table.next - table.start)
        /\ UNCHANGED <<type, errorCount, labelled, tables, noted>>
    BY DEF AllocStack, Doing, Then
  <1>2. table \in ValueTables /\ depth \in Int BY DEF Typed
  <1>3. table.next \in Int /\ table.start \in Int BY <1>2 DEF ValueTables
  <1>4. n \in Int /\ depth + table.next - table.start \in Int BY <1>2, <1>3
  <1>5. Instruction("alloc", 0, 0) \in Instructions BY DEF Instruction, Instructions, Opcodes
  <1>6. code \in Seq(Instructions)
    <2>1. CASE n >= 0 BY <1>4, <1>5, <2>1
    <2>2. CASE n < 0
      <3>1. 1 .. n = {} BY <1>4, <2>2
      <3>2. code = <<>> BY <3>1
      <3>3. <<>> \in Seq(Instructions) OBVIOUS
      <3> HIDE DEF code
      <3> QED BY <3>2, <3>3
    <2> QED BY <1>4, <2>1, <2>2
  <1> HIDE DEF code
  <1>7. /\ statement' \in Seq(Instructions)
        /\ frames' \in Seq([owner : Nat, depth : Int]) /\ Len(frames') = Len(statement')
        /\ depth' \in Int
    BY <1>1, <1>4, <1>6, Added
  <1>8. work[1] \in StatementCalls BY <1>1, HeadParts DEF Calls, ExpressionCalls, DeclarationCalls
  <1>9. work[1] \in [do : {"cases", "alloc", "block"}, items : Seq(Statements)] BY <1>1, <1>8 DEF StatementCalls
  <1>10. x = y /\ work[1].items \in Seq(Statements) BY <1>9
  <1>11. y \in Calls BY <1>10, CallTypes
  <1>12. y.do = "block" OBVIOUS
  <1> HIDE DEF y
  <1>13. Calm(<<y>>) BY <1>11, <1>12, OneCall DEF Quiet, Callee
  <1>14. work' = <<y>> \o Tail(work) BY <1>1, <1>10
  <1>15. work' \in Seq(Calls) BY <1>1, <1>13, <1>14, Continued
  <1>16. Typed' BY <1>1, <1>7, <1>15 DEF Typed, Fixed, labelled, tables, noted
  <1> QED BY <1>1, <1>13, <1>14, <1>16, Steady DEF labelled, tables, Quiet

LEMMA QuietAddArgument ==
  ASSUME Typed, Callees, variables # <<>>, Fixed, AddArgument
  PROVE  QuietStep
  <1> DEFINE p == work[1]
             address == -4 - (functions[p.f].arity - p.is)
  <1>1. work # <<>> /\ p.do = "parameter" /\ work' = <<>> \o Tail(work) /\ Define(<<p.name>>, address, FALSE)
        /\ UNCHANGED <<type, emitted, labelled, functions, currentNameSpace, currentFunction, doubts>>
    BY DEF AddArgument, Doing, Then
  <1>2. p.name \in STRING /\ p.is \in Nat BY <1>1, HeadParts, CallParts
  <1>3. p.f \in DOMAIN functions BY <1>1 DEF Callees, Callee, Typed
  <1>4. functions[p.f] \in FunctionTags BY <1>3 DEF Typed
  <1>5. functions[p.f].arity \in Nat BY <1>4, TagParts
  <1>6. <<p.name>> \in Seq(STRING) /\ address \in Int BY <1>2, <1>5
  <1> HIDE DEF address
  <1>7. /\ variables' \in Seq(ValueTables) /\ Len(variables') = Len(variables)
        /\ errorCount' \in Nat
    BY <1>1, <1>6, Defined
  <1>8. work' \in Seq(Calls) BY <1>1, NoCalls, Continued
  <1>9. Typed' BY <1>1, <1>7, <1>8 DEF Typed, Fixed, emitted, labelled
  <1> QED BY <1>1, <1>7, <1>9, NoCalls, Steady DEF labelled, Quiet

LEMMA QuietDefineGlobal ==
  ASSUME Typed, variables # <<>>, Fixed, DefineGlobal
  PROVE  QuietStep
  <1> DEFINE g == work[1].g
             key == Append(g.ns, g.name)
             address == variables[Len(variables)].next
             code == <<Instruction("alloc", 0, 0)>>
  <1>1. work # <<>> /\ work[1].do = "global" /\ work' = <<>> \o Tail(work) /\ Define(key, address, TRUE)
        /\ Add(code, depth + 1) /\ currentNameSpace' = g.ns
        /\ UNCHANGED <<type, labelled, functions, currentFunction, noted>>
    BY DEF DefineGlobal, Doing, Then
  <1>2. g \in Globals BY <1>1, HeadParts, CallParts
  <1>3. g.ns \in Seq(STRING) /\ g.name \in STRING BY <1>2 DEF Globals
  <1>4. key \in Seq(STRING) BY <1>3
  <1>5. variables[Len(variables)] \in ValueTables /\ depth + 1 \in Int BY DEF Typed
  <1>6. address \in Int BY <1>5 DEF ValueTables
  <1>6a. Instruction("alloc", 0, 0) \in Instructions BY DEF Instruction, Instructions, Opcodes
  <1>6b. code \in Seq(Instructions) BY <1>6a
  <1> HIDE DEF key, address, code
  <1>7. /\ variables' \in Seq(ValueTables) /\ Len(variables') = Len(variables)
        /\ errorCount' \in Nat
    BY <1>1, <1>4, <1>6, Defined
  <1>7a. /\ statement' \in Seq(Instructions)
        /\ frames' \in Seq([owner : Nat, depth : Int]) /\ Len(frames') = Len(statement')
        /\ depth' \in Int
    BY <1>1, <1>5, <1>6b, Added
  <1>8. work' \in Seq(Calls) BY <1>1, NoCalls, Continued
  <1>9. Typed' BY <1>1, <1>3, <1>7, <1>7a, <1>8 DEF Typed, Fixed, labelled, noted
  <1> QED BY <1>1, <1>7, <1>9, NoCalls, Steady DEF labelled, Quiet

-----------------------------------------------------------------------------
(* Levels. *)

\* The end of work, and the calls with the number of tables and the break label
\* they are made at.
End == [do |-> "end"]

Ghosts == [call : Calls \cup {End}, level : Int, break : Int]

\* What a call leaves behind when it is done.
LevelBehind(call, level) == IF call.do = "blockOut" THEN level - 1 ELSE level
BreakBehind(call, break) == IF call.do = "setBreakLabel" THEN call.label ELSE break

\* Where a call may be: those that make statements are inside a function, whose
\* table is the second; the passes' own calls are outside of all functions.
Fits(do, level) ==
  /\ level >= 1
  /\ do \in {"regist", "function", "global", "end"} => level = 1
  /\ do = "parameter" => level = 2
  /\ do \notin {"emit", "regist", "function", "global", "parameter", "end"} => level >= 2

\* Each call is at what the one in front of it leaves behind.
Follows == {p \in Ghosts \X Ghosts : p[2].level = LevelBehind(p[1].call, p[1].level)
                                     /\ p[2].break = BreakBehind(p[1].call, p[1].break)}

Chain(g) == \A i \in 1 .. Len(g) - 1 : <<g[i], g[i + 1]>> \in Follows

\* g runs along w from n tables and the break label b to one table and none.
Levels(g, w, n, b) ==
  /\ g \in Seq(Ghosts) /\ Len(g) = Len(w) + 1
  /\ \A i \in 1 .. Len(w) : g[i].call = w[i]
  /\ g[Len(g)] = [call |-> End, level |-> 1, break |-> -1]
  /\ g[1].level = n /\ g[1].break = b
  /\ Chain(g)
  /\ \A i \in 1 .. Len(g) : Fits(g[i].call.do, g[i].level)

Leveled(w, n, b) == \E g : Levels(g, w, n, b)

\* A function on 1 .. n is a sequence.
LEMMA Listed ==
  ASSUME NEW S, NEW n \in Nat, NEW f \in [1 .. n -> S]
  PROVE  f \in Seq(S) /\ Len(f) = n /\ DOMAIN f = 1 .. n
OBVIOUS

\* The first of a chain, replaced by another chain that ends where it did.
LEMMA ChainSpliced ==
  ASSUME NEW g \in Seq(Ghosts), Len(g) >= 2, Chain(g), NEW c \in Seq(Ghosts), Chain(c),
         c # <<>> => <<c[Len(c)], g[2]>> \in Follows,
         NEW h, h = c \o Tail(g)
  PROVE  /\ h \in Seq(Ghosts) /\ Len(h) = Len(c) + Len(g) - 1
         /\ Chain(h)
         /\ \A i \in 1 .. Len(c) : h[i] = c[i]
         /\ \A j \in Len(c) + 1 .. Len(h) : j - Len(c) + 1 \in 2 .. Len(g) /\ h[j] = g[j - Len(c) + 1]
         /\ h[Len(h)] = g[Len(g)]
  <1> DEFINE n == Len(c)
             m == Len(g)
  <1>1. g # <<>> OBVIOUS
  <1>2. /\ h \in Seq(Ghosts)
        /\ Len(h) = n + m - 1
        /\ n \in Nat /\ m \in Nat
        /\ \A i \in 1 .. n : h[i] = c[i]
        /\ \A j \in n + 1 .. Len(h) : j - n + 1 \in 2 .. m /\ h[j] = g[j - n + 1]
    BY <1>1, Spliced
  <1>3. \A i \in 1 .. Len(h) - 1 : <<h[i], h[i + 1]>> \in Follows
    <2> HIDE DEF n, m
    <2>0. m >= 2 BY DEF m
    <2> SUFFICES ASSUME NEW i \in 1 .. Len(h) - 1 PROVE <<h[i], h[i + 1]>> \in Follows OBVIOUS
    <2>1. CASE i \in 1 .. n - 1
      <3>1. i \in 1 .. n /\ i + 1 \in 1 .. n BY <1>2, <2>1
      <3>2. h[i] = c[i] /\ h[i + 1] = c[i + 1] BY <1>2, <3>1
      <3> QED BY <2>1, <3>2 DEF Chain, n
    <2>2. CASE i = n
      <3>1. n \in 1 .. n /\ i + 1 \in n + 1 .. Len(h) /\ (i + 1) - n + 1 = 2 BY <1>2, <2>0, <2>2
      <3>2. h[i] = c[n] BY <1>2, <2>2, <3>1
      <3>3. h[i + 1] = g[2] BY <1>2, <3>1
      <3>4. c # <<>> BY <1>2, <3>1 DEF n
      <3> QED BY <3>2, <3>3, <3>4 DEF n
    <2>3. CASE i \in n + 1 .. n + m - 2
      <3> DEFINE k == i - n + 1
      <3>1. i \in n + 1 .. Len(h) /\ i + 1 \in n + 1 .. Len(h) /\ (i + 1) - n + 1 = k + 1 /\ k \in 1 .. m - 1
        BY <1>2, <2>0, <2>3
      <3>2. h[i] = g[k] BY <1>2, <3>1
      <3>3. h[i + 1] = g[(i + 1) - n + 1] BY <1>2, <3>1, Zenon
      <3>4. h[i + 1] = g[k + 1] BY <3>1, <3>3, Zenon
      <3> HIDE DEF k
      <3> QED BY <3>1, <3>2, <3>4 DEF Chain, m
    <2>4. i \in 1 .. n - 1 \/ i = n \/ i \in n + 1 .. n + m - 2 BY <1>2, <2>0
    <2> QED BY <2>1, <2>2, <2>3, <2>4
  <1>4. h[Len(h)] = g[m]
    <2> HIDE DEF n, m
    <2>0. m >= 2 BY DEF m
    <2>1. Len(h) \in n + 1 .. Len(h) /\ Len(h) - n + 1 = m BY <1>2, <2>0
    <2> QED BY <1>2, <2>1
  <1> QED BY <1>2, <1>3, <1>4 DEF Chain

\* The same for the calls along a chain.
LEMMA LevelsSpliced ==
  ASSUME NEW w \in Seq(Calls), w # <<>>, NEW n, NEW b, NEW g, Levels(g, w, n, b), NEW m, NEW a,
         NEW d \in Seq(Calls), NEW c \in Seq(Ghosts), Len(c) = Len(d), Chain(c),
         \A i \in 1 .. Len(c) : c[i].call = d[i] /\ Fits(c[i].call.do, c[i].level),
         c # <<>> => <<c[Len(c)], g[2]>> \in Follows,
         c # <<>> => c[1].level = m /\ c[1].break = a,
         c = <<>> => g[2].level = m /\ g[2].break = a,
         NEW r, r = d \o Tail(w)
  PROVE  Leveled(r, m, a)
  <1>5. /\ g \in Seq(Ghosts) /\ Len(g) = Len(w) + 1 /\ Len(w) \in Nat /\ Len(w) >= 1
        /\ \A i \in 1 .. Len(w) : g[i].call = w[i]
        /\ g[Len(g)] = [call |-> End, level |-> 1, break |-> -1]
        /\ g[1].level = n /\ g[1].break = b
        /\ Chain(g)
        /\ \A i \in 1 .. Len(g) : Fits(g[i].call.do, g[i].level)
    BY DEF Levels
  <1>6. Len(d) \in Nat /\ Len(c) \in Nat OBVIOUS
  <1>7. \A i \in 1 .. Len(d) : c[i].call = d[i] OBVIOUS
  <1>11. Len(g) >= 2 BY <1>5
  <1>10. PICK h : h = c \o Tail(g) OBVIOUS
  <1>12. /\ h \in Seq(Ghosts) /\ Len(h) = Len(c) + Len(g) - 1
         /\ Chain(h)
         /\ \A i \in 1 .. Len(c) : h[i] = c[i]
         /\ \A j \in Len(c) + 1 .. Len(h) : j - Len(c) + 1 \in 2 .. Len(g) /\ h[j] = g[j - Len(c) + 1]
         /\ h[Len(h)] = g[Len(g)]
    <2>2. g \in Seq(Ghosts) /\ Len(g) >= 2 /\ Chain(g) BY <1>5, <1>11
    <2>3. c # <<>> => <<c[Len(c)], g[2]>> \in Follows OBVIOUS
    <2>4. h \in Seq(Ghosts) /\ Len(h) = Len(c) + Len(g) - 1 BY <1>10, <2>2, <2>3, ChainSpliced
    <2>5. Chain(h) BY <1>10, <2>2, <2>3, ChainSpliced
    <2>6. \A i \in 1 .. Len(c) : h[i] = c[i] BY <1>10, <2>2, <2>3, ChainSpliced
    <2>7. \A j \in Len(c) + 1 .. Len(h) : j - Len(c) + 1 \in 2 .. Len(g) /\ h[j] = g[j - Len(c) + 1]
      BY <1>10, <2>2, <2>3, ChainSpliced
    <2>8. h[Len(h)] = g[Len(g)] BY <1>10, <2>2, <2>3, ChainSpliced
    <2> QED BY <2>4, <2>5, <2>6, <2>7, <2>8
  <1>13. /\ Len(r) = Len(d) + Len(w) - 1
         /\ \A i \in 1 .. Len(d) : r[i] = d[i]
         /\ \A j \in Len(d) + 1 .. Len(r) : j - Len(d) + 1 \in 2 .. Len(w) /\ r[j] = w[j - Len(d) + 1]
    <2> QED BY Spliced
  <1>14. Len(h) = Len(r) + 1 BY <1>5, <1>6, <1>7, <1>12, <1>13
  <1>15. \A i \in 1 .. Len(r) : h[i].call = r[i]
    <2> SUFFICES ASSUME NEW i \in 1 .. Len(r) PROVE h[i].call = r[i] OBVIOUS
    <2>1. CASE i \in 1 .. Len(d)
      <3>1. h[i] = c[i] /\ r[i] = d[i] BY <1>7, <1>12, <1>13, <2>1
      <3> QED BY <1>7, <2>1, <3>1
    <2>2. CASE i \in Len(d) + 1 .. Len(r)
      <3>1. i \in Len(c) + 1 .. Len(h) BY <1>5, <1>6, <1>7, <1>12, <1>13, <2>2
      <3>2. h[i] = g[i - Len(d) + 1] BY <1>7, <1>12, <3>1
      <3>3. i - Len(d) + 1 \in 2 .. Len(w) /\ r[i] = w[i - Len(d) + 1] BY <1>13, <2>2
      <3>4. i - Len(d) + 1 \in 1 .. Len(w) BY <1>6, <2>2, <3>3
      <3> QED BY <1>5, <3>2, <3>3, <3>4
    <2>3. i \in 1 .. Len(d) \/ i \in Len(d) + 1 .. Len(r) BY <1>5, <1>6, <1>13
    <2> QED BY <2>1, <2>2, <2>3
  <1>16. h[1].level = m /\ h[1].break = a
    <2>1. CASE Len(d) = 0
      <3>1. c = <<>> BY <2>1, EmptySeq
      <3>2. 1 \in Len(c) + 1 .. Len(h) /\ 1 - Len(c) + 1 = 2 BY <1>5, <1>6, <1>12, <2>1
      <3>3. h[1] = g[2] BY <1>12, <3>2
      <3> QED BY <3>1, <3>3
    <2>2. CASE Len(d) > 0
      <3>1. 1 \in 1 .. Len(d) BY <1>6, <2>2
      <3>2. h[1] = c[1] BY <1>7, <1>12, <3>1
      <3>3. Len(c) # 0 BY <2>2
      <3>4. c # <<>> BY <3>3, EmptySeq
      <3> QED BY <3>2, <3>4
    <2> QED BY <1>6, <2>1, <2>2
  <1>17. \A i \in 1 .. Len(h) : Fits(h[i].call.do, h[i].level)
    <2> SUFFICES ASSUME NEW i \in 1 .. Len(h) PROVE Fits(h[i].call.do, h[i].level) OBVIOUS
    <2>1. CASE i \in 1 .. Len(d)
      <3>1. h[i] = c[i] BY <1>7, <1>12, <2>1
      <3> QED BY <1>6, <2>1, <3>1
    <2>2. CASE i \in Len(d) + 1 .. Len(h)
      <3>1. i - Len(d) + 1 \in 1 .. Len(g) /\ h[i] = g[i - Len(d) + 1] BY <1>5, <1>6, <1>12, <2>2
      <3> QED BY <1>5, <3>1
    <2> QED BY <1>5, <1>6, <1>7, <1>12, <2>1, <2>2
  <1>18. Levels(h, r, m, a) BY <1>5, <1>12, <1>14, <1>15, <1>16, <1>17 DEF Levels
  <1> QED BY <1>18 DEF Leveled

\* What is left is at the level and under the break label that the call in front
\* leaves behind, whatever takes its place.
LEMMA LevelsNext ==
  ASSUME NEW w \in Seq(Calls), w # <<>>, NEW n, NEW b, Leveled(w, n, b), NEW m \in Int, NEW a \in Int,
         NEW q \in Seq(Calls), NEW z \in Seq(Calls), Len(z) <= 1,
         \A i \in 1 .. Len(q) : q[i].do \notin {"blockOut", "setBreakLabel"} /\ Fits(q[i].do, m),
         \A i \in 1 .. Len(z) : Fits(z[i].do, m),
         z = <<>> => m = LevelBehind(w[1], n) /\ a = BreakBehind(w[1], b),
         z # <<>> => /\ LevelBehind(z[1], m) = LevelBehind(w[1], n)
                     /\ BreakBehind(z[1], a) = BreakBehind(w[1], b),
         NEW r, r = (q \o z) \o Tail(w)
  PROVE  Leveled(r, m, a)
  <1>1. PICK g : Levels(g, w, n, b) BY DEF Leveled
  <1>0. PICK d : d = q \o z OBVIOUS
  <1>2. /\ d \in Seq(Calls) /\ Len(d) = Len(q) + Len(z) /\ Len(q) \in Nat /\ Len(z) \in Nat
        /\ \A i \in 1 .. Len(q) : d[i] = q[i]
        /\ \A i \in 1 .. Len(z) : d[Len(q) + i] = z[i]
    BY <1>0, Joined
  <1>3. \A i \in 1 .. Len(d) : Fits(d[i].do, m)
    <2> TAKE i \in 1 .. Len(d)
    <2>1. CASE i <= Len(q)
      <3>1. i \in 1 .. Len(q) BY <1>2, <2>1
      <3> QED BY <1>2, <3>1
    <2>2. CASE i > Len(q)
      <3>1. i - Len(q) \in 1 .. Len(z) /\ Len(q) + (i - Len(q)) = i BY <1>2, <2>2
      <3>2. d[i] = z[i - Len(q)] BY <1>2, <3>1
      <3> QED BY <3>1, <3>2
    <2> QED BY <1>2, <2>1, <2>2
  <1>4. \A i \in 1 .. Len(d) - 1 : d[i].do \notin {"blockOut", "setBreakLabel"}
    <2> SUFFICES ASSUME NEW i \in 1 .. Len(d) - 1 PROVE d[i].do \notin {"blockOut", "setBreakLabel"} OBVIOUS
    <2>1. i \in 1 .. Len(q) BY <1>2
    <2> QED BY <1>2, <2>1
  <1>5. /\ g \in Seq(Ghosts) /\ Len(g) = Len(w) + 1 /\ Len(w) \in Nat /\ Len(w) >= 1
        /\ \A i \in 1 .. Len(w) : g[i].call = w[i]
        /\ g[Len(g)] = [call |-> End, level |-> 1, break |-> -1]
        /\ g[1].level = n /\ g[1].break = b
        /\ Chain(g)
        /\ \A i \in 1 .. Len(g) : Fits(g[i].call.do, g[i].level)
    BY <1>1 DEF Levels
  <1>6. Len(d) \in Nat /\ \A i \in 1 .. Len(d) : d[i] \in Calls BY <1>2
  <1>7. PICK c : /\ c \in Seq(Ghosts) /\ Len(c) = Len(d)
                 /\ \A i \in 1 .. Len(d) : c[i].call = d[i] /\ c[i].level = m /\ c[i].break = a
    <2> DEFINE x == [i \in 1 .. Len(d) |-> [call |-> d[i], level |-> m, break |-> a]]
    <2>1. \A i \in 1 .. Len(d) : [call |-> d[i], level |-> m, break |-> a] \in Ghosts BY <1>6 DEF Ghosts
    <2>2. x \in [1 .. Len(d) -> Ghosts] BY <2>1
    <2>4. \A i \in 1 .. Len(d) : x[i].call = d[i] /\ x[i].level = m /\ x[i].break = a OBVIOUS
    <2> HIDE DEF x
    <2>6. x \in Seq(Ghosts) /\ Len(x) = Len(d) BY <1>6, <2>2, Listed
    <2> QED BY <2>4, <2>6
  <1>8. Chain(c)
    <2> SUFFICES ASSUME NEW i \in 1 .. Len(d) - 1 PROVE <<c[i], c[i + 1]>> \in Follows BY <1>7 DEF Chain
    <2>1. i \in 1 .. Len(d) /\ i + 1 \in 1 .. Len(d) BY <1>6
    <2>2. c[i] \in Ghosts /\ c[i + 1] \in Ghosts BY <1>6, <1>7, <2>1
    <2>3. /\ c[i].call = d[i] /\ c[i].level = m /\ c[i].break = a
          /\ c[i + 1].level = m /\ c[i + 1].break = a
      BY <1>7, <2>1
    <2>4. d[i].do \notin {"blockOut", "setBreakLabel"} BY <1>4
    <2> QED BY <2>2, <2>3, <2>4 DEF Follows, LevelBehind, BreakBehind
  <1>9. g[2].level = LevelBehind(w[1], n) /\ g[2].break = BreakBehind(w[1], b)
    <2>1. 1 \in 1 .. Len(g) - 1 /\ 1 \in 1 .. Len(w) BY <1>5
    <2>2. <<g[1], g[2]>> \in Follows BY <1>5, <2>1 DEF Chain
    <2> QED BY <1>5, <2>1, <2>2 DEF Follows
  <1>10. c # <<>> => <<c[Len(c)], g[2]>> \in Follows
    <2> SUFFICES ASSUME c # <<>> PROVE <<c[Len(c)], g[2]>> \in Follows OBVIOUS
    <2>1. Len(d) \in 1 .. Len(d) BY <1>6, <1>7
    <2>2. c[Len(c)] \in Ghosts /\ g[2] \in Ghosts BY <1>5, <1>7, <2>1
    <2>3. c[Len(c)].call = d[Len(d)] /\ c[Len(c)].level = m /\ c[Len(c)].break = a BY <1>7, <2>1
    <2>4. LevelBehind(d[Len(d)], m) = g[2].level /\ BreakBehind(d[Len(d)], a) = g[2].break
      <3>1. CASE z = <<>>
        <4>1. Len(d) \in 1 .. Len(q) BY <1>2, <2>1, <3>1
        <4>2. d[Len(d)].do \notin {"blockOut", "setBreakLabel"} BY <1>2, <4>1
        <4> QED BY <1>9, <3>1, <4>2 DEF LevelBehind, BreakBehind
      <3>2. CASE z # <<>>
        <4>0. Len(z) # 0 BY <3>2, EmptySeq
        <4>0a. Len(z) \in Nat OBVIOUS
        <4>1. Len(z) = 1 BY ONLY Len(z) <= 1, <4>0, <4>0a
        <4>2. d[Len(q) + 1] = z[1] /\ Len(d) = Len(q) + 1 BY <1>2, <4>1
        <4> QED BY <1>9, <3>2, <4>2
      <3> QED BY <3>1, <3>2
    <2> QED BY <2>2, <2>3, <2>4 DEF Follows
  <1>11. c = <<>> => g[2].level = m /\ g[2].break = a
    <2> SUFFICES ASSUME c = <<>> PROVE g[2].level = m /\ g[2].break = a OBVIOUS
    <2>1. Len(c) = 0 BY EmptySeq
    <2>2. Len(z) = 0 BY <1>2, <1>7, <2>1
    <2>3. z = <<>> BY <2>2, EmptySeq
    <2> QED BY <1>9, <2>3
  <1>12. c # <<>> => c[1].level = m /\ c[1].break = a
    <2> SUFFICES ASSUME c # <<>> PROVE c[1].level = m /\ c[1].break = a OBVIOUS
    <2>1. 1 \in 1 .. Len(d) BY <1>6, <1>7
    <2> QED BY <1>7, <2>1
  <1>13. \A i \in 1 .. Len(c) : c[i].call = d[i] /\ Fits(c[i].call.do, c[i].level) BY <1>3, <1>7
  <1>14. r = d \o Tail(w) BY <1>0
  <1>15. d \in Seq(Calls) /\ c \in Seq(Ghosts) /\ Len(c) = Len(d) BY <1>2, <1>7
  <1>16. w \in Seq(Calls) /\ w # <<>> OBVIOUS
  <1> QED BY ONLY <1>1, <1>8, <1>10, <1>11, <1>12, <1>13, <1>14, <1>15, <1>16, LevelsSpliced, Zenon

\* The calls that a pass begins with are at one table and no break label.
LEMMA LevelsFresh ==
  ASSUME NEW q \in Seq(Calls), \A i \in 1 .. Len(q) : q[i].do \in {"emit", "regist", "function", "global"}
  PROVE  Leveled(q, 1, -1)
  <1> DEFINE n == Len(q)
             g == [i \in 1 .. n + 1 |-> [call |-> IF i = n + 1 THEN End ELSE q[i], level |-> 1, break |-> -1]]
  <1>1. n \in Nat OBVIOUS
  <1>2. \A i \in 1 .. n + 1 : g[i] \in Ghosts BY <1>1 DEF Ghosts
  <1>3. g \in Seq(Ghosts) /\ Len(g) = n + 1
    <2>1. g \in [1 .. n + 1 -> Ghosts] BY <1>2
    <2> HIDE DEF g
    <2>2. DOMAIN g = 1 .. n + 1 BY <2>1
    <2> QED BY <1>1, <2>1, <2>2
  <1>4. \A i \in 1 .. n : g[i].call = q[i] /\ g[i].level = 1 /\ g[i].break = -1 BY <1>1
  <1>5a. n + 1 \in 1 .. n + 1 BY <1>1
  <1>5. g[n + 1] = [call |-> End, level |-> 1, break |-> -1] BY <1>5a
  <1>5b. g[n + 1].call = End /\ g[n + 1].level = 1 /\ g[n + 1].break = -1 BY <1>5
  <1> HIDE DEF g
  <1>6. Chain(g)
    <2> SUFFICES ASSUME NEW i \in 1 .. n PROVE <<g[i], g[i + 1]>> \in Follows BY <1>1, <1>3 DEF Chain
    <2>1. g[i].call.do \notin {"blockOut", "setBreakLabel"} BY <1>4
    <2>2. g[i] \in Ghosts /\ g[i + 1] \in Ghosts BY <1>1, <1>2
    <2>3. i + 1 \in 1 .. n \/ i + 1 = n + 1 BY <1>1
    <2>4. g[i].level = 1 /\ g[i].break = -1 /\ g[i + 1].level = 1 /\ g[i + 1].break = -1 BY <1>4, <1>5b, <2>3
    <2> QED BY <2>1, <2>2, <2>4 DEF Follows, LevelBehind, BreakBehind
  <1>7. \A i \in 1 .. n + 1 : Fits(g[i].call.do, g[i].level)
    <2> SUFFICES ASSUME NEW i \in 1 .. n + 1 PROVE Fits(g[i].call.do, g[i].level) OBVIOUS
    <2>1. i \in 1 .. n \/ i = n + 1 BY <1>1
    <2>2. CASE i \in 1 .. n BY <1>4, <2>2 DEF Fits
    <2>3. CASE i = n + 1 BY <1>5b, <2>3 DEF Fits, End
    <2> QED BY <2>1, <2>2, <2>3
  <1>8. 1 \in 1 .. n + 1 /\ (1 \in 1 .. n \/ 1 = n + 1) BY <1>1
  <1>9. g[1].level = 1 /\ g[1].break = -1 BY <1>4, <1>5b, <1>8
  <1>10. Levels(g, q, 1, -1)
    <2>1. g[Len(g)] = [call |-> End, level |-> 1, break |-> -1] BY <1>3, <1>5
    <2>2. Len(q) = n OBVIOUS
    <2> HIDE DEF n
    <2> QED BY <1>3, <1>4, <1>6, <1>7, <1>9, <2>1, <2>2 DEF Levels
  <1> QED BY <1>10 DEF Leveled

\* What a chain says of the next call, and of the state when there is none.
LEMMA HeadFits ==
  ASSUME NEW w \in Seq(Calls), NEW n, NEW b, Leveled(w, n, b)
  PROVE  /\ n \in Int /\ b \in Int /\ n >= 1
         /\ w # <<>> => Fits(w[1].do, n)
         /\ w = <<>> => n = 1 /\ b = -1
  <1>1. PICK g : Levels(g, w, n, b) BY DEF Leveled
  <1>2. /\ g \in Seq(Ghosts) /\ Len(g) = Len(w) + 1 /\ Len(w) \in Nat
        /\ \A i \in 1 .. Len(w) : g[i].call = w[i]
        /\ g[Len(g)] = [call |-> End, level |-> 1, break |-> -1]
        /\ g[1].level = n /\ g[1].break = b
        /\ \A i \in 1 .. Len(g) : Fits(g[i].call.do, g[i].level)
    BY <1>1 DEF Levels
  <1>3. 1 \in 1 .. Len(g) BY <1>2
  <1>4. g[1] \in Ghosts /\ Fits(g[1].call.do, n) BY <1>2, <1>3
  <1>5. n \in Int /\ b \in Int /\ n >= 1 BY <1>2, <1>4 DEF Ghosts, Fits
  <1>6. w # <<>> => 1 \in 1 .. Len(w) BY <1>2
  <1> QED BY <1>2, <1>4, <1>5, <1>6

\* The calls that the passes and Function::Analyze make first.
Declared == {"regist", "function", "global", "parameter"}

\* The calls that make statements and expressions, without those that name a
\* function or put something back.
Flats == {x \in Calls : x.do \notin Declared \cup {"blockOut", "setBreakLabel", "arguments", "setArg"}}

\* The pending calls put the tables and the break label back, level by level.
InPlace == Leveled(work, Len(variables), breakIndex)

\* Calls that a step which neither registers nor begins a function may leave.
Sober(c) ==
  /\ c \in Seq(Calls)
  /\ \A i \in 1 .. Len(c) : c[i].do \notin Declared /\ Callee(c[i])

PlainStep ==
  /\ Typed'
  /\ work # <<>> /\ work[1].do \notin {"regist", "function"}
  /\ \E c : /\ Sober(c)
            /\ \/ work' = c \o Tail(work)
               \/ c = <<>> /\ Len(work) > 1 /\ work[2].do = "block" /\ work' = Tail(Tail(work))
  /\ UNCHANGED <<functions, phase, script, analyzed>>

\* Flat calls fit anywhere inside a function.
LEMMA FlatCalls ==
  ASSUME NEW q \in Seq(Flats)
  PROVE  /\ q \in Seq(Calls)
         /\ \A i \in 1 .. Len(q) : q[i] \in Flats
         /\ Sober(q)
         /\ \A i \in 1 .. Len(q) : q[i].do \notin {"blockOut", "setBreakLabel"} /\ \A m \in Int : m >= 2 => Fits(q[i].do, m)
  <1>1. q \in Seq(Calls) /\ \A i \in 1 .. Len(q) : q[i] \in Flats BY DEF Flats
  <1>2. \A i \in 1 .. Len(q) :
          q[i].do \notin Declared \cup {"blockOut", "setBreakLabel", "arguments", "setArg"}
    BY <1>1 DEF Flats
  <1>3. \A i \in 1 .. Len(q) : q[i].do # "end"
    <2> SUFFICES ASSUME NEW i \in 1 .. Len(q) PROVE q[i].do # "end" OBVIOUS
    <2>1. q[i] \in Calls BY <1>1 DEF Flats
    <2> QED BY <2>1 DEF Calls, ExpressionCalls, StatementCalls, DeclarationCalls
  <1>4. Sober(q) BY <1>1, <1>2 DEF Sober, Callee, Declared
  <1>5. \A i \in 1 .. Len(q) : \A m \in Int : m >= 2 => Fits(q[i].do, m) BY <1>2, <1>3 DEF Fits, Declared
  <1> QED BY <1>1, <1>2, <1>4, <1>5

\* A step keeps InPlace when what it leaves fits, and the last call of it leaves
\* behind what the call it replaces did.
LEMMA OnwardCalls ==
  ASSUME Typed, Typed', work # <<>>, InPlace, NEW q \in Seq(Calls), NEW z \in Seq(Calls), Len(z) <= 1,
         work' = (q \o z) \o Tail(work),
         \A i \in 1 .. Len(q) : q[i].do \notin {"blockOut", "setBreakLabel"} /\ Fits(q[i].do, Len(variables')),
         \A i \in 1 .. Len(z) : Fits(z[i].do, Len(variables')),
         z = <<>> => /\ Len(variables') = LevelBehind(work[1], Len(variables))
                     /\ breakIndex' = BreakBehind(work[1], breakIndex),
         z # <<>> => /\ LevelBehind(z[1], Len(variables')) = LevelBehind(work[1], Len(variables))
                     /\ BreakBehind(z[1], breakIndex') = BreakBehind(work[1], breakIndex)
  PROVE  InPlace'
  <1> DEFINE n == Len(variables)
             m == Len(variables')
             a == breakIndex'
             r == work'
  <1>1. work \in Seq(Calls) /\ m \in Int /\ a \in Int BY DEF Typed
  <1>2. q \in Seq(Calls) OBVIOUS
  <1>3. \A i \in 1 .. Len(q) : q[i].do \notin {"blockOut", "setBreakLabel"} /\ Fits(q[i].do, m) OBVIOUS
  <1>4. Leveled(work, n, breakIndex) BY DEF InPlace
  <1>5. r = (q \o z) \o Tail(work) /\ work # <<>> /\ Len(z) <= 1 OBVIOUS
  <1>6. \A i \in 1 .. Len(z) : Fits(z[i].do, m) OBVIOUS
  <1>7. z = <<>> => m = LevelBehind(work[1], n) /\ a = BreakBehind(work[1], breakIndex) OBVIOUS
  <1>8. z # <<>> => /\ LevelBehind(z[1], m) = LevelBehind(work[1], n)
                    /\ BreakBehind(z[1], a) = BreakBehind(work[1], breakIndex)
    OBVIOUS
  <1>9. z \in Seq(Calls) OBVIOUS
  <1> HIDE DEF n, m, a, r
  <1>10. Leveled(r, m, a) BY ONLY <1>1, <1>2, <1>3, <1>4, <1>5, <1>6, <1>7, <1>8, <1>9, LevelsNext, Zenon
  <1> QED BY <1>10 DEF InPlace, m, a, r

\* The same for flat calls and one more.
LEMMA Onward ==
  ASSUME Typed, Typed', work # <<>>, InPlace, NEW q \in Seq(Flats), NEW z \in Seq(Calls), Len(z) <= 1,
         work' = (q \o z) \o Tail(work), q # <<>> => Len(variables') >= 2,
         \A i \in 1 .. Len(z) : Fits(z[i].do, Len(variables')),
         z = <<>> => /\ Len(variables') = LevelBehind(work[1], Len(variables))
                     /\ breakIndex' = BreakBehind(work[1], breakIndex),
         z # <<>> => /\ LevelBehind(z[1], Len(variables')) = LevelBehind(work[1], Len(variables))
                     /\ BreakBehind(z[1], breakIndex') = BreakBehind(work[1], breakIndex)
  PROVE  InPlace'
  <1>1. q \in Seq(Calls) BY FlatCalls
  <1>2. ASSUME NEW i \in 1 .. Len(q)
        PROVE  q[i].do \notin {"blockOut", "setBreakLabel"} /\ Fits(q[i].do, Len(variables'))
    <2>0. Len(q) # 0 OBVIOUS
    <2>1. q # <<>> BY <2>0, EmptySeq
    <2>2. Len(variables') >= 2 /\ Len(variables') \in Int BY <2>1 DEF Typed
    <2> QED BY <2>2, FlatCalls
  <1> QED BY <1>1, <1>2, OnwardCalls

\* Flat calls with a call behind them that puts something back.
LEMMA SoberEnclosed ==
  ASSUME NEW q \in Seq(Calls), Sober(q), NEW x \in Calls, x.do \in {"setBreakLabel", "blockOut"}
  PROVE  /\ q \o <<x>> \in Seq(Calls)
         /\ Sober(q \o <<x>>)
  <1>1. PICK z : z = <<x>> OBVIOUS
  <1>2. PICK c : c = q \o z OBVIOUS
  <1>3. z \in Seq(Calls) /\ Len(z) = 1 /\ z[1] = x BY <1>1
  <1>4. q \in Seq(Calls) /\ Len(q) \in Nat OBVIOUS
  <1>5. /\ c \in Seq(Calls) /\ Len(c) = Len(q) + Len(z)
        /\ \A i \in 1 .. Len(q) : c[i] = q[i]
        /\ \A i \in 1 .. Len(z) : c[Len(q) + i] = z[i]
    BY ONLY <1>2, <1>3, <1>4, Joined
  <1>6. Len(c) = Len(q) + 1 /\ c[Len(q) + 1] = x BY <1>3, <1>5
  <1>7. ASSUME NEW i \in 1 .. Len(c) PROVE c[i].do \notin Declared /\ Callee(c[i])
    <2>1. CASE i \in 1 .. Len(q) BY <1>5, <2>1 DEF Sober
    <2>2. CASE i = Len(q) + 1 BY <1>6, <2>2 DEF Declared, Callee
    <2> QED BY <1>4, <1>6, <2>1, <2>2
  <1> QED BY <1>1, <1>2, <1>5, <1>7 DEF Sober

\* A quiet step keeps InPlace.
LEMMA LevelsQuiet ==
  ASSUME Typed, InPlace, QuietStep
  PROVE  InPlace' /\ PlainStep
  <1>1. PICK c : Calm(c) /\ work' = c \o Tail(work) /\ (c = <<>> \/ work[1].do \in Quiet \ {"emit"}) BY DEF QuietStep
  <1>2. /\ Typed' /\ work # <<>> /\ work[1].do \in Quiet \cup {"global", "parameter"}
        /\ UNCHANGED <<breakIndex, functions, phase, script, analyzed>> /\ Len(variables') = Len(variables)
    BY DEF QuietStep
  <1>3. c \in Seq(Calls) /\ \A i \in 1 .. Len(c) : c[i].do \in Quiet /\ Callee(c[i]) BY <1>1 DEF Calm
  <1>4. Sober(c) BY <1>3 DEF Sober, Quiet, Declared
  <1>5. PlainStep BY <1>1, <1>2, <1>4 DEF PlainStep, Quiet
  <1>6. Fits(work[1].do, Len(variables)) /\ Len(variables) \in Int /\ breakIndex \in Int
    BY <1>2, HeadFits DEF InPlace, Typed
  <1>7. ASSUME NEW i \in 1 .. Len(c) PROVE c[i].do \notin {"blockOut", "setBreakLabel"} /\ Fits(c[i].do, Len(variables))
    <2>0. Len(c) # 0 OBVIOUS
    <2>1. c # <<>> BY <2>0, <1>3, EmptySeq
    <2>2. work[1].do \in Quiet \ {"emit"} BY <1>1, <2>1
    <2>3. Len(variables) >= 2 BY <1>6, <2>2 DEF Fits, Quiet
    <2> QED BY <1>3, <1>6, <2>3 DEF Fits, Quiet
  <1>8. PICK z : z = <<>> OBVIOUS
  <1>9. work' = (c \o z) \o Tail(work) BY <1>1, <1>3, <1>8
  <1>10. z \in Seq(Calls) /\ Len(z) <= 1 /\ Len(z) = 0 BY <1>8
  <1>11. /\ Len(variables) = LevelBehind(work[1], Len(variables))
         /\ breakIndex = BreakBehind(work[1], breakIndex)
    BY <1>2 DEF LevelBehind, BreakBehind, Quiet
  <1>12. \A i \in 1 .. Len(z) : Fits(z[i].do, Len(variables)) BY <1>10
  <1>13. work \in Seq(Calls) /\ work # <<>> /\ Leveled(work, Len(variables), breakIndex)
    BY <1>2 DEF Typed, InPlace
  <1>14. Leveled(work', Len(variables), breakIndex)
    <2> DEFINE r == work'
    <2>1. r = (c \o z) \o Tail(work) BY <1>9
    <2> HIDE DEF r
    <2>2. Leveled(r, Len(variables), breakIndex)
      BY ONLY <1>3, <1>6, <1>7, <1>8, <1>10, <1>11, <1>12, <1>13, <2>1, LevelsNext, Zenon
    <2> QED BY <2>2 DEF r
  <1> QED BY <1>2, <1>5, <1>14 DEF InPlace

\* A step that leaves no call, or flat calls only.
LEMMA Inert ==
  /\ <<>> \in Seq(Flats) /\ <<>> \in Seq(Calls) /\ Len(<<>>) = 0 /\ Sober(<<>>)
  /\ \A w \in Seq(Calls) : w # <<>> => (<<>> \o <<>>) \o Tail(w) = <<>> \o Tail(w)
BY DEF Sober

LEMMA OnwardPlain ==
  ASSUME Typed, Typed', work # <<>>, InPlace, NEW q \in Seq(Flats),
         work' = q \o Tail(work), q # <<>> => Len(variables') >= 2,
         Len(variables') = LevelBehind(work[1], Len(variables)),
         breakIndex' = BreakBehind(work[1], breakIndex)
  PROVE  InPlace'
  <1>1. PICK z : z = <<>> OBVIOUS
  <1>2. z \in Seq(Calls) /\ Len(z) <= 1 /\ Len(z) = 0 BY <1>1
  <1>3. q \in Seq(Calls) BY FlatCalls
  <1>4. work' = (q \o z) \o Tail(work) BY <1>1, <1>3
  <1>5. \A i \in 1 .. Len(z) : Fits(z[i].do, Len(variables')) BY <1>2
  <1> QED BY <1>1, <1>2, <1>4, <1>5, Onward, Zenon

\* The steps that set a label or put the break label back (SetLabel).
LEMMA NextSetLabel ==
  ASSUME Typed, InPlace, Fixed, SetLabelNext
  PROVE  PlainStep /\ InPlace'
  <1>1. work # <<>> /\ work[1].do = "setLabel" /\ work' = <<>> \o Tail(work) /\ Place(work[1].label, work[1].least)
        /\ UNCHANGED <<type, errorCount, statement, frames, labels, breakIndex, tables, noted>>
    BY DEF SetLabelNext, Doing, Then
  <1>2. work[1].label \in Int /\ work[1].least \in Int BY <1>1, HeadParts, CallParts
  <1>3. work' \in Seq(Calls) BY <1>1, NoCalls, Continued
  <1>4. places' \in Seq([label : Int, address : Nat]) /\ depth' \in Int
    <2>1. [label |-> work[1].label, address |-> Len(statement)] \in [label : Int, address : Nat] BY <1>2 DEF Typed
    <2>2. places \in Seq([label : Int, address : Nat]) BY DEF Typed
    <2> QED BY <1>1, <1>2, <2>1, <2>2 DEF Place
  <1>5. Typed' BY <1>1, <1>3, <1>4 DEF Typed, Fixed, tables, noted
  <1>6. PlainStep BY <1>1, <1>5, Inert DEF PlainStep, Fixed, tables
  <1>8. /\ Len(variables') = LevelBehind(work[1], Len(variables))
        /\ breakIndex' = BreakBehind(work[1], breakIndex)
    BY <1>1 DEF LevelBehind, BreakBehind, tables
  <1> QED BY <1>1, <1>5, <1>6, <1>8, Inert, OnwardPlain

LEMMA NextSetBreakLabel ==
  ASSUME Typed, InPlace, Fixed, SetBreakLabelNext
  PROVE  PlainStep /\ InPlace'
  <1>1. work # <<>> /\ work[1].do = "setBreakLabel" /\ work' = <<>> \o Tail(work) /\ breakIndex' = work[1].label
        /\ UNCHANGED <<type, errorCount, emitted, labels, places, tables, noted>>
    BY DEF SetBreakLabelNext, Doing, Then
  <1>2. work[1].label \in Int BY <1>1, HeadParts, CallParts
  <1>3. work' \in Seq(Calls) BY <1>1, NoCalls, Continued
  <1>5. Typed' BY <1>1, <1>2, <1>3 DEF Typed, Fixed, emitted, tables, noted
  <1>6. PlainStep BY <1>1, <1>5, Inert DEF PlainStep, Fixed, tables
  <1>8. /\ Len(variables') = LevelBehind(work[1], Len(variables))
        /\ breakIndex' = BreakBehind(work[1], breakIndex)
    BY <1>1 DEF LevelBehind, BreakBehind, tables
  <1> QED BY <1>1, <1>5, <1>6, <1>8, Inert, OnwardPlain

\* Block::Analyze ends its loop when an assignment fails: a call that puts nothing
\* back may be left out.
LEMMA Dropped ==
  ASSUME NEW w \in Seq(Calls), w # <<>>, NEW n, NEW b, Leveled(w, n, b),
         w[1].do \notin {"blockOut", "setBreakLabel"}
  PROVE  Tail(w) \in Seq(Calls) /\ Leveled(Tail(w), n, b)
  <1>1. n \in Int /\ b \in Int BY HeadFits
  <1>2. n = LevelBehind(w[1], n) /\ b = BreakBehind(w[1], b) BY DEF LevelBehind, BreakBehind
  <1>3. PICK q : q = <<>> OBVIOUS
  <1>4. PICK r : r = Tail(w) OBVIOUS
  <1>5. q \in Seq(Calls) /\ Len(q) <= 1 /\ Len(q) = 0 BY <1>3
  <1>6. r = (q \o q) \o Tail(w) BY <1>3, <1>4
  <1>7. w \in Seq(Calls) /\ w # <<>> /\ Leveled(w, n, b) OBVIOUS
  <1>8. \A i \in 1 .. Len(q) : q[i].do \notin {"blockOut", "setBreakLabel"} /\ Fits(q[i].do, n) BY <1>5
  <1>9. \A i \in 1 .. Len(q) : Fits(q[i].do, n) BY <1>5
  <1>10. Leveled(r, n, b) BY ONLY <1>1, <1>2, <1>3, <1>5, <1>6, <1>7, <1>8, <1>9, LevelsNext, Zenon
  <1> QED BY <1>4, <1>10

LEMMA NextStoreFails ==
  ASSUME Typed, InPlace, Fixed, StoreFails
  PROVE  PlainStep /\ InPlace'
  <1>1. work # <<>> /\ work[1].do = "store" /\ errorCount' = errorCount + 1
        /\ UNCHANGED <<type, emitted, labelled, tables, noted>>
    BY DEF StoreFails, Doing, Error
  <1>2. work \in Seq(Calls) /\ Leveled(work, Len(variables), breakIndex) BY DEF Typed, InPlace
  <1>3. Tail(work) \in Seq(Calls) /\ Leveled(Tail(work), Len(variables), breakIndex) BY <1>1, <1>2, Dropped
  <1>4. CASE Len(work) > 1 /\ work[2].do = "block"
    <2>1. work' = Tail(Tail(work)) BY <1>4 DEF StoreFails
    <2>2. Tail(work) # <<>> /\ Tail(work)[1] = work[2]
      <3>1. Len(work) \in Nat /\ Len(work) > 1 /\ work # <<>> BY <1>1, <1>2, <1>4
      <3>2. Len(Tail(work)) = Len(work) - 1 /\ \A i \in 1 .. Len(work) - 1 : Tail(work)[i] = work[i + 1]
        BY <1>1, <1>2
      <3>3. 1 \in 1 .. Len(work) - 1 /\ Len(Tail(work)) # 0 BY <3>1, <3>2
      <3>4. Tail(work) # <<>> BY <1>3, <3>3, EmptySeq
      <3>5. Tail(work)[1] = work[1 + 1] BY ONLY <3>2, <3>3, Zenon
      <3> QED BY <3>4, <3>5
    <2>3. Tail(Tail(work)) \in Seq(Calls) /\ Leveled(Tail(Tail(work)), Len(variables), breakIndex)
      BY <1>3, <1>4, <2>2, Dropped
    <2>4. Typed' BY <1>1, <2>1, <2>3 DEF Typed, Fixed, emitted, labelled, tables, noted
    <2>5. PlainStep BY <1>1, <1>4, <2>1, <2>4, Inert DEF PlainStep, Fixed, tables
    <2> QED BY <1>1, <2>1, <2>3, <2>5 DEF InPlace, labelled, tables
  <1>5. CASE ~(Len(work) > 1 /\ work[2].do = "block")
    <2>1. work' = Tail(work) BY <1>5 DEF StoreFails
    <2>4. Typed' BY <1>1, <1>3, <2>1 DEF Typed, Fixed, emitted, labelled, tables, noted
    <2>6. work' = <<>> \o Tail(work) BY <1>1, <1>2, <2>1
    <2>5. PlainStep BY <1>1, <2>4, <2>6, Inert DEF PlainStep, Fixed, tables
    <2> QED BY <1>1, <1>3, <2>1, <2>5 DEF InPlace, labelled, tables
  <1> QED BY <1>4, <1>5

\* Statements whose calls are all made at the level they are made at.
LEMMA OnwardFlat ==
  ASSUME Typed, Fixed, work # <<>>, InPlace, NEW q \in Seq(Flats), work' = q \o Tail(work),
         work[1].do \in {"then", "else", "cases", "analyze"},
         type' \in Types, errorCount' \in Nat, labels' \in Nat, doubts' \subseteq {"value", "label"},
         UNCHANGED <<emitted, places, breakIndex, tables>>
  PROVE  PlainStep /\ InPlace'
  <1>1. work \in Seq(Calls) /\ q \in Seq(Calls) /\ Sober(q) BY FlatCalls DEF Typed
  <1>2. work' \in Seq(Calls) BY <1>1
  <1>3. Typed' BY <1>2 DEF Typed, Fixed, emitted, tables
  <1>4. PlainStep BY <1>1, <1>3 DEF PlainStep, Fixed, tables
  <1>6. /\ Len(variables') = LevelBehind(work[1], Len(variables))
        /\ breakIndex' = BreakBehind(work[1], breakIndex)
    BY DEF LevelBehind, BreakBehind, tables
  <1>7. Fits(work[1].do, Len(variables)) BY <1>1, HeadFits DEF InPlace
  <1>8. Len(variables') >= 2 BY <1>7 DEF Fits, tables
  <1> QED BY <1>1, <1>3, <1>4, <1>6, <1>8, OnwardPlain

\* The calls of the statements are flat.
LEMMA FlatKinds ==
  /\ \A e \in Expressions : Push(e) \in Flats
  /\ \A s \in Statements : Analyze(s) \in Flats
  /\ \A op \in Opcodes, arg \in Int, n \in {0, 1} : Emit(op, arg, n) \in Flats /\ EmitOn(op, arg, n) \in Flats
  /\ \A s \in Statements \cup {None}, l \in Int, n \in Int : Else(s, l, n) \in Flats
  /\ \A l \in Int, n \in Int : SetLabel(l, n) \in Flats
  /\ \A n \in STRING : [do |-> "define", name |-> n] \in Flats
  /\ \A x \in {"alloc", "block"}, items \in Seq(Statements) : [do |-> x, items |-> items] \in Flats
  /\ [do |-> "close"] \in Flats
  <1>1. /\ \A e \in Expressions : Push(e).do = "push"
        /\ \A s \in Statements : Analyze(s).do = "analyze"
        /\ \A op, arg, n : Emit(op, arg, n).do = "emit" /\ EmitOn(op, arg, n).do = "emitOn"
        /\ \A s, l, n : Else(s, l, n).do = "else"
        /\ \A l, n : SetLabel(l, n).do = "setLabel"
    BY DEF Push, Analyze, Emit, EmitOn, Else, SetLabel
  <1>2. \A e \in Expressions : Push(e) \in Flats BY <1>1, CallTypes DEF Flats, Declared
  <1>3. \A s \in Statements : Analyze(s) \in Flats BY <1>1, CallTypes DEF Flats, Declared
  <1>4. \A op \in Opcodes, arg \in Int, n \in {0, 1} : Emit(op, arg, n) \in Flats /\ EmitOn(op, arg, n) \in Flats
    BY <1>1, CallTypes DEF Flats, Declared
  <1>5. \A s \in Statements \cup {None}, l \in Int, n \in Int : Else(s, l, n) \in Flats
    BY <1>1, CallTypes DEF Flats, Declared
  <1>6. \A l \in Int, n \in Int : SetLabel(l, n) \in Flats BY <1>1, CallTypes DEF Flats, Declared
  <1>7. \A n \in STRING : [do |-> "define", name |-> n] \in Flats BY CallTypes DEF Flats, Declared
  <1>8. \A x \in {"alloc", "block"}, items \in Seq(Statements) : [do |-> x, items |-> items] \in Flats
    BY CallTypes DEF Flats, Declared
  <1>9. [do |-> "close"] \in Flats BY CallTypes DEF Flats, Declared
  <1> QED BY <1>2, <1>3, <1>4, <1>5, <1>6, <1>7, <1>8, <1>9

-----------------------------------------------------------------------------
(* The steps that make labels or open tables.                              *)

\* An if statement, its else part, a case.
LEMMA NextThen ==
  ASSUME Typed, InPlace, Fixed, AnalyzeThen
  PROVE  PlainStep /\ InPlace'
  <1> DEFINE s == work[1].s
             o == EmitOn("oper", 1, 0)
             x == EmitOn("jmpnc", labels, 0)
             y == Analyze(s.then)
             z == Else(s.else, labels, depth - 1)
             p == IF type = "int" THEN <<>> ELSE <<o>>
             q == p \o <<x, y, z>>
  <1>1. work # <<>> /\ work[1].do = "then" /\ work' = q \o Tail(work) /\ labels' = labels + 1
        /\ UNCHANGED <<type, errorCount, emitted, places, breakIndex, tables, noted>>
    BY DEF AnalyzeThen, Doing, Then
  <1>2. s \in Statements /\ labels \in Nat /\ depth - 1 \in Int /\ type \in Types /\ errorCount \in Nat
        /\ doubts \subseteq {"value", "label"}
    BY <1>1, HeadParts, CallParts DEF Typed
  <1>3. s.then \in Statements /\ s.else \in Statements \cup {None} BY <1>1, <1>2, HeadParts, CallParts, StatementParts
  <1>4. o \in Flats /\ x \in Flats /\ y \in Flats BY <1>2, <1>3, FlatKinds DEF Opcodes
  <1>5a. \A t \in Statements \cup {None}, l \in Int, n \in Int : Else(t, l, n) \in Flats BY FlatKinds
  <1>5b. labels \in Int BY <1>2
  <1>5. z \in Flats BY <1>2, <1>3, <1>5a, <1>5b, Zenon
  <1> HIDE DEF o, x, y, z
  <1>6. <<o>> \in Seq(Flats) /\ <<x, y, z>> \in Seq(Flats) BY <1>4, <1>5
  <1>7. p \in Seq(Flats) BY <1>6
  <1> HIDE DEF p
  <1>8. q \in Seq(Flats) BY <1>6, <1>7
  <1> HIDE DEF q
  <1> QED BY <1>1, <1>2, <1>8, OnwardFlat DEF noted

LEMMA NextElse ==
  ASSUME Typed, InPlace, Fixed, AnalyzeElse
  PROVE  PlainStep /\ InPlace'
  <1> DEFINE s == work[1].s
             x == SetLabel(work[1].label, work[1].least)
             y == Emit("jmp", labels, 0)
             z == SetLabel(labels, work[1].least)
  <1>1. work # <<>> /\ work[1].do = "else" /\ UNCHANGED <<type, errorCount, emitted, places, breakIndex, tables, noted>>
    BY DEF AnalyzeElse, Doing
  <1>2. /\ s \in Statements \cup {None} /\ work[1].label \in Int /\ work[1].least \in Int
        /\ labels \in Nat /\ labels \in Int /\ type \in Types /\ errorCount \in Nat
        /\ doubts \subseteq {"value", "label"}
    BY <1>1, HeadParts, CallParts DEF Typed
  <1>3. \A l \in Int, n \in Int : SetLabel(l, n) \in Flats BY FlatKinds
  <1>4. x \in Flats /\ z \in Flats BY <1>2, <1>3, Zenon
  <1>5. y \in Flats BY <1>2, FlatKinds DEF Opcodes
  <1> HIDE DEF x, y, z
  <1>6. CASE s = None
    <2>1. work' = <<x>> \o Tail(work) /\ labels' = labels BY <1>6 DEF AnalyzeElse, Then, x
    <2>2. <<x>> \in Seq(Flats) BY <1>4
    <2> QED BY <1>1, <1>2, <2>1, <2>2, OnwardFlat DEF noted
  <1>7. CASE s # None
    <2>1. work' = <<y, x, Analyze(s), z>> \o Tail(work) /\ labels' = labels + 1 BY <1>7 DEF AnalyzeElse, Then, x, y, z
    <2>2. Analyze(s) \in Flats BY <1>2, <1>7, FlatKinds
    <2>3. <<y, x, Analyze(s), z>> \in Seq(Flats) BY <1>4, <1>5, <2>2
    <2>4. /\ type' \in Types /\ errorCount' \in Nat /\ labels' \in Nat /\ doubts' \subseteq {"value", "label"}
          /\ UNCHANGED <<emitted, places, breakIndex, tables>>
      BY <1>1, <1>2, <2>1 DEF noted
    <2> HIDE DEF s
    <2> QED BY <1>1, <2>1, <2>3, <2>4, OnwardFlat
  <1> QED BY <1>6, <1>7

LEMMA NextCase ==
  ASSUME Typed, InPlace, Fixed, AnalyzeCase
  PROVE  PlainStep /\ InPlace'
  <1> DEFINE x == SetLabel(work[1].s.label, depth)
  <1>1. work # <<>> /\ work[1].do = "analyze" /\ work[1].s.k \in {"case", "default"} /\ work' = <<x>> \o Tail(work)
        /\ doubts' = doubts \cup {"label"} /\ UNCHANGED <<type, errorCount, emitted, labelled, tables, notes>>
    BY DEF AnalyzeCase, Doing, Then
  <1>2. /\ type \in Types /\ errorCount \in Nat /\ labels \in Nat /\ doubts' \subseteq {"value", "label"} /\ depth \in Int
    BY <1>1 DEF Typed
  <1>3. work[1].s.label \in Int BY <1>1, HeadParts, CallParts, StatementParts
  <1>4. \A l \in Int, n \in Int : SetLabel(l, n) \in Flats BY FlatKinds
  <1>5. x \in Flats BY <1>2, <1>3, <1>4, Zenon
  <1> HIDE DEF x
  <1>6. <<x>> \in Seq(Flats) BY <1>5
  <1> QED BY <1>1, <1>2, <1>6, OnwardFlat DEF labelled

\* Loops and switches, which put back the break label in the end.
LEMMA OnwardBreak ==
  ASSUME Typed, Fixed, work # <<>>, InPlace, NEW q \in Seq(Flats),
         work' = (q \o <<SetBreakLabel(breakIndex)>>) \o Tail(work),
         work[1].do \in {"cases", "analyze"}, labels' \in Nat, breakIndex' \in Int,
         UNCHANGED <<type, errorCount, emitted, places, tables, noted>>
  PROVE  PlainStep /\ InPlace'
  <1>1. PICK x : x = SetBreakLabel(breakIndex) OBVIOUS
  <1>2. PICK z : z = <<x>> OBVIOUS
  <1>3. breakIndex \in Int BY DEF Typed
  <1>4. x \in Calls /\ x.do = "setBreakLabel" /\ x.label = breakIndex BY <1>1, <1>3, CallTypes DEF SetBreakLabel
  <1>5. z \in Seq(Calls) /\ Len(z) = 1 /\ z # <<>> /\ z[1] = x BY <1>2, <1>4
  <1>6. work \in Seq(Calls) /\ q \in Seq(Calls) /\ Sober(q) BY FlatCalls DEF Typed
  <1>7. work' = (q \o z) \o Tail(work) BY <1>1, <1>2
  <1>8. Len(q) \in Nat BY <1>6
  <1>9a. PICK c : c = q \o z OBVIOUS
  <1>9. Sober(c) BY <1>2, <1>4, <1>6, <1>9a, SoberEnclosed
  <1>9b. work' = c \o Tail(work) BY <1>7, <1>9a
  <1>10. work' \in Seq(Calls)
    <2>1. c \in Seq(Calls) BY <1>9 DEF Sober
    <2>2. Tail(work) \in Seq(Calls) BY <1>6
    <2> QED BY ONLY <1>9b, <2>1, <2>2
  <1>11. Typed' BY <1>10 DEF Typed, Fixed, emitted, tables, noted
  <1>12. PlainStep BY <1>9b, <1>9, <1>11 DEF PlainStep, Fixed, tables
  <1>13. Fits(work[1].do, Len(variables)) BY <1>6, HeadFits DEF InPlace
  <1>14. Len(variables) >= 2 /\ Len(variables') = Len(variables) BY <1>13 DEF Fits, tables
  <1>15. /\ LevelBehind(z[1], Len(variables')) = LevelBehind(work[1], Len(variables))
         /\ BreakBehind(z[1], breakIndex') = BreakBehind(work[1], breakIndex)
    BY <1>4, <1>5, <1>14 DEF LevelBehind, BreakBehind
  <1>16. \A i \in 1 .. Len(z) : Fits(z[i].do, Len(variables')) BY <1>4, <1>5, <1>14 DEF Fits
  <1>17. Len(z) <= 1 BY <1>5
  <1>18. InPlace' BY <1>5, <1>7, <1>11, <1>14, <1>15, <1>16, <1>17, Onward
  <1> QED BY <1>12, <1>18

\* What a loop consists of.
LEMMA PartFlat ==
  ASSUME NEW s \in Statements \cup {None}, IsPart(s)
  PROVE  Part(s) \in Seq(Flats)
  <1>1. CASE s.k = "none" BY <1>1 DEF Part
  <1>2. CASE s.k = "assign"
    <2>1. s \in Statements BY <1>2 DEF None
    <2>2. Analyze(s) \in Flats BY <2>1, FlatKinds
    <2>3. Part(s) = <<Analyze(s)>> BY <1>2 DEF Part
    <2> QED BY <2>2, <2>3
  <1>3. CASE s.k = "unary"
    <2>1. s \in Statements BY <1>3 DEF None
    <2>2. s.e \in Expressions BY <1>3, <2>1, StatementParts
    <2>3. Push(s.e) \in Flats BY <2>2, FlatKinds
    <2>4. Part(s) = <<Push(s.e)>> BY <1>3 DEF Part
    <2> QED BY <2>3, <2>4
  <1> QED BY <1>1, <1>2, <1>3 DEF IsPart

\* The calls of a loop but for the one that puts back the break label.
LoopFront(init, e, step, body, label1, label2, n) ==
  ((Part(init) \o <<SetLabel(label1, n), Push(e), EmitOn("jmpnc", label2, 0), Analyze(body)>>) \o Part(step))
    \o <<Emit("jmp", label1, 0), SetLabel(label2, n)>>

LEMMA LoopFlat ==
  ASSUME NEW init \in Statements \cup {None}, IsPart(init), NEW step \in Statements \cup {None}, IsPart(step),
         NEW e \in Expressions, NEW body \in Statements, NEW label1 \in Int, NEW label2 \in Int, depth \in Int
  PROVE  /\ LoopFront(init, e, step, body, label1, label2, depth) \in Seq(Flats)
         /\ LoopCode(init, e, step, body, label1, label2)
              = LoopFront(init, e, step, body, label1, label2, depth) \o <<SetBreakLabel(breakIndex)>>
  <1>1. PICK a : a = Part(init) OBVIOUS
  <1>2. PICK c : c = Part(step) OBVIOUS
  <1>3. PICK b1, b2, b3, b4 : /\ b1 = SetLabel(label1, depth) /\ b2 = Push(e) /\ b3 = EmitOn("jmpnc", label2, 0)
                              /\ b4 = Analyze(body)
    OBVIOUS
  <1>4. PICK d1, d2, x : d1 = Emit("jmp", label1, 0) /\ d2 = SetLabel(label2, depth) /\ x = SetBreakLabel(breakIndex)
    OBVIOUS
  <1>5. a \in Seq(Flats) /\ c \in Seq(Flats) BY <1>1, <1>2, PartFlat
  <1>6. \A l \in Int, n \in Int : SetLabel(l, n) \in Flats BY FlatKinds
  <1>7. b1 \in Flats /\ d2 \in Flats BY <1>3, <1>4, <1>6
  <1>8. b2 \in Flats /\ b4 \in Flats BY <1>3, FlatKinds
  <1>9. b3 \in Flats /\ d1 \in Flats BY <1>3, <1>4, FlatKinds DEF Opcodes
  <1>10. PICK b : b = <<b1, b2, b3, b4>> OBVIOUS
  <1>11. PICK d : d = <<d1, d2>> OBVIOUS
  <1>12. b \in Seq(Flats) /\ d \in Seq(Flats) BY <1>7, <1>8, <1>9, <1>10, <1>11
  <1>13. LoopFront(init, e, step, body, label1, label2, depth) = ((a \o b) \o c) \o d
    BY <1>1, <1>2, <1>3, <1>4, <1>10, <1>11, Zenon DEF LoopFront
  <1>14. LoopCode(init, e, step, body, label1, label2) = ((a \o b) \o c) \o <<d1, d2, x>>
    BY <1>1, <1>2, <1>3, <1>4, <1>10, Zenon DEF LoopCode
  <1>15. (a \o b) \o c \in Seq(Flats) /\ ((a \o b) \o c) \o d \in Seq(Flats) BY <1>5, <1>12
  <1>16. PICK f : f = (a \o b) \o c OBVIOUS
  <1>17. <<d1, d2, x>> = d \o <<x>> BY <1>11
  <1>18. f \o (d \o <<x>>) = (f \o d) \o <<x>>
    <2> DEFINE S == Flats \cup {x}
    <2>1. f \in Seq(S) /\ d \in Seq(S) /\ <<x>> \in Seq(S) BY <1>12, <1>15, <1>16
    <2> HIDE DEF S
    <2> QED BY <2>1, ConcatAssociative
  <1> QED BY <1>4, <1>13, <1>14, <1>15, <1>16, <1>17, <1>18

\* A loop and a switch put the break label back that they found.
LEMMA NextLoop ==
  ASSUME Typed, InPlace, Fixed, AnalyzeLoop
  PROVE  PlainStep /\ InPlace'
  <1> DEFINE s == work[1].s
             init == IF s.k = "while" THEN None ELSE s.init
             step == IF s.k = "while" THEN None ELSE s.step
             q == LoopFront(init, s.e, step, s.body, labels, labels + 1, depth)
  <1>1. work # <<>> /\ work[1].do = "analyze" /\ s.k \in {"while", "for"}
        /\ work' = LoopCode(init, s.e, step, s.body, labels, labels + 1) \o Tail(work)
        /\ labels' = labels + 2 /\ breakIndex' = labels + 1
        /\ UNCHANGED <<type, errorCount, emitted, places, tables, noted>>
    BY DEF AnalyzeLoop, Doing, Then
  <1>2. s \in Statements /\ labels \in Nat /\ depth \in Int BY <1>1, HeadParts, CallParts DEF Typed
  <1>3. /\ s.e \in Expressions /\ s.body \in Statements
        /\ s.k = "for" => /\ s.init \in Statements \cup {None} /\ IsPart(s.init)
                          /\ s.step \in Statements \cup {None} /\ IsPart(s.step)
    BY <1>1, <1>2, StatementParts
  <1>4. None \in Statements \cup {None} /\ IsPart(None) BY DEF IsPart, None
  <1>5. init \in Statements \cup {None} /\ IsPart(init) /\ step \in Statements \cup {None} /\ IsPart(step)
    <2>1. CASE s.k = "while" BY <1>4, <2>1
    <2>2. CASE s.k = "for" BY <1>3, <2>2
    <2> QED BY <1>1, <2>1, <2>2
  <1>6. labels \in Int /\ labels + 1 \in Int /\ labels' \in Nat /\ breakIndex' \in Int BY <1>1, <1>2
  <1> HIDE DEF init, step
  <1>7. q \in Seq(Flats) /\ work' = (q \o <<SetBreakLabel(breakIndex)>>) \o Tail(work)
    <2>1. /\ q \in Seq(Flats)
          /\ LoopCode(init, s.e, step, s.body, labels, labels + 1) = q \o <<SetBreakLabel(breakIndex)>>
      <3>1. PICK a, c, e, body, l1, l2 :
              a = init /\ c = step /\ e = s.e /\ body = s.body /\ l1 = labels /\ l2 = labels + 1
        OBVIOUS
      <3>2. e \in Expressions /\ body \in Statements /\ a \in Statements \cup {None} /\ IsPart(a)
            /\ c \in Statements \cup {None} /\ IsPart(c) /\ l1 \in Int /\ l2 \in Int /\ depth \in Int
        BY <1>2, <1>3, <1>5, <1>6, <3>1
      <3>3. /\ LoopFront(a, e, c, body, l1, l2, depth) \in Seq(Flats)
            /\ LoopCode(a, e, c, body, l1, l2) = LoopFront(a, e, c, body, l1, l2, depth) \o <<SetBreakLabel(breakIndex)>>
        BY ONLY <3>2, LoopFlat
      <3> QED BY <3>1, <3>3
    <2> HIDE DEF q, s
    <2> QED BY <1>1, <2>1
  <1> HIDE DEF q
  <1> QED BY <1>1, <1>6, <1>7, OnwardBreak

LEMMA NextCases ==
  ASSUME Typed, InPlace, Fixed, AnalyzeCases
  PROVE  PlainStep /\ InPlace'
  <1> DEFINE items == work[1].items
             a1 == EmitOn("pop", 0, 0)
             a2 == Emit("jmp", labels, 0)
             b == [i \in DOMAIN items |-> Analyze(items[i])]
             d == SetLabel(labels, depth - 1)
             x == SetBreakLabel(breakIndex)
  <1>1. work # <<>> /\ work[1].do = "cases" /\ work' = ((<<a1, a2>> \o b) \o <<d, x>>) \o Tail(work)
        /\ labels' = labels + 1 /\ breakIndex' = labels
        /\ UNCHANGED <<type, errorCount, emitted, places, tables, noted>>
    BY DEF AnalyzeCases, Doing, Then
  <1>2. items \in Seq(Statements) /\ labels \in Nat /\ labels \in Int /\ depth \in Int /\ depth - 1 \in Int
    BY <1>1, HeadParts, CallParts DEF Typed
  <1>3. \A l \in Int, n \in Int : SetLabel(l, n) \in Flats BY FlatKinds
  <1>4. d \in Flats BY <1>2, <1>3, Zenon
  <1>5. a1 \in Flats /\ a2 \in Flats BY <1>2, FlatKinds DEF Opcodes
  <1>6. b \in Seq(Flats)
    <2>1. Len(items) \in Nat /\ DOMAIN items = 1 .. Len(items) /\ \A i \in 1 .. Len(items) : items[i] \in Statements
      BY <1>2
    <2>2. \A i \in 1 .. Len(items) : Analyze(items[i]) \in Flats BY <2>1, FlatKinds
    <2>3. b \in [1 .. Len(items) -> Flats] BY <2>1, <2>2
    <2> HIDE DEF b
    <2> QED BY <2>1, <2>3, Listed
  <1> HIDE DEF a1, a2, b, d
  <1>7. <<a1, a2>> \in Seq(Flats) /\ <<d>> \in Seq(Flats) BY <1>4, <1>5
  <1>8. PICK f : f = <<a1, a2>> \o b OBVIOUS
  <1>9. f \in Seq(Flats) BY <1>6, <1>7, <1>8
  <1>10. PICK q : q = f \o <<d>> OBVIOUS
  <1>11. q \in Seq(Flats) BY <1>7, <1>9, <1>10
  <1>12. f \o <<d, x>> = q \o <<x>>
    <2> DEFINE S == Flats \cup {x}
    <2>0. <<d, x>> = <<d>> \o <<x>> OBVIOUS
    <2>1. f \in Seq(S) /\ <<d>> \in Seq(S) /\ <<x>> \in Seq(S) BY <1>7, <1>9
    <2> HIDE DEF S, x
    <2>2. f \o (<<d>> \o <<x>>) = (f \o <<d>>) \o <<x>> BY <2>1, ConcatAssociative
    <2> QED BY <1>10, <2>0, <2>2
  <1>13. work' = (q \o <<x>>) \o Tail(work) BY <1>1, <1>8, <1>12
  <1>14. labels' \in Nat /\ breakIndex' \in Int BY <1>1, <1>2
  <1> QED BY <1>1, <1>11, <1>13, <1>14, OnwardBreak

\* A block opens a table and closes it.
LEMMA BodyFlat ==
  ASSUME NEW s \in Statements, s.k = "block"
  PROVE  Body(s) \in Seq(Flats)
  <1>1. s.decls \in Seq(STRING) /\ s.items \in Seq(Statements) BY StatementParts
  <1> DEFINE a == [i \in DOMAIN s.decls |-> [do |-> "define", name |-> s.decls[i]]]
             do == IF s.decls = <<>> THEN "block" ELSE "alloc"
             x == [do |-> do, items |-> s.items]
  <1>2. a \in Seq(Flats)
    <2>1. Len(s.decls) \in Nat /\ DOMAIN s.decls = 1 .. Len(s.decls) /\ \A i \in 1 .. Len(s.decls) : s.decls[i] \in STRING
      BY <1>1
    <2>2. \A i \in 1 .. Len(s.decls) : [do |-> "define", name |-> s.decls[i]] \in Flats BY <2>1, FlatKinds
    <2>3. a \in [1 .. Len(s.decls) -> Flats] BY <2>1, <2>2
    <2> HIDE DEF a
    <2> QED BY <2>1, <2>3, Listed
  <1>3. do \in {"alloc", "block"} OBVIOUS
  <1> HIDE DEF do
  <1>4. x \in Flats BY <1>1, <1>3, FlatKinds
  <1>5. Body(s) = a \o <<x>> BY DEF Body, do
  <1> HIDE DEF x, a
  <1>6. <<x>> \in Seq(Flats) BY <1>4
  <1> QED BY <1>2, <1>5, <1>6

LEMMA TableType ==
  ASSUME Typed, NEW b \in BOOLEAN, BlockIn(b)
  PROVE  variables' \in Seq(ValueTables) /\ Len(variables') = Len(variables) + 1
  <1> DEFINE n == IF Len(variables) > 1 /\ ~b THEN variables[Len(variables)].next ELSE 0
  <1>1. variables \in Seq(ValueTables) /\ Len(variables) \in Nat BY DEF Typed
  <1>2. n \in Nat
    <2>1. CASE Len(variables) > 1 /\ ~b
      <3>1. variables[Len(variables)] \in ValueTables BY <1>1, <2>1
      <3>2. variables[Len(variables)].next \in Nat BY <3>1 DEF ValueTables
      <3> QED BY <2>1, <3>2
    <2>2. CASE ~(Len(variables) > 1 /\ ~b) BY <2>2
    <2> QED BY <2>1, <2>2
  <1>3. ValueTable(n) \in ValueTables BY <1>2 DEF ValueTable, ValueTables
  <1>4. variables' = Append(variables, ValueTable(n)) BY DEF BlockIn
  <1> HIDE DEF n
  <1> QED BY <1>1, <1>3, <1>4

LEMMA NextBlock ==
  ASSUME Typed, InPlace, Fixed, AnalyzeBlock
  PROVE  PlainStep /\ InPlace'
  <1>1. PICK s, q, x : s = work[1].s /\ q = Body(s) /\ x = [do |-> "blockOut"] OBVIOUS
  <1>2. /\ work # <<>> /\ work[1].do = "analyze" /\ s.k = "block" /\ work' = (q \o <<x>>) \o Tail(work) /\ BlockIn(FALSE)
        /\ UNCHANGED <<type, errorCount, emitted, labelled, functions, currentNameSpace, currentFunction, noted>>
    BY <1>1 DEF AnalyzeBlock, Doing, Then
  <1>3. s \in Statements BY <1>1, <1>2, HeadParts, CallParts
  <1>4. q \in Seq(Flats) BY <1>1, <1>2, <1>3, BodyFlat
  <1>5. x \in Calls /\ x.do = "blockOut" BY <1>1, CallTypes
  <1>6. q \in Seq(Calls) /\ Sober(q) BY <1>4, FlatCalls
  <1>7. PICK c : c = q \o <<x>> OBVIOUS
  <1>8. c \in Seq(Calls) /\ Sober(c) BY <1>5, <1>6, <1>7, SoberEnclosed
  <1>9. variables' \in Seq(ValueTables) /\ Len(variables') = Len(variables) + 1 BY <1>2, TableType
  <1>10. work' = c \o Tail(work) BY <1>2, <1>7
  <1>11. work' \in Seq(Calls)
    <2>1. Tail(work) \in Seq(Calls) BY <1>2 DEF Typed
    <2> QED BY ONLY <1>8, <1>10, <2>1
  <1>12. Typed' BY <1>2, <1>9, <1>11 DEF Typed, Fixed, emitted, labelled, noted
  <1>13. PlainStep BY <1>2, <1>8, <1>10, <1>12 DEF PlainStep, Fixed
  <1>14. PICK z : z = <<x>> OBVIOUS
  <1>15. z \in Seq(Calls) /\ Len(z) <= 1 /\ Len(z) = 1 /\ z[1] = x /\ z # <<>> BY <1>5, <1>14
  <1>16. work \in Seq(Calls) /\ Len(variables) \in Nat BY DEF Typed
  <1>17. Fits(work[1].do, Len(variables)) BY <1>2, <1>16, HeadFits DEF InPlace
  <1>18. Len(variables) >= 2 /\ Len(variables') >= 2 BY <1>2, <1>9, <1>16, <1>17 DEF Fits
  <1>19. \A i \in 1 .. Len(z) : Fits(z[i].do, Len(variables')) BY <1>5, <1>9, <1>15, <1>18 DEF Fits
  <1>20. /\ LevelBehind(z[1], Len(variables')) = LevelBehind(work[1], Len(variables))
         /\ BreakBehind(z[1], breakIndex') = BreakBehind(work[1], breakIndex)
    BY <1>2, <1>5, <1>9, <1>15, <1>16 DEF LevelBehind, BreakBehind, labelled
  <1>21. work' = (q \o z) \o Tail(work) BY <1>2, <1>14
  <1>22. InPlace' BY ONLY <1>2, <1>4, <1>12, <1>15, <1>18, <1>19, <1>20, <1>21, Typed, InPlace, Onward
  <1> QED BY <1>13, <1>22

LEMMA NextBlockOut ==
  ASSUME Typed, InPlace, Fixed, BlockOut
  PROVE  PlainStep /\ InPlace'
  <1>1. work # <<>> /\ work[1].do = "blockOut" /\ work' = <<>> \o Tail(work) /\ variables' = Front(variables)
        /\ UNCHANGED <<type, errorCount, emitted, labelled, functions, currentNameSpace, currentFunction, noted>>
    BY DEF BlockOut, Doing, Then
  <1>2. work \in Seq(Calls) /\ variables \in Seq(ValueTables) /\ Len(variables) \in Nat BY DEF Typed
  <1>3. Len(variables) >= 2 BY <1>1, <1>2, HeadFits DEF InPlace, Fits
  <1>4. variables' \in Seq(ValueTables) /\ Len(variables') = Len(variables) - 1 BY <1>1, <1>2, <1>3 DEF Front
  <1>5. work' \in Seq(Calls) BY <1>1, NoCalls, Continued
  <1>6. Typed' BY <1>1, <1>4, <1>5 DEF Typed, Fixed, emitted, labelled, noted
  <1>7. PlainStep BY <1>1, <1>6, Inert DEF PlainStep, Fixed
  <1>8. /\ Len(variables') = LevelBehind(work[1], Len(variables))
        /\ breakIndex' = BreakBehind(work[1], breakIndex)
    BY <1>1, <1>4 DEF LevelBehind, BreakBehind, labelled
  <1> QED BY <1>1, <1>6, <1>7, <1>8, Inert, OnwardPlain

\* RegistFunction adds a tag and makes its label.
LEMMA NextRegist ==
  ASSUME Typed, InPlace, Fixed, RegistFunction
  PROVE  Typed' /\ InPlace'
  <1> DEFINE f == work[1].f
             tag == [name |-> Append(f.ns, f.name), arity |-> Len(f.params), ret |-> f.ret, label |-> labels,
                     isDefinition |-> FALSE]
  <1>1. work # <<>> /\ work[1].do = "regist" /\ work' = <<>> \o Tail(work)
        /\ UNCHANGED <<type, errorCount, emitted, places, breakIndex, variables, currentNameSpace, currentFunction, noted>>
    BY DEF RegistFunction, Doing, Then
  <1>2. \/ functions' = functions /\ labels' = labels
        \/ functions' = Append(functions, tag) /\ labels' = labels + 1
    BY DEF RegistFunction
  <1>3. f \in FunctionForms(Statements) /\ labels \in Nat /\ functions \in Seq(FunctionTags)
    BY <1>1, HeadParts, CallParts DEF Typed
  <1>4. f.ns \in Seq(STRING) /\ f.name \in STRING /\ Len(f.params) \in Nat /\ f.ret \in {0, 1} BY <1>3 DEF FunctionForms
  <1>5. Append(f.ns, f.name) \in Seq(STRING) BY <1>4
  <1>6. tag \in FunctionTags BY <1>3, <1>4, <1>5 DEF FunctionTags
  <1> HIDE DEF tag
  <1>7. functions' \in Seq(FunctionTags) /\ labels' \in Nat BY <1>2, <1>3, <1>6
  <1>8. work' \in Seq(Calls) BY <1>1, NoCalls, Continued
  <1>9. Typed' BY <1>1, <1>7, <1>8 DEF Typed, Fixed, emitted, noted
  <1>10. /\ Len(variables') = LevelBehind(work[1], Len(variables))
         /\ breakIndex' = BreakBehind(work[1], breakIndex)
    BY <1>1 DEF LevelBehind, BreakBehind
  <1> QED BY <1>1, <1>9, <1>10, Inert, OnwardPlain

\* The calls for the parameters of a function, and those for the rest of it.
ParameterCalls(f, i) ==
  [p \in 1 .. Len(f.params) |-> [do |-> "parameter", f |-> i, is |-> Len(f.params) + 1 - p,
                                 name |-> f.params[Len(f.params) + 1 - p]]]

RestCalls(f) == Body(f.body) \o <<[do |-> "close"], [do |-> "blockOut"]>>

FunctionCalls(f, i) == ParameterCalls(f, i) \o RestCalls(f)

\* The calls of a function.
LEMMA Paired ==
  ASSUME NEW x, NEW y
  PROVE  <<x, y>> = <<x>> \o <<y>>
  <1>1. PICK S : S = {x, y} OBVIOUS
  <1>2. PICK a, b : a = <<x>> /\ b = <<y>> OBVIOUS
  <1>3. a \in Seq(S) /\ b \in Seq(S) /\ Len(a) = 1 /\ Len(b) = 1 /\ a[1] = x /\ b[1] = y BY <1>1, <1>2
  <1>4. PICK c, d : c = a \o b /\ d = <<x, y>> OBVIOUS
  <1>5. /\ c \in Seq(S) /\ Len(c) = Len(a) + Len(b)
        /\ \A i \in 1 .. Len(a) : c[i] = a[i]
        /\ \A i \in 1 .. Len(b) : c[Len(a) + i] = b[i]
    BY <1>3, <1>4, Joined
  <1>6. Len(c) = 2 /\ c[1] = x /\ c[2] = y BY <1>3, <1>5
  <1>7. d \in Seq(S) /\ Len(d) = 2 /\ d[1] = x /\ d[2] = y BY <1>1, <1>4
  <1>8. Len(c) = Len(d) /\ \A i \in 1 .. Len(c) : c[i] = d[i] BY <1>6, <1>7
  <1>9. c = d BY <1>5, <1>7, <1>8, SeqEqual
  <1> QED BY <1>2, <1>4, <1>9

LEMMA ParameterTypes ==
  ASSUME NEW f \in FunctionForms(Statements), NEW i \in Nat
  PROVE  /\ ParameterCalls(f, i) \in Seq(Calls) /\ Len(ParameterCalls(f, i)) = Len(f.params) /\ Len(f.params) \in Nat
         /\ \A p \in 1 .. Len(f.params) : /\ ParameterCalls(f, i)[p].do = "parameter"
                                          /\ ParameterCalls(f, i)[p].f = i
                                          /\ ParameterCalls(f, i)[p].is = Len(f.params) + 1 - p
  <1> DEFINE n == Len(f.params)
             c == ParameterCalls(f, i)
  <1>1. f.params \in Seq(STRING) BY DEF FunctionForms
  <1>2. n \in Nat /\ \A p \in 1 .. n : n + 1 - p \in 1 .. n /\ n + 1 - p \in Nat BY <1>1
  <1>3. \A p \in 1 .. n : f.params[n + 1 - p] \in STRING BY <1>1, <1>2
  <1>4. \A p \in 1 .. n : [do |-> "parameter", f |-> i, is |-> n + 1 - p, name |-> f.params[n + 1 - p]] \in Calls
    BY <1>2, <1>3, CallTypes
  <1>5. c \in [1 .. n -> Calls] BY <1>4 DEF ParameterCalls
  <1>6. \A p \in 1 .. n : c[p].do = "parameter" /\ c[p].f = i /\ c[p].is = n + 1 - p BY DEF ParameterCalls
  <1> HIDE DEF c
  <1>7. c \in Seq(Calls) /\ Len(c) = n BY <1>2, <1>5, Listed
  <1> QED BY <1>2, <1>6, <1>7 DEF c

LEMMA RestTypes ==
  ASSUME NEW f \in FunctionForms(Statements)
  PROVE  /\ Body(f.body) \o <<[do |-> "close"]>> \in Seq(Flats)
         /\ RestCalls(f) = (Body(f.body) \o <<[do |-> "close"]>>) \o <<[do |-> "blockOut"]>>
         /\ RestCalls(f) \in Seq(Calls) /\ Sober(RestCalls(f))
         /\ [do |-> "blockOut"] \in Calls
  <1>1. PICK b, x, y : b = Body(f.body) /\ x = [do |-> "close"] /\ y = [do |-> "blockOut"] OBVIOUS
  <1>2. f.body \in Statements /\ f.body.k = "block" BY DEF FunctionForms
  <1>3. b \in Seq(Flats) BY <1>1, <1>2, BodyFlat
  <1>4. x \in Flats /\ y \in Calls /\ y.do = "blockOut" BY <1>1, FlatKinds, CallTypes
  <1>5. <<x>> \in Seq(Flats) BY <1>4
  <1>6. PICK q : q = b \o <<x>> OBVIOUS
  <1>7. q \in Seq(Flats) BY <1>3, <1>5, <1>6
  <1>8. b \o <<x, y>> = q \o <<y>>
    <2> DEFINE S == Flats \cup {y}
    <2>1. b \in Seq(S) /\ <<x>> \in Seq(S) /\ <<y>> \in Seq(S) BY <1>3, <1>4
    <2>2. <<x, y>> = <<x>> \o <<y>> BY Paired
    <2> HIDE DEF S
    <2>3. b \o (<<x>> \o <<y>>) = (b \o <<x>>) \o <<y>> BY <2>1, ConcatAssociative
    <2> QED BY <1>6, <2>2, <2>3
  <1>9. q \in Seq(Calls) /\ Sober(q) BY <1>7, FlatCalls
  <1>10. q \o <<y>> \in Seq(Calls) /\ Sober(q \o <<y>>) BY <1>4, <1>9, SoberEnclosed
  <1> QED BY <1>1, <1>4, <1>6, <1>7, <1>8, <1>10, Zenon DEF RestCalls

\* What the call of a function does to the functions, the labels and the tables.
FunctionStep ==
  /\ Typed' /\ InPlace'
  /\ work # <<>> /\ work[1].do = "function" /\ Len(variables) = 1
  /\ \E i \in Registered(work[1].f) :
       \/ /\ functions[i].isDefinition /\ work' = Tail(work)
          /\ UNCHANGED <<functions, variables, places>>
       \/ /\ ~functions[i].isDefinition
          /\ functions' = [functions EXCEPT ![i].isDefinition = TRUE]
          /\ currentFunction' = [tag |-> i, ret |-> work[1].f.ret]
          /\ work' = FunctionCalls(work[1].f, i) \o Tail(work)
          /\ variables' = Append(variables, ValueTable(0))
          /\ places' = Append(places, [label |-> functions[i].label, address |-> Len(statement)])
  /\ UNCHANGED <<labels, doubts, breakIndex, phase, script, analyzed>>

\* Function::Analyze opens the second table; what it leaves closes it.
LEMMA NextFunction ==
  ASSUME Typed, InPlace, Fixed, AnalyzeFunction, Registered(work[1].f) # {}
  PROVE  FunctionStep
  <1>1. PICK f : f = work[1].f OBVIOUS
  <1>2. PICK i : i = (CHOOSE j \in Registered(f) : TRUE) OBVIOUS
  <1>3. i \in Registered(f) BY <1>1, <1>2
  <1>4. /\ work # <<>> /\ work[1].do = "function" /\ currentNameSpace' = Append(f.ns, f.name)
        /\ UNCHANGED <<type, statement, frames, labels, breakIndex, noted>>
    BY <1>1 DEF AnalyzeFunction, Doing
  <1>5. f \in FunctionForms(Statements) BY <1>1, <1>4, HeadParts, CallParts
  <1>6. f.ns \in Seq(STRING) /\ f.name \in STRING /\ f.ret \in {0, 1} BY <1>5 DEF FunctionForms
  <1>7. i \in DOMAIN functions /\ functions[i] \in FunctionTags /\ i \in Nat BY <1>3 DEF Registered, Typed
  <1>8. functions[i].label \in Nat /\ functions[i].label \in Int BY <1>7, TagParts
  <1>9. currentNameSpace' \in Seq(STRING) BY <1>4, <1>6
  <1>10. work \in Seq(Calls) /\ Len(variables) \in Nat /\ errorCount \in Nat BY DEF Typed
  <1>11. Len(variables) = 1 BY <1>4, <1>10, HeadFits DEF InPlace, Fits
  <1>12. CASE functions[i].isDefinition
    <2>1. work' = <<>> \o Tail(work) /\ errorCount' = errorCount + 1
          /\ UNCHANGED <<functions, currentFunction, variables, places, depth>>
      BY <1>1, <1>2, <1>12 DEF AnalyzeFunction, Error, Then
    <2>2. work' \in Seq(Calls) BY <1>4, <2>1, NoCalls, Continued
    <2>3. Typed' BY <1>4, <1>9, <1>10, <2>1, <2>2 DEF Typed, Fixed, noted
    <2>4. /\ Len(variables') = LevelBehind(work[1], Len(variables))
          /\ breakIndex' = BreakBehind(work[1], breakIndex)
      BY <1>4, <2>1 DEF LevelBehind, BreakBehind
    <2>5. InPlace' BY <1>4, <2>1, <2>3, <2>4, Inert, OnwardPlain
    <2>6. work' = Tail(work) BY <1>4, <1>10, <2>1
    <2> QED BY <1>1, <1>3, <1>4, <1>11, <1>12, <2>1, <2>3, <2>5, <2>6 DEF FunctionStep, noted, Fixed
  <1>13. CASE ~functions[i].isDefinition
    <2>1. /\ functions' = [functions EXCEPT ![i].isDefinition = TRUE]
          /\ currentFunction' = [tag |-> i, ret |-> f.ret]
          /\ Place(functions[i].label, 0)
          /\ BlockIn(TRUE)
          /\ UNCHANGED errorCount
      BY <1>1, <1>2, <1>13 DEF AnalyzeFunction
    <2>2. PICK p, b, x, y : /\ p = ParameterCalls(f, i) /\ b = Body(f.body)
                            /\ x = [do |-> "close"] /\ y = [do |-> "blockOut"]
      OBVIOUS
    <2>3. work' = ((p \o b) \o <<x, y>>) \o Tail(work)
      BY <1>1, <1>2, <1>13, <2>2, Zenon DEF AnalyzeFunction, Then, ParameterCalls
    <2>4. p \in Seq(Calls) /\ \A j \in 1 .. Len(p) : p[j].do = "parameter" BY <1>5, <1>7, <2>2, ParameterTypes
    <2>5. PICK q : q = b \o <<x>> OBVIOUS
    <2>6. q \in Seq(Flats) /\ y \in Calls BY <1>5, <2>2, <2>5, RestTypes
    <2>7. q \in Seq(Calls) /\ <<y>> \in Seq(Calls) BY <2>6, FlatCalls
    <2>8. x \in Calls BY <2>2, CallTypes
    <2>9. b \in Seq(Calls)
      <3>1. f.body \in Statements /\ f.body.k = "block" BY <1>5 DEF FunctionForms
      <3> QED BY <2>2, <3>1, BodyFlat, FlatCalls
    <2>10. (p \o b) \o <<x, y>> = (p \o q) \o <<y>>
      <3>0. <<x, y>> = <<x>> \o <<y>> BY Paired
      <3>1. <<x, y>> = <<x>> \o <<y>> /\ <<x>> \in Seq(Calls) /\ <<x, y>> \in Seq(Calls) BY <2>6, <2>8, <3>0
      <3>2. (p \o b) \o <<x, y>> = p \o (b \o <<x, y>>) BY ONLY <2>4, <2>9, <3>1, ConcatAssociative
      <3>3. b \o (<<x>> \o <<y>>) = (b \o <<x>>) \o <<y>> BY ONLY <2>7, <2>9, <3>1, ConcatAssociative
      <3>4. p \o (q \o <<y>>) = (p \o q) \o <<y>> BY ONLY <2>4, <2>7, ConcatAssociative
      <3> QED BY <2>5, <3>1, <3>2, <3>3, <3>4, Zenon
    <2>11. b \o <<x, y>> = RestCalls(f) BY <2>2 DEF RestCalls
    <2>12. (p \o b) \o <<x, y>> = FunctionCalls(f, i)
      <3>1. <<x, y>> \in Seq(Calls) BY <2>6, <2>8
      <3>2. (p \o b) \o <<x, y>> = p \o (b \o <<x, y>>) BY ONLY <2>4, <2>9, <3>1, ConcatAssociative
      <3> QED BY <2>2, <2>11, <3>2 DEF FunctionCalls
    <2>13. variables' \in Seq(ValueTables) /\ Len(variables') = 2
      <3>1. BlockIn(TRUE) /\ TRUE \in BOOLEAN BY <2>1
      <3>2. variables' \in Seq(ValueTables) /\ Len(variables') = Len(variables) + 1 BY <3>1, TableType, Zenon
      <3> QED BY <1>11, <3>2
    <2>14. variables' = Append(variables, ValueTable(0)) BY <2>1 DEF BlockIn
    <2>15. functions' \in Seq(FunctionTags)
      <3>1. PICK v : v = [functions[i] EXCEPT !.isDefinition = TRUE] OBVIOUS
      <3>2. v \in FunctionTags BY <1>7, <3>1 DEF FunctionTags
      <3>3. functions' = [functions EXCEPT ![i] = v] BY <2>1, <3>1
      <3> QED BY <1>7, <3>2, <3>3 DEF Typed
    <2>16. /\ places' = Append(places, [label |-> functions[i].label, address |-> Len(statement)]) /\ depth' = 0
      BY <2>1 DEF Place
    <2>17. places' \in Seq([label : Int, address : Nat])
      <3>1. [label |-> functions[i].label, address |-> Len(statement)] \in [label : Int, address : Nat]
        BY <1>8 DEF Typed
      <3>2. places \in Seq([label : Int, address : Nat]) BY DEF Typed
      <3> QED BY <2>16, <3>1, <3>2
    <2>18. PICK c : c = p \o q OBVIOUS
    <2>19. /\ c \in Seq(Calls) /\ Len(c) = Len(p) + Len(q) /\ Len(p) \in Nat /\ Len(q) \in Nat
           /\ \A j \in 1 .. Len(p) : c[j] = p[j]
           /\ \A j \in 1 .. Len(q) : c[Len(p) + j] = q[j]
      BY <2>4, <2>7, <2>18, Joined
    <2>20. work' = (c \o <<y>>) \o Tail(work) BY <2>3, <2>10, <2>18
    <2>21. work' \in Seq(Calls)
      <3>1. Tail(work) \in Seq(Calls) BY <1>4, <1>10
      <3> QED BY ONLY <2>7, <2>19, <2>20, <3>1
    <2>22. currentFunction' \in [tag : Nat, ret : {0, 1}] BY <1>6, <1>7, <2>1
    <2>23. Typed' BY <1>4, <1>9, <2>1, <2>13, <2>15, <2>16, <2>17, <2>21, <2>22 DEF Typed, Fixed, noted
    <2>24. ASSUME NEW j \in 1 .. Len(c)
           PROVE  c[j].do \notin {"blockOut", "setBreakLabel"} /\ Fits(c[j].do, Len(variables'))
      <3>1. CASE j <= Len(p)
        <4>1. j \in 1 .. Len(p) BY <2>19, <3>1
        <4> QED BY <2>4, <2>13, <2>19, <4>1 DEF Fits
      <3>2. CASE j > Len(p)
        <4>1. j - Len(p) \in 1 .. Len(q) /\ Len(p) + (j - Len(p)) = j BY <2>19, <3>2
        <4>2. c[j] = q[j - Len(p)] BY <2>19, <4>1
        <4>3. 2 \in Int /\ 2 >= 2 OBVIOUS
        <4> QED BY <2>6, <2>13, <4>1, <4>2, <4>3, FlatCalls
      <3> QED BY <2>19, <3>1, <3>2
    <2>25. PICK z : z = <<y>> OBVIOUS
    <2>26. z \in Seq(Calls) /\ Len(z) <= 1 /\ Len(z) = 1 /\ z # <<>> /\ z[1] = y /\ y.do = "blockOut"
      BY <2>2, <2>6, <2>25
    <2>27. /\ LevelBehind(z[1], Len(variables')) = LevelBehind(work[1], Len(variables))
           /\ BreakBehind(z[1], breakIndex') = BreakBehind(work[1], breakIndex)
      BY <1>4, <1>11, <2>13, <2>26 DEF LevelBehind, BreakBehind
    <2>28. \A j \in 1 .. Len(z) : Fits(z[j].do, Len(variables')) BY <2>13, <2>26 DEF Fits
    <2>29. work' = (c \o z) \o Tail(work) BY <2>20, <2>25
    <2>30. c \in Seq(Calls) BY <2>19
    <2>31. InPlace'
      BY ONLY <1>4, <2>23, <2>24, <2>26, <2>27, <2>28, <2>29, <2>30, Typed, InPlace, OnwardCalls
    <2>32. work' = FunctionCalls(work[1].f, i) \o Tail(work) BY <1>1, <2>3, <2>12
    <2> QED BY <1>1, <1>3, <1>4, <1>11, <1>13, <2>1, <2>14, <2>16, <2>23, <2>31, <2>32 DEF FunctionStep, noted, Fixed
  <1> QED BY <1>12, <1>13

-----------------------------------------------------------------------------
(* The invariant.                                                          *)

\* Where the compiler is between its passes.
Stages ==
  /\ phase = "idle" => /\ work = <<>> /\ functions = <<>> /\ variables = <<>> /\ places = <<>>
                       /\ breakIndex = -1 /\ labels = 0
  /\ phase # "idle" => InPlace
  /\ phase \in {"create", "data"} => work = <<>>
  /\ phase = "values" => functions = <<>> /\ analyzed = 0

\* The function is still to be generated: it is one of those the pass has not come
\* to, or the one whose call is pending.
Awaited(i) ==
  \/ \E k \in analyzed + 1 .. Len(script.functions) : i \in Registered(script.functions[k])
  \/ \E j \in DOMAIN work : work[j].do = "function" /\ i \in Registered(work[j].f)

\* Functions are registered once for a name and a number of parameters; all of the
\* script's are registered, or about to be; and none that has no code is forgotten.
Registry ==
  /\ \A i, j \in DOMAIN functions :
       functions[i].name = functions[j].name /\ functions[i].arity = functions[j].arity => i = j
  /\ \A i \in DOMAIN work : work[i].do = "function" => Len(work) = 1 /\ Registered(work[i].f) # {}
  /\ \A i \in DOMAIN work :
       work[i].do = "regist" => /\ phase = "functions" /\ analyzed = 0
                                /\ \E k \in DOMAIN script.functions : work[i].f = script.functions[k]
  /\ phase = "functions" =>
       \A k \in DOMAIN script.functions :
         Registered(script.functions[k]) # {} \/ \E i \in DOMAIN work : work[i] = [do |-> "regist", f |-> script.functions[k]]
  /\ \A i \in DOMAIN functions : functions[i].isDefinition \/ Awaited(i)

-----------------------------------------------------------------------------
(* The passes.                                                             *)

\* Facts about sequences and about the ends of work.
LEMMA Member ==
  ASSUME NEW S, NEW s \in Seq(S)
  PROVE  \A i \in DOMAIN s : s[i] \in S
OBVIOUS

LEMMA LevelsEnd ==
  ASSUME NEW w \in Seq(Calls), NEW n, NEW b, Leveled(w, n, b), Len(w) = 0
  PROVE  n = 1 /\ b = -1
  <1>1. PICK g : Levels(g, w, n, b) BY DEF Leveled
  <1>2. /\ Len(g) = Len(w) + 1
        /\ g[Len(g)] = [call |-> End, level |-> 1, break |-> -1]
        /\ g[1].level = n /\ g[1].break = b
    BY <1>1 DEF Levels
  <1> QED BY <1>2

\* The initial states.
LEMMA Started ==
  ASSUME Init
  PROVE  Typed /\ Stages
BY DEF Init, Typed, Stages, Types, NoScript

\* What the host may compile is a script.
LEMMA Chosen ==
  ASSUME NEW s \in Scripts
  PROVE  s \in [globals : Seq(Globals), functions : Seq(FunctionForms(Statements))]
BY ScriptsAssumption

\* The calls for the globals of a script.
GlobalCalls(s) == [i \in DOMAIN s.globals |-> [do |-> "global", g |-> s.globals[i]]]

LEMMA GlobalCallTypes ==
  ASSUME NEW s \in Scripts, NEW w, w = <<Emit("halt", 0, 0)>> \o GlobalCalls(s) \o <<Emit("halt", 0, 0)>>
  PROVE  /\ w \in Seq(Calls)
         /\ \A i \in 1 .. Len(w) : w[i].do \in {"emit", "global"}
  <1>1. s.globals \in Seq(Globals) BY Chosen
  <1>2. PICK n : n = Len(s.globals) OBVIOUS
  <1>3. n \in Nat /\ DOMAIN s.globals = 1 .. n /\ \A i \in 1 .. n : s.globals[i] \in Globals BY <1>1, <1>2
  <1>4. PICK S : S = {x \in Calls : x.do \in {"emit", "global"}} OBVIOUS
  <1>5. \A i \in 1 .. n : [do |-> "global", g |-> s.globals[i]] \in S BY <1>3, <1>4, CallTypes
  <1>6. PICK g : g = GlobalCalls(s) OBVIOUS
  <1>7. g \in [1 .. n -> S] BY <1>3, <1>5, <1>6 DEF GlobalCalls
  <1>8. g \in Seq(S) BY <1>3, <1>7, Listed
  <1>9. PICK h : h = Emit("halt", 0, 0) OBVIOUS
  <1>10. h \in S
    <2>1. "halt" \in Opcodes /\ 0 \in Int /\ 0 \in {0, 1} BY DEF Opcodes
    <2>2. h \in Calls BY <1>9, <2>1, CallTypes
    <2> QED BY <1>4, <1>9, <2>2 DEF Emit
  <1>11. <<h>> \in Seq(S) BY <1>10
  <1>12. w = <<h>> \o g \o <<h>> BY <1>6, <1>9
  <1>13. w \in Seq(S) BY ONLY <1>8, <1>11, <1>12
  <1> QED BY <1>4, <1>13

\* Compile begins with the calls for the globals.
LEMMA Compiled ==
  ASSUME Typed, Stages, NEW s \in Scripts, Compile(s)
  PROVE  /\ Typed' /\ Stages'
         /\ \A i \in DOMAIN work' : work'[i].do \in {"emit", "global"}
  <1>1. /\ phase = "idle" /\ phase' = "values" /\ script' = s /\ analyzed' = 0 /\ Clear
        /\ variables' = <<ValueTable(0)>>
        /\ work' = <<Emit("halt", 0, 0)>> \o GlobalCalls(s) \o <<Emit("halt", 0, 0)>>
        /\ UNCHANGED <<type, breakIndex, currentNameSpace, currentFunction, out>>
    BY DEF Compile, GlobalCalls
  <1>2. work' \in Seq(Calls) /\ \A i \in 1 .. Len(work') : work'[i].do \in {"emit", "global"}
    BY <1>1, GlobalCallTypes
  <1>3. breakIndex' = -1 /\ Len(variables') = 1 /\ ValueTable(0) \in ValueTables
    BY <1>1 DEF Stages, ValueTable, ValueTables
  <1>4. script' \in [globals : Seq(Globals), functions : Seq(FunctionForms(Statements))] BY <1>1, Chosen
  <1>5. analyzed' \in 0 .. Len(script'.functions) BY <1>1, <1>4
  <1>6. variables' \in Seq(ValueTables) BY <1>1, <1>3
  <1>7. Typed' BY <1>1, <1>2, <1>4, <1>5, <1>6 DEF Typed, Clear
  <1>8. InPlace'
    <2> DEFINE w == work'
    <2>1. w \in Seq(Calls) /\ \A i \in 1 .. Len(w) : w[i].do \in {"emit", "regist", "function", "global"} BY <1>2
    <2> HIDE DEF w
    <2>2. Leveled(w, 1, -1) BY <2>1, LevelsFresh
    <2> QED BY <1>3, <2>2 DEF InPlace, w
  <1>9. Stages' BY <1>1, <1>8 DEF Stages, Clear
  <1> QED BY <1>2, <1>7, <1>9

\* With nothing pending, one table is left and no break label.
LEMMA Idle ==
  ASSUME Typed, Stages, phase # "idle", work = <<>>
  PROVE  Len(variables) = 1 /\ breakIndex = -1
  <1>1. work \in Seq(Calls) /\ Leveled(work, Len(variables), breakIndex) BY DEF Typed, Stages, InPlace
  <1>2. Len(work) = 0 OBVIOUS
  <1> QED BY <1>1, <1>2, LevelsEnd

\* The other passes keep the types and the stages: DeclareFunctions,
LEMMA DeclaredFunctions ==
  ASSUME Typed, Stages, DeclareFunctions
  PROVE  /\ Typed' /\ Stages'
         /\ DOMAIN work' = DOMAIN script.functions
         /\ \A i \in DOMAIN work' : work'[i] = [do |-> "regist", f |-> script.functions[i]]
  <1>1. /\ phase = "values" /\ work = <<>> /\ phase' = "functions"
        /\ work' = [i \in DOMAIN script.functions |-> [do |-> "regist", f |-> script.functions[i]]]
        /\ UNCHANGED <<type, errorCount, emitted, labelled, tables, noted, script, analyzed, positions, out>>
    BY DEF DeclareFunctions
  <1>2. script.functions \in Seq(FunctionForms(Statements)) BY DEF Typed
  <1>3. PICK n : n = Len(script.functions) OBVIOUS
  <1>4. n \in Nat /\ DOMAIN script.functions = 1 .. n /\ \A i \in 1 .. n : script.functions[i] \in FunctionForms(Statements)
    BY <1>2, <1>3
  <1>5. \A i \in 1 .. n : [do |-> "regist", f |-> script.functions[i]] \in Calls BY <1>4, CallTypes
  <1>6. work' \in [1 .. n -> Calls] BY <1>1, <1>4, <1>5
  <1>7. work' \in Seq(Calls) /\ DOMAIN work' = 1 .. n /\ Len(work') = n BY <1>4, <1>6, Listed
  <1>8. \A i \in 1 .. n : work'[i] = [do |-> "regist", f |-> script.functions[i]] BY <1>1, <1>4
  <1>9. Typed' BY <1>1, <1>7 DEF Typed, emitted, labelled, tables, noted
  <1>10. Len(variables) = 1 /\ breakIndex = -1 BY <1>1, Idle
  <1>11. InPlace'
    <2> DEFINE w == work'
    <2>1. w \in Seq(Calls) /\ \A i \in 1 .. Len(w) : w[i].do \in {"emit", "regist", "function", "global"} BY <1>7, <1>8
    <2> HIDE DEF w
    <2>2. Leveled(w, 1, -1) BY <2>1, LevelsFresh
    <2> QED BY <1>1, <1>10, <2>2 DEF InPlace, w, labelled, tables
  <1>12. Stages' BY <1>1, <1>11 DEF Stages
  <1> QED BY <1>4, <1>7, <1>8, <1>9, <1>12

\* AnalyzeFunctions,
LEMMA FunctionsBegun ==
  ASSUME Typed, Stages, AnalyzeFunctions
  PROVE  /\ Typed' /\ Stages'
         /\ DOMAIN work' = {1} /\ work'[1] = [do |-> "function", f |-> script.functions[analyzed + 1]]
         /\ Len(work') = 1
  <1>1. /\ phase = "functions" /\ work = <<>> /\ analyzed < Len(script.functions) /\ analyzed' = analyzed + 1
        /\ work' = <<[do |-> "function", f |-> script.functions[analyzed + 1]]>>
        /\ UNCHANGED <<type, errorCount, emitted, labelled, tables, noted, phase, script, positions, out>>
    BY DEF AnalyzeFunctions
  <1>2. script.functions \in Seq(FunctionForms(Statements)) /\ analyzed \in Nat BY DEF Typed
  <1>3. analyzed + 1 \in 1 .. Len(script.functions) BY <1>1, <1>2
  <1>4. script.functions[analyzed + 1] \in FunctionForms(Statements) BY <1>2, <1>3
  <1>5. [do |-> "function", f |-> script.functions[analyzed + 1]] \in Calls BY <1>4, CallTypes
  <1>6. work' \in Seq(Calls) /\ Len(work') = 1 /\ DOMAIN work' = {1} BY <1>1, <1>5
  <1>7. Typed' BY <1>1, <1>2, <1>3, <1>6 DEF Typed, emitted, labelled, tables, noted
  <1>8. Len(variables) = 1 /\ breakIndex = -1 BY <1>1, Idle
  <1>9. InPlace'
    <2> DEFINE w == work'
    <2>1. w \in Seq(Calls) /\ \A i \in 1 .. Len(w) : w[i].do \in {"emit", "regist", "function", "global"} BY <1>1, <1>6
    <2> HIDE DEF w
    <2>2. Leveled(w, 1, -1) BY <2>1, LevelsFresh
    <2> QED BY <1>1, <1>8, <2>2 DEF InPlace, w, labelled, tables
  <1>10. Stages' BY <1>1, <1>9 DEF Stages
  <1> QED BY <1>1, <1>6, <1>7, <1>10

\* LabelSetting, which puts addresses in the place of labels,
LEMMA PositionType ==
  ASSUME Typed, NEW l
  PROVE  Position(l) \in Nat
  <1> DEFINE at == {i \in DOMAIN places : places[i].label = l}
  <1>1. CASE at = {} BY <1>1 DEF Position
  <1>2. CASE at # {}
    <2>1. Len(places) \in Nat /\ at \in SUBSET (0 .. Len(places)) BY DEF Typed
    <2>2. Max(at) \in at BY <1>2, <2>1, HasMax, Zenon
    <2>3. places[Max(at)] \in [label : Int, address : Nat]
      <3>1. PICK m : m = Max(at) OBVIOUS
      <3>2. m \in DOMAIN places /\ places \in Seq([label : Int, address : Nat]) BY <2>2, <3>1 DEF Typed
      <3>3. places[m] \in [label : Int, address : Nat] BY <3>2, Member
      <3> QED BY <3>1, <3>3
    <2>4. Position(l) = places[Max(at)].address BY <1>2 DEF Position
    <2> QED BY <2>3, <2>4
  <1> QED BY <1>1, <1>2

LEMMA LabelsResolved ==
  ASSUME Typed, Stages, LabelSetting
  PROVE  Typed' /\ Stages'
  <1>1. /\ phase = "functions" /\ work = <<>> /\ analyzed = Len(script.functions) /\ phase' = "create"
        /\ statement' = [a \in DOMAIN statement |-> SetAddress(statement[a])]
        /\ currentNameSpace' = <<>>
        /\ UNCHANGED <<work, type, errorCount, frames, depth, labelled, variables, functions, currentFunction, noted,
                       script, analyzed, out>>
    BY DEF LabelSetting
  <1>2. statement \in Seq(Instructions) BY DEF Typed
  <1>3. ASSUME NEW a \in DOMAIN statement PROVE SetAddress(statement[a]) \in Instructions
    <2>1. PICK i : i = statement[a] OBVIOUS
    <2>2. i \in Instructions BY <1>2, <2>1
    <2>3. Position(i.arg) \in Int BY PositionType
    <2>4. SetAddress(i) \in Instructions BY <2>2, <2>3 DEF SetAddress, Instruction, Instructions
    <2> QED BY <2>1, <2>4
  <1>4. PICK n : n = Len(statement) OBVIOUS
  <1>5. n \in Nat /\ DOMAIN statement = 1 .. n BY <1>2, <1>4
  <1>6. statement' \in [1 .. n -> Instructions] BY <1>1, <1>3, <1>5
  <1>7. statement' \in Seq(Instructions) /\ Len(statement') = n BY <1>5, <1>6, Listed
  <1>8. Typed' BY <1>1, <1>4, <1>7 DEF Typed, labelled, noted
  <1>9. InPlace BY <1>1 DEF Stages
  <1>10. InPlace' BY <1>1, <1>9 DEF InPlace, labelled
  <1> QED BY <1>1, <1>8, <1>10 DEF Stages

\* CreateData,
LEMMA DataCreated ==
  ASSUME Typed, Stages, CreateData
  PROVE  Typed' /\ Stages' /\ UNCHANGED codegen
  <1>1. phase = "create" /\ phase' = "data" /\ UNCHANGED <<codegen, script, analyzed, positions>> BY DEF CreateData
  <1>2. UNCHANGED <<work, variables, breakIndex>> BY <1>1 DEF codegen, labelled, tables
  <1>3. Typed' BY <1>1 DEF Typed, codegen, emitted, labelled, tables, noted
  <1>4. InPlace /\ work = <<>> BY <1>1 DEF Stages
  <1>5. InPlace' BY <1>2, <1>4 DEF InPlace
  <1> QED BY <1>1, <1>2, <1>3, <1>4, <1>5 DEF Stages

\* and the end of Compile.
LEMMA Returned ==
  ASSUME Typed, Stages, Return
  PROVE  Typed' /\ Stages' /\ work' = <<>> /\ functions' = <<>>
  <1>1. /\ phase = "data" /\ phase' = "idle" /\ script' = NoScript /\ analyzed' = 0 /\ Clear /\ variables' = <<>>
        /\ UNCHANGED <<work, type, breakIndex, currentNameSpace, currentFunction>>
    BY DEF Return
  <1>2. work = <<>> /\ breakIndex = -1 BY <1>1, Idle DEF Stages
  <1>3. Typed' BY <1>1 DEF Typed, Clear, NoScript
  <1> QED BY <1>1, <1>2, <1>3 DEF Stages, Clear

-----------------------------------------------------------------------------
(* All the steps together.                                                 *)

\* What all steps but those of RegistFunction and Function::Analyze are.
Kept == PlainStep /\ InPlace'

\* While a script is compiled there is a table.
LEMMA NotEmpty ==
  ASSUME Typed, InPlace
  PROVE  variables # <<>>
  <1>1. work \in Seq(Calls) /\ Leveled(work, Len(variables), breakIndex) BY DEF Typed, InPlace
  <1>2. Len(variables) >= 1 BY <1>1, HeadFits
  <1> QED BY <1>2

\* Expressions are quiet.
LEMMA KeptExpression ==
  ASSUME Typed, InPlace, Callees, Fixed, Expression
  PROVE  QuietStep
  <1>1. CASE PushOperation BY <1>1, QuietPushOperation
  <1>2. CASE PushValue BY <1>2, QuietPushValue
  <1>3. CASE PushUnknown BY <1>3, QuietPushUnknown
  <1>4. CASE Negate BY <1>4, QuietNegate
  <1>5. CASE PushRight BY <1>5, QuietPushRight
  <1>6. CASE Operator BY <1>6, QuietOperator
  <1>7. CASE PushCall BY <1>7, QuietPushCall
  <1>8. CASE PushArgument BY <1>8, QuietPushArgument
  <1>9. CASE SetArg BY <1>9, QuietSetArg
  <1>10. CASE CallFunction BY <1>10, QuietCallFunction
  <1> QED BY <1>1, <1>2, <1>3, <1>4, <1>5, <1>6, <1>7, <1>8, <1>9, <1>10 DEF Expression

\* The statements that set no label and open no block.
QuietStatement ==
  AnalyzeUnary \/ AnalyzeNop \/ AnalyzeAssign \/ Store \/ AnalyzeBreak \/ AnalyzeReturn \/ AnalyzeIf \/ AnalyzeSwitch
  \/ DefineValue \/ AllocStack \/ AnalyzeAll

LEMMA KeptQuietStatement ==
  ASSUME Typed, InPlace, Callees, Fixed, QuietStatement
  PROVE  QuietStep
  <1>1. CASE AnalyzeUnary BY <1>1, QuietAnalyzeUnary
  <1>2. CASE AnalyzeNop BY <1>2, QuietAnalyzeNop
  <1>3. CASE AnalyzeAssign BY <1>3, QuietAnalyzeAssign
  <1>4. CASE Store BY <1>4, QuietStore
  <1>5. CASE AnalyzeBreak BY <1>5, QuietAnalyzeBreak
  <1>6. CASE AnalyzeReturn BY <1>6, QuietAnalyzeReturn
  <1>7. CASE AnalyzeIf BY <1>7, QuietAnalyzeIf
  <1>8. CASE AnalyzeSwitch BY <1>8, QuietAnalyzeSwitch
  <1>9. CASE DefineValue BY <1>9, QuietDefineValue, NotEmpty
  <1>10. CASE AllocStack BY <1>10, QuietAllocStack, NotEmpty
  <1>11. CASE AnalyzeAll BY <1>11, QuietAnalyzeAll
  <1> QED BY <1>1, <1>2, <1>3, <1>4, <1>5, <1>6, <1>7, <1>8, <1>9, <1>10, <1>11 DEF QuietStatement

\* The others.
LoudStatement ==
  StoreFails \/ AnalyzeThen \/ AnalyzeElse \/ AnalyzeLoop \/ AnalyzeCases \/ AnalyzeCase \/ AnalyzeBlock \/ BlockOut

LEMMA KeptLoudStatement ==
  ASSUME Typed, InPlace, Fixed, LoudStatement
  PROVE  Kept
  <1>1. CASE StoreFails BY <1>1, NextStoreFails DEF Kept
  <1>2. CASE AnalyzeThen BY <1>2, NextThen DEF Kept
  <1>3. CASE AnalyzeElse BY <1>3, NextElse DEF Kept
  <1>4. CASE AnalyzeLoop BY <1>4, NextLoop DEF Kept
  <1>5. CASE AnalyzeCases BY <1>5, NextCases DEF Kept
  <1>6. CASE AnalyzeCase BY <1>6, NextCase DEF Kept
  <1>7. CASE AnalyzeBlock BY <1>7, NextBlock DEF Kept
  <1>8. CASE BlockOut BY <1>8, NextBlockOut DEF Kept
  <1> QED BY <1>1, <1>2, <1>3, <1>4, <1>5, <1>6, <1>7, <1>8 DEF LoudStatement

\* All that is quiet.
QuietGenerate ==
  EmitNext \/ ReturnType \/ Expression \/ QuietStatement \/ AddArgument \/ CloseFunction \/ DefineGlobal

LEMMA KeptQuiet ==
  ASSUME Typed, InPlace, Callees, Fixed, QuietGenerate
  PROVE  QuietStep
  <1>1. CASE EmitNext BY <1>1, QuietEmitNext
  <1>2. CASE ReturnType BY <1>2, QuietReturnType
  <1>3. CASE Expression BY <1>3, KeptExpression
  <1>4. CASE QuietStatement BY <1>4, KeptQuietStatement
  <1>5. CASE AddArgument BY <1>5, QuietAddArgument, NotEmpty
  <1>6. CASE CloseFunction BY <1>6, QuietCloseFunction
  <1>7. CASE DefineGlobal BY <1>7, QuietDefineGlobal, NotEmpty
  <1> QED BY <1>1, <1>2, <1>3, <1>4, <1>5, <1>6, <1>7 DEF QuietGenerate

\* All but RegistFunction and Function::Analyze.
PlainGenerate == QuietGenerate \/ SetLabelNext \/ SetBreakLabelNext \/ LoudStatement

LEMMA GenerateKinds ==
  Generate <=> PlainGenerate \/ RegistFunction \/ AnalyzeFunction
BY DEF Generate, PlainGenerate, QuietGenerate, LoudStatement, QuietStatement, Statement, Declarations

LEMMA KeptPlain ==
  ASSUME Typed, InPlace, Callees, Fixed, PlainGenerate
  PROVE  Kept
  <1>1. CASE QuietGenerate BY <1>1, KeptQuiet, LevelsQuiet DEF Kept
  <1>2. CASE SetLabelNext BY <1>2, NextSetLabel DEF Kept
  <1>3. CASE SetBreakLabelNext BY <1>3, NextSetBreakLabel DEF Kept
  <1>4. CASE LoudStatement BY <1>4, KeptLoudStatement
  <1> QED BY <1>1, <1>2, <1>3, <1>4 DEF PlainGenerate

\* Calls are only pending while a script is analyzed.
LEMMA Generating ==
  ASSUME Typed, Stages, Generate
  PROVE  phase \in {"values", "functions"} /\ work # <<>> /\ InPlace
  <1>1. work # <<>>
    <2>1. CASE PlainGenerate \/ RegistFunction \/ AnalyzeFunction
      BY <2>1 DEF PlainGenerate, QuietGenerate, QuietStatement, LoudStatement, Expression, EmitNext, ReturnType,
         SetLabelNext, SetBreakLabelNext, AddArgument, CloseFunction, DefineGlobal, RegistFunction, AnalyzeFunction,
         PushOperation, PushValue, PushUnknown, Negate, PushRight, Operator, PushCall, PushArgument, SetArg, CallFunction,
         AnalyzeUnary, AnalyzeNop, AnalyzeAssign, Store, AnalyzeBreak, AnalyzeReturn, AnalyzeIf, AnalyzeSwitch,
         DefineValue, AllocStack, AnalyzeAll, StoreFails, AnalyzeThen, AnalyzeElse, AnalyzeLoop, AnalyzeCases, AnalyzeCase,
         AnalyzeBlock, BlockOut, Doing
    <2> QED BY <2>1, GenerateKinds
  <1>2. phase \notin {"idle", "create", "data"} BY <1>1 DEF Stages
  <1> QED BY <1>1, <1>2 DEF Stages, Typed

\* What is left of work after a step that registers and begins nothing.
LEMMA Carried ==
  ASSUME Typed, PlainStep
  PROVE  \E c : /\ Sober(c)
                /\ \A j \in DOMAIN work' : \/ j \in DOMAIN c /\ work'[j] = c[j]
                                           \/ \E i \in 2 .. Len(work) : work'[j] = work[i]
                /\ \A i \in 2 .. Len(work) : work[i].do # "block" => \E j \in DOMAIN work' : work'[j] = work[i]
  <1>1. PICK c : /\ Sober(c)
                 /\ \/ work' = c \o Tail(work)
                    \/ c = <<>> /\ Len(work) > 1 /\ work[2].do = "block" /\ work' = Tail(Tail(work))
    BY DEF PlainStep
  <1>2. c \in Seq(Calls) /\ work \in Seq(Calls) /\ work # <<>> BY <1>1 DEF Sober, Typed, PlainStep
  <1>3. CASE work' = c \o Tail(work)
    <2>1. PICK r : r = work' OBVIOUS
    <2>2. r = c \o Tail(work) BY <1>3, <2>1
    <2>3. /\ DOMAIN r = 1 .. Len(r) /\ Len(r) = Len(c) + Len(work) - 1 /\ Len(c) \in Nat /\ Len(work) \in Nat
          /\ \A i \in 1 .. Len(c) : r[i] = c[i]
          /\ \A i \in 2 .. Len(work) : r[Len(c) + i - 1] = work[i]
          /\ \A j \in Len(c) + 1 .. Len(r) : j - Len(c) + 1 \in 2 .. Len(work) /\ r[j] = work[j - Len(c) + 1]
      BY <1>2, <2>2, Spliced
    <2>4. DOMAIN c = 1 .. Len(c) BY <1>2
    <2>5. ASSUME NEW j \in DOMAIN r
          PROVE  (j \in DOMAIN c /\ r[j] = c[j]) \/ \E i \in 2 .. Len(work) : r[j] = work[i]
      <3>1. CASE j \in 1 .. Len(c) BY <2>3, <2>4, <3>1
      <3>2. CASE j \in Len(c) + 1 .. Len(r)
        <4>1. j - Len(c) + 1 \in 2 .. Len(work) /\ r[j] = work[j - Len(c) + 1] BY <2>3, <3>2
        <4> QED BY <4>1
      <3>3. j \in 1 .. Len(c) \/ j \in Len(c) + 1 .. Len(r) BY <2>3
      <3> QED BY <3>1, <3>2, <3>3
    <2>6. ASSUME NEW i \in 2 .. Len(work) PROVE \E j \in DOMAIN r : r[j] = work[i]
      <3>1. Len(c) + i - 1 \in DOMAIN r BY <2>3
      <3> QED BY <2>3, <3>1
    <2> QED BY <1>1, <2>1, <2>5, <2>6
  <1>4. CASE c = <<>> /\ Len(work) > 1 /\ work[2].do = "block" /\ work' = Tail(Tail(work))
    <2>1. PICK r : r = work' OBVIOUS
    <2>2. r = Tail(Tail(work)) BY <1>4, <2>1
    <2>3. /\ DOMAIN r = 1 .. Len(work) - 2 /\ Len(work) \in Nat
          /\ \A j \in 1 .. Len(work) - 2 : r[j] = work[j + 2]
      BY <1>2, <1>4, <2>2
    <2>4. ASSUME NEW j \in DOMAIN r PROVE \E i \in 2 .. Len(work) : r[j] = work[i]
      <3>1. j + 2 \in 2 .. Len(work) /\ r[j] = work[j + 2] BY <2>3
      <3> QED BY <3>1
    <2>5. ASSUME NEW i \in 2 .. Len(work), work[i].do # "block" PROVE \E j \in DOMAIN r : r[j] = work[i]
      <3>1. i # 2 BY <1>4, <2>5
      <3>2. i - 2 \in DOMAIN r /\ (i - 2) + 2 = i BY <2>3, <3>1
      <3>3. r[i - 2] = work[(i - 2) + 2] BY <2>3, <3>2
      <3> QED BY <3>2, <3>3
    <2> QED BY <1>1, <2>1, <2>4, <2>5
  <1> QED BY <1>1, <1>3, <1>4

-----------------------------------------------------------------------------
(* The functions that are registered.                                      *)

\* The labels of the functions are labels that were made (RegistFunction).
Bounded == \A i \in DOMAIN functions : functions[i].label < labels

\* Labels are only added (MakeLabel).
LEMMA LabelsGrow ==
  ASSUME Typed, PlainGenerate
  PROVE  labels' \in Nat /\ labels' >= labels
  <1>0. labels \in Nat BY DEF Typed
  <1>1. CASE AnalyzeThen BY <1>0, <1>1 DEF AnalyzeThen
  <1>2. CASE AnalyzeElse
    <2>1. labels' = labels \/ labels' = labels + 1 BY <1>2 DEF AnalyzeElse
    <2> QED BY <1>0, <2>1
  <1>3. CASE AnalyzeLoop BY <1>0, <1>3 DEF AnalyzeLoop
  <1>4. CASE AnalyzeCases BY <1>0, <1>4 DEF AnalyzeCases
  <1>5. CASE StoreFails \/ AnalyzeCase \/ AnalyzeBlock \/ BlockOut
    <2>1. StoreFails => labels' = labels BY DEF StoreFails, labelled
    <2>2. AnalyzeCase => labels' = labels BY DEF AnalyzeCase, labelled
    <2>3. AnalyzeBlock => labels' = labels BY DEF AnalyzeBlock, labelled
    <2>4. BlockOut => labels' = labels BY DEF BlockOut, labelled
    <2> QED BY <1>0, <1>5, <2>1, <2>2, <2>3, <2>4
  <1>6. CASE SetLabelNext \/ SetBreakLabelNext BY <1>0, <1>6 DEF SetLabelNext, SetBreakLabelNext
  <1>7. CASE Expression
    BY <1>0, <1>7 DEF Expression, PushOperation, PushValue, PushUnknown, Negate, PushRight, Operator, PushCall,
       PushArgument, SetArg, CallFunction, Expand, labelled
  <1>8. CASE QuietStatement
    BY <1>0, <1>8 DEF QuietStatement, AnalyzeUnary, AnalyzeNop, AnalyzeAssign, Store, AnalyzeBreak, AnalyzeReturn,
       AnalyzeIf, AnalyzeSwitch, DefineValue, AllocStack, AnalyzeAll, Expand, labelled
  <1>9. CASE EmitNext \/ ReturnType \/ AddArgument \/ CloseFunction \/ DefineGlobal
    <2>1. EmitNext => labels' = labels BY DEF EmitNext, labelled
    <2>2. ReturnType => labels' = labels BY DEF ReturnType, labelled
    <2>3. AddArgument => labels' = labels BY DEF AddArgument, labelled
    <2>4. CloseFunction => labels' = labels BY DEF CloseFunction, labelled
    <2>5. DefineGlobal => labels' = labels BY DEF DefineGlobal, labelled
    <2> QED BY <1>0, <1>9, <2>1, <2>2, <2>3, <2>4, <2>5
  <1> QED BY <1>1, <1>2, <1>3, <1>4, <1>5, <1>6, <1>7, <1>8, <1>9 DEF PlainGenerate, QuietGenerate, LoudStatement

\* While a function is pending nothing else is.
LEMMA NoFunction ==
  ASSUME Typed, Registry, work # <<>>, work[1].do # "function"
  PROVE  \A i \in DOMAIN work : work[i].do # "function"
  <1> SUFFICES ASSUME NEW i \in DOMAIN work, work[i].do = "function" PROVE FALSE OBVIOUS
  <1>1. Len(work) = 1 BY DEF Registry
  <1>2. work \in Seq(Calls) BY DEF Typed
  <1>3. i = 1 BY <1>1, <1>2
  <1> QED BY <1>3

\* A step that registers and begins nothing keeps the registry.
LEMMA RegistryPlain ==
  ASSUME Typed, Registry, Callees, PlainStep
  PROVE  Registry' /\ Callees'
  <1>1. /\ work # <<>> /\ work[1].do \notin {"regist", "function"}
        /\ UNCHANGED <<functions, phase, script, analyzed>> /\ work \in Seq(Calls)
    BY DEF PlainStep, Typed
  <1>2. PICK c : /\ Sober(c)
                 /\ \A j \in DOMAIN work' : \/ j \in DOMAIN c /\ work'[j] = c[j]
                                            \/ \E i \in 2 .. Len(work) : work'[j] = work[i]
                 /\ \A i \in 2 .. Len(work) : work[i].do # "block" => \E j \in DOMAIN work' : work'[j] = work[i]
    BY Carried
  <1>3. \A j \in DOMAIN c : c[j].do \notin Declared /\ Callee(c[j]) BY <1>2 DEF Sober
  <1>4. 2 .. Len(work) \subseteq DOMAIN work /\ Len(work) \in Nat /\ DOMAIN work = 1 .. Len(work) BY <1>1
  <1>5. \A i \in DOMAIN work : work[i].do # "function" BY <1>1, NoFunction
  <1>6. \A j \in DOMAIN work' : work'[j].do # "function" BY <1>2, <1>3, <1>4, <1>5 DEF Declared
  <1>7. \A f : Registered(f)' = Registered(f) BY <1>1 DEF Registered
  <1>8. Callees'
    <2> SUFFICES ASSUME NEW j \in DOMAIN work' PROVE Callee(work[j])' BY DEF Callees
    <2>1. Callee(work'[j])
      <3>1. CASE j \in DOMAIN c /\ work'[j] = c[j] BY <1>3, <3>1
      <3>2. CASE \E i \in 2 .. Len(work) : work'[j] = work[i] BY <1>4, <3>2 DEF Callees
      <3> QED BY <1>2, <3>1, <3>2
    <2> QED BY <1>1, <2>1 DEF Callee
  <1>9. \A j \in DOMAIN work' : work'[j].do = "regist" => \E i \in DOMAIN work : work'[j] = work[i]
    BY <1>2, <1>3, <1>4 DEF Declared
  <1>10. ASSUME NEW j \in DOMAIN work', work'[j].do = "regist"
         PROVE  phase = "functions" /\ analyzed = 0 /\ \E k \in DOMAIN script.functions : work'[j].f = script.functions[k]
    BY <1>9, <1>10 DEF Registry
  <1>11. ASSUME phase = "functions", NEW k \in DOMAIN script.functions, Registered(script.functions[k]) = {}
         PROVE  \E j \in DOMAIN work' : work'[j] = [do |-> "regist", f |-> script.functions[k]]
    <2>1. PICK i \in DOMAIN work : work[i] = [do |-> "regist", f |-> script.functions[k]] BY <1>11 DEF Registry
    <2>2. work[i].do = "regist" /\ i # 1 BY <1>1, <2>1
    <2>3. i \in 2 .. Len(work) BY <1>4, <2>2
    <2> QED BY <1>2, <2>1, <2>2, <2>3
  <1>12. ASSUME NEW i \in DOMAIN functions
         PROVE  \/ functions[i].isDefinition
                \/ \E k \in analyzed + 1 .. Len(script.functions) : i \in Registered(script.functions[k])
    BY <1>5 DEF Registry, Awaited
  <1>13. \A i, j \in DOMAIN functions :
           functions[i].name = functions[j].name /\ functions[i].arity = functions[j].arity => i = j
    BY DEF Registry
  <1>14. Registry'
    <2>1. (\A i, j \in DOMAIN functions :
             functions[i].name = functions[j].name /\ functions[i].arity = functions[j].arity => i = j)'
      BY <1>1, <1>13
    <2>2. (\A i \in DOMAIN work :
             work[i].do = "regist" => /\ phase = "functions" /\ analyzed = 0
                                      /\ \E k \in DOMAIN script.functions : work[i].f = script.functions[k])'
      BY <1>1, <1>10
    <2>3. (phase = "functions" =>
             \A k \in DOMAIN script.functions :
               \/ Registered(script.functions[k]) # {}
               \/ \E i \in DOMAIN work : work[i] = [do |-> "regist", f |-> script.functions[k]])'
      BY <1>1, <1>7, <1>11
    <2>4. (\A i \in DOMAIN functions : functions[i].isDefinition \/ Awaited(i))'
      BY <1>1, <1>7, <1>12 DEF Awaited
    <2> QED BY <1>6, <2>1, <2>2, <2>3, <2>4 DEF Registry
  <1> QED BY <1>8, <1>14

\* What is left when the first call is done.
LEMMA Behind ==
  ASSUME NEW S, NEW w \in Seq(S), w # <<>>, NEW r, r = <<>> \o Tail(w) \/ r = Tail(w)
  PROVE  /\ Len(w) \in Nat /\ Len(w) >= 1 /\ DOMAIN w = 1 .. Len(w) /\ DOMAIN r = 1 .. Len(r) /\ Len(r) = Len(w) - 1
         /\ r \in Seq(S)
         /\ \A j \in DOMAIN r : r[j] = w[j + 1] /\ j + 1 \in 2 .. Len(w)
         /\ \A i \in 2 .. Len(w) : i - 1 \in DOMAIN r /\ r[i - 1] = w[i]
  <1>1. r = Tail(w) OBVIOUS
  <1> QED BY <1>1

\* RegistFunction: a name and a number of parameters get one tag.
LEMMA RegistryRegist ==
  ASSUME Typed, Registry, Callees, Bounded, RegistFunction, Fixed
  PROVE  Registry' /\ Callees' /\ Bounded'
  <1>1. PICK f : f = work[1].f OBVIOUS
  <1>2. PICK tag : tag = [name |-> Append(f.ns, f.name), arity |-> Len(f.params), ret |-> f.ret, label |-> labels,
                          isDefinition |-> FALSE]
    OBVIOUS
  <1>3. PICK n : n = Len(functions) OBVIOUS
  <1>4. /\ work # <<>> /\ work[1].do = "regist" /\ work' = <<>> \o Tail(work)
        /\ UNCHANGED <<phase, script, analyzed>>
    BY DEF RegistFunction, Doing, Then, Fixed
  <1>5. \/ Registered(f) # {} /\ functions' = functions /\ labels' = labels
        \/ Registered(f) = {} /\ functions' = Append(functions, tag) /\ labels' = labels + 1
    BY <1>1, <1>2 DEF RegistFunction
  <1>6. work \in Seq(Calls) /\ functions \in Seq(FunctionTags) /\ labels \in Nat BY DEF Typed
  <1>7. n \in Nat /\ DOMAIN functions = 1 .. n BY <1>3, <1>6
  <1>8. /\ DOMAIN work = 1 .. Len(work) /\ Len(work) \in Nat
        /\ \A j \in DOMAIN work' : work'[j] = work[j + 1] /\ j + 1 \in 2 .. Len(work)
        /\ \A i \in 2 .. Len(work) : i - 1 \in DOMAIN work' /\ work'[i - 1] = work[i]
    BY <1>4, <1>6, Behind
  <1>9. \A i \in DOMAIN work : work[i].do # "function" BY <1>4, NoFunction
  <1>10. \A j \in DOMAIN work' : \E i \in DOMAIN work : work'[j] = work[i] BY <1>8
  <1>11. /\ DOMAIN functions \subseteq DOMAIN functions'
         /\ \A i \in DOMAIN functions : functions'[i] = functions[i]
         /\ \A i \in DOMAIN functions' \ DOMAIN functions : i = n + 1 /\ functions'[i] = tag /\ Registered(f) = {}
         /\ Registered(f) = {} => n + 1 \in DOMAIN functions' /\ functions'[n + 1] = tag
    <2>1. CASE Registered(f) # {} /\ functions' = functions BY <2>1
    <2>2. CASE Registered(f) = {} /\ functions' = Append(functions, tag) BY <1>3, <1>6, <1>7, <2>2
    <2> QED BY <1>5, <2>1, <2>2
  <1>12. tag.name = Append(f.ns, f.name) /\ tag.arity = Len(f.params) /\ tag.label = labels BY <1>2
  <1>13. \A g : Registered(g) \subseteq Registered(g)' BY <1>11 DEF Registered
  <1>14. Registered(f)' # {} BY <1>11, <1>12, <1>13 DEF Registered
  <1>15. Callees'
    <2> SUFFICES ASSUME NEW j \in DOMAIN work' PROVE Callee(work[j])' BY DEF Callees
    <2>1. Callee(work'[j]) BY <1>10 DEF Callees
    <2> QED BY <1>11, <2>1 DEF Callee
  <1>16. PICK k0 \in DOMAIN script.functions : f = script.functions[k0] /\ phase = "functions" /\ analyzed = 0
    <2>1. 1 \in DOMAIN work BY <1>4, <1>6
    <2> QED BY <1>1, <1>4, <2>1 DEF Registry
  <1>17. DOMAIN script.functions = 1 .. Len(script.functions)
    <2>1. script.functions \in Seq(FunctionForms(Statements)) BY DEF Typed
    <2> QED BY <2>1
  <1>18. \A i, j \in DOMAIN functions' :
           functions'[i].name = functions'[j].name /\ functions'[i].arity = functions'[j].arity => i = j
    <2> SUFFICES ASSUME NEW i \in DOMAIN functions', NEW j \in DOMAIN functions',
                        functions'[i].name = functions'[j].name, functions'[i].arity = functions'[j].arity
                 PROVE  i = j
      OBVIOUS
    <2>1. CASE i \in DOMAIN functions /\ j \in DOMAIN functions BY <1>11, <2>1 DEF Registry
    <2>2. CASE i \in DOMAIN functions /\ j \notin DOMAIN functions BY <1>11, <1>12, <2>2 DEF Registered
    <2>3. CASE i \notin DOMAIN functions /\ j \in DOMAIN functions BY <1>11, <1>12, <2>3 DEF Registered
    <2>4. CASE i \notin DOMAIN functions /\ j \notin DOMAIN functions BY <1>11, <2>4
    <2> QED BY <2>1, <2>2, <2>3, <2>4
  <1>19. \A j \in DOMAIN work' : work'[j].do # "function" BY <1>9, <1>10
  <1>20. \A j \in DOMAIN work' :
           work'[j].do = "regist" => /\ phase = "functions" /\ analyzed = 0
                                     /\ \E k \in DOMAIN script.functions : work'[j].f = script.functions[k]
    BY <1>10 DEF Registry
  <1>21. ASSUME NEW k \in DOMAIN script.functions, Registered(script.functions[k])' = {}
         PROVE  \E j \in DOMAIN work' : work'[j] = [do |-> "regist", f |-> script.functions[k]]
    <2>1. Registered(script.functions[k]) = {} /\ script.functions[k] # f BY <1>4, <1>13, <1>14, <1>21
    <2>2. PICK i \in DOMAIN work : work[i] = [do |-> "regist", f |-> script.functions[k]]
      BY <1>16, <2>1 DEF Registry
    <2>3. work[i].f = script.functions[k] BY <2>2
    <2>4. i # 1 BY <1>1, <2>1, <2>3
    <2>5. i \in 2 .. Len(work) BY <1>8, <2>4
    <2> QED BY <1>8, <2>2, <2>5
  <1>22. \A i \in DOMAIN functions' :
           \/ functions'[i].isDefinition
           \/ \E k \in analyzed + 1 .. Len(script.functions) : i \in Registered(script.functions[k])'
    <2> SUFFICES ASSUME NEW i \in DOMAIN functions', ~functions'[i].isDefinition
                 PROVE  \E k \in analyzed + 1 .. Len(script.functions) : i \in Registered(script.functions[k])'
      OBVIOUS
    <2>1. CASE i \in DOMAIN functions
      <3>1. PICK k \in analyzed + 1 .. Len(script.functions) : i \in Registered(script.functions[k])
        BY <1>9, <1>11, <2>1 DEF Registry, Awaited
      <3> QED BY <1>4, <1>13, <3>1
    <2>2. CASE i \notin DOMAIN functions
      <3>1. i \in Registered(f)' BY <1>11, <1>12, <2>2 DEF Registered
      <3>2. k0 \in analyzed + 1 .. Len(script.functions) BY <1>16, <1>17
      <3> QED BY <1>4, <1>16, <3>1, <3>2
    <2> QED BY <2>1, <2>2
  <1>23. Registry'
    <2>1. (\A i \in DOMAIN work :
             work[i].do = "regist" => /\ phase = "functions" /\ analyzed = 0
                                      /\ \E k \in DOMAIN script.functions : work[i].f = script.functions[k])'
      BY <1>4, <1>20
    <2>2. (phase = "functions" =>
             \A k \in DOMAIN script.functions :
               \/ Registered(script.functions[k]) # {}
               \/ \E i \in DOMAIN work : work[i] = [do |-> "regist", f |-> script.functions[k]])'
      <3> SUFFICES ASSUME NEW k \in DOMAIN script.functions', ~(Registered(script.functions[k]) # {})'
                   PROVE  \E i \in DOMAIN work' : work'[i] = [do |-> "regist", f |-> script.functions'[k]]
        OBVIOUS
      <3> QED BY <1>4, <1>21
    <2>3. (\A i \in DOMAIN functions : functions[i].isDefinition \/ Awaited(i))'
      BY <1>4, <1>22 DEF Awaited
    <2> QED BY <1>18, <1>19, <2>1, <2>2, <2>3 DEF Registry
  <1>24. Bounded'
    <2> SUFFICES ASSUME NEW i \in DOMAIN functions' PROVE functions'[i].label < labels' BY DEF Bounded
    <2>1. CASE i \in DOMAIN functions
      <3>1. functions'[i].label < labels /\ functions'[i].label \in Nat
        <4>1. functions[i] \in FunctionTags BY <1>6, <2>1
        <4> QED BY <1>11, <2>1, <4>1, TagParts DEF Bounded
      <3>2. labels' >= labels /\ labels' \in Nat BY <1>5, <1>6
      <3> QED BY <1>6, <3>1, <3>2
    <2>2. CASE i \notin DOMAIN functions
      <3>1. functions'[i] = tag /\ Registered(f) = {} BY <1>11, <2>2
      <3>2. labels' = labels + 1 BY <1>5, <3>1
      <3> QED BY <1>6, <1>12, <3>1, <3>2
    <2> QED BY <2>1, <2>2
  <1> QED BY <1>15, <1>23, <1>24

\* No call of a function registers or begins one.
LEMMA FunctionCallKinds ==
  ASSUME Typed, NEW f \in FunctionForms(Statements), NEW i \in DOMAIN functions, NEW r,
         r = FunctionCalls(f, i)
  PROVE  /\ r \in Seq(Calls)
         /\ \A j \in DOMAIN r : /\ r[j].do \notin {"regist", "function", "global"} /\ Callee(r[j])
                                /\ r[j].do = "parameter" => j \in 1 .. Len(f.params)
         /\ \A j \in 1 .. Len(f.params) :
              j \in DOMAIN r /\ r[j].do = "parameter" /\ r[j].f = i /\ r[j].is = Len(f.params) + 1 - j
  <1>1. PICK p, q : p = ParameterCalls(f, i) /\ q = RestCalls(f) OBVIOUS
  <1>2. i \in Nat BY DEF Typed
  <1>3. /\ p \in Seq(Calls) /\ Len(p) = Len(f.params) /\ Len(f.params) \in Nat
        /\ \A j \in 1 .. Len(p) : p[j].do = "parameter" /\ p[j].f = i /\ p[j].is = Len(f.params) + 1 - j
    BY <1>1, <1>2, ParameterTypes
  <1>4. q \in Seq(Calls) /\ Sober(q) BY <1>1, RestTypes
  <1>5. r = p \o q BY <1>1 DEF FunctionCalls
  <1>6. /\ r \in Seq(Calls) /\ Len(r) = Len(p) + Len(q) /\ Len(p) \in Nat /\ Len(q) \in Nat
        /\ \A j \in 1 .. Len(p) : r[j] = p[j]
        /\ \A j \in 1 .. Len(q) : r[Len(p) + j] = q[j]
    <2>1. p \in Seq(Calls) /\ q \in Seq(Calls) BY <1>3, <1>4
    <2> QED BY ONLY <1>5, <2>1, Joined
  <1>7. DOMAIN r = 1 .. Len(r) BY <1>6
  <1>8. ASSUME NEW j \in 1 .. Len(p)
        PROVE  /\ j \in DOMAIN r /\ r[j].do = "parameter" /\ r[j].f = i /\ r[j].is = Len(f.params) + 1 - j
               /\ Callee(r[j])
    BY <1>3, <1>6, <1>7 DEF Callee
  <1>9. ASSUME NEW j \in DOMAIN r, j > Len(p) PROVE r[j].do \notin Declared /\ Callee(r[j])
    <2>1. j - Len(p) \in 1 .. Len(q) /\ Len(p) + (j - Len(p)) = j BY <1>6, <1>7, <1>9
    <2>2. r[j] = q[j - Len(p)] BY <1>6, <2>1
    <2> QED BY <1>4, <2>1, <2>2 DEF Sober
  <1>10. ASSUME NEW j \in DOMAIN r
         PROVE  /\ r[j].do \notin {"regist", "function", "global"} /\ Callee(r[j])
                /\ r[j].do = "parameter" => j \in 1 .. Len(f.params)
    <2>1. CASE j > Len(p) BY <1>9, <2>1 DEF Declared
    <2>2. CASE j \in 1 .. Len(p) BY <1>3, <1>8, <2>2
    <2>3. j > Len(p) \/ j \in 1 .. Len(p) BY <1>6, <1>7
    <2> QED BY <2>1, <2>2, <2>3
  <1> QED BY <1>3, <1>6, <1>8, <1>10

\* Function::Analyze: a function that is begun has code, and is awaited no more.
LEMMA RegistryFunction ==
  ASSUME Typed, Registry, Callees, Bounded, FunctionStep
  PROVE  Registry' /\ Callees' /\ Bounded'
  <1>1. PICK f : f = work[1].f OBVIOUS
  <1>2. PICK i \in Registered(f) :
          \/ /\ functions[i].isDefinition /\ work' = Tail(work)
             /\ UNCHANGED <<functions, variables, places>>
          \/ /\ ~functions[i].isDefinition
             /\ functions' = [functions EXCEPT ![i].isDefinition = TRUE]
             /\ currentFunction' = [tag |-> i, ret |-> f.ret]
             /\ work' = FunctionCalls(f, i) \o Tail(work)
             /\ variables' = Append(variables, ValueTable(0))
             /\ places' = Append(places, [label |-> functions[i].label, address |-> Len(statement)])
    BY <1>1 DEF FunctionStep
  <1>3. /\ work # <<>> /\ work[1].do = "function" /\ Typed' /\ work \in Seq(Calls)
        /\ UNCHANGED <<labels, phase, script, analyzed>>
    BY DEF FunctionStep, Typed
  <1>4. 1 \in DOMAIN work BY <1>3
  <1>5. Len(work) = 1 BY <1>3, <1>4 DEF Registry
  <1>6. Tail(work) = <<>> BY <1>3, <1>5
  <1>7. f \in FunctionForms(Statements) BY <1>1, <1>3, HeadParts, CallParts
  <1>8. i \in DOMAIN functions /\ functions[i].name = Append(f.ns, f.name) /\ functions[i].arity = Len(f.params)
        /\ functions \in Seq(FunctionTags) /\ functions[i] \in FunctionTags
    BY <1>2 DEF Registered, Typed
  <1>9. /\ DOMAIN functions' = DOMAIN functions
        /\ \A j \in DOMAIN functions :
             /\ functions'[j].name = functions[j].name /\ functions'[j].arity = functions[j].arity
             /\ functions'[j].label = functions[j].label
             /\ functions[j].isDefinition => functions'[j].isDefinition
        /\ functions'[i].isDefinition
    <2>1. CASE functions[i].isDefinition /\ functions' = functions BY <2>1
    <2>2. CASE functions' = [functions EXCEPT ![i].isDefinition = TRUE]
      <3>1. PICK v : v = [functions[i] EXCEPT !.isDefinition = TRUE] OBVIOUS
      <3>2. functions' = [functions EXCEPT ![i] = v] BY <2>2, <3>1
      <3>3. v.name = functions[i].name /\ v.arity = functions[i].arity /\ v.label = functions[i].label /\ v.isDefinition
        BY <1>8, <3>1 DEF FunctionTags
      <3>4. DOMAIN functions' = DOMAIN functions /\ functions'[i] = v BY <1>8, <3>2
      <3>5. \A j \in DOMAIN functions : j # i => functions'[j] = functions[j] BY <1>8, <3>2
      <3> QED BY <1>8, <3>3, <3>4, <3>5
    <2> QED BY <1>2, <2>1, <2>2
  <1>10. \A g : Registered(g)' = Registered(g) BY <1>9 DEF Registered
  <1>11. \A j \in DOMAIN work' : work'[j].do \notin {"regist", "function", "global"} /\ Callee(work'[j])
    <2>1. CASE work' = Tail(work)
      <3>1. DOMAIN work' = {} BY <1>6, <2>1
      <3> QED BY <3>1
    <2>2. CASE work' = FunctionCalls(f, i) \o Tail(work)
      <3>1. PICK r : r = FunctionCalls(f, i) OBVIOUS
      <3>2. /\ r \in Seq(Calls)
            /\ \A j \in DOMAIN r : r[j].do \notin {"regist", "function", "global"} /\ Callee(r[j])
        BY <1>7, <1>8, <3>1, FunctionCallKinds
      <3>3. work' = r BY <1>6, <2>2, <3>1, <3>2
      <3> QED BY <3>2, <3>3
    <2> QED BY <1>2, <2>1, <2>2
  <1>12. Callees'
    <2> SUFFICES ASSUME NEW j \in DOMAIN work' PROVE Callee(work[j])' BY DEF Callees
    <2>1. Callee(work'[j]) BY <1>11
    <2> QED BY <1>9, <2>1 DEF Callee
  <1>13. \A j, k \in DOMAIN functions' :
           functions'[j].name = functions'[k].name /\ functions'[j].arity = functions'[k].arity => j = k
    BY <1>9 DEF Registry
  <1>14. \A j \in DOMAIN functions' :
           \/ functions'[j].isDefinition
           \/ \E k \in analyzed + 1 .. Len(script.functions) : j \in Registered(script.functions[k])
    <2> SUFFICES ASSUME NEW j \in DOMAIN functions', ~functions'[j].isDefinition
                 PROVE  \E k \in analyzed + 1 .. Len(script.functions) : j \in Registered(script.functions[k])
      OBVIOUS
    <2>1. j \in DOMAIN functions /\ ~functions[j].isDefinition /\ j # i BY <1>9
    <2>2. ~\E k \in DOMAIN work : work[k].do = "function" /\ j \in Registered(work[k].f)
      <3> SUFFICES ASSUME NEW k \in DOMAIN work, j \in Registered(work[k].f) PROVE FALSE OBVIOUS
      <3>1. k = 1 BY <1>3, <1>5
      <3>2. functions[j].name = functions[i].name /\ functions[j].arity = functions[i].arity
        BY <1>1, <1>8, <3>1 DEF Registered
      <3> QED BY <1>8, <2>1, <3>2 DEF Registry
    <2> QED BY <2>1, <2>2 DEF Registry, Awaited
  <1>15. \A k \in DOMAIN script.functions : phase = "functions" => Registered(script.functions[k]) # {}
    <2> SUFFICES ASSUME NEW k \in DOMAIN script.functions, phase = "functions", Registered(script.functions[k]) = {}
                 PROVE  FALSE
      OBVIOUS
    <2>1. PICK j \in DOMAIN work : work[j] = [do |-> "regist", f |-> script.functions[k]] BY DEF Registry
    <2>2. j = 1 BY <1>3, <1>5
    <2> QED BY <1>3, <2>1, <2>2
  <1>16. Registry'
    <2>1. (phase = "functions" =>
             \A k \in DOMAIN script.functions :
               \/ Registered(script.functions[k]) # {}
               \/ \E j \in DOMAIN work : work[j] = [do |-> "regist", f |-> script.functions[k]])'
      BY <1>3, <1>10, <1>15
    <2>2. (\A j \in DOMAIN functions : functions[j].isDefinition \/ Awaited(j))'
      BY <1>3, <1>10, <1>14 DEF Awaited
    <2>3. \A j \in DOMAIN work' : work'[j].do # "function" /\ work'[j].do # "regist" BY <1>11
    <2> QED BY <1>13, <2>1, <2>2, <2>3 DEF Registry
  <1>17. Bounded' BY <1>3, <1>9 DEF Bounded
  <1> QED BY <1>12, <1>16, <1>17

\* The inductive invariant.
Sound == Typed /\ Stages /\ Callees /\ Registry /\ Bounded

\* Codegen keeps it,
LEMMA SoundGenerate ==
  ASSUME Sound, Generate, Fixed
  PROVE  Sound'
  <1>1. Typed /\ Stages /\ Callees /\ Registry /\ Bounded BY DEF Sound
  <1>2. phase \in {"values", "functions"} /\ work # <<>> /\ InPlace BY <1>1, Generating
  <1>3. UNCHANGED <<phase, script, analyzed>> BY DEF Fixed
  <1>4. phase = "values" => functions = <<>> /\ analyzed = 0 BY <1>1 DEF Stages
  <1>5. ASSUME Typed', InPlace', phase = "values" => functions' = <<>> PROVE Stages'
    BY <1>2, <1>3, <1>4, <1>5 DEF Stages
  <1>6. CASE PlainGenerate
    <2>1. Kept BY <1>1, <1>2, <1>6, KeptPlain
    <2>2. Registry' /\ Callees' /\ Typed' /\ InPlace' /\ functions' = functions
      BY <1>1, <2>1, RegistryPlain DEF Kept, PlainStep
    <2>3. labels' \in Nat /\ labels' >= labels BY <1>1, <1>6, LabelsGrow
    <2>4. Bounded'
      <3> SUFFICES ASSUME NEW i \in DOMAIN functions' PROVE functions'[i].label < labels' BY DEF Bounded
      <3>1. i \in DOMAIN functions /\ functions'[i] = functions[i] BY <2>2
      <3>2. functions[i].label < labels BY <1>1, <3>1 DEF Bounded
      <3>3. functions[i] \in FunctionTags BY <1>1, <3>1 DEF Typed
      <3>4. functions[i].label \in Nat /\ labels \in Nat BY <1>1, <3>3, TagParts DEF Typed
      <3> QED BY <2>3, <3>1, <3>2, <3>4
    <2> QED BY <1>4, <1>5, <2>2, <2>4 DEF Sound
  <1>7. CASE RegistFunction
    <2>1. Typed' /\ InPlace' BY <1>1, <1>2, <1>7, NextRegist
    <2>2. Registry' /\ Callees' /\ Bounded' BY <1>1, <1>7, RegistryRegist
    <2>3. phase = "functions"
      <3>1. work[1].do = "regist" /\ 1 \in DOMAIN work BY <1>1, <1>2, <1>7 DEF RegistFunction, Doing, Typed
      <3> QED BY <1>1, <3>1 DEF Registry
    <2> QED BY <1>5, <2>1, <2>2, <2>3 DEF Sound
  <1>8. CASE AnalyzeFunction
    <2>1. work[1].do = "function" /\ 1 \in DOMAIN work BY <1>1, <1>2, <1>8 DEF AnalyzeFunction, Doing, Typed
    <2>2. Registered(work[1].f) # {} BY <1>1, <2>1 DEF Registry
    <2>3. FunctionStep BY <1>1, <1>2, <1>8, <2>2, NextFunction
    <2>4. Registry' /\ Callees' /\ Bounded' BY <1>1, <2>3, RegistryFunction
    <2>5. Typed' /\ InPlace' BY <2>3 DEF FunctionStep
    <2>6. phase # "values"
      <3>1. Registered(work[1].f) \subseteq DOMAIN functions BY DEF Registered
      <3>2. functions # <<>> BY <2>2, <3>1
      <3> QED BY <1>4, <3>2
    <2> QED BY <1>5, <2>4, <2>5, <2>6 DEF Sound
  <1> QED BY <1>6, <1>7, <1>8, GenerateKinds

-----------------------------------------------------------------------------
(* The theorems about levels and functions.                                *)

\* the initial states have it,
LEMMA SoundInit == Init => Sound
  <1> SUFFICES ASSUME Init PROVE Sound OBVIOUS
  <1>1. Typed /\ Stages BY Started
  <1>2. work = <<>> /\ functions = <<>> /\ phase = "idle" BY DEF Init
  <1> QED BY <1>1, <1>2 DEF Sound, Callees, Registry, Bounded

\* and the passes keep it.
LEMMA SoundPhases ==
  ASSUME Sound,
         (\E s \in Scripts : Compile(s)) \/ DeclareFunctions \/ AnalyzeFunctions \/ LabelSetting \/ CreateData \/ Return
  PROVE  Sound'
  <1>1. Typed /\ Stages /\ Callees /\ Registry /\ Bounded BY DEF Sound
  <1>2. ASSUME NEW s \in Scripts, Compile(s) PROVE Sound'
    <2>1. /\ Typed' /\ Stages'
          /\ \A i \in DOMAIN work' : work'[i].do \in {"emit", "global"}
      BY <1>1, <1>2, Compiled
    <2>2. functions' = <<>> /\ phase' = "values" BY <1>2 DEF Compile, Clear
    <2> QED BY <2>1, <2>2 DEF Sound, Callees, Callee, Registry, Bounded
  <1>3. CASE DeclareFunctions
    <2>1. /\ Typed' /\ Stages'
          /\ DOMAIN work' = DOMAIN script.functions
          /\ \A i \in DOMAIN work' : work'[i] = [do |-> "regist", f |-> script.functions[i]]
      BY <1>1, <1>3, DeclaredFunctions
    <2>2. /\ functions' = functions /\ functions = <<>> /\ analyzed' = 0 /\ script' = script /\ phase' = "functions"
      BY <1>1, <1>3 DEF DeclareFunctions, Stages, tables
    <2>3. \A i \in DOMAIN work' : work'[i].do = "regist" /\ work'[i].f = script.functions[i]
      <3> SUFFICES ASSUME NEW i \in DOMAIN work' PROVE work'[i].do = "regist" /\ work'[i].f = script.functions[i]
        OBVIOUS
      <3>1. PICK x : x = work'[i] OBVIOUS
      <3>2. x = [do |-> "regist", f |-> script.functions[i]] BY <2>1, <3>1
      <3>3. x.do = "regist" /\ x.f = script.functions[i] BY <3>2
      <3> QED BY <3>1, <3>3
    <2>4. Callees' BY <2>3 DEF Callees, Callee
    <2>5. Registry' BY <2>1, <2>2, <2>3 DEF Registry
    <2> QED BY <2>1, <2>2, <2>4, <2>5 DEF Sound, Bounded
  <1>4. CASE AnalyzeFunctions
    <2>1. /\ Typed' /\ Stages'
          /\ DOMAIN work' = {1} /\ work'[1] = [do |-> "function", f |-> script.functions[analyzed + 1]]
          /\ Len(work') = 1
      BY <1>1, <1>4, FunctionsBegun
    <2>2. /\ functions' = functions /\ script' = script /\ phase' = phase /\ phase = "functions" /\ analyzed' = analyzed + 1
          /\ work = <<>> /\ labels' = labels /\ analyzed < Len(script.functions)
      BY <1>4 DEF AnalyzeFunctions, tables, labelled
    <2>3. work'[1].do = "function" /\ work'[1].f = script.functions[analyzed + 1] BY <2>1
    <2>4. Callees' BY <2>1, <2>3 DEF Callees, Callee
    <2>5. \A g : Registered(g)' = Registered(g) BY <2>2 DEF Registered
    <2>6. analyzed \in Nat /\ DOMAIN script.functions = 1 .. Len(script.functions) /\ Len(script.functions) \in Nat
      <3>1. script.functions \in Seq(FunctionForms(Statements)) /\ analyzed \in Nat BY <1>1 DEF Typed
      <3> QED BY <3>1
    <2>7. \A k \in DOMAIN script.functions : Registered(script.functions[k]) # {} BY <1>1, <2>2 DEF Registry
    <2>8. analyzed + 1 \in DOMAIN script.functions BY <2>2, <2>6
    <2>9. PICK f : f = script.functions[analyzed + 1] OBVIOUS
    <2>10. Registered(f) # {} BY <2>7, <2>8, <2>9
    <2>11. \A i \in DOMAIN functions :
             \/ functions[i].isDefinition
             \/ \E k \in analyzed + 2 .. Len(script.functions) : i \in Registered(script.functions[k])
             \/ i \in Registered(f)
      <3> SUFFICES ASSUME NEW i \in DOMAIN functions, ~functions[i].isDefinition, i \notin Registered(f)
                   PROVE  \E k \in analyzed + 2 .. Len(script.functions) : i \in Registered(script.functions[k])
        OBVIOUS
      <3>1. PICK k \in analyzed + 1 .. Len(script.functions) : i \in Registered(script.functions[k])
        BY <1>1, <2>2 DEF Registry, Awaited
      <3>2. k # analyzed + 1 BY <2>9, <3>1
      <3>3. k \in analyzed + 2 .. Len(script.functions) BY <2>6, <3>2
      <3> QED BY <3>1, <3>3
    <2>12. Registry'
      <3>1. (\A i \in DOMAIN functions : functions[i].isDefinition \/ Awaited(i))'
        <4> SUFFICES ASSUME NEW i \in DOMAIN functions', ~functions'[i].isDefinition PROVE Awaited(i)' OBVIOUS
        <4>1. CASE \E k \in analyzed + 2 .. Len(script.functions) : i \in Registered(script.functions[k])
          <5>1. analyzed' + 1 = analyzed + 2 BY <2>2, <2>6
          <5> QED BY <2>2, <2>5, <4>1, <5>1 DEF Awaited
        <4>2. CASE i \in Registered(f)
          <5>1. i \in Registered(work[1].f)' BY <2>3, <2>5, <2>9, <4>2
          <5> QED BY <2>1, <2>3, <5>1 DEF Awaited
        <4> QED BY <2>2, <2>11, <4>1, <4>2
      <3>2. \A i \in DOMAIN work' : work'[i].do = "function" /\ Registered(work'[i].f) # {} BY <2>1, <2>3, <2>9, <2>10
      <3>3. (\A i \in DOMAIN work : work[i].do = "function" => Len(work) = 1 /\ Registered(work[i].f) # {})'
        BY <2>1, <2>5, <3>2
      <3>4. (phase = "functions" =>
               \A k \in DOMAIN script.functions :
                 \/ Registered(script.functions[k]) # {}
                 \/ \E i \in DOMAIN work : work[i] = [do |-> "regist", f |-> script.functions[k]])'
        BY <2>2, <2>5, <2>7
      <3>5. (\A i, j \in DOMAIN functions :
               functions[i].name = functions[j].name /\ functions[i].arity = functions[j].arity => i = j)'
        BY <1>1, <2>2 DEF Registry
      <3> QED BY <3>1, <3>2, <3>3, <3>4, <3>5 DEF Registry
    <2> QED BY <1>1, <2>1, <2>2, <2>4, <2>12 DEF Sound, Bounded
  <1>5. CASE LabelSetting
    <2>1. Typed' /\ Stages' BY <1>1, <1>5, LabelsResolved
    <2>2. /\ work' = <<>> /\ work = <<>> /\ functions' = functions /\ script' = script /\ analyzed' = analyzed
          /\ labels' = labels /\ phase' = "create"
      BY <1>5 DEF LabelSetting, labelled
    <2>3. \A g : Registered(g)' = Registered(g) BY <2>2 DEF Registered
    <2>4. Registry'
      <3>1. \A i \in DOMAIN functions :
              \/ functions[i].isDefinition
              \/ \E k \in analyzed + 1 .. Len(script.functions) : i \in Registered(script.functions[k])
        BY <1>1, <2>2 DEF Registry, Awaited
      <3>2. (\A i \in DOMAIN functions : functions[i].isDefinition \/ Awaited(i))'
        BY <2>2, <2>3, <3>1 DEF Awaited
      <3>3. (\A i, j \in DOMAIN functions :
               functions[i].name = functions[j].name /\ functions[i].arity = functions[j].arity => i = j)'
        BY <1>1, <2>2 DEF Registry
      <3> QED BY <2>2, <3>2, <3>3 DEF Registry
    <2> QED BY <1>1, <2>1, <2>2, <2>4 DEF Sound, Bounded, Callees
  <1>6. CASE CreateData
    <2>1. Typed' /\ Stages' /\ UNCHANGED codegen BY <1>1, <1>6, DataCreated
    <2>2. /\ work' = work /\ work = <<>> /\ functions' = functions /\ script' = script /\ analyzed' = analyzed
          /\ labels' = labels /\ phase' = "data"
      BY <1>1, <1>6, <2>1 DEF CreateData, codegen, labelled, tables, Stages
    <2>3. \A g : Registered(g)' = Registered(g) BY <2>2 DEF Registered
    <2>4. Registry'
      <3>1. \A i \in DOMAIN functions :
              \/ functions[i].isDefinition
              \/ \E k \in analyzed + 1 .. Len(script.functions) : i \in Registered(script.functions[k])
        BY <1>1, <2>2 DEF Registry, Awaited
      <3>2. (\A i \in DOMAIN functions : functions[i].isDefinition \/ Awaited(i))'
        BY <2>2, <2>3, <3>1 DEF Awaited
      <3>3. (\A i, j \in DOMAIN functions :
               functions[i].name = functions[j].name /\ functions[i].arity = functions[j].arity => i = j)'
        BY <1>1, <2>2 DEF Registry
      <3> QED BY <2>2, <3>2, <3>3 DEF Registry
    <2> QED BY <1>1, <2>1, <2>2, <2>4 DEF Sound, Bounded, Callees
  <1>7. CASE Return
    <2>1. Typed' /\ Stages' /\ work' = <<>> /\ functions' = <<>> BY <1>1, <1>7, Returned
    <2>2. phase' = "idle" BY <1>7 DEF Return
    <2> QED BY <2>1, <2>2 DEF Sound, Callees, Registry, Bounded
  <1> QED BY <1>2, <1>3, <1>4, <1>5, <1>6, <1>7

LEMMA SoundSame ==
  ASSUME Sound, UNCHANGED vars
  PROVE  Sound'
  <1>1. UNCHANGED <<work, type, errorCount, statement, frames, depth, labels, places, breakIndex, variables, functions,
                    currentNameSpace, currentFunction, notes, doubts, phase, script, analyzed>>
    BY DEF vars, codegen, emitted, labelled, tables, noted
  <1>2. Typed' BY <1>1 DEF Sound, Typed
  <1>3. InPlace' = InPlace BY <1>1 DEF InPlace
  <1>4. Stages' BY <1>1, <1>3 DEF Sound, Stages
  <1>5. \A g : Registered(g)' = Registered(g) BY <1>1 DEF Registered
  <1>6. \A c : Callee(c)' = Callee(c) BY <1>1 DEF Callee
  <1>7. \A i : Awaited(i)' = Awaited(i) BY <1>1, <1>5 DEF Awaited
  <1>8. Callees' BY <1>1, <1>6 DEF Sound, Callees
  <1>9. Registry' BY <1>1, <1>5, <1>7 DEF Sound, Registry
  <1> QED BY <1>1, <1>2, <1>4, <1>8, <1>9 DEF Sound, Bounded

LEMMA SoundNext == Sound /\ [Next]_vars => Sound'
  <1> SUFFICES ASSUME Sound, [Next]_vars PROVE Sound' OBVIOUS
  <1>1. CASE Generate /\ UNCHANGED <<phase, script, analyzed, positions, out>> BY <1>1, SoundGenerate DEF Fixed
  <1>2. CASE (\E s \in Scripts : Compile(s)) \/ DeclareFunctions \/ AnalyzeFunctions \/ LabelSetting \/ CreateData \/ Return
    BY <1>2, SoundPhases
  <1>3. CASE UNCHANGED vars BY <1>3, SoundSame
  <1> QED BY <1>1, <1>2, <1>3 DEF Next

\* The inductive invariant holds: the pending calls have the types, the functions
\* and the levels they need, and no registered function is forgotten.
THEOREM AlwaysSound == Spec => []Sound
BY SoundInit, SoundNext, PTL DEF Spec

\* The state has its types, and the labels of functions are labels that were made
\* (RegistFunction, MakeLabel).
THEOREM TypeCorrect == Spec => []TypeOK
  <1>1. Sound => TypeOK
    <2> SUFFICES ASSUME Sound PROVE TypeOK OBVIOUS
    <2>1. Typed /\ Bounded BY DEF Sound
    <2>2. ASSUME NEW i \in DOMAIN functions PROVE functions[i].label \in 0 .. labels - 1
      <3>1. functions[i] \in FunctionTags BY <2>1 DEF Typed
      <3>2. functions[i].label \in Nat /\ labels \in Nat BY <2>1, <3>1, TagParts DEF Typed
      <3> QED BY <2>1, <3>2 DEF Bounded
    <2> QED BY <2>1, <2>2 DEF TypeOK, Typed, Types
  <1> QED BY <1>1, AlwaysSound, PTL

\* Between two functions, and between two scripts, no break label and no table of
\* variables is left of the last one, whatever errors were met (Function::Analyze,
\* the loops, Block::Analyze, Clear).
THEOREM BetweenFunctionsHolds == Spec => []BetweenFunctions
  <1>1. Sound => BetweenFunctions
    <2> SUFFICES ASSUME Sound, work = <<>>
                 PROVE  breakIndex = -1 /\ Len(variables) = IF phase = "idle" THEN 0 ELSE 1
      BY DEF BetweenFunctions
    <2>1. Typed /\ Stages BY DEF Sound
    <2>2. CASE phase = "idle" BY <2>1, <2>2 DEF Stages
    <2>3. CASE phase # "idle" BY <2>1, <2>3, Idle
    <2> QED BY <2>2, <2>3
  <1> QED BY <1>1, AlwaysSound, PTL

-----------------------------------------------------------------------------
(* What the host gets.                                                     *)

\* What CreateData made of the functions.
Addresses == [i \in DOMAIN functions |-> Shifted(Position_of(i))]

\* What CreateData made is still what it makes, until the host has it.
Made == phase = "data" => out.entryPoints = EntryPoints /\ out.address = Addresses

LEMMA MadeNext == Sound /\ Made /\ [Next]_vars => Made'
  <1> SUFFICES ASSUME Sound, Made, [Next]_vars, phase' = "data"
               PROVE  out'.entryPoints = EntryPoints' /\ out'.address = Addresses'
    BY DEF Made
  <1>1. CASE Generate /\ UNCHANGED <<phase, script, analyzed, positions, out>>
    <2>1. phase \in {"values", "functions"} BY <1>1, Generating DEF Sound
    <2> QED BY <1>1, <2>1
  <1>2. CASE CreateData
    <2>1. UNCHANGED <<functions, positions, script>> /\ out' = Data BY <1>2 DEF CreateData, codegen, tables
    <2>2. Data.entryPoints = EntryPoints /\ Data.address = Addresses BY DEF Data, Addresses
    <2>3. EntryPoints' = EntryPoints BY <2>1 DEF EntryPoints, Position_of
    <2>4. Addresses' = Addresses BY <2>1 DEF Addresses, Shifted, Section, Position_of
    <2> QED BY <2>1, <2>2, <2>3, <2>4
  <1>3. CASE UNCHANGED vars
    <2>1. UNCHANGED <<functions, positions, script, out, phase>> BY <1>3 DEF vars, codegen, tables
    <2>2. EntryPoints' = EntryPoints BY <2>1 DEF EntryPoints, Position_of
    <2>3. Addresses' = Addresses BY <2>1 DEF Addresses, Shifted, Section, Position_of
    <2> QED BY <2>1, <2>2, <2>3 DEF Made
  <1>4. CASE (\E s \in Scripts : Compile(s)) \/ DeclareFunctions \/ AnalyzeFunctions \/ LabelSetting \/ Return
    <2>1. phase' # "data"
      <3>1. ASSUME NEW s \in Scripts, Compile(s) PROVE phase' # "data" BY <3>1 DEF Compile
      <3>2. DeclareFunctions => phase' # "data" BY DEF DeclareFunctions
      <3>3. AnalyzeFunctions => phase' # "data" BY DEF AnalyzeFunctions
      <3>4. LabelSetting => phase' # "data" BY DEF LabelSetting
      <3>5. Return => phase' # "data" BY DEF Return
      <3> QED BY <1>4, <3>1, <3>2, <3>3, <3>4, <3>5
    <2> QED BY <2>1
  <1> QED BY <1>1, <1>2, <1>3, <1>4 DEF Next

\* The key of a function is its own: the first function of a name has the name, the
\* others differ in their parameters.
LEMMA KeysDistinct ==
  ASSUME Sound, NEW i \in DOMAIN functions
  PROVE  \E k \in DOMAIN EntryPoints : k[1] = functions[i].name /\ EntryPoints[k] = Position_of(i)
  <1> DEFINE key(j) == IF \E h \in 1 .. j - 1 : functions[h].name = functions[j].name
                       THEN <<functions[j].name, functions[j].arity>> ELSE <<functions[j].name>>
             D == DOMAIN functions
  <1>1. D = 1 .. Len(functions) /\ Len(functions) \in Nat BY DEF Sound, Typed
  <1>2. \A g, h \in D : functions[g].name = functions[h].name /\ functions[g].arity = functions[h].arity => g = h
    BY DEF Sound, Registry
  <1>3. ASSUME NEW g \in D, NEW h \in D, key(g) = key(h) PROVE g = h
    <2>1. CASE (\E j \in 1 .. g - 1 : functions[j].name = functions[g].name)
               /\ (\E j \in 1 .. h - 1 : functions[j].name = functions[h].name)
      <3>1. <<functions[g].name, functions[g].arity>> = <<functions[h].name, functions[h].arity>> BY <1>3, <2>1
      <3> QED BY <1>2, <3>1
    <2>2. CASE ~(\E j \in 1 .. g - 1 : functions[j].name = functions[g].name)
               /\ ~(\E j \in 1 .. h - 1 : functions[j].name = functions[h].name)
      <3>1. <<functions[g].name>> = <<functions[h].name>> BY <1>3, <2>2
      <3>2. functions[g].name = functions[h].name BY <3>1
      <3>3. g \in Nat /\ h \in Nat /\ g >= 1 /\ h >= 1 BY <1>1
      <3>4. ~(g < h) BY <2>2, <3>2, <3>3
      <3>5. ~(h < g) BY <2>2, <3>2, <3>3
      <3> QED BY <3>3, <3>4, <3>5
    <2>3. CASE (\E j \in 1 .. g - 1 : functions[j].name = functions[g].name)
               /\ ~(\E j \in 1 .. h - 1 : functions[j].name = functions[h].name)
      <3>1. <<functions[g].name, functions[g].arity>> = <<functions[h].name>> BY <1>3, <2>3
      <3> QED BY <3>1
    <2>4. CASE ~(\E j \in 1 .. g - 1 : functions[j].name = functions[g].name)
               /\ (\E j \in 1 .. h - 1 : functions[j].name = functions[h].name)
      <3>1. <<functions[g].name>> = <<functions[h].name, functions[h].arity>> BY <1>3, <2>4
      <3> QED BY <3>1
    <2> QED BY <2>1, <2>2, <2>3, <2>4
  <1>4. key(i)[1] = functions[i].name
    <2>1. <<functions[i].name, functions[i].arity>>[1] = functions[i].name /\ <<functions[i].name>>[1] = functions[i].name
      OBVIOUS
    <2> QED BY <2>1
  <1>5. EntryPoints = [k \in {key(j) : j \in D} |-> Position_of(CHOOSE j \in D : key(j) = k)] BY DEF EntryPoints
  <1>6. (CHOOSE j \in D : key(j) = key(i)) = i
    <2> HIDE DEF key, D
    <2>1. i \in D BY DEF D
    <2>2. \E j \in D : key(j) = key(i) BY <2>1
    <2>3. PICK c : c = CHOOSE j \in D : key(j) = key(i) OBVIOUS
    <2>4. c \in D /\ key(c) = key(i) BY <2>2, <2>3
    <2> QED BY <1>3, <2>1, <2>3, <2>4
  <1> HIDE DEF key
  <1>7. key(i) \in DOMAIN EntryPoints BY <1>5
  <1>8. EntryPoints[key(i)] = Position_of(CHOOSE j \in D : key(j) = key(i)) BY <1>5
  <1> QED BY <1>4, <1>6, <1>7, <1>8

\* The host finds every function of a script without errors under a key with its
\* name, and the key has that function's address (CreateData, map_entryPoints).
THEOREM HostFindsEveryFunctionHolds == Spec => []HostFindsEveryFunction
  <1>1. Init => Made BY DEF Init, Made
  <1>2. Sound /\ Made => HostFindsEveryFunction
    <2> SUFFICES ASSUME Sound, Made, Correct, NEW i \in DOMAIN out.address
                 PROVE  \E k \in DOMAIN out.entryPoints :
                          k[1] = functions[i].name /\ Shifted(out.entryPoints[k]) = out.address[i]
      BY DEF HostFindsEveryFunction
    <2>1. out.entryPoints = EntryPoints /\ out.address = Addresses BY DEF Made, Correct
    <2>2. i \in DOMAIN functions /\ out.address[i] = Shifted(Position_of(i)) BY <2>1 DEF Addresses
    <2>3. PICK k \in DOMAIN EntryPoints : k[1] = functions[i].name /\ EntryPoints[k] = Position_of(i)
      BY <2>2, KeysDistinct
    <2> QED BY <2>1, <2>2, <2>3
  <1> QED BY <1>1, <1>2, AlwaysSound, MadeNext, PTL DEF Spec
=============================================================================
