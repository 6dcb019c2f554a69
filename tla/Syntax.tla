------------------------------- MODULE Syntax -------------------------------
(***************************************************************************)
(* The syntax tree the grammar of Parser.cpp builds, as far as the code    *)
(* generator is modelled.                                                  *)
(*                                                                         *)
(* An expression is                                                        *)
(*   [k |-> "int", v]            a constant                                *)
(*   [k |-> "var", name]                                                   *)
(*   [k |-> "sum", left, right]  any operator with two operands            *)
(*   [k |-> "not", e]                                                      *)
(*   [k |-> "incr", name]        name++                                    *)
(*   [k |-> "read"]                                                        *)
(*   [k |-> "print", v]                                                    *)
(*   [k |-> "call", name, args]  a function of the script                  *)
(* print and read stand for built-in functions with and without a result.  *)
(* A statement is one of the records below.                                *)
(***************************************************************************)
EXTENDS Integers, Sequences

None == [k |-> "none"]

Number(v) == [k |-> "int", v |-> v]
Var(name) == [k |-> "var", name |-> name]
Read == [k |-> "read"]
Write(v) == [k |-> "print", v |-> v]
Not(e) == [k |-> "not", e |-> e]
Incr(name) == [k |-> "incr", name |-> name]
Sum(left, right) == [k |-> "sum", left |-> left, right |-> right]
Call(name, args) == [k |-> "call", name |-> name, args |-> args]

NopStatement == [k |-> "nop"]
BreakStatement == [k |-> "break"]
Assign(name, e) == [k |-> "assign", name |-> name, e |-> e]
Unary(e) == [k |-> "unary", e |-> e]
ReturnStatement(e) == [k |-> "return", e |-> e]
If(e, then, else) == [k |-> "if", e |-> e, then |-> then, else |-> else]
While(e, body) == [k |-> "while", e |-> e, body |-> body]
For(init, e, step, body) ==
  [k |-> "for", init |-> init, e |-> e, step |-> step, body |-> body]
Switch(e, items) == [k |-> "switch", e |-> e, items |-> items]
\* label is the index the label_ of a case or a default holds before anything
\* assigns to it; a reader of the script does not see it.
Case(v, label) == [k |-> "case", v |-> v, label |-> label]
Default(label) == [k |-> "default", label |-> label]
Block(decls, items) == [k |-> "block", decls |-> decls, items |-> items]

\* ns: the names of the enclosing namespaces; ret: 1 if it returns a value
FunctionDef(ns, name, params, ret, body) ==
  [ns |-> ns, name |-> name, params |-> params, ret |-> ret, body |-> body]

-----------------------------------------------------------------------------
(* What these trees are made of.                                           *)

ExpressionForms(expressions) ==
  [k : {"int", "print"}, v : Nat] \cup [k : {"var", "incr"}, name : STRING] \cup [k : {"read"}]
    \cup [k : {"sum"}, left : expressions, right : expressions] \cup [k : {"not"}, e : expressions]
    \cup [k : {"call"}, name : STRING, args : Seq(expressions)]

\* The parts of a for statement that are expressions or assignments.
IsPart(s) == s.k \in {"none", "assign", "unary"}

StatementForms(expressions, statements) ==
  [k : {"nop", "break"}] \cup [k : {"assign"}, name : STRING, e : expressions]
    \cup [k : {"unary"}, e : expressions] \cup [k : {"return"}, e : expressions \cup {None}]
    \cup [k : {"if"}, e : expressions, then : statements, else : statements \cup {None}]
    \cup [k : {"while"}, e : expressions, body : statements]
    \cup [k : {"for"}, init : {s \in statements \cup {None} : IsPart(s)}, e : expressions,
          step : {s \in statements \cup {None} : IsPart(s)}, body : statements]
    \cup [k : {"switch"}, e : expressions, items : Seq(statements)]
    \cup [k : {"case"}, v : Nat, label : Int] \cup [k : {"default"}, label : Int]
    \cup [k : {"block"}, decls : Seq(STRING), items : Seq(statements)]

Globals == [ns : Seq(STRING), name : STRING]

FunctionForms(statements) ==
  [ns : Seq(STRING), name : STRING, params : Seq(STRING), ret : {0, 1},
   body : {s \in statements : s.k = "block"}]
=============================================================================
