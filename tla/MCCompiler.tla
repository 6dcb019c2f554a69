----------------------------- MODULE MCCompiler -----------------------------
(***************************************************************************)
(* Scripts for module Execution. Every condition reads a number, so that   *)
(* an input decides the way through a script, and a loop ends with it.     *)
(***************************************************************************)
EXTENDS Execution

\* Inputs up to that length.
CONSTANT MaxInput

MCInputs == UNION {[1 .. n -> {0, 1}] : n \in 0 .. MaxInput}
MCFuel == 300

Main(body) == FunctionDef(<<>>, "main", <<>>, 0, body)
Tick == FunctionDef(<<>>, "tick", <<>>, 1, Block(<<>>, <<Unary(Write(3)), ReturnStatement(Number(1))>>))

\* main, with a variable x of its own and a global g.
Program(items) ==
  [globals |-> <<[ns |-> <<>>, name |-> "g"]>>, functions |-> <<Main(Block(<<"x">>, items)), Tick>>]

-----------------------------------------------------------------------------
(* Every nesting of two statements, with every way to leave them inside.   *)

Simple == {Unary(Write(1)), Assign("x", Sum(Read, Var("g"))), Unary(Call("tick", <<>>)),
           Unary(Incr("g")), BreakStatement, ReturnStatement(None)}

Compound(s, t) ==
  {If(Read, s, None), If(Read, s, t), While(Read, s),
   For(Assign("x", Read), Read, Unary(Incr("x")), s), For(None, Read, Assign("g", Read), s),
   Switch(Read, <<s, t>>), Block(<<"y">>, <<s, Assign("y", Var("x")), t>>)}

Inner == UNION {Compound(s, t) : s, t \in Simple}
Nested == UNION {Compound(s, t) : s \in Inner \cup Simple, t \in {Unary(Write(4)), BreakStatement}}

-----------------------------------------------------------------------------
(* Functions, namespaces, variables.                                       *)

Scale == FunctionDef(<<"n">>, "scale", <<"a", "b">>, 1,
           Block(<<"x">>, <<Assign("x", Sum(Var("a"), Var("b"))), While(Read, ReturnStatement(Var("x"))),
                            ReturnStatement(Sum(Var("h"), Var("x")))>>))
Twice == FunctionDef(<<"n">>, "twice", <<"a">>, 1,
           Block(<<>>, <<ReturnStatement(Call("scale", <<Var("a"), Call("twice", <<>>)>>))>>))
TwiceNothing == FunctionDef(<<"n">>, "twice", <<>>, 1,
           Block(<<>>, <<Unary(Write(2)), ReturnStatement(Number(2))>>))
InSpace == FunctionDef(<<"n">>, "main", <<>>, 0,
           Block(<<"x">>,
             <<While(Read, Block(<<"y">>, <<Block(<<"z">>, <<Assign("z", Call("twice", <<Var("y")>>))>>),
                                            Block(<<"z", "w">>, <<Assign("w", Call("twice", <<>>))>>)>>)),
               Assign("h", Call("scale", <<Var("h"), Call("twice", <<Var("x")>>)>>)),
               Unary(Write(1))>>))

GlobalNames == <<[ns |-> <<>>, name |-> "g"], [ns |-> <<"n">>, name |-> "h"], [ns |-> <<"n">>, name |-> "k"]>>

Shapes ==
  {[globals |-> GlobalNames, functions |-> <<Main(Block(<<>>, <<Unary(Write(5))>>)), Tick, Scale, Twice, TwiceNothing, InSpace>>],
   [globals |-> GlobalNames, functions |-> <<InSpace, TwiceNothing, Twice, Scale>>],
   \* an operand without a value, the other one being left
   Program(<<Assign("x", Sum(Write(1), Number(1))), Unary(Write(2))>>),
   \* a negation whose value does not matter, a switch with nothing behind its case
   Program(<<Unary(Not(Var("x"))), Unary(Write(2))>>),
   Program(<<Switch(Read, <<Case(1, 99), BreakStatement>>), Unary(Write(2))>>),
   \* errors: a name twice, a function twice, an unknown name, no return
   [globals |-> GlobalNames \o GlobalNames, functions |-> <<Tick>>],
   [globals |-> <<>>, functions |-> <<Tick, Tick>>],
   Program(<<Assign("z", Read), Unary(Write(1))>>),
   Program(<<While(Read, Block(<<"y", "y">>, <<Assign("y", Call("tock", <<>>)), BreakStatement>>))>>),
   [globals |-> <<>>, functions |-> <<FunctionDef(<<>>, "tick", <<>>, 1, Block(<<>>, <<Unary(Write(1))>>))>>]}

MCScripts == Shapes \cup {Program(<<s, Unary(Write(2))>>) : s \in Nested}

-----------------------------------------------------------------------------
(* Scripts whose data is not what the sources say.                         *)

NegationScripts == {Program(<<If(Not(Read), Unary(Write(1)), None)>>)}

\* What the labels of cases and defaults hold is not initialised.
SwitchScripts ==
  {Program(<<Switch(Read, <<Case(1, l), Unary(Write(1)), BreakStatement, Default(l), Unary(Write(2))>>)>>) :
     l \in {0, 99}}

ArgumentScripts ==
  {[globals |-> <<>>,
    functions |-> <<FunctionDef(<<>>, "scale", <<"a", "b">>, 0, Block(<<>>, <<>>)),
                    Main(Block(<<>>, <<Unary(Call("scale", <<Number(1), Number(2)>>))>>))>>]}

SiblingScripts == {Program(<<Block(<<"y">>, <<>>), Block(<<"z">>, <<>>)>>)}

HidingScripts ==
  {[globals |-> <<[ns |-> <<"n">>, name |-> "a"]>>,
    functions |-> <<FunctionDef(<<"n">>, "id", <<"a">>, 1, Block(<<>>, <<ReturnStatement(Var("a"))>>))>>]}

NothingScripts ==
  {[globals |-> <<>>,
    functions |-> <<FunctionDef(<<>>, "tick", <<>>, 1, Block(<<>>, <<ReturnStatement(Write(1))>>))>>],
   Program(<<Assign("x", Sum(Write(1), Write(2)))>>)}
-----------------------------------------------------------------------------
(* The nodes of a script.                                                  *)

RECURSIVE Inside(_)
Inside(e) ==
  {e} \cup (CASE e.k = "sum" -> Inside(e.left) \cup Inside(e.right)
              [] e.k = "not" -> Inside(e.e)
              [] e.k = "incr" -> {Var(e.name)}
              [] e.k = "call" -> UNION {Inside(e.args[i]) : i \in DOMAIN e.args}
              [] OTHER -> {})

RECURSIVE StatementsIn(_)
StatementsIn(s) ==
  {s} \cup (CASE s.k = "if" -> StatementsIn(s.then) \cup StatementsIn(s.else)
              [] s.k = "while" -> StatementsIn(s.body)
              [] s.k = "for" -> StatementsIn(s.init) \cup StatementsIn(s.step) \cup StatementsIn(s.body)
              [] s.k \in {"switch", "block"} -> UNION {StatementsIn(s.items[i]) : i \in DOMAIN s.items}
              [] OTHER -> {})

Bodies == UNION {{s.functions[i].body : i \in DOMAIN s.functions} : s \in Scripts}

MCStatements == UNION {StatementsIn(b) : b \in Bodies} \ {None}

MCExpressions ==
  UNION {Inside(s.e) :
           s \in {t \in MCStatements : t.k \in {"assign", "unary", "return", "if", "while", "for", "switch"}
                                       /\ t.e # None}}
=============================================================================
