------------------------------- MODULE Script -------------------------------
(***************************************************************************)
(* What a script does when it is read the way scripts in C are.  Nothing   *)
(* here is the compiler's: the compiled code is compared with this         *)
(* meaning.                                                                *)
(*                                                                         *)
(* What a script does is the sequence of numbers it prints for a sequence  *)
(* of numbers it reads.  Variables hold data that no condition depends on: *)
(* their value is Unknown.                                                 *)
(***************************************************************************)
EXTENDS Syntax, Integers, Sequences

LOCAL INSTANCE SequencesExt

-----------------------------------------------------------------------------
(* The meaning.  w is how far the run is: in is left to read, out was      *)
(* printed, val is the value of the last expression, and flow says how     *)
(* control goes on: "next", "break", "return", or "stuck" on a read.       *)

Unknown == -1

Begin(input) == [in |-> input, out |-> <<>>, val |-> Unknown, flow |-> "next"]

RECURSIVE Eval(_, _, _), Exec(_, _, _), ExecAll(_, _, _)

\* A function is found by its name and the number of its arguments.
Called(functions, e) ==
  SelectSeq(functions, LAMBDA f : f.name = e.name /\ Len(f.params) = Len(e.args))[1]

\* A function that is called leaves its caller going on.
Enter(functions, e, w) ==
  LET r == Exec(functions, Called(functions, e).body, w) IN
  IF r.flow = "stuck" THEN r ELSE [r EXCEPT !.flow = "next", !.val = Unknown]

Eval(functions, e, w) ==
  IF w.flow = "stuck" THEN w ELSE
  CASE e.k = "int" -> [w EXCEPT !.val = e.v]
    [] e.k \in {"var", "incr"} -> [w EXCEPT !.val = Unknown]
    [] e.k = "print" -> [w EXCEPT !.out = Append(@, e.v)]
    [] e.k = "read" -> IF w.in = <<>> THEN [w EXCEPT !.flow = "stuck"]
                       ELSE [w EXCEPT !.val = Head(w.in), !.in = Tail(w.in)]
    [] e.k = "not" -> LET r == Eval(functions, e.e, w) IN
                      [r EXCEPT !.val = IF @ = 0 THEN 1 ELSE 0]
    [] e.k = "sum" -> LET r == Eval(functions, e.right, Eval(functions, e.left, w)) IN
                      [r EXCEPT !.val = Unknown]
    [] e.k = "call" -> LET r == FoldLeft(LAMBDA x, a : Eval(functions, a, x), w, e.args) IN
                       IF r.flow = "stuck" THEN r ELSE Enter(functions, e, r)

\* A loop whose third expression is step, before its condition is evaluated.
RECURSIVE Loop(_, _, _)
Loop(functions, s, w) ==
  LET c == Eval(functions, s.e, w)
      b == Exec(functions, s.body, c)
      n == IF s.k = "for" /\ s.step # None THEN Exec(functions, s.step, b) ELSE b
  IN CASE c.flow = "stuck" \/ c.val = 0 -> c
       [] b.flow = "break" -> [b EXCEPT !.flow = "next"]
       [] b.flow \in {"return", "stuck"} -> b
       [] n.flow = "stuck" -> n
       [] OTHER -> Loop(functions, s, n)

\* Where a switch on v goes on: at the first case of that value, else at the
\* last default, else behind its end.
Selected(items, v) ==
  LET cases == {i \in DOMAIN items : items[i].k = "case" /\ items[i].v = v}
      defaults == {i \in DOMAIN items : items[i].k = "default"}
  IN IF cases # {} THEN CHOOSE i \in cases : \A j \in cases : i <= j
     ELSE IF defaults # {} THEN CHOOSE i \in defaults : \A j \in defaults : j <= i
     ELSE Len(items) + 1

Exec(functions, s, w) ==
  CASE s.k \in {"nop", "case", "default"} -> w
    [] s.k = "assign" -> Eval(functions, s.e, w)
    [] s.k = "unary" -> Eval(functions, s.e, w)
    [] s.k = "break" -> [w EXCEPT !.flow = "break"]
    [] s.k = "return" -> LET r == IF s.e = None THEN w ELSE Eval(functions, s.e, w) IN
                         IF r.flow = "stuck" THEN r ELSE [r EXCEPT !.flow = "return"]
    [] s.k = "if" ->
         LET c == Eval(functions, s.e, w) IN
         IF c.flow = "stuck" THEN c
         ELSE IF c.val # 0 THEN Exec(functions, s.then, c)
         ELSE IF s.else # None THEN Exec(functions, s.else, c) ELSE c
    [] s.k = "while" -> Loop(functions, s, w)
    [] s.k = "for" -> LET i == IF s.init = None THEN w ELSE Exec(functions, s.init, w) IN
                      IF i.flow = "stuck" THEN i ELSE Loop(functions, s, i)
    [] s.k = "switch" ->
         LET c == Eval(functions, s.e, w)
             from == SubSeq(s.items, Selected(s.items, c.val), Len(s.items))
             r == ExecAll(functions, from, c)
         IN IF c.flow = "stuck" THEN c
            ELSE IF r.flow = "break" THEN [r EXCEPT !.flow = "next"] ELSE r
    [] s.k = "block" -> ExecAll(functions, s.items, w)

ExecAll(functions, items, w) ==
  IF items = <<>> \/ w.flow # "next" THEN w
  ELSE ExecAll(functions, Tail(items), Exec(functions, Head(items), w))

\* What a script prints when the host starts one of its functions and it
\* reads input; the input may end in the middle.
Meaning(functions, f, input) ==
  LET r == Exec(functions, f.body, Begin(input)) IN
  [out |-> r.out, left |-> r.in, ended |-> r.flow # "stuck"]
=============================================================================
