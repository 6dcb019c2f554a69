------------------------------ MODULE MCVMStack ------------------------------
(***************************************************************************)
(* A script of a service and one of recursions, as instruction sequences,  *)
(* one behind the other in one program, on a small stack.  The             *)
(* sequences are the ones the compiler emits, with two exceptions: it has  *)
(* the code for VM_TEST and VM_PUSHRAMDA, which the machine executes, but  *)
(* no script reaches it yet (Case_Analyze is not overridden, the grammar's *)
(* make_lambda asserts).  A script is a sequence of rows                   *)
(*   <<function, least depth of its frame, opcode, arg, n>>                *)
(* whose first row is address 0.                                           *)
(***************************************************************************)
EXTENDS VMStack

\*   func tick():void { total = add(total, 1); if (flag) { return; } }
\*   func add(a, b):int { return a + b; }
\*   [x](k):int { return x + k; }
\*   func main(n):int {
\*     var x; var f;
\*     f = lambda;
\*     for (; x < n; x++) { tick(); }
\*     switch (x) { case 1: x = f(x); break; default: print(3); }
\*     if (x) missing();
\*     return add(x, n);
\*   }
\* x++ in the for statement is pushed and never popped; missing is declared
\* and has no body.
Service ==
  << <<0, 0, "halt", 0, 0>>,
     <<1, 0, "pushGlobal", 0, 0>>,          \* 1: tick
     <<1, 1, "pushConst", 1, 0>>,
     <<1, 2, "pushConst", 2, 0>>,
     <<1, 3, "call", 10, 0>>,
     <<1, 1, "popGlobal", 0, 0>>,
     <<1, 0, "pushGlobal", 1, 0>>,
     <<1, 1, "jmpnc", 9, 0>>,
     <<1, 0, "ret", 0, 0>>,
     <<1, 0, "ret", 0, 0>>,
     <<10, 0, "pushLocal", -5, 0>>,         \* 10: add
     <<10, 1, "pushLocal", -4, 0>>,
     <<10, 2, "oper", 2, 0>>,
     <<10, 1, "retv", 0, 0>>,
     <<14, 1, "pushLocal", 0, 0>>,          \* 14: the lambda
     <<14, 2, "pushLocal", -4, 0>>,
     <<14, 3, "oper", 2, 0>>,
     <<14, 2, "retv", 0, 0>>,
     <<18, 0, "alloc", 0, 0>>,              \* 18: main
     <<18, 1, "alloc", 0, 0>>,
     <<18, 2, "pushConst", 7, 0>>,
     <<18, 3, "pushConst", 0, 0>>,
     <<18, 4, "pushConst", 1, 0>>,
     <<18, 5, "pushLambda", 14, 0>>,
     <<18, 3, "popLocal", 1, 0>>,
     <<18, 2, "pushLocal", 0, 0>>,          \* 25: for
     <<18, 3, "pushLocal", -4, 0>>,
     <<18, 4, "oper", 2, 0>>,
     <<18, 3, "jmpnc", 34, 0>>,
     <<18, 2, "pushConst", 0, 0>>,
     <<18, 3, "call", 1, 0>>,
     <<18, 2, "pushLocal", 0, 0>>,
     <<18, 3, "oper", 1, 0>>,
     <<18, 3, "jmp", 25, 0>>,
     <<18, 2, "pushLocal", 0, 0>>,          \* 34: switch
     <<18, 3, "pushConst", 1, 0>>,
     <<18, 4, "test", 39, 0>>,
     <<18, 3, "pop", 0, 0>>,
     <<18, 2, "jmp", 45, 0>>,
     <<18, 2, "pushLocal", 0, 0>>,          \* 39: case 1
     <<18, 3, "pushConst", 1, 0>>,
     <<18, 4, "pushFun", 1, 1>>,
     <<18, 5, "callByVariable", 0, 0>>,
     <<18, 3, "popLocal", 0, 0>>,
     <<18, 2, "jmp", 48, 0>>,
     <<18, 2, "pushConst", 3, 0>>,          \* 45: default
     <<18, 3, "pushConst", 1, 0>>,
     <<18, 4, "sysCall", 1, 0>>,
     <<18, 2, "pushLocal", 0, 0>>,          \* 48: if
     <<18, 3, "jmpnc", 52, 0>>,
     <<18, 2, "pushConst", 0, 0>>,
     <<18, 3, "call", 0, 0>>,
     <<18, 2, "pushLocal", 0, 0>>,          \* 52: return
     <<18, 3, "pushLocal", -4, 0>>,
     <<18, 4, "pushConst", 2, 0>>,
     <<18, 5, "call", 10, 0>>,
     <<18, 3, "retv", 0, 0>> >>

\*   func down(n):int { if (n) { return n + down(n - 1); } return 1; }
\*   [x](k):int { return walk(k); }          (the lambda is in a global)
\*   func start():void { down(2); if (isEmpty()) { walk(2); } }
\* walk calls itself until the stack is full.  OpJmpC is an instruction the
\* machine has and the compiler never emits; it stands here for OpJmpNC.
Recursion ==
  << <<0, 0, "halt", 0, 0>>,
     <<1, 0, "pushLocal", -4, 0>>,          \* 1: down
     <<1, 1, "jmpnc", 11, 0>>,
     <<1, 0, "pushLocal", -4, 0>>,
     <<1, 1, "pushLocal", -4, 0>>,
     <<1, 2, "pushConst", 1, 0>>,
     <<1, 3, "oper", 2, 0>>,
     <<1, 2, "pushConst", 1, 0>>,
     <<1, 3, "call", 1, 0>>,
     <<1, 2, "oper", 2, 0>>,
     <<1, 1, "retv", 0, 0>>,
     <<1, 0, "pushConst", 1, 0>>,           \* 11
     <<1, 1, "retv", 0, 0>>,
     <<13, 2, "pushLocal", -4, 0>>,         \* 13: the lambda
     <<13, 3, "pushConst", 1, 0>>,
     <<13, 4, "pushFun", 1, 1>>,
     <<13, 5, "callByVariable", 0, 0>>,
     <<13, 3, "retv", 0, 0>>,
     <<18, 0, "pushConst", 2, 0>>,          \* 18: start
     <<18, 1, "pushConst", 1, 0>>,
     <<18, 2, "call", 1, 0>>,
     <<18, 1, "pop", 0, 0>>,
     <<18, 0, "pushConst", 0, 0>>,
     <<18, 1, "sysCall", 0, 1>>,
     <<18, 1, "jmpc", 26, 0>>,
     <<18, 0, "ret", 0, 0>>,
     <<18, 0, "pushConst", 2, 0>>,          \* 26
     <<18, 1, "pushConst", 1, 0>>,
     <<18, 2, "pushFun", 1, 1>>,
     <<18, 3, "callByVariable", 0, 0>>,
     <<18, 1, "pop", 0, 0>>,
     <<18, 0, "ret", 0, 0>> >>

\* The two in one program: the second behind the first, without its halt.  A
\* function variable may hold a lambda of either.
Offset == Len(Service) - 1
Behind(row) ==
  <<row[1] + Offset, row[2], row[3],
    IF row[3] \in {"call", "jmp", "jmpc", "jmpnc", "test", "pushLambda"} THEN row[4] + Offset
    ELSE row[4],
    row[5]>>
Program == Service \o [i \in 1 .. Len(Recursion) - 1 |-> Behind(Recursion[i + 1])]

Size == Len(Program)
ProgramCode == [a \in 0 .. Size - 1 |->
  [op |-> Program[a + 1][3], arg |-> Program[a + 1][4], n |-> Program[a + 1][5]]]
ProgramOwner == [a \in 0 .. Size - 1 |-> Program[a + 1][1]]
ProgramDepth == [a \in 0 .. Size - 1 |-> Program[a + 1][2]]

\* Functions are named by their entries: tick, add and main, down and start.
Tick == 1
Add == 10
Main == 18
Down == 1 + Offset
Start == 18 + Offset
Adding == 14
Walk == 13 + Offset

ProgramFunctions == {Tick, Add, Main, Down, Start}
ProgramLambdas == {Adding, Walk}
Named == {0} \cup ProgramFunctions \cup ProgramLambdas
ProgramArity == [f \in Named |->
  CASE f \in {0, Tick, Start} -> 0 [] f = Add -> 2 [] OTHER -> 1]
ProgramReturns == [f \in Named |-> IF f \in {0, Tick, Start} THEN 0 ELSE 1]
ProgramCaptures == [f \in Named |-> CASE f = Adding -> 1 [] f = Walk -> 2 [] OTHER -> 0]
=============================================================================
