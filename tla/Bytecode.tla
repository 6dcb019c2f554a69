------------------------------ MODULE Bytecode ------------------------------
(***************************************************************************)
(* The compiled program the ButiScript virtual machine runs, as far as the *)
(* control of the machine can tell programs apart.                         *)
(*                                                                         *)
(* An address is the index of an instruction (the code uses byte offsets). *)
(* Address 0 holds VM_HALT: Compiler::Compile emits it first, Execute      *)
(* pushes 0 as the return address of the entry function, and both an       *)
(* unknown entry-point name and the label of a function that is declared   *)
(* but never defined resolve to it.                                        *)
(*                                                                         *)
(* Opcodes with the same effect on the stack are one opcode here:          *)
(*   pushConst  PushConstInt/Float/String, PushTrue/False, PushNull, ...   *)
(*   pushLocal / pushGlobal   copies and references of a variable          *)
(*   alloc      OpAllocStack and its variants for reference, enum,         *)
(*              function and script types                                  *)
(*   popLocal / popGlobal     PopLocal, PopValue                           *)
(*   oper       casts, comparisons, arithmetic, member access: pops "arg"  *)
(*              operands and pushes one                                    *)
(*   sysCall    OpSysCall, OpSysMethodCall: pops the argument count and    *)
(*              "arg" arguments and pushes "n" results                     *)
(*   pushFun    the push of a function variable, as the operand of a       *)
(*              following OpCallByVariable; arg is the number of its       *)
(*              parameters, n is 1 if it returns a value                   *)
(***************************************************************************)
EXTENDS Integers, Sequences, FiniteSets

CONSTANTS
  CodeSize,     \* number of instructions
  Code,         \* Code[a] is the instruction at address a
  Functions,    \* entry addresses of the script's named functions
  Lambdas,      \* entry addresses of its lambda expressions
  Arity,        \* number of arguments of a function, "this" included
  Returns,      \* 1 for a function that returns a value, 0 for void
  Captures,     \* number of values a lambda captures
  Owner,        \* Owner[a]: the function whose body address a is in
  MinDepth      \* MinDepth[a]: a lower bound on the cells of its own frame
                \* (locals and temporaries) a function has on reaching a

Addr == 0 .. CodeSize - 1

Opcodes == {"halt", "pushConst", "pushLocal", "pushGlobal", "pushFun",
            "alloc", "popLocal", "popGlobal", "pop", "oper", "sysCall",
            "pushLambda", "jmp", "jmpc", "jmpnc", "test",
            "call", "callByVariable", "ret", "retv"}

Instruction == [op : Opcodes, arg : Int, n : Nat]

\* What may be started or called: address 0 stands for a function that has
\* no body.
Entries == Functions \cup Lambdas
Callable == Entries \cup {0}

\* The lambdas a function variable of a given type can hold.
FunctionsOfType(arity, ret) ==
  {f \in Lambdas : Arity[f] = arity /\ Returns[f] = ret}

-----------------------------------------------------------------------------
(* What the compiler must guarantee of its output, instruction by          *)
(* instruction: the invariants of the machine hold of programs that meet   *)
(* it.                                                                     *)

\* These instructions read a cell that the instruction just before them has
\* pushed, so that control reaches them only from there.
Straight(a) == Code[a].op \in {"call", "callByVariable", "pushFun", "pushLambda"}

\* Control may go from a to b when a changes the depth of the frame by delta.
FlowsTo(a, b, delta) ==
  /\ b \in Addr
  /\ Owner[b] = Owner[a]
  /\ MinDepth[b] <= MinDepth[a] + delta

JumpsTo(a, b, delta) == FlowsTo(a, b, delta) /\ ~Straight(b)

\* x is the offset from stack_base of an argument or of one of the first d
\* cells of the frame.
Addressable(a, x, d) ==
  \/ 0 <= x /\ x < d
  \/ -4 - Arity[Owner[a]] < x /\ x <= -4

AfterConst(a) == a - 1 \in Addr /\ Code[a - 1].op = "pushConst"

\* How many cells of the frame an instruction that stays in its function
\* takes off and puts on.  A lambda expression takes the number of captured
\* variables, that many addresses, and its type.
Pops(a) ==
  CASE Code[a].op \in {"pop", "popLocal", "popGlobal", "jmpc", "jmpnc", "test"} -> 1
    [] Code[a].op = "oper" -> Code[a].arg
    [] Code[a].op = "sysCall" -> Code[a].arg + 1
    [] Code[a].op = "pushLambda" -> Captures[Code[a].arg] + 2
    [] OTHER -> 0

Pushes(a) ==
  CASE Code[a].op \in {"pushConst", "pushLocal", "pushGlobal", "pushFun",
                       "alloc", "oper", "pushLambda"} -> 1
    [] Code[a].op = "sysCall" -> Code[a].n
    [] OTHER -> 0

\* The instruction that follows in the text, reached with what a leaves.
FallsThrough(a) == FlowsTo(a, a + 1, Pushes(a) - Pops(a))

Verified(a, globals) ==
  LET i == Code[a] IN
  /\ Pops(a) \in Nat
  /\ Pops(a) <= MinDepth[a]
  /\ i.op \in {"pushConst", "alloc", "pop", "oper", "jmpc", "jmpnc", "test",
               "sysCall", "pushLocal", "popLocal", "pushGlobal", "popGlobal",
               "pushFun", "pushLambda"}
       => FallsThrough(a)
  /\ i.op # "pushConst" /\ i.op # "pushFun" => ~(a + 1 \in Addr /\ Straight(a + 1))
  /\ i.op = "pushConst" => i.arg \in Nat
  /\ i.op = "pushLocal" => Addressable(a, i.arg, MinDepth[a])
  /\ i.op = "popLocal" => Addressable(a, i.arg, MinDepth[a] - 1)
  /\ i.op \in {"pushGlobal", "popGlobal"} => i.arg \in 0 .. globals - 1
  /\ i.op = "sysCall" => i.arg \in Nat /\ i.n \in {0, 1}
  /\ i.op \in {"jmp", "jmpc", "jmpnc"} => JumpsTo(a, i.arg, -Pops(a))
  /\ i.op = "test" => MinDepth[a] >= 2 /\ JumpsTo(a, i.arg, -2)
  /\ i.op = "pushLambda" =>
       /\ i.arg \in Lambdas
       /\ AfterConst(a)
       /\ Code[a - 1].arg = Captures[i.arg]
  /\ i.op = "pushFun" =>
       /\ AfterConst(a)
       /\ Code[a - 1].arg = i.arg
       /\ i.n \in {0, 1}
       /\ FunctionsOfType(i.arg, i.n) # {}
       /\ a + 1 \in Addr
       /\ Code[a + 1].op = "callByVariable"
  /\ i.op = "call" =>
       /\ i.arg \in Functions \cup {0}
       /\ AfterConst(a)
       /\ MinDepth[a] >= 1 + Code[a - 1].arg
       /\ a + 1 \in Addr
       /\ i.arg # 0 =>
            /\ Code[a - 1].arg = Arity[i.arg]
            /\ FlowsTo(a, a + 1, -1 - Code[a - 1].arg + Returns[i.arg])
  /\ i.op = "callByVariable" =>
       /\ a - 1 \in Addr
       /\ Code[a - 1].op = "pushFun"
       /\ MinDepth[a] >= 2 + Code[a - 1].arg
       /\ FlowsTo(a, a + 1, -2 - Code[a - 1].arg + Code[a - 1].n)
  /\ i.op = "ret" => Returns[Owner[a]] = 0
  /\ i.op = "retv" => Returns[Owner[a]] = 1 /\ MinDepth[a] >= 1
  /\ i.op = "halt" => a = 0

\* The compiled program is well formed for a script with that many globals.
WellFormed(globals) ==
  /\ CodeSize \in Nat \ {0}
  /\ Code \in [Addr -> Instruction]
  /\ Functions \subseteq Addr \ {0}
  /\ Lambdas \subseteq Addr \ {0}
  /\ Functions \cap Lambdas = {}
  /\ Arity \in [Callable -> Nat]
  /\ Returns \in [Callable -> {0, 1}]
  /\ Captures \in [Callable -> Nat]
  /\ Owner \in [Addr -> Callable]
  /\ MinDepth \in [Addr -> Nat]
  /\ Code[0].op = "halt"
  /\ MinDepth[0] = 0
  /\ Arity[0] = 0
  /\ \A a \in Addr : Owner[a] = 0 => a = 0
  /\ \A f \in Callable : /\ Owner[f] = f
                         /\ MinDepth[f] = Captures[f]
                         /\ ~Straight(f)
  /\ \A f \in Functions \cup {0} : Captures[f] = 0
  /\ \A a \in Addr : Verified(a, globals)
=============================================================================
