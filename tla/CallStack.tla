------------------------------ MODULE CallStack ------------------------------
(***************************************************************************)
(* What the machine promises of function calls, without a stack of values: *)
(* a sequence of activations, each with its own arguments and its own      *)
(* cells (captured values, locals, temporaries).  Only the youngest one    *)
(* runs; a call takes the arguments from its cells, and a return gives it  *)
(* back exactly what it had, plus the result.                              *)
(*                                                                         *)
(* Which instruction does what is the program's business (Code); here any  *)
(* step may do anything to the running activation's own cells.             *)
(***************************************************************************)
EXTENDS Bytecode

VARIABLES
  acts,         \* the activations, oldest first: [fn, pc, args, cells]
  running,      \* the host is waiting for a result
  entryPoint,   \* the function the host asked for
  result        \* the cells that function returned, until the host takes them

callVars == <<acts, running, entryPoint, result>>

Youngest == acts[Len(acts)]
Older == SubSeq(acts, 1, Len(acts) - 1)

Prefix(s, n) == SubSeq(s, 1, n)

\* The host starts a function: a new activation with as many arguments as the
\* function has parameters, and no cells.
Start(f) ==
  /\ ~running
  /\ running'
  /\ entryPoint' = f
  /\ Len(acts') = 1
  /\ acts'[1].fn = f
  /\ acts'[1].pc = f
  /\ Len(acts'[1].args) = Arity[f]
  /\ acts'[1].cells = <<>>
  /\ UNCHANGED result

\* A step inside the youngest activation.  It keeps the number of arguments
\* and stays in the function.
Inside ==
  /\ running /\ running'
  /\ acts # <<>>
  /\ Len(acts') = Len(acts)
  /\ SubSeq(acts', 1, Len(acts) - 1) = Older
  /\ LET new == acts'[Len(acts)] IN
       /\ new.fn = Youngest.fn
       /\ Owner[new.pc] = Youngest.fn
       /\ Len(new.args) = Len(Youngest.args)
  /\ UNCHANGED <<entryPoint, result>>

\* A call takes k arguments and its operands (their count, and the function
\* object if there is one) from the caller's cells; the function it starts has
\* these arguments, as many as it has parameters, and the values it captured.
Call(f, k, operands) ==
  /\ running /\ running'
  /\ acts # <<>>
  /\ LET left == Len(Youngest.cells) - operands - k IN
       /\ left >= 0
       /\ Len(acts') = Len(acts) + 1
       /\ SubSeq(acts', 1, Len(acts)) =
            Append(Older, [fn |-> Youngest.fn, pc |-> Youngest.pc + 1,
                           args |-> Youngest.args,
                           cells |-> Prefix(Youngest.cells, left)])
       /\ LET new == acts'[Len(acts) + 1] IN
            /\ new.fn = f
            /\ new.pc = f
            /\ new.args = SubSeq(Youngest.cells, left + 1, left + k)
            /\ Len(new.cells) = Captures[f]
  /\ UNCHANGED <<entryPoint, result>>

\* The callee's result cells: none, or the one on top.
Returned == IF Returns[Youngest.fn] = 0 THEN <<>>
            ELSE <<Youngest.cells[Len(Youngest.cells)]>>

\* The youngest activation ends.  Its caller finds its cells as it left them,
\* with the result on top; the oldest one's result is for the host.
Return ==
  /\ running /\ running'
  /\ acts # <<>>
  /\ acts' = IF Len(acts) = 1 THEN <<>>
             ELSE [Older EXCEPT ![Len(acts) - 1].cells = @ \o Returned]
  /\ result' = IF Len(acts) = 1 THEN Returned ELSE result
  /\ UNCHANGED entryPoint

\* The host gets control back: with the result, because the stack is full, or
\* because a function without a body was reached.
Finish ==
  /\ running /\ ~running'
  /\ acts' = <<>>
  /\ result' = <<>>
  /\ UNCHANGED entryPoint

CallInit == acts = <<>> /\ ~running /\ entryPoint = 0 /\ result = <<>>

CallNext ==
  \/ \E f \in Functions \cup {0} : Start(f)
  \/ Inside
  \/ /\ acts # <<>>
     /\ \E f \in Callable, k \in 0 .. Len(Youngest.cells) :
          /\ f # 0 => k = Arity[f]
          /\ Call(f, k, IF f \in Lambdas THEN 2 ELSE 1)
  \/ Return
  \/ Finish

CallStackSpec == CallInit /\ [][CallNext]_callVars
=============================================================================
