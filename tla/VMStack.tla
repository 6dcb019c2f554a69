------------------------------- MODULE VMStack -------------------------------
(***************************************************************************)
(* VirtualMachine.h / VirtualMachine.cpp: the interpreter of ButiScript.   *)
(*                                                                         *)
(* One array of values holds, from the bottom, the script's globals and    *)
(* then the frames of the active functions.  A frame is                    *)
(*                                                                         *)
(*   arguments | number of arguments | caller's stack_base | return address *)
(*             | captured values, locals and temporaries                   *)
(*                                                                         *)
(* and stack_base is the index of the first cell after the return address. *)
(* The three links are ordinary integer values among the script's own      *)
(* data; nothing but the order of pushes and pops protects them.           *)
(*                                                                         *)
(* The machine starts here after Initialize and AllocGlobalValue, with the *)
(* globals at the bottom of the stack (globalValue_base = 0).  One action  *)
(* is one turn of the loop in Execute_, or one call of Execute by the      *)
(* host.  What a script computes is not modelled: the value of an          *)
(* operation is "data", and a branch on data goes either way.              *)
(***************************************************************************)
EXTENDS Bytecode

CONSTANTS
  STACK_SIZE,     \* cells in the stack (2048 in the code)
  GlobalCount     \* globalValue_size, the globals AllocGlobalValue pushed

\* The host starts the functions that have a name; a name the script does not
\* define is found at address 0 (map_entryPoints[name] creates the entry).
Startable == Functions \cup {0}

ASSUME SizeAssumption == STACK_SIZE \in Nat /\ GlobalCount \in Nat

ASSUME CodeAssumption == WellFormed(GlobalCount)

\* Execute pushes the first frame outside the try block of Execute_: the
\* globals leave room for it.
ASSUME RoomForExecute == \A f \in Startable : GlobalCount + Arity[f] + 3 <= STACK_SIZE

VARIABLES
  data,           \* Stack::data
  currentSize,    \* Stack::currentSize
  stack_base,     \* index of the first local of the running function
  command_ptr_,   \* address of the next instruction
  running,        \* the host is inside Execute
  entryPoint,     \* the function it asked for
  frames          \* history: the activations, oldest first, as they were entered

vars == <<data, currentSize, stack_base, command_ptr_, running, entryPoint, frames>>

-----------------------------------------------------------------------------
\* A value of the stack: nothing, a value the script computed, an integer
\* (a constant or a link), or a function object (its address).
Null == [k |-> "null", v |-> 0]
Computed == [k |-> "data", v |-> 0]
Integer(x) == [k |-> "int", v |-> x]
Function(f) == [k |-> "fun", v |-> f]

Cell == [k : {"null", "data", "int", "fun"}, v : Nat]

Slot == 0 .. STACK_SIZE - 1

Frame == [base : Nat, ret : Addr, saved : Nat, argc : Nat, fn : Callable]

Instr == Code[command_ptr_]
Top == data[currentSize - 1]

\* Every value the condition at c may have when it is tested.
Truth(c) == IF c.k = "int" THEN {c.v # 0} ELSE BOOLEAN
Equal(c, d) == IF c.k = "int" /\ d.k = "int" THEN {c.v = d.v} ELSE BOOLEAN

\* The array d cut at size s, with cells on top of what is left.
Stacked(d, s, cells) ==
  [i \in Slot |-> IF i < s THEN d[i]
                  ELSE IF i - s < Len(cells) THEN cells[i - s + 1]
                  ELSE Null]

\* Faulty: the exception is caught inside the loop, which goes on.
ThrowSwallowed ==
  UNCHANGED <<data, currentSize, running, frames, command_ptr_, entryPoint>>

\* Faulty: Execute returns without cutting the stack.
ThrowUncut ==
  /\ running' = FALSE
  /\ frames' = <<>>
  /\ UNCHANGED <<data, currentSize, command_ptr_, entryPoint>>

\* Stack::push throws StackOverflow: Execute_ reports it and returns, and
\* Execute cuts the stack to the globals.  Neither touches stack_base or
\* command_ptr_.
Throw ==
  /\ data' = Stacked(data, GlobalCount, <<>>)
  /\ currentSize' = GlobalCount
  /\ running' = FALSE
  /\ frames' = <<>>
  /\ UNCHANGED <<command_ptr_, entryPoint>>

\* Faulty: the bound of Stack::push is off by one.
ReplaceUnbounded(k, cells, next) ==
  IF currentSize - k + Len(cells) > STACK_SIZE + 1
  THEN Throw /\ UNCHANGED stack_base
  ELSE /\ data' = Stacked(data, currentSize - k, cells)
       /\ currentSize' = currentSize - k + Len(cells)
       /\ command_ptr_' = next
       /\ UNCHANGED <<stack_base, running, entryPoint, frames>>

\* Pop k cells, push cells, and go on at address next.
Replace(k, cells, next) ==
  IF currentSize - k + Len(cells) > STACK_SIZE
  THEN Throw /\ UNCHANGED stack_base
  ELSE /\ data' = Stacked(data, currentSize - k, cells)
       /\ currentSize' = currentSize - k + Len(cells)
       /\ command_ptr_' = next
       /\ UNCHANGED <<stack_base, running, entryPoint, frames>>

\* Assign the top to slot i, and pop it.
PopInto(i) ==
  /\ data' = Stacked([data EXCEPT ![i] = Top], currentSize - 1, <<>>)
  /\ currentSize' = currentSize - 1
  /\ command_ptr_' = command_ptr_ + 1
  /\ UNCHANGED <<stack_base, running, entryPoint, frames>>

At(op) == running /\ Instr.op = op
Next1 == command_ptr_ + 1

-----------------------------------------------------------------------------
(* Instructions that stay in the running function.                         *)

PushConst == At("pushConst") /\ Replace(0, <<Integer(Instr.arg)>>, Next1)

PushLocal == At("pushLocal") /\ Replace(0, <<data[stack_base + Instr.arg]>>, Next1)

PushGlobalValue == At("pushGlobal") /\ Replace(0, <<data[Instr.arg]>>, Next1)

\* A function variable may hold any lambda of its type.
PushFunctionVariable ==
  /\ At("pushFun")
  /\ \E f \in FunctionsOfType(Instr.arg, Instr.n) : Replace(0, <<Function(f)>>, Next1)

OpAllocStack == At("alloc") /\ Replace(0, <<Computed>>, Next1)

\* Faulty: locals counted from one.
PopLocalShifted == At("popLocal") /\ PopInto(stack_base + Instr.arg - 1)

PopLocal == At("popLocal") /\ PopInto(stack_base + Instr.arg)

PopValue == At("popGlobal") /\ PopInto(Instr.arg)

OpPop == At("pop") /\ Replace(1, <<>>, Next1)

Operator == At("oper") /\ Replace(Instr.arg, <<Computed>>, Next1)

\* The argument count is popped unread; the function takes its arguments.
OpSysCall ==
  /\ At("sysCall")
  /\ Replace(1 + Instr.arg, [i \in 1 .. Instr.n |-> Computed], Next1)

\* The count, as many addresses, and the type come off; the values at the
\* addresses go into the function object.
OpPushLambda == At("pushLambda") /\ Replace(Top.v + 2, <<Function(Instr.arg)>>, Next1)

OpJmp == At("jmp") /\ Replace(0, <<>>, Instr.arg)

OpJmpC ==
  /\ At("jmpc")
  /\ \E true \in Truth(Top) : Replace(1, <<>>, IF true THEN Instr.arg ELSE Next1)

OpJmpNC ==
  /\ At("jmpnc")
  /\ \E true \in Truth(Top) : Replace(1, <<>>, IF true THEN Next1 ELSE Instr.arg)

\* The case label's value comes off; the value of the switch only if it is
\* the same.
OpTest ==
  /\ At("test")
  /\ \E same \in Equal(Top, data[currentSize - 2]) :
       IF same THEN Replace(2, <<>>, Instr.arg) ELSE Replace(1, <<>>, Next1)

-----------------------------------------------------------------------------
(* Calls and returns.                                                      *)

\* Faulty: the links pushed in the other order.
OpCallSwapped ==
  /\ At("call")
  /\ currentSize + 2 <= STACK_SIZE
  /\ data' = Stacked(data, currentSize, <<Integer(Next1), Integer(stack_base)>>)
  /\ currentSize' = currentSize + 2
  /\ stack_base' = currentSize + 2
  /\ command_ptr_' = Instr.arg
  /\ frames' = Append(frames, [base |-> currentSize + 2, ret |-> Next1,
                               saved |-> stack_base, argc |-> Top.v, fn |-> Instr.arg])
  /\ UNCHANGED <<running, entryPoint>>

\* Faulty: the return address is the call's own.
OpCallReturnsToCall ==
  /\ At("call")
  /\ currentSize + 2 <= STACK_SIZE
  /\ data' = Stacked(data, currentSize, <<Integer(stack_base), Integer(command_ptr_)>>)
  /\ currentSize' = currentSize + 2
  /\ stack_base' = currentSize + 2
  /\ command_ptr_' = Instr.arg
  /\ frames' = Append(frames, [base |-> currentSize + 2, ret |-> command_ptr_,
                               saved |-> stack_base, argc |-> Top.v, fn |-> Instr.arg])
  /\ UNCHANGED <<running, entryPoint>>

\* The argument count is on top.
OpCall ==
  /\ At("call")
  /\ IF currentSize + 2 > STACK_SIZE
     THEN Throw /\ UNCHANGED stack_base
     ELSE /\ data' = Stacked(data, currentSize, <<Integer(stack_base), Integer(Next1)>>)
          /\ currentSize' = currentSize + 2
          /\ stack_base' = currentSize + 2
          /\ command_ptr_' = Instr.arg
          /\ frames' = Append(frames, [base |-> currentSize + 2, ret |-> Next1,
                                       saved |-> stack_base, argc |-> Top.v,
                                       fn |-> Instr.arg])
          /\ UNCHANGED <<running, entryPoint>>

\* Faulty: the captured values are not pushed.
OpCallByVariableBare ==
  /\ At("callByVariable")
  /\ LET s == currentSize - 1 IN
     /\ s + 2 <= STACK_SIZE
     /\ data' = Stacked(data, s, <<Integer(stack_base), Integer(Next1)>>)
     /\ currentSize' = s + 2
     /\ stack_base' = s + 2
     /\ command_ptr_' = Top.v
     /\ frames' = Append(frames, [base |-> s + 2, ret |-> Next1, saved |-> stack_base,
                                  argc |-> data[s - 1].v, fn |-> Top.v])
     /\ UNCHANGED <<running, entryPoint>>

\* The function object is on top and the argument count under it.  The values
\* it captured become the first cells of the new frame; stack_base has moved
\* already when one of them does not fit.
OpCallByVariable ==
  /\ At("callByVariable")
  /\ LET f == Top.v
         s == currentSize - 1
         size == s + 2 + Captures[f]
     IN  IF size > STACK_SIZE
         THEN Throw /\ stack_base' = IF s + 2 > STACK_SIZE THEN stack_base ELSE s + 2
         ELSE /\ data' = Stacked(data, s,
                           [j \in 1 .. 2 + Captures[f] |->
                              CASE j = 1 -> Integer(stack_base)
                                [] j = 2 -> Integer(Next1)
                                [] OTHER -> Computed])
              /\ currentSize' = size
              /\ stack_base' = s + 2
              /\ command_ptr_' = f
              /\ frames' = Append(frames, [base |-> s + 2, ret |-> Next1,
                                           saved |-> stack_base,
                                           argc |-> data[s - 1].v, fn |-> f])
              /\ UNCHANGED <<running, entryPoint>>

\* Faulty: the arguments stay.
LeaveFrameOnArguments(result) ==
  LET s == stack_base
      left == s - 3
  IN  /\ data' = Stacked(data, left, result)
      /\ currentSize' = left + Len(result)
      /\ stack_base' = data[s - 2].v
      /\ command_ptr_' = data[s - 1].v
      /\ frames' = SubSeq(frames, 1, Len(frames) - 1)
      /\ UNCHANGED <<running, entryPoint>>

\* The frame is dropped, its links are read back and popped, and then the
\* arguments; result is pushed in their place.
LeaveFrame(result) ==
  LET s == stack_base
      left == s - 3 - data[s - 3].v
  IN  /\ data' = Stacked(data, left, result)
      /\ currentSize' = left + Len(result)
      /\ stack_base' = data[s - 2].v
      /\ command_ptr_' = data[s - 1].v
      /\ frames' = SubSeq(frames, 1, Len(frames) - 1)
      /\ UNCHANGED <<running, entryPoint>>

OpReturn == At("ret") /\ LeaveFrame(<<>>)

\* Faulty: the result is lost.
OpReturnVEmpty == At("retv") /\ LeaveFrame(<<>>)

OpReturnV == At("retv") /\ LeaveFrame(<<Top>>)

-----------------------------------------------------------------------------
(* The host.                                                               *)

\* Execute(name, args...) up to the loop of Execute_.
Execute(f) ==
  /\ ~running
  /\ LET size == currentSize + Arity[f] + 3 IN
     /\ data' = Stacked(data, currentSize,
                  [j \in 1 .. Arity[f] + 3 |->
                     CASE j <= Arity[f] -> Computed
                       [] j = Arity[f] + 1 -> Integer(Arity[f])
                       [] j = Arity[f] + 2 -> Integer(currentSize)
                       [] OTHER -> Integer(0)])
     /\ currentSize' = size
     /\ stack_base' = size
     /\ frames' = <<[base |-> size, ret |-> 0, saved |-> currentSize,
                     argc |-> Arity[f], fn |-> f]>>
  /\ command_ptr_' = f
  /\ running' = TRUE
  /\ entryPoint' = f

\* VM_HALT ends the loop: Execute_ sets the pointer back to the entry point,
\* Execute reads its result from the top and cuts the stack to the globals.
Halt ==
  /\ At("halt")
  /\ data' = Stacked(data, GlobalCount, <<>>)
  /\ currentSize' = GlobalCount
  /\ command_ptr_' = entryPoint
  /\ running' = FALSE
  /\ frames' = <<>>
  /\ UNCHANGED <<stack_base, entryPoint>>

Init ==
  /\ data = [i \in Slot |-> IF i < GlobalCount THEN Computed ELSE Null]
  /\ currentSize = GlobalCount
  /\ stack_base = 0
  /\ command_ptr_ = 0
  /\ running = FALSE
  /\ entryPoint = 0
  /\ frames = <<>>

LocalStep ==
  \/ PushConst \/ PushLocal \/ PushGlobalValue \/ PushFunctionVariable
  \/ OpAllocStack \/ PopLocal \/ PopValue \/ OpPop \/ Operator \/ OpSysCall
  \/ OpPushLambda \/ OpJmp \/ OpJmpC \/ OpJmpNC \/ OpTest

Step ==
  LocalStep \/ OpCall \/ OpCallByVariable \/ OpReturn \/ OpReturnV \/ Halt

Next == Step \/ \E f \in Startable : Execute(f)

Spec == Init /\ [][Next]_vars

\* The loop of Execute_ runs on the caller's thread until the program halts;
\* the host need not ask for anything.
FairSpec == Spec /\ WF_vars(Step)

-----------------------------------------------------------------------------
(* What the frames are, seen from the history of calls.                    *)

Depth == Len(frames)
Active == frames[Depth]
FirstCell(f) == f.base - 3 - f.argc          \* its first argument
Arguments(f) == FirstCell(f) .. f.base - 4

TypeOK ==
  /\ data \in [Slot -> Cell]
  /\ currentSize \in 0 .. STACK_SIZE
  /\ stack_base \in 0 .. STACK_SIZE
  /\ command_ptr_ \in Addr
  /\ running \in BOOLEAN
  /\ entryPoint \in Startable
  /\ frames \in Seq(Frame)

\* The links of every active function are where they were pushed and say what
\* was true at the call, and no frame reaches below the first cell its caller
\* owns: nothing a script computes, assigns or pops gets between a function
\* and its way back.
FrameLinks ==
  /\ \A i \in 1 .. Depth :
       /\ data[frames[i].base - 1] = Integer(frames[i].ret)
       /\ data[frames[i].base - 2] = Integer(frames[i].saved)
       /\ data[frames[i].base - 3] = Integer(frames[i].argc)
       /\ frames[i].base <= currentSize
       /\ FirstCell(frames[i]) >= IF i = 1 THEN GlobalCount ELSE frames[i - 1].base
  /\ Depth > 0 => stack_base = Active.base

\* Stack::pop checks nothing: the cells an instruction takes off, and the ones
\* it addresses from stack_base, are the running function's own.
OperandsInFrame ==
  running /\ Depth > 0 =>
    /\ currentSize - Pops(command_ptr_) >= stack_base
    /\ At("retv") => currentSize > stack_base
    /\ At("test") => currentSize - 2 >= stack_base
    /\ At("call") => currentSize - 1 - Top.v >= stack_base
    /\ At("callByVariable") => currentSize - 2 - data[currentSize - 2].v >= stack_base
    /\ At("pushLocal") \/ At("popLocal") =>
         stack_base + Instr.arg \in Arguments(Active) \cup (stack_base .. currentSize - 1)

\* When the function the host asked for has returned, the stack holds the
\* globals and the function's result and nothing else: what Execute<T> reads
\* from the top is that result, and no call has left or taken a cell too many.
HaltBalanced ==
  running /\ Depth = 0 =>
    /\ command_ptr_ = 0
    /\ currentSize = GlobalCount + Returns[entryPoint]

\* Between two calls of the host the stack holds the globals only, also after
\* a script that ended with StackOverflow or in a function without a body.
IdleAtGlobals == ~running => currentSize = GlobalCount

\* The invariant the others follow from.  Beyond FrameLinks it says how the
\* frames chain (each is saved in the next, with enough cells left for the
\* instruction after the call), that the running function has the cells its
\* next instruction relies on, and what the instruction before a call pushed.
ChainedAt(i) ==
  LET f == frames[i] IN
  /\ f.base <= currentSize
  /\ f.fn # 0 => f.argc = Arity[f.fn]
  /\ data[f.base - 1] = Integer(f.ret)
  /\ data[f.base - 2] = Integer(f.saved)
  /\ data[f.base - 3] = Integer(f.argc)
  /\ FirstCell(f) >= GlobalCount
  /\ \A j \in 1 .. i - 1 : FirstCell(f) >= frames[j].base
  /\ i = 1 => /\ FirstCell(f) = GlobalCount
              /\ f.ret = 0
              /\ f.saved = GlobalCount
              /\ f.fn = entryPoint
  /\ i # 1 => /\ f.saved = frames[i - 1].base
              /\ ~Straight(f.ret)
              /\ f.fn # 0 =>
                   /\ Owner[f.ret] = frames[i - 1].fn
                   /\ FirstCell(f) - frames[i - 1].base + Returns[f.fn] >= MinDepth[f.ret]

ActiveFrame ==
  IF ~running THEN Depth = 0 /\ currentSize = GlobalCount
  ELSE IF Depth = 0 THEN HaltBalanced
  ELSE /\ stack_base = Active.base
       /\ Owner[command_ptr_] = Active.fn
       /\ currentSize - stack_base >= MinDepth[command_ptr_]

PushedBefore ==
  running /\ Straight(command_ptr_) =>
    LET a == command_ptr_ IN
    IF Instr.op = "callByVariable"
    THEN /\ data[currentSize - 2] = Integer(Code[a - 1].arg)
         /\ \E f \in FunctionsOfType(Code[a - 1].arg, Code[a - 1].n) : Top = Function(f)
    ELSE Top = Integer(Code[a - 1].arg)

CallDiscipline == (\A i \in 1 .. Depth : ChainedAt(i)) /\ ActiveFrame /\ PushedBefore

\* A step of a running function changes no cell of its callers, and none of
\* its own links; a return may change what lies above the caller's cells only.
FrameIsolation ==
  [][ running /\ running' /\ Depth > 0 =>
        \A i \in GlobalCount .. stack_base - 1 :
          \/ i \in Arguments(Active)
          \/ Len(frames') < Depth /\ i >= FirstCell(Active)
          \/ data'[i] = data[i] ]_vars

\* A return goes on after the call it answers, in the caller's frame, with the
\* arguments gone and one result pushed if the function has one.
ReturnsToCaller ==
  [][ running /\ running' /\ Len(frames') < Depth =>
        /\ frames' = SubSeq(frames, 1, Depth - 1)
        /\ command_ptr_' = Active.ret
        /\ stack_base' = Active.saved
        /\ currentSize' = FirstCell(Active) + Returns[Active.fn] ]_vars

\* A program gives control back to the host however deep it recurses: its calls
\* either return or run out of stack, and StackOverflow is caught.  Claimed of
\* programs that have no loops, or only loops that leave a cell on the stack in
\* every round.
GivesControlBack == running ~> ~running

-----------------------------------------------------------------------------
(* The abstract call stack the flat stack implements: every activation has *)
(* its own arguments and its own cells, found in the flat stack between the *)
(* links of the frames.                                                    *)

Slice(d, from, to) == [j \in 1 .. to - from + 1 |-> d[from + j - 1]]

Activations ==
  [i \in 1 .. Depth |->
     [fn    |-> frames[i].fn,
      pc    |-> IF i = Depth THEN command_ptr_ ELSE frames[i + 1].ret,
      args  |-> Slice(data, FirstCell(frames[i]), frames[i].base - 4),
      cells |-> Slice(data, frames[i].base,
                     IF i = Depth THEN currentSize - 1 ELSE FirstCell(frames[i + 1]) - 1)]]

Abstract == INSTANCE CallStack WITH
  acts    <- Activations,
  result  <- IF running /\ Depth = 0 THEN Slice(data, GlobalCount, currentSize - 1) ELSE <<>>

\* The machine's stack behaves as a stack of activations with private cells.
ImplementsCallStack == Abstract!CallStackSpec
=============================================================================
