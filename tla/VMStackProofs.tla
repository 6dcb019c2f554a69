---------------------------- MODULE VMStackProofs ----------------------------
(***************************************************************************)
(* For every well-formed program and every size of the stack, the flat     *)
(* stack of VMStack keeps the discipline of calls: frames never overlap,   *)
(* their links survive until the return that reads them, and every         *)
(* function finds the cells the compiler counts on.                        *)
(* So VMStack implements CallStack, where activations have cells of their  *)
(* own.                                                                    *)
(***************************************************************************)
EXTENDS VMStack, SequenceTheorems, TLAPS

IInv == TypeOK /\ CallDiscipline

-----------------------------------------------------------------------------
(* The program and the stack as data.                                      *)

\* What the assumption on the program says of one address.
LEMMA CodeAt ==
  ASSUME NEW a \in Addr
  PROVE  /\ Verified(a, GlobalCount)
         /\ Code[a] \in Instruction
         /\ MinDepth[a] \in Nat
         /\ Owner[a] \in Callable
         /\ Owner[a] = 0 => a = 0
BY CodeAssumption DEF WellFormed

\* What it says of one function.
LEMMA FunctionAt ==
  ASSUME NEW f \in Callable
  PROVE  /\ f \in Addr
         /\ Arity[f] \in Nat
         /\ Returns[f] \in {0, 1}
         /\ Captures[f] \in Nat
         /\ Owner[f] = f
         /\ MinDepth[f] = Captures[f]
         /\ ~Straight(f)
         /\ f \in Startable => Captures[f] = 0
BY CodeAssumption DEF WellFormed, Callable, Entries, Startable, Addr

\* Address 0 is the end of the program, and is never entered from the
\* instruction before it.
LEMMA EndOfProgram ==
  /\ 0 \in Addr
  /\ Code[0].op = "halt"
  /\ MinDepth[0] = 0
  /\ 0 \in Startable
  /\ 0 \in Callable
  /\ ~Straight(0)
BY CodeAssumption DEF WellFormed, Startable, Callable, Straight, Addr

\* The stack after pops and pushes is an array of values again; the cells
\* below the cut are what they were.
LEMMA StackedType ==
  ASSUME NEW d \in [Slot -> Cell], NEW s \in Int, NEW cells \in Seq(Cell)
  PROVE  /\ Stacked(d, s, cells) \in [Slot -> Cell]
         /\ \A i \in Slot : i < s => Stacked(d, s, cells)[i] = d[i]
         /\ \A i \in Slot : s <= i /\ i < s + Len(cells)
              => Stacked(d, s, cells)[i] = cells[i - s + 1]
<1>1. Null \in Cell
  BY DEF Null, Cell
<1>2. \A i \in Slot : s <= i /\ i - s < Len(cells) => cells[i - s + 1] \in Cell
  BY DEF Slot
<1> QED
  BY <1>1, <1>2, SizeAssumption DEF Stacked, Slot

\* A single cell that is pushed is the new top.
LEMMA PushedOne ==
  ASSUME NEW d, NEW s \in Slot, NEW c
  PROVE  /\ Stacked(d, s, <<c>>)[s] = c
         /\ (s + 1) - 1 = s
<1>1. s \in Int /\ s - s = 0 /\ s - s + 1 = 1 /\ ~(s < s) /\ (s + 1) - 1 = s
  BY DEF Slot
<1>2. Len(<<c>>) = 1 /\ <<c>>[1] = c
  OBVIOUS
<1>3. Stacked(d, s, <<c>>)[s] = <<c>>[s - s + 1]
  BY <1>1, <1>2 DEF Stacked
<1> QED BY <1>1, <1>2, <1>3

\* The values an instruction can push.
LEMMA CellTypes ==
  /\ Computed \in Cell
  /\ Null \in Cell
  /\ \A x \in Nat : Integer(x) \in Cell /\ Function(x) \in Cell
BY DEF Computed, Null, Integer, Function, Cell

-----------------------------------------------------------------------------
(* Steps inside a function.                                                *)

\* A step that stays in the running function and writes only the cells it owns
\* (its arguments, and everything from stack_base on) keeps the discipline.
LEMMA StayingInside ==
  ASSUME IInv, running, Depth > 0,
         data' \in [Slot -> Cell],
         currentSize' \in 0 .. STACK_SIZE,
         command_ptr_' \in Addr,
         UNCHANGED <<stack_base, running, entryPoint, frames>>,
         \A i \in Slot : /\ GlobalCount <= i /\ i < stack_base
                         /\ i \notin Arguments(Active)
                         => data'[i] = data[i],
         Owner[command_ptr_'] = Owner[command_ptr_],
         currentSize' - stack_base >= MinDepth[command_ptr_'],
         PushedBefore'
  PROVE  IInv'
<1> USE DEF IInv, CallDiscipline
<1>1. TypeOK'
  BY DEF TypeOK
<1>2. Depth \in Nat /\ Depth' = Depth /\ Active' = Active /\ Active \in Frame
  BY DEF TypeOK, Depth, Active
<1>3. ActiveFrame'
  BY <1>2 DEF ActiveFrame, Depth, Active
<1>4. ASSUME NEW i \in 1 .. Depth
      PROVE  ChainedAt(i)'
  <2>1. frames[i] \in Frame /\ frames'[i] = frames[i]
    BY <1>2 DEF TypeOK, Depth
  <2>2. ChainedAt(i)
    OBVIOUS
  <2>3. stack_base = Active.base /\ Active.argc \in Nat /\ frames[i].argc \in Nat
    BY <1>2, <2>1 DEF ActiveFrame, Frame
  <2>4. i # Depth => frames[i].base <= FirstCell(Active)
    BY <1>2 DEF ChainedAt, Active
  <2>5. \A j \in {1, 2, 3} : /\ frames[i].base - j \in Slot
                             /\ frames[i].base - j >= GlobalCount
    <3>1. /\ frames[i].base \in Nat /\ frames[i].base <= currentSize
          /\ currentSize <= STACK_SIZE /\ currentSize \in Nat
      BY <2>1, <2>2, SizeAssumption DEF ChainedAt, Frame, TypeOK
    <3>2. frames[i].base - 3 - frames[i].argc >= GlobalCount
      BY <2>2 DEF ChainedAt, FirstCell
    <3>3. frames[i].base \in 3 .. STACK_SIZE /\ frames[i].base - 3 >= GlobalCount
      BY <3>1, <3>2, <2>3, SizeAssumption
    <3> HIDE DEF IInv, CallDiscipline
    <3> QED
      BY ONLY <3>3, SizeAssumption DEF Slot
  <2>6. \A j \in {1, 2, 3} : data'[frames[i].base - j] = data[frames[i].base - j]
    <3> TAKE j \in {1, 2, 3}
    <3>1. CASE i = Depth
      BY <3>1, <2>1, <2>3, <2>5, <1>2 DEF Arguments, Active, FirstCell, Frame
    <3>2. CASE i # Depth
      BY <3>2, <2>1, <2>3, <2>4, <2>5, <1>2 DEF Arguments, FirstCell, Frame
    <3> QED BY <3>1, <3>2
  <2>7. frames[i].base <= currentSize'
    <3>1. currentSize' >= stack_base
      BY CodeAt, SizeAssumption DEF TypeOK
    <3>2. frames[i].base <= Active.base
      BY <2>1, <2>3, <2>4, <1>2 DEF FirstCell, Frame, Active
    <3> QED
      BY <3>1, <3>2, <2>1, <2>3, SizeAssumption DEF Frame, TypeOK
  <2> QED
    BY <2>1, <2>2, <2>6, <2>7 DEF ChainedAt, FirstCell
<1> QED
  BY <1>1, <1>2, <1>3, <1>4 DEF Depth

\* A full stack ends the call of the host with the globals alone on the stack.
LEMMA ThrowKeeps ==
  ASSUME IInv, Throw, stack_base' \in 0 .. STACK_SIZE
  PROVE  IInv'
<1>1. GlobalCount \in 0 .. STACK_SIZE
  BY EndOfProgram, RoomForExecute, SizeAssumption, FunctionAt
<1>2. data \in [Slot -> Cell] /\ <<>> \in Seq(Cell) /\ GlobalCount \in Int
  BY SizeAssumption DEF IInv, TypeOK
<1>3. data' \in [Slot -> Cell]
  BY <1>2, StackedType DEF Throw
<1>4. TypeOK'
  <2>1. <<>> \in Seq(Frame)
    OBVIOUS
  <2> QED
    BY <1>1, <1>3, <2>1 DEF Throw, IInv, TypeOK
<1> QED
  BY <1>4 DEF Throw, IInv, CallDiscipline, ActiveFrame, PushedBefore, Depth

\* A running function that is not at the end of the program has a frame.
LEMMA HasFrame ==
  ASSUME IInv, running, Instr.op # "halt"
  PROVE  /\ Depth > 0
         /\ Depth \in Nat
         /\ Active \in Frame
         /\ stack_base = Active.base
         /\ currentSize - stack_base >= MinDepth[command_ptr_]
         /\ Owner[command_ptr_] = Active.fn
         /\ Active.fn # 0
         /\ Active.argc = Arity[Active.fn]
         /\ ChainedAt(Depth)
         /\ command_ptr_ \in Addr
         /\ currentSize \in 0 .. STACK_SIZE
         /\ stack_base \in Nat
<1>1. Depth \in Nat /\ command_ptr_ \in Addr /\ command_ptr_ # 0
  BY EndOfProgram DEF IInv, TypeOK, Depth, Instr
<1>2. Depth > 0
  BY <1>1, EndOfProgram DEF IInv, CallDiscipline, ActiveFrame, HaltBalanced, Instr
<1>3. Active \in Frame /\ ChainedAt(Depth)
  BY <1>1, <1>2 DEF IInv, TypeOK, CallDiscipline, Active, Depth
<1>4. /\ stack_base = Active.base
      /\ currentSize - stack_base >= MinDepth[command_ptr_]
      /\ Owner[command_ptr_] = Active.fn
  BY <1>1, <1>2 DEF IInv, CallDiscipline, ActiveFrame
<1>5. Active.fn # 0
  BY <1>1, <1>4, CodeAt
<1> QED
  BY <1>1, <1>2, <1>3, <1>4, <1>5, SizeAssumption
  DEF ChainedAt, Active, IInv, TypeOK

\* A step inside a function touches none of its callers' cells or its links.
Isolated ==
  running' =>
    /\ frames' = frames
    /\ stack_base' = stack_base
    /\ \A i \in GlobalCount .. stack_base - 1 : i \in Arguments(Active) \/ data'[i] = data[i]

\* Popping k cells the frame has and pushing others, on the way to an address
\* of the same function that expects no more than is left.
LEMMA ReplaceKeeps ==
  ASSUME IInv, running, Instr.op # "halt",
         NEW k \in Nat, NEW cells \in Seq(Cell), NEW next \in Addr,
         k <= MinDepth[command_ptr_],
         FlowsTo(command_ptr_, next, Len(cells) - k),
         Replace(k, cells, next),
         Straight(next) => PushedBefore'
  PROVE  IInv' /\ Isolated
<1>1. /\ currentSize - k >= stack_base
      /\ currentSize - k + Len(cells) >= 0
      /\ currentSize - k \in Nat
  BY HasFrame, CodeAt
<1>2. CASE currentSize - k + Len(cells) > STACK_SIZE
  BY <1>1, <1>2, ThrowKeeps DEF Replace, IInv, TypeOK, Throw, Isolated
<1>3. CASE ~(currentSize - k + Len(cells) > STACK_SIZE)
  <2>1. /\ data' = Stacked(data, currentSize - k, cells)
        /\ currentSize' = currentSize - k + Len(cells)
        /\ command_ptr_' = next
        /\ UNCHANGED <<stack_base, running, entryPoint, frames>>
    BY <1>3 DEF Replace
  <2>2. /\ data' \in [Slot -> Cell]
        /\ \A i \in Slot : i < stack_base => data'[i] = data[i]
    <3>1. data \in [Slot -> Cell] /\ Slot \subseteq Int /\ stack_base \in Int
      BY HasFrame DEF IInv, TypeOK, Slot
    <3>2. \A i \in Slot : i < stack_base => i < currentSize - k
      BY <1>1, <3>1, HasFrame
    <3> QED
      BY <1>1, <2>1, <3>1, <3>2, StackedType
  <2>3. currentSize' \in 0 .. STACK_SIZE
    BY <1>1, <1>3, <2>1, SizeAssumption
  <2>4. /\ Owner[command_ptr_'] = Owner[command_ptr_]
        /\ currentSize' - stack_base >= MinDepth[command_ptr_']
    BY <2>1, HasFrame, CodeAt DEF FlowsTo
  <2>5. PushedBefore'
    BY <2>1 DEF PushedBefore
  <2>6. Isolated
    <3>1. GlobalCount .. stack_base - 1 \subseteq Slot /\ \A i \in GlobalCount .. stack_base - 1 : i < stack_base
      <4>1. stack_base \in Nat /\ currentSize \in 0 .. STACK_SIZE
        BY HasFrame
      <4>2. stack_base <= STACK_SIZE
        BY <1>1, <4>1, SizeAssumption
      <4> QED
        BY <4>1, <4>2, SizeAssumption DEF Slot
    <3> QED
      BY <2>1, <2>2, <3>1 DEF Isolated
  <2> QED
    BY <2>1, <2>2, <2>3, <2>4, <2>5, <2>6, HasFrame, StayingInside
<1> QED BY <1>2, <1>3

\* Assigning the top to a global, an argument or a local below it.
LEMMA PopIntoKeeps ==
  ASSUME IInv, running, Instr.op # "halt", NEW x \in Int,
         \/ x \in 0 .. GlobalCount - 1
         \/ x \in Arguments(Active)
         \/ x >= stack_base /\ x < currentSize,
         1 <= MinDepth[command_ptr_],
         FlowsTo(command_ptr_, command_ptr_ + 1, -1),
         ~Straight(command_ptr_ + 1),
         PopInto(x)
  PROVE  IInv' /\ Isolated
<1>1. currentSize - 1 >= stack_base /\ currentSize - 1 \in Slot
  BY HasFrame, CodeAt, SizeAssumption DEF Slot
<1>2. [data EXCEPT ![x] = Top] \in [Slot -> Cell]
  BY <1>1 DEF IInv, TypeOK, Top
<1>3. /\ data' = Stacked([data EXCEPT ![x] = Top], currentSize - 1, <<>>)
      /\ currentSize' = currentSize - 1
      /\ command_ptr_' = command_ptr_ + 1
      /\ UNCHANGED <<stack_base, running, entryPoint, frames>>
  BY DEF PopInto
<1>4. /\ data' \in [Slot -> Cell]
      /\ \A i \in Slot : i < stack_base /\ i # x => data'[i] = data[i]
  <2>1. Slot \subseteq Int /\ stack_base \in Int /\ <<>> \in Seq(Cell)
    BY HasFrame DEF Slot
  <2>2. currentSize - 1 \in Int /\ \A i \in Slot : i < stack_base => i < currentSize - 1
    BY <1>1, <2>1, HasFrame
  <2>3. \A i \in Slot : i # x => [data EXCEPT ![x] = Top][i] = data[i]
    BY DEF IInv, TypeOK
  <2> QED
    BY <1>2, <1>3, <2>1, <2>2, <2>3, StackedType
<1>5. \A i \in Slot : /\ GlobalCount <= i /\ i < stack_base
                      /\ i \notin Arguments(Active)
                      => data'[i] = data[i]
  BY <1>4, HasFrame, SizeAssumption DEF Slot
<1>6. currentSize' \in 0 .. STACK_SIZE
  BY <1>1, <1>3, HasFrame, SizeAssumption
<1>7. /\ command_ptr_' \in Addr
      /\ Owner[command_ptr_'] = Owner[command_ptr_]
      /\ currentSize' - stack_base >= MinDepth[command_ptr_']
  BY <1>3, HasFrame, CodeAt DEF FlowsTo
<1>8. PushedBefore'
  BY <1>3 DEF PushedBefore
<1>9. Isolated
  <2>1. \A i \in GlobalCount .. stack_base - 1 : i \in Slot /\ GlobalCount <= i /\ i < stack_base
    BY <1>1, HasFrame, SizeAssumption DEF Slot
  <2> QED
    BY <1>3, <1>5, <2>1 DEF Isolated
<1> QED
  BY <1>3, <1>4, <1>5, <1>6, <1>7, <1>8, <1>9, HasFrame, StayingInside

\* Every offset the program uses lies in the arguments or in the cells of the
\* running function.
LEMMA OwnCell ==
  ASSUME IInv, running, Instr.op # "halt", NEW x \in Int, NEW d \in Nat,
         d <= currentSize - stack_base,
         Addressable(command_ptr_, x, d)
  PROVE  /\ stack_base + x \in Slot
         /\ \/ stack_base + x \in Arguments(Active)
            \/ stack_base + x >= stack_base /\ stack_base + x < stack_base + d
<1>1. /\ Active.base \in Nat /\ Active.argc \in Nat /\ GlobalCount \in Nat
      /\ Active.base - 3 - Active.argc >= GlobalCount
      /\ stack_base = Active.base
      /\ Arity[Owner[command_ptr_]] = Active.argc
      /\ currentSize \in 0 .. STACK_SIZE
  BY HasFrame, SizeAssumption DEF ChainedAt, FirstCell, Active, Frame, Depth
<1>2. CASE 0 <= x /\ x < d
  BY <1>1, <1>2, SizeAssumption DEF Slot
<1>3. CASE -4 - Active.argc < x /\ x <= -4
  <2>1. stack_base <= currentSize
    BY <1>1
  <2> QED
    BY <1>1, <1>3, <2>1, SizeAssumption DEF Slot, Arguments, FirstCell
<1> QED BY <1>1, <1>2, <1>3 DEF Addressable

\* Pushing a constant, which may be the operand of a call, keeps the discipline.
LEMMA PushConstKeeps ==
  ASSUME IInv, PushConst PROVE IInv' /\ Isolated
<1> DEFINE a == command_ptr_
<1>1. running /\ Code[a].op = "pushConst" /\ Instr.op # "halt" /\ a \in Addr
  BY HasFrame DEF PushConst, At, Instr
<1>2. /\ Code[a].arg \in Nat /\ FlowsTo(a, a + 1, 1 - 0)
      /\ 0 <= MinDepth[a] /\ a \in Nat /\ a + 1 \in Addr
  BY <1>1, CodeAt DEF Verified, FallsThrough, Pushes, Pops, FlowsTo, Addr
<1> DEFINE cells == <<Integer(Code[a].arg)>>
<1>3. cells \in Seq(Cell) /\ Len(cells) = 1 /\ cells[1] = Integer(Code[a].arg)
  BY <1>2, CellTypes
<1>4. Replace(0, cells, a + 1)
  BY DEF PushConst, Next1, Instr
<1> HIDE DEF cells
<1>5. ASSUME Straight(a + 1) PROVE PushedBefore'
  <2>1. Code[a + 1].op # "callByVariable"
    BY <1>1, <1>2, CodeAt DEF Verified
  <2>2. CASE currentSize + 1 > STACK_SIZE
    BY <1>3, <1>4, <2>2, HasFrame, <1>1 DEF Replace, Throw, PushedBefore
  <2>3. CASE ~(currentSize + 1 > STACK_SIZE)
    <3>1. /\ data' = Stacked(data, currentSize, cells)
          /\ currentSize' = currentSize + 1
          /\ command_ptr_' = a + 1
      <4>1. currentSize - 0 + Len(cells) = currentSize + 1 /\ currentSize - 0 = currentSize
        BY <1>1, <1>3, HasFrame
      <4> QED
        BY <1>4, <2>3, <4>1 DEF Replace
    <3>2. currentSize \in Slot /\ currentSize \in Int
      BY <2>3, HasFrame, <1>1, SizeAssumption DEF Slot
    <3>3. Top' = Integer(Code[a].arg)
      BY <3>1, <3>2, PushedOne DEF Top, cells
    <3> QED
      BY <3>1, <3>3, <2>1, <1>2 DEF PushedBefore, Instr, Addr
  <2> QED BY <2>2, <2>3
<1> HIDE DEF a
<1> QED
  BY <1>1, <1>2, <1>3, <1>4, <1>5, ReplaceKeeps DEF a

\* The instructions that only pop their operands, push their results and go on.
LEMMA FallThroughKeeps ==
  ASSUME IInv, running,
         Instr.op \in {"pushLocal", "pushGlobal", "alloc", "pop", "oper",
                       "sysCall", "pushLambda"},
         NEW cells \in Seq(Cell), Len(cells) = Pushes(command_ptr_),
         Replace(Pops(command_ptr_), cells, Next1)
  PROVE  IInv' /\ Isolated
<1> DEFINE a == command_ptr_
<1>1. Instr.op # "halt" /\ a \in Addr
  BY HasFrame
<1>2. /\ Pops(a) \in Nat /\ Pops(a) <= MinDepth[a]
      /\ FlowsTo(a, a + 1, Pushes(a) - Pops(a))
      /\ a + 1 \in Addr
      /\ ~Straight(a + 1)
  BY <1>1, CodeAt DEF Verified, FallsThrough, FlowsTo, Instr
<1> QED
  BY <1>1, <1>2, ReplaceKeeps DEF Next1

\* Pushing the value of a local or an argument keeps the discipline.
LEMMA PushLocalKeeps ==
  ASSUME IInv, PushLocal PROVE IInv' /\ Isolated
<1>1. running /\ Instr.op = "pushLocal" /\ command_ptr_ \in Addr
  BY HasFrame DEF PushLocal, At
<1>2. /\ Addressable(command_ptr_, Instr.arg, MinDepth[command_ptr_])
      /\ Instr.arg \in Int /\ MinDepth[command_ptr_] \in Nat
  BY <1>1, CodeAt DEF Verified, Instr, Instruction
<1>3. stack_base + Instr.arg \in Slot
  BY <1>1, <1>2, OwnCell, HasFrame
<1> DEFINE cells == <<data[stack_base + Instr.arg]>>
<1>4. cells \in Seq(Cell) /\ Len(cells) = 1
  BY <1>3 DEF IInv, TypeOK
<1>5. Pops(command_ptr_) = 0 /\ Pushes(command_ptr_) = 1
  BY <1>1 DEF Pops, Pushes, Instr
<1>6. Replace(0, cells, Next1)
  BY DEF PushLocal
<1> HIDE DEF cells
<1> QED
  BY <1>1, <1>4, <1>5, <1>6, FallThroughKeeps

\* Pushing the value of a global keeps the discipline.
LEMMA PushGlobalKeeps ==
  ASSUME IInv, PushGlobalValue PROVE IInv' /\ Isolated
<1>1. running /\ Instr.op = "pushGlobal" /\ command_ptr_ \in Addr
  BY HasFrame DEF PushGlobalValue, At
<1>2. Instr.arg \in 0 .. GlobalCount - 1
  BY <1>1, CodeAt DEF Verified, Instr
<1>3. Instr.arg \in Slot
  <2>1. GlobalCount <= STACK_SIZE
    BY EndOfProgram, FunctionAt, RoomForExecute, SizeAssumption
  <2> QED
    BY <1>2, <2>1, SizeAssumption DEF Slot
<1> DEFINE cells == <<data[Instr.arg]>>
<1>4. cells \in Seq(Cell) /\ Len(cells) = 1
  BY <1>3 DEF IInv, TypeOK
<1>5. Pops(command_ptr_) = 0 /\ Pushes(command_ptr_) = 1
  BY <1>1 DEF Pops, Pushes, Instr
<1>6. Replace(0, cells, Next1)
  BY DEF PushGlobalValue
<1> HIDE DEF cells
<1> QED
  BY <1>1, <1>4, <1>5, <1>6, FallThroughKeeps

\* Operators, system calls, pops and allocations keep the discipline.
LEMMA OperatorKeeps ==
  ASSUME IInv, OpAllocStack \/ OpPop \/ Operator \/ OpSysCall PROVE IInv' /\ Isolated
<1>1. <<>> \in Seq(Cell) /\ <<Computed>> \in Seq(Cell) /\ Len(<<Computed>>) = 1
  BY CellTypes
<1>2. CASE OpAllocStack
  BY <1>1, <1>2, FallThroughKeeps DEF OpAllocStack, At, Pops, Pushes, Instr
<1>3. CASE OpPop
  BY <1>1, <1>3, FallThroughKeeps DEF OpPop, At, Pops, Pushes, Instr
<1>4. CASE Operator
  BY <1>1, <1>4, FallThroughKeeps DEF Operator, At, Pops, Pushes, Instr
<1>5. CASE OpSysCall
  <2>1. running /\ Instr.op = "sysCall" /\ command_ptr_ \in Addr
    BY <1>5, HasFrame DEF OpSysCall, At
  <2>2. Instr.arg \in Nat /\ Instr.n \in {0, 1}
    BY <2>1, CodeAt DEF Verified, Instr
  <2> DEFINE cells == [i \in 1 .. Instr.n |-> Computed]
  <2>3. cells \in Seq(Cell) /\ Len(cells) = Instr.n
    BY <2>2, CellTypes
  <2>4. Pops(command_ptr_) = 1 + Instr.arg /\ Pushes(command_ptr_) = Instr.n
    BY <2>1, <2>2 DEF Pops, Pushes, Instr
  <2>5. Replace(1 + Instr.arg, cells, Next1)
    BY <1>5 DEF OpSysCall
  <2> HIDE DEF cells
  <2> QED
    BY <2>1, <2>3, <2>4, <2>5, FallThroughKeeps
<1> QED BY <1>2, <1>3, <1>4, <1>5

\* Building a function object pops what was pushed for it and no more.
LEMMA PushLambdaKeeps ==
  ASSUME IInv, OpPushLambda PROVE IInv' /\ Isolated
<1>1. running /\ Instr.op = "pushLambda" /\ command_ptr_ \in Addr
  BY HasFrame DEF OpPushLambda, At
<1>2. Instr.arg \in Lambdas /\ Code[command_ptr_ - 1].arg = Captures[Instr.arg]
  BY <1>1, CodeAt DEF Verified, Instr
<1>3. Top.v = Captures[Instr.arg]
  BY <1>1, <1>2 DEF IInv, CallDiscipline, PushedBefore, Straight, Instr, Integer
<1> DEFINE cells == <<Function(Instr.arg)>>
<1>4. cells \in Seq(Cell) /\ Len(cells) = 1
  <2>1. Instr.arg \in Nat
    BY <1>2, FunctionAt DEF Callable, Entries, Addr
  <2> QED BY <2>1, CellTypes
<1>5. Pops(command_ptr_) = Top.v + 2 /\ Pushes(command_ptr_) = 1
  BY <1>1, <1>3 DEF Pops, Pushes, Instr
<1>6. Replace(Top.v + 2, cells, Next1)
  BY DEF OpPushLambda
<1> HIDE DEF cells
<1> QED
  BY <1>1, <1>4, <1>5, <1>6, FallThroughKeeps

\* Assigning to a local or a global keeps the discipline: no link is written.
LEMMA PopLocalKeeps ==
  ASSUME IInv, PopLocal \/ PopValue PROVE IInv' /\ Isolated
<1>1. /\ running /\ Instr.op \in {"popLocal", "popGlobal"} /\ command_ptr_ \in Addr
      /\ Instr.op # "halt"
  BY HasFrame DEF PopLocal, PopValue, At
<1>2. /\ FlowsTo(command_ptr_, command_ptr_ + 1, -1)
      /\ 1 <= MinDepth[command_ptr_]
      /\ ~Straight(command_ptr_ + 1)
  <2>1. Pops(command_ptr_) = 1 /\ Pushes(command_ptr_) = 0
    BY <1>1 DEF Pops, Pushes, Instr
  <2>2. FallsThrough(command_ptr_) /\ Pops(command_ptr_) <= MinDepth[command_ptr_]
    BY <1>1, CodeAt DEF Verified, Instr
  <2>3. command_ptr_ + 1 \in Addr => ~Straight(command_ptr_ + 1)
    BY <1>1, CodeAt DEF Verified, Instr
  <2> QED
    BY <2>1, <2>2, <2>3 DEF FallsThrough, FlowsTo
<1>3. CASE PopLocal
  <2>1. Instr.op = "popLocal" /\ PopInto(stack_base + Instr.arg)
    BY <1>3 DEF PopLocal, At
  <2>2. /\ Addressable(command_ptr_, Instr.arg, MinDepth[command_ptr_] - 1)
        /\ Instr.arg \in Int /\ MinDepth[command_ptr_] - 1 \in Nat
    BY <1>1, <1>2, <2>1, CodeAt DEF Verified, Instr, Instruction
  <2>3. /\ MinDepth[command_ptr_] - 1 <= currentSize - stack_base
        /\ currentSize \in Int /\ stack_base \in Int
    BY <1>1, <2>2, HasFrame, CodeAt
  <2>4. /\ stack_base + Instr.arg \in Int
        /\ \/ stack_base + Instr.arg \in Arguments(Active)
           \/ stack_base + Instr.arg >= stack_base /\ stack_base + Instr.arg < currentSize
    BY <1>1, <2>2, <2>3, OwnCell, HasFrame, CodeAt
  <2> QED
    BY <1>1, <1>2, <2>1, <2>4, PopIntoKeeps
<1>4. CASE PopValue
  <2>1. Instr.op = "popGlobal" /\ PopInto(Instr.arg)
    BY <1>4 DEF PopValue, At
  <2>2. Instr.arg \in 0 .. GlobalCount - 1
    BY <1>1, <2>1, CodeAt DEF Verified, Instr
  <2> QED
    BY <1>1, <1>2, <2>1, <2>2, PopIntoKeeps, SizeAssumption
<1> QED BY <1>3, <1>4

\* Pushing a function variable leaves the operands its call relies on.
LEMMA PushFunctionKeeps ==
  ASSUME IInv, PushFunctionVariable PROVE IInv' /\ Isolated
<1> DEFINE a == command_ptr_
<1>1. running /\ Code[a].op = "pushFun" /\ Instr.op # "halt" /\ a \in Addr
  BY HasFrame DEF PushFunctionVariable, At, Instr
<1>2. PICK f \in FunctionsOfType(Code[a].arg, Code[a].n) :
             Replace(0, <<Function(f)>>, a + 1)
  BY DEF PushFunctionVariable, Next1, Instr
<1>3. /\ FlowsTo(a, a + 1, 1 - 0)
      /\ 0 <= MinDepth[a] /\ a \in Nat /\ a + 1 \in Addr
      /\ Code[a + 1].op = "callByVariable"
      /\ Code[a - 1].arg = Code[a].arg
  BY <1>1, CodeAt DEF Verified, FallsThrough, Pushes, Pops, FlowsTo, Addr
<1>4. Top = Integer(Code[a].arg)
  BY <1>1, <1>3 DEF IInv, CallDiscipline, PushedBefore, Straight, Instr
<1> DEFINE cells == <<Function(f)>>
<1>5. cells \in Seq(Cell) /\ Len(cells) = 1
  <2>1. f \in Nat
    BY FunctionAt DEF Callable, Entries, Addr, FunctionsOfType
  <2> QED BY <2>1, CellTypes
<1>6. Replace(0, cells, a + 1)
  BY <1>2
<1> HIDE DEF cells
<1>7. PushedBefore'
  <2>1. CASE currentSize + 1 > STACK_SIZE
    BY <1>5, <1>6, <2>1, HasFrame, <1>1 DEF Replace, Throw, PushedBefore
  <2>2. CASE ~(currentSize + 1 > STACK_SIZE)
    <3>1. currentSize - 0 + Len(cells) = currentSize + 1 /\ currentSize - 0 = currentSize
      BY <1>1, <1>5, HasFrame
    <3>2. /\ data' = Stacked(data, currentSize, cells)
          /\ currentSize' = currentSize + 1
          /\ command_ptr_' = a + 1
      BY <1>6, <2>2, <3>1 DEF Replace
    <3>3. currentSize \in Slot
      BY <2>2, HasFrame, <1>1, SizeAssumption DEF Slot
    <3>4. Top' = Function(f)
      BY <3>2, <3>3, PushedOne DEF Top, cells
    <3>5. data'[currentSize' - 2] = Integer(Code[a].arg)
      <4>1. /\ currentSize - 1 \in Slot /\ currentSize - 1 < currentSize
            /\ (currentSize + 1) - 2 = currentSize - 1
        <5>1. currentSize - 1 >= 0
          <6>1. Code[a].arg \in Nat
            BY <1>1, <1>3, CodeAt DEF Verified, AfterConst
          <6>2. MinDepth[a + 1] >= 2 + Code[a].arg /\ MinDepth[a + 1] <= MinDepth[a] + 1
            BY <1>3, CodeAt DEF Verified, FlowsTo
          <6> QED
            BY <1>1, <1>3, <6>1, <6>2, HasFrame, CodeAt
        <5> QED
          BY <3>3, <5>1, SizeAssumption DEF Slot
      <4>2. data \in [Slot -> Cell] /\ currentSize \in Int
        BY <3>3 DEF IInv, TypeOK, Slot
      <4>3. data'[currentSize - 1] = data[currentSize - 1]
        BY <3>2, <4>1, <4>2, <1>5, StackedType
      <4> QED
        BY <3>2, <4>1, <4>3, <1>4 DEF Top
    <3>6. (a + 1) - 1 = a
      BY <1>3
    <3> QED
      BY <3>2, <3>4, <3>5, <3>6, <1>2, <1>3 DEF PushedBefore, Instr
  <2> QED BY <2>1, <2>2
<1> HIDE DEF a
<1> QED
  BY <1>1, <1>3, <1>5, <1>6, <1>7, ReplaceKeeps DEF a

\* The three jumps keep the discipline.
LEMMA JumpKeeps ==
  ASSUME IInv, OpJmp \/ OpJmpC \/ OpJmpNC PROVE IInv' /\ Isolated
<1> DEFINE a == command_ptr_
           k == IF Code[a].op = "jmp" THEN 0 ELSE 1
<1>1. /\ running /\ Code[a].op \in {"jmp", "jmpc", "jmpnc"}
      /\ Instr.op # "halt" /\ a \in Addr
  BY HasFrame DEF OpJmp, OpJmpC, OpJmpNC, At, Instr
<1>2. Pops(a) = k /\ Pushes(a) = 0
  BY <1>1 DEF Pops, Pushes
<1>3. /\ FlowsTo(a, Code[a].arg, 0 - k) /\ ~Straight(Code[a].arg)
      /\ k <= MinDepth[a]
  BY <1>1, <1>2, CodeAt DEF Verified, JumpsTo
<1>4. ASSUME k = 1
      PROVE  FlowsTo(a, a + 1, 0 - k) /\ ~Straight(a + 1)
  BY <1>1, <1>2, <1>4, CodeAt DEF Verified, FallsThrough, FlowsTo
<1>5. \/ Replace(k, <<>>, Code[a].arg)
      \/ k = 1 /\ Replace(k, <<>>, a + 1)
  BY DEF OpJmp, OpJmpC, OpJmpNC, At, Instr, Next1
<1>6. <<>> \in Seq(Cell) /\ Len(<<>>) = 0 /\ k \in Nat
  OBVIOUS
<1> HIDE DEF k, a
<1> QED
  BY <1>1, <1>3, <1>4, <1>5, <1>6, ReplaceKeeps DEF FlowsTo, a

\* The test of a case label keeps the discipline, whichever way it goes.
LEMMA TestKeeps ==
  ASSUME IInv, OpTest PROVE IInv' /\ Isolated
<1> DEFINE a == command_ptr_
<1>1. running /\ Code[a].op = "test" /\ Instr.op # "halt" /\ a \in Addr
  BY HasFrame DEF OpTest, At, Instr
<1>2. /\ FlowsTo(a, Code[a].arg, 0 - 2) /\ ~Straight(Code[a].arg)
      /\ 2 <= MinDepth[a] /\ 1 <= MinDepth[a]
      /\ FlowsTo(a, a + 1, 0 - 1) /\ ~Straight(a + 1)
  BY <1>1, CodeAt DEF Verified, JumpsTo, FallsThrough, FlowsTo, Pops, Pushes
<1>3. \/ Replace(2, <<>>, Code[a].arg)
      \/ Replace(1, <<>>, a + 1)
  BY DEF OpTest, Instr, Next1
<1>4. <<>> \in Seq(Cell) /\ Len(<<>>) = 0
  OBVIOUS
<1> HIDE DEF a
<1> QED
  BY <1>1, <1>2, <1>3, <1>4, ReplaceKeeps DEF FlowsTo, a

\* A step inside a function keeps the discipline, and to itself.
LEMMA LocalStepKeeps ==
  ASSUME IInv, LocalStep PROVE IInv' /\ Isolated
BY PushConstKeeps, PushLocalKeeps, PushGlobalKeeps, PushFunctionKeeps,
   OperatorKeeps, PushLambdaKeeps, PopLocalKeeps, JumpKeeps, TestKeeps
   DEF LocalStep

-----------------------------------------------------------------------------
(* Calls and returns.                                                      *)

\* A frame stays chained when its links, the frames below it and the entry point
\* stay, and the stack is not cut below it.
LEMMA ChainedKept ==
  ASSUME IInv, NEW i \in 1 .. Depth,
         \A j \in 1 .. i : frames'[j] = frames[j],
         \A k \in {1, 2, 3} : data'[frames[i].base - k] = data[frames[i].base - k],
         frames[i].base <= currentSize',
         entryPoint' = entryPoint
  PROVE  ChainedAt(i)'
<1>1. Depth \in Nat
  BY DEF IInv, TypeOK, Depth
<1>2. ChainedAt(i) /\ i \in 1 .. i /\ i \in Int
  BY <1>1 DEF IInv, CallDiscipline
<1>3. i # 1 => frames'[i - 1] = frames[i - 1]
  BY <1>1
<1>4. frames'[i] = frames[i] /\ \A j \in 1 .. i - 1 : frames'[j] = frames[j]
  BY <1>2
<1> QED
  BY <1>2, <1>3, <1>4 DEF ChainedAt, FirstCell

\* The frames seen as intervals of the stack.
LEMMA FrameBounds ==
  ASSUME IInv, NEW i \in 1 .. Depth
  PROVE  /\ frames[i] \in Frame
         /\ frames[i].base \in 3 .. currentSize
         /\ currentSize \in 0 .. STACK_SIZE
         /\ frames[i].argc \in Nat
         /\ FirstCell(frames[i]) >= GlobalCount
         /\ FirstCell(frames[i]) = frames[i].base - 3 - frames[i].argc
         /\ \A j \in 1 .. i - 1 : frames[j].base <= FirstCell(frames[i])
<1>1. ChainedAt(i) /\ frames[i] \in Frame
  BY DEF IInv, TypeOK, CallDiscipline, Depth
<1>2. frames[i].base \in Nat /\ frames[i].argc \in Nat
  BY <1>1 DEF Frame
<1>3. currentSize \in 0 .. STACK_SIZE
  BY DEF IInv, TypeOK
<1>4. FirstCell(frames[i]) = frames[i].base - 3 - frames[i].argc
  BY DEF FirstCell
<1>5. /\ frames[i].base <= currentSize
      /\ FirstCell(frames[i]) >= GlobalCount
      /\ \A j \in 1 .. i - 1 : FirstCell(frames[i]) >= frames[j].base
  BY <1>1 DEF ChainedAt
<1>6. frames[i].base \in 3 .. currentSize
  BY <1>2, <1>3, <1>4, <1>5, SizeAssumption
<1>7. \A j \in 1 .. i - 1 : frames[j].base <= FirstCell(frames[i])
  <2> SUFFICES ASSUME NEW j \in 1 .. i - 1
               PROVE  frames[j].base <= FirstCell(frames[i])
    OBVIOUS
  <2>1. frames[j].base \in Int /\ FirstCell(frames[i]) \in Int
    <3>1. j \in 1 .. Depth
      BY DEF IInv, TypeOK, Depth
    <3>2. frames[j] \in Frame
      BY <3>1 DEF IInv, TypeOK, Depth
    <3> QED
      BY <3>2, <1>2, <1>4 DEF Frame
  <2> QED
    BY <1>5, <2>1
<1> QED
  BY <1>1, <1>2, <1>3, <1>4, <1>5, <1>6, <1>7

\* The frames below the active one end before its first argument.
LEMMA BelowActive ==
  ASSUME IInv, Depth > 0, NEW i \in 1 .. Depth
  PROVE  /\ frames[i].base <= Active.base
         /\ i # Depth => frames[i].base <= FirstCell(Active)
         /\ \A k \in {1, 2, 3} : /\ frames[i].base - k \in Slot
                                 /\ frames[i].base - k >= GlobalCount
<1>1. Depth \in 1 .. Depth
  BY DEF IInv, TypeOK, Depth
<1>2. i # Depth => i \in 1 .. Depth - 1
  BY <1>1
<1>3. /\ Active.base \in Nat /\ Active.argc \in Nat
      /\ FirstCell(Active) = Active.base - 3 - Active.argc
      /\ i # Depth => frames[i].base <= FirstCell(Active)
  BY <1>1, <1>2, FrameBounds DEF Active
<1>4. /\ frames[i].base \in 3 .. STACK_SIZE
      /\ frames[i].base - 3 >= GlobalCount
  BY FrameBounds, SizeAssumption
<1>5. \A k \in {1, 2, 3} : frames[i].base - k \in Slot /\ frames[i].base - k >= GlobalCount
  BY ONLY <1>4, SizeAssumption DEF Slot
<1>6. frames[i].base <= Active.base
  <2>1. CASE i = Depth
    BY <2>1, <1>3 DEF Active
  <2>2. CASE i # Depth
    BY <2>2, <1>3, <1>4
  <2> QED BY <2>1, <2>2
<1> QED BY <1>3, <1>5, <1>6

\* A call on top of s cells, the last of which is the number n of arguments:
\* what OpCall and OpCallByVariable have in common.
Enters(f, s, n) ==
  /\ data[s - 1] = Integer(n)
  /\ s <= currentSize
  /\ s - 1 - n >= stack_base
  /\ s + 2 + Captures[f] <= STACK_SIZE
  /\ f # 0 => /\ n = Arity[f]
              /\ Owner[command_ptr_ + 1] = Owner[command_ptr_]
              /\ s - 1 - n - stack_base + Returns[f] >= MinDepth[command_ptr_ + 1]
  /\ command_ptr_ + 1 \in Addr
  /\ ~Straight(command_ptr_ + 1)
  /\ data' \in [Slot -> Cell]
  /\ \A i \in Slot : i < s => data'[i] = data[i]
  /\ data'[s] = Integer(stack_base)
  /\ data'[s + 1] = Integer(command_ptr_ + 1)
  /\ currentSize' = s + 2 + Captures[f]
  /\ stack_base' = s + 2
  /\ command_ptr_' = f
  /\ frames' = Append(frames, [base |-> s + 2, ret |-> command_ptr_ + 1,
                               saved |-> stack_base, argc |-> n, fn |-> f])
  /\ running' = running
  /\ entryPoint' = entryPoint

\* The new frame starts within the caller's cells, so the older ones keep
\* theirs.
LEMMA EnterKeeps ==
  ASSUME IInv, running, Instr.op # "halt",
         NEW f \in Callable, NEW s \in Nat, NEW n \in Nat, Enters(f, s, n)
  PROVE  IInv'
<1> DEFINE new == [base |-> s + 2, ret |-> command_ptr_ + 1,
                   saved |-> stack_base, argc |-> n, fn |-> f]
<1>1. /\ Depth \in Nat /\ Depth > 0 /\ stack_base = Active.base
      /\ Owner[command_ptr_] = Active.fn /\ command_ptr_ \in Addr
      /\ stack_base \in Nat /\ currentSize \in 0 .. STACK_SIZE
      /\ Captures[f] \in Nat /\ MinDepth[f] = Captures[f] /\ Owner[f] = f
      /\ f \in Addr /\ ~Straight(f)
  BY HasFrame, FunctionAt
<1>2. new \in Frame /\ new.base = s + 2 /\ new.ret = command_ptr_ + 1
      /\ new.saved = stack_base /\ new.argc = n /\ new.fn = f
  BY <1>1 DEF Frame, Enters
<1>3. frames' = Append(frames, new)
  BY DEF Enters
<1> HIDE DEF new
<1>4. /\ frames' \in Seq(Frame) /\ Depth' = Depth + 1 /\ Active' = new
      /\ frames'[Depth + 1] = new
      /\ \A i \in 1 .. Depth : frames'[i] = frames[i]
  <2>1. frames \in Seq(Frame)
    BY DEF IInv, TypeOK
  <2> QED
    BY <1>2, <1>3, <2>1 DEF Depth, Active
<1>5. currentSize' \in 0 .. STACK_SIZE /\ stack_base' \in 0 .. currentSize'
  BY <1>1, SizeAssumption DEF Enters
<1>6. TypeOK'
  BY <1>1, <1>4, <1>5, SizeAssumption DEF IInv, TypeOK, Enters
<1>7. ActiveFrame'
  <2>1. currentSize' - stack_base' = Captures[f]
    BY <1>1 DEF Enters
  <2>2. running' /\ Depth' # 0 /\ stack_base' = s + 2 /\ command_ptr_' = f
    BY <1>1, <1>4 DEF Enters
  <2> QED
    BY <1>1, <1>2, <1>4, <1>5, <2>1, <2>2 DEF ActiveFrame
<1>8. PushedBefore'
  BY <1>1 DEF PushedBefore, Enters
<1>9. /\ stack_base <= s - 1 - n /\ s \in 0 .. STACK_SIZE /\ n \in Nat
      /\ s <= currentSize' /\ stack_base \in Nat /\ currentSize' \in Int
  BY <1>1, SizeAssumption DEF Enters
<1>10. ASSUME NEW i \in 1 .. Depth PROVE ChainedAt(i)'
  <2>1. /\ frames[i].base \in Int /\ frames[i].base <= stack_base
        /\ \A k \in {1, 2, 3} : frames[i].base - k \in Slot
    BY <1>1, FrameBounds, BelowActive
  <2>2. frames[i].base < s /\ frames[i].base <= currentSize'
    BY ONLY <1>9, <2>1
  <2>3. \A k \in {1, 2, 3} : data'[frames[i].base - k] = data[frames[i].base - k]
    <3>1. \A k \in {1, 2, 3} : frames[i].base - k < s
      BY ONLY <2>1, <2>2, <1>9
    <3> QED
      BY <2>1, <3>1 DEF Enters
  <2>4. \A j \in 1 .. i : frames'[j] = frames[j]
    BY <1>1, <1>4
  <2> QED
    BY <2>2, <2>3, <2>4, ChainedKept DEF Enters
<1>11. ASSUME NEW d \in Nat, d = Depth + 1 PROVE ChainedAt(d)'
  <2>1. FirstCell(new) = s - 1 - n
    BY <1>2, <1>9 DEF FirstCell
  <2>2. /\ new.base - 1 = s + 1 /\ new.base - 2 = s /\ new.base - 3 = s - 1
        /\ s - 1 \in Slot /\ s - 1 < s
    BY <1>1, <1>2, <1>9, SizeAssumption DEF Slot
  <2>3. FirstCell(new) >= GlobalCount
    <3>1. Depth \in 1 .. Depth
      BY <1>1
    <3>2. /\ Active.base - 3 - Active.argc >= GlobalCount
          /\ Active.argc \in Nat
      BY <3>1, FrameBounds DEF Active
    <3> QED
      BY <3>2, <2>1, <1>1, <1>9, SizeAssumption
  <2>4. \A j \in 1 .. Depth : FirstCell(new) >= frames[j].base
    <3> TAKE j \in 1 .. Depth
    <3>1. frames[j].base <= stack_base /\ frames[j].base \in Int
      BY <1>1, FrameBounds, BelowActive
    <3> QED
      BY <3>1, <2>1, <1>1, <1>9
  <2>5. (Depth + 1) - 1 = Depth /\ Depth + 1 # 1 /\ Depth \in 1 .. Depth
    BY <1>1
  <2>6. frames'[Depth + 1] = new /\ \A j \in 1 .. Depth : frames'[j] = frames[j]
    BY <1>4
  <2>7. new.base <= currentSize'
    BY <1>1, <1>2 DEF Enters
  <2>8. /\ data'[new.base - 1] = Integer(new.ret)
        /\ data'[new.base - 2] = Integer(new.saved)
        /\ data'[new.base - 3] = Integer(new.argc)
    BY <1>2, <2>2 DEF Enters
  <2>9. /\ new.saved = frames[Depth].base /\ ~Straight(new.ret)
        /\ new.fn # 0 => new.argc = Arity[new.fn]
    BY <1>1, <1>2 DEF Enters, Active
  <2>10. new.fn # 0 => /\ Owner[new.ret] = frames[Depth].fn
                      /\ FirstCell(new) - frames[Depth].base + Returns[new.fn] >= MinDepth[new.ret]
    BY <1>1, <1>2, <2>1 DEF Enters, Active
  <2>11. /\ d - 1 = Depth /\ d # 1 /\ frames'[d] = new /\ frames'[d - 1] = frames[Depth]
         /\ \A j \in 1 .. d - 1 : frames'[j] = frames[j]
    BY <1>11, <2>5, <2>6
  <2>12. \A j \in 1 .. d - 1 : FirstCell(new) >= frames[j].base
    BY <2>4, <2>11
  <2> QED
    BY <2>3, <2>7, <2>8, <2>9, <2>10, <2>11, <2>12 DEF ChainedAt, FirstCell
<1>12. \A i \in 1 .. Depth' : ChainedAt(i)'
  <2> TAKE i \in 1 .. Depth'
  <2>1. i \in 1 .. Depth \/ (i \in Nat /\ i = Depth + 1)
    BY <1>1, <1>4
  <2> QED
    BY <2>1, <1>10, <1>11
<1> QED
  BY <1>6, <1>7, <1>8, <1>12 DEF IInv, CallDiscipline

\* A call of a named function pushes a frame that chains to its caller's.
LEMMA CallEnters ==
  ASSUME IInv, OpCall, ~(currentSize + 2 > STACK_SIZE)
  PROVE  \E f \in Functions \cup {0}, n \in Nat : Enters(f, currentSize, n)
<1> DEFINE a == command_ptr_
           f == Code[a].arg
           n == Code[a - 1].arg
<1>1. running /\ Code[a].op = "call" /\ Instr.op # "halt" /\ a \in Addr
  BY HasFrame DEF OpCall, At, Instr
<1>2. /\ f \in Functions \cup {0} /\ f \in Callable /\ f \in Startable /\ n \in Nat
      /\ a + 1 \in Addr /\ ~Straight(a + 1)
      /\ MinDepth[a] >= 1 + n
      /\ f # 0 => /\ n = Arity[f]
                  /\ FlowsTo(a, a + 1, -1 - n + Returns[f])
  BY <1>1, CodeAt DEF Verified, AfterConst, Callable, Entries, Startable
<1>3. Captures[f] = 0 /\ Returns[f] \in {0, 1}
  BY <1>2, FunctionAt
<1>4. Top = Integer(n)
  BY <1>1 DEF IInv, CallDiscipline, PushedBefore, Straight, Instr
<1>5. /\ currentSize \in Nat /\ stack_base \in Nat
      /\ currentSize - stack_base >= MinDepth[a] /\ MinDepth[a] \in Nat
      /\ currentSize <= STACK_SIZE
  BY <1>1, HasFrame, CodeAt, SizeAssumption
<1> HIDE DEF f, n
<1>7. Enters(f, currentSize, n)
  <2> DEFINE cells == <<Integer(stack_base), Integer(a + 1)>>
  <2>1. /\ data' = Stacked(data, currentSize, cells)
        /\ currentSize' = currentSize + 2
        /\ stack_base' = currentSize + 2
        /\ command_ptr_' = f
        /\ frames' = Append(frames, [base |-> currentSize + 2, ret |-> a + 1,
                                     saved |-> stack_base, argc |-> n, fn |-> f])
        /\ running' = running /\ entryPoint' = entryPoint
    BY <1>4 DEF OpCall, Next1, Instr, Integer, f
  <2>2. /\ cells \in Seq(Cell) /\ Len(cells) = 2
        /\ cells[1] = Integer(stack_base) /\ cells[2] = Integer(a + 1)
    <3>1. a + 1 \in Nat
      BY <1>2 DEF Addr
    <3> QED BY <3>1, <1>5, CellTypes
  <2> HIDE DEF cells
  <2>3. data \in [Slot -> Cell] /\ currentSize \in Int
    BY <1>5 DEF IInv, TypeOK
  <2>4. /\ data' \in [Slot -> Cell]
        /\ \A i \in Slot : i < currentSize => data'[i] = data[i]
    BY <2>1, <2>2, <2>3, StackedType
  <2>5. data'[currentSize] = cells[1] /\ data'[currentSize + 1] = cells[2]
    <3>1. /\ currentSize \in Slot /\ currentSize + 1 \in Slot
          /\ currentSize - currentSize = 0 /\ (currentSize + 1) - currentSize = 1
          /\ ~(currentSize < currentSize) /\ ~(currentSize + 1 < currentSize)
      BY <1>5, SizeAssumption DEF Slot
    <3> QED
      BY <2>1, <2>2, <3>1 DEF Stacked
  <2>6. currentSize - 1 - n >= stack_base /\ currentSize + 2 + Captures[f] <= STACK_SIZE
        /\ currentSize + 2 + Captures[f] = currentSize + 2
    BY <1>2, <1>3, <1>5, SizeAssumption
  <2>7. f # 0 => /\ Owner[a + 1] = Owner[a]
                 /\ currentSize - 1 - n - stack_base + Returns[f] >= MinDepth[a + 1]
    BY <1>2, <1>3, <1>5, CodeAt DEF FlowsTo
  <2> QED
    BY <1>2, <1>4, <1>5, <2>1, <2>2, <2>4, <2>5, <2>6, <2>7 DEF Enters, Top
<1> QED BY <1>2, <1>7

\* So it keeps the discipline.
LEMMA CallKeeps ==
  ASSUME IInv, OpCall PROVE IInv'
<1>1. running /\ Instr.op # "halt" /\ currentSize \in Nat
  BY SizeAssumption DEF OpCall, At, IInv, TypeOK
<1>2. CASE currentSize + 2 > STACK_SIZE
  BY <1>2, ThrowKeeps, SizeAssumption DEF OpCall, IInv, TypeOK
<1>3. CASE ~(currentSize + 2 > STACK_SIZE)
  <2>1. PICK f \in Functions \cup {0}, n \in Nat : Enters(f, currentSize, n)
    BY <1>3, CallEnters
  <2> QED
    BY <1>1, <2>1, EnterKeeps DEF Callable, Entries
<1> QED BY <1>2, <1>3

\* So does a call by variable, with the captured values in the new frame.
LEMMA CallByVariableEnters ==
  ASSUME IInv, OpCallByVariable, ~(currentSize - 1 + 2 + Captures[Top.v] > STACK_SIZE)
  PROVE  \E f \in Lambdas, n \in Nat : currentSize - 1 \in Nat /\ Enters(f, currentSize - 1, n)
<1> DEFINE a == command_ptr_
           n == Code[a - 1].arg
           f == Top.v
           s == currentSize - 1
<1>1. running /\ Code[a].op = "callByVariable" /\ Instr.op # "halt" /\ a \in Addr
  BY HasFrame DEF OpCallByVariable, At, Instr
<1>2. /\ a - 1 \in Addr /\ Code[a - 1].op = "pushFun"
      /\ MinDepth[a] >= 2 + n
      /\ FlowsTo(a, a + 1, -2 - n + Code[a - 1].n)
      /\ a + 1 \in Addr /\ ~Straight(a + 1)
  BY <1>1, CodeAt DEF Verified, FlowsTo
<1>3. n \in Nat
  BY <1>2, CodeAt DEF Verified, AfterConst
<1>4. /\ f \in Lambdas /\ Arity[f] = n /\ Returns[f] = Code[a - 1].n
      /\ data[currentSize - 2] = Integer(n)
  BY <1>1 DEF IInv, CallDiscipline, PushedBefore, Straight, Instr, Function, FunctionsOfType
<1>5. /\ f \in Callable /\ Captures[f] \in Nat /\ Returns[f] \in {0, 1} /\ f \in Nat
  BY <1>4, FunctionAt DEF Callable, Entries, Addr
<1>6. /\ currentSize \in Nat /\ stack_base \in Nat
      /\ currentSize - stack_base >= MinDepth[a] /\ MinDepth[a] \in Nat
      /\ currentSize <= STACK_SIZE
  BY <1>1, HasFrame, CodeAt, SizeAssumption
<1>7. s \in Nat /\ s - 1 = currentSize - 2 /\ s <= currentSize /\ s - 1 - n >= stack_base
  BY <1>2, <1>3, <1>6
<1>8. ~(s + 2 + Captures[f] > STACK_SIZE)
  OBVIOUS
<1> HIDE DEF n, f, s
<1>9. Enters(f, s, n)
  <2> DEFINE cells == [j \in 1 .. 2 + Captures[f] |->
                         CASE j = 1 -> Integer(stack_base)
                           [] j = 2 -> Integer(a + 1)
                           [] OTHER -> Computed]
  <2>1. /\ data' = Stacked(data, s, cells)
        /\ currentSize' = s + 2 + Captures[f]
        /\ stack_base' = s + 2
        /\ command_ptr_' = f
        /\ frames' = Append(frames, [base |-> s + 2, ret |-> a + 1,
                                     saved |-> stack_base, argc |-> n, fn |-> f])
        /\ running' = running /\ entryPoint' = entryPoint
    <3>1. data[s - 1].v = n
      BY <1>4, <1>7 DEF Integer
    <3> QED
      BY <3>1, <1>8 DEF OpCallByVariable, Next1, f, s
  <2>2. /\ cells \in Seq(Cell) /\ Len(cells) = 2 + Captures[f]
        /\ cells[1] = Integer(stack_base) /\ cells[2] = Integer(a + 1)
    <3>1. Integer(a + 1) \in Cell /\ Integer(stack_base) \in Cell
      BY <1>2, <1>6, CellTypes DEF Addr
    <3>2. 2 + Captures[f] \in Nat /\ 1 \in 1 .. 2 + Captures[f] /\ 2 \in 1 .. 2 + Captures[f]
      BY <1>5
    <3>3. \A j \in 1 .. 2 + Captures[f] : cells[j] \in Cell
      BY <3>1, CellTypes
    <3>4. cells \in [1 .. 2 + Captures[f] -> Cell]
      BY <3>3
    <3> QED
      BY <3>2, <3>4
  <2> HIDE DEF cells
  <2>3. data \in [Slot -> Cell] /\ s \in Int
    BY <1>7 DEF IInv, TypeOK
  <2>4. /\ data' \in [Slot -> Cell]
        /\ \A i \in Slot : i < s => data'[i] = data[i]
    BY <2>1, <2>2, <2>3, StackedType
  <2>5. data'[s] = cells[1] /\ data'[s + 1] = cells[2]
    <3>1. /\ s \in Slot /\ s + 1 \in Slot
          /\ s - s = 0 /\ (s + 1) - s = 1
          /\ ~(s < s) /\ ~(s + 1 < s)
          /\ 0 < Len(cells) /\ 1 < Len(cells)
      BY <1>5, <1>7, <1>8, <2>2, SizeAssumption DEF Slot
    <3> QED
      BY <2>1, <3>1 DEF Stacked
  <2>6. s + 2 + Captures[f] <= STACK_SIZE
    BY <1>5, <1>7, <1>8, SizeAssumption
  <2>7. /\ Owner[a + 1] = Owner[a]
        /\ s - 1 - n - stack_base + Returns[f] >= MinDepth[a + 1]
    <3>1. s = currentSize - 1
      BY DEF s
    <3>2. MinDepth[a + 1] <= MinDepth[a] + (-2 - n + Returns[f]) /\ MinDepth[a + 1] \in Nat
      BY <1>2, <1>4, CodeAt DEF FlowsTo
    <3> QED
      BY <1>2, <1>3, <1>5, <1>6, <3>1, <3>2 DEF FlowsTo
  <2> QED
    BY <1>2, <1>4, <1>7, <2>1, <2>2, <2>4, <2>5, <2>6, <2>7 DEF Enters
<1> QED BY <1>3, <1>4, <1>7, <1>9 DEF s

\* It keeps the discipline, too.
LEMMA CallByVariableKeeps ==
  ASSUME IInv, OpCallByVariable PROVE IInv'
<1> DEFINE s == currentSize - 1
           f == Top.v
<1>1. running /\ Instr.op = "callByVariable" /\ Instr.op # "halt" /\ currentSize \in 0 .. STACK_SIZE
  BY DEF OpCallByVariable, At, IInv, TypeOK
<1>2. CASE s + 2 + Captures[f] > STACK_SIZE
  <2>1. Throw /\ stack_base' = IF s + 2 > STACK_SIZE THEN stack_base ELSE s + 2
    BY <1>2 DEF OpCallByVariable
  <2>2. stack_base' \in 0 .. STACK_SIZE
    BY <2>1, <1>1, SizeAssumption DEF IInv, TypeOK
  <2> QED
    BY <2>1, <2>2, ThrowKeeps
<1>3. CASE ~(s + 2 + Captures[f] > STACK_SIZE)
  <2>1. PICK g \in Lambdas, n \in Nat : s \in Nat /\ Enters(g, s, n)
    BY <1>3, CallByVariableEnters
  <2> QED
    BY <1>1, <2>1, EnterKeeps DEF Callable, Entries
<1> QED BY <1>2, <1>3

\* The links of the active frame are read back as they were pushed.
LEMMA LinksOfActive ==
  ASSUME IInv, running, Instr.op # "halt"
  PROVE  /\ data[stack_base - 1].v = Active.ret
         /\ data[stack_base - 2].v = Active.saved
         /\ data[stack_base - 3].v = Active.argc
BY HasFrame DEF ChainedAt, Active, Integer

\* A return leaves the caller's frames as they were at the call, plus a result.
LEMMA LeaveKeeps ==
  ASSUME IInv, running, Instr.op # "halt",
         NEW result \in Seq(Cell), Len(result) = Returns[Owner[command_ptr_]],
         Len(result) <= currentSize - stack_base,
         LeaveFrame(result)
  PROVE  IInv'
<1> DEFINE left == FirstCell(Active)
           size == left + Len(result)
<1>1. /\ Depth \in Nat /\ Depth > 0 /\ Depth \in 1 .. Depth
      /\ stack_base = Active.base /\ Active \in Frame
      /\ Active.fn # 0 /\ Active.fn = Owner[command_ptr_]
      /\ Active.base \in Nat /\ Active.argc \in Nat
      /\ Active.base <= currentSize
      /\ currentSize \in 0 .. STACK_SIZE
      /\ left = Active.base - 3 - Active.argc
      /\ left >= GlobalCount
      /\ ChainedAt(Depth)
  <2>1. Depth \in Nat /\ Depth > 0
    BY HasFrame
  <2>2. Depth \in 1 .. Depth
    BY <2>1
  <2> QED
    BY <2>1, <2>2, HasFrame, FrameBounds DEF Active, Frame
<1>2. /\ data' = Stacked(data, left, result)
      /\ currentSize' = size
      /\ stack_base' = Active.saved
      /\ command_ptr_' = Active.ret
      /\ frames' = SubSeq(frames, 1, Depth - 1)
      /\ UNCHANGED <<running, entryPoint>>
  BY <1>1, LinksOfActive DEF LeaveFrame, Depth
<1>3. /\ left \in Nat /\ left \in Int /\ size \in Nat /\ left <= size /\ size <= currentSize
      /\ Len(result) \in Nat
  <2>1. Len(result) \in Nat /\ Len(result) <= currentSize - Active.base
    BY <1>1
  <2>2. /\ Active.base \in Nat /\ Active.argc \in Nat /\ currentSize \in 0 .. STACK_SIZE
        /\ left = Active.base - 3 - Active.argc /\ left >= GlobalCount
    BY <1>1
  <2>3. size = left + Len(result)
    OBVIOUS
  <2> HIDE DEF left, size
  <2>4. STACK_SIZE \in Nat /\ GlobalCount \in Nat
    BY SizeAssumption
  <2>5. left \in Int /\ left \in Nat
    BY ONLY <2>2, <2>4
  <2>6. size \in Nat /\ left <= size
    BY ONLY <2>1, <2>3, <2>5
  <2>7. currentSize \in Int /\ left <= Active.base
    BY ONLY <2>2, <2>4
  <2>8. size <= currentSize
    BY ONLY <2>1, <2>2, <2>3, <2>5, <2>7
  <2> QED
    BY <2>1, <2>5, <2>6, <2>8
<1> HIDE DEF left, size
<1>4. /\ frames' \in Seq(Frame) /\ Depth' = Depth - 1
      /\ \A i \in 1 .. Depth - 1 : frames'[i] = frames[i]
      /\ frames \in Seq(Frame)
  <2>1. frames \in Seq(Frame)
    BY DEF IInv, TypeOK
  <2>2. 1 \in Int /\ Depth - 1 \in Int /\ (Depth - 1) - 1 + 1 = Depth - 1
    BY <1>1
  <2>3. \A i \in 1 .. Depth - 1 : frames[i] \in Frame
    BY <2>1, <1>1 DEF Depth
  <2>4. /\ SubSeq(frames, 1, Depth - 1) \in Seq(Frame)
        /\ Len(SubSeq(frames, 1, Depth - 1)) = IF 1 <= Depth - 1 THEN (Depth - 1) - 1 + 1 ELSE 0
        /\ \A i \in 1 .. (Depth - 1) - 1 + 1 : SubSeq(frames, 1, Depth - 1)[i] = frames[1 + i - 1]
    BY <2>2, <2>3, SubSeqProperties
  <2>5. Len(frames') = Depth - 1
    BY <1>1, <1>2, <2>2, <2>4
  <2>6. \A i \in 1 .. Depth - 1 : frames'[i] = frames[i]
    BY <1>1, <1>2, <2>2, <2>4
  <2> QED
    BY <1>2, <2>1, <2>4, <2>5, <2>6 DEF Depth
<1>5. /\ data' \in [Slot -> Cell]
      /\ \A i \in Slot : i < left => data'[i] = data[i]
  BY <1>2, <1>3, StackedType DEF IInv, TypeOK
<1>6. Active.saved \in 0 .. STACK_SIZE /\ Active.ret \in Addr
  <2>1. CASE Depth = 1
    <3>1. Active.saved = GlobalCount
      BY <1>1, <2>1 DEF ChainedAt, Active
    <3> QED
      BY <1>1, <3>1, <1>3, SizeAssumption DEF Frame
  <2>2. CASE Depth # 1
    <3>1. Depth - 1 \in 1 .. Depth
      BY <1>1, <2>2
    <3>2. Active.saved = frames[Depth - 1].base
      BY <1>1, <2>2 DEF ChainedAt, Active
    <3>3. frames[Depth - 1].base \in 0 .. STACK_SIZE
      <4>1. frames[Depth - 1].base \in 3 .. currentSize
        BY <3>1, FrameBounds
      <4>2. currentSize \in 0 .. STACK_SIZE
        BY <1>1
      <4> QED
        BY ONLY <4>1, <4>2, SizeAssumption
    <3> QED
      BY <3>2, <3>3, <1>1 DEF Frame
  <2> QED BY <2>1, <2>2
<1>7. TypeOK'
  <2>1. currentSize' \in 0 .. STACK_SIZE
    BY <1>1, <1>2, <1>3, SizeAssumption
  <2> QED
    BY <1>2, <1>4, <1>5, <1>6, <2>1 DEF IInv, TypeOK
<1>8. ASSUME NEW i \in 1 .. Depth - 1 PROVE ChainedAt(i)'
  <2>1. i \in 1 .. Depth /\ i # Depth
    BY <1>1
  <2>2. /\ frames[i].base \in Nat /\ frames[i].base <= left
        /\ \A k \in {1, 2, 3} : frames[i].base - k \in Slot
    BY <2>1, <1>1, FrameBounds, BelowActive DEF left
  <2>3. \A k \in {1, 2, 3} : frames[i].base - k < left
    BY ONLY <2>2, <1>3
  <2>4. \A k \in {1, 2, 3} : data'[frames[i].base - k] = data[frames[i].base - k]
    BY <2>2, <2>3, <1>5
  <2>5. frames[i].base <= currentSize'
    BY <1>2, <1>3, <2>2
  <2>6. \A j \in 1 .. i : frames'[j] = frames[j]
    BY <1>1, <1>4
  <2>7. entryPoint' = entryPoint
    BY <1>2
  <2> QED
    BY <2>1, <2>4, <2>5, <2>6, <2>7, ChainedKept
<1>9. ~Straight(Active.ret)
  BY <1>1, EndOfProgram DEF ChainedAt, Active
<1>10. PushedBefore'
  BY <1>2, <1>9 DEF PushedBefore
<1>11. ActiveFrame'
  <2>1. CASE Depth = 1
    <3>1. /\ Active.ret = 0 /\ Active.fn = entryPoint /\ left = GlobalCount
      BY <1>1, <2>1 DEF ChainedAt, Active, left
    <3>2. Depth' = 0 /\ running' /\ command_ptr_' = 0 /\ entryPoint' = entryPoint
      BY <1>2, <1>4, <2>1, <3>1
    <3>3. currentSize' = GlobalCount + Returns[entryPoint']
      BY <1>1, <1>2, <3>1, <3>2 DEF size
    <3> QED
      BY <3>2, <3>3 DEF ActiveFrame, HaltBalanced
  <2>2. CASE Depth # 1
    <3>1. /\ Active.saved = frames[Depth - 1].base
          /\ Owner[Active.ret] = frames[Depth - 1].fn
          /\ left - frames[Depth - 1].base + Returns[Active.fn] >= MinDepth[Active.ret]
      BY <1>1, <2>2 DEF ChainedAt, Active, left
    <3>2. /\ Depth' # 0 /\ Active' = frames[Depth - 1] /\ running'
          /\ command_ptr_' = Active.ret /\ stack_base' = frames[Depth - 1].base
      <4>1. Depth' = Depth - 1 /\ Depth - 1 \in 1 .. Depth - 1
        BY <1>1, <1>4, <2>2
      <4>2. frames'[Depth - 1] = frames[Depth - 1]
        BY <4>1, <1>4
      <4> QED
        BY <1>2, <3>1, <4>1, <4>2 DEF Active
    <3>3. currentSize' - stack_base' >= MinDepth[command_ptr_']
      <4>1. frames[Depth - 1].base \in Nat
        BY <1>1, <2>2, FrameBounds
      <4>2. MinDepth[Active.ret] \in Nat
        BY <1>6, CodeAt
      <4>3. currentSize' = left + Returns[Active.fn]
        BY <1>1, <1>2 DEF size
      <4>4. Returns[Active.fn] \in Nat
        BY <1>1, <1>3
      <4> QED
        BY <1>3, <3>1, <3>2, <4>1, <4>2, <4>3, <4>4
    <3> QED
      BY <3>1, <3>2, <3>3 DEF ActiveFrame
  <2> QED BY <2>1, <2>2
<1>12. \A i \in 1 .. Depth' : ChainedAt(i)'
  BY <1>4, <1>8
<1> QED
  BY <1>7, <1>10, <1>11, <1>12 DEF IInv, CallDiscipline

\* Both returns give the caller the depth its next instruction expects.
LEMMA ReturnKeeps ==
  ASSUME IInv, OpReturn \/ OpReturnV PROVE IInv'
<1> DEFINE a == command_ptr_
<1>1. running /\ Code[a].op \in {"ret", "retv"} /\ Instr.op # "halt" /\ a \in Addr
  BY HasFrame DEF OpReturn, OpReturnV, At, Instr
<1>2. /\ currentSize - stack_base >= MinDepth[a] /\ MinDepth[a] \in Nat
      /\ currentSize \in 0 .. STACK_SIZE /\ stack_base \in Nat
  BY <1>1, HasFrame, CodeAt
<1>3. CASE OpReturn
  <2>1. Returns[Owner[a]] = 0 /\ <<>> \in Seq(Cell) /\ Len(<<>>) = 0
    BY <1>1, <1>3, CodeAt DEF Verified, OpReturn, At, Instr
  <2>2. Len(<<>>) <= currentSize - stack_base
    BY <1>2, <2>1
  <2> QED
    BY <1>1, <1>3, <2>1, <2>2, LeaveKeeps DEF OpReturn
<1>4. CASE OpReturnV
  <2>1. Returns[Owner[a]] = 1 /\ MinDepth[a] >= 1
    BY <1>1, <1>4, CodeAt DEF Verified, OpReturnV, At, Instr
  <2>2. currentSize - 1 \in Slot
    BY <1>2, <2>1, SizeAssumption DEF Slot
  <2> DEFINE cells == <<Top>>
  <2>3. cells \in Seq(Cell) /\ Len(cells) = 1 /\ LeaveFrame(cells)
    BY <1>4, <2>2 DEF Top, IInv, TypeOK, OpReturnV
  <2> HIDE DEF cells
  <2>4. Len(cells) <= currentSize - stack_base
    BY <1>2, <2>1, <2>3
  <2> QED
    BY <1>1, <2>1, <2>3, <2>4, LeaveKeeps
<1> QED BY <1>3, <1>4

-----------------------------------------------------------------------------
(* The host, and the specification.                                        *)

\* The end of the program leaves the globals alone on the stack.
LEMMA HaltKeeps ==
  ASSUME IInv, Halt PROVE IInv'
<1>1. GlobalCount \in 0 .. STACK_SIZE
  BY EndOfProgram, RoomForExecute, SizeAssumption, FunctionAt
<1>2. data \in [Slot -> Cell] /\ <<>> \in Seq(Cell) /\ GlobalCount \in Int
  BY SizeAssumption DEF IInv, TypeOK
<1>3. data' \in [Slot -> Cell]
  BY <1>2, StackedType DEF Halt
<1>4. entryPoint \in Addr /\ <<>> \in Seq(Frame)
  BY FunctionAt DEF IInv, TypeOK, Startable, Callable, Entries
<1>5. TypeOK'
  BY <1>1, <1>3, <1>4 DEF Halt, IInv, TypeOK
<1> QED
  BY <1>5 DEF Halt, IInv, CallDiscipline, ActiveFrame, PushedBefore, Depth

\* The host's call builds a first frame above the globals.
LEMMA ExecuteKeeps ==
  ASSUME IInv, NEW f \in Startable, Execute(f) PROVE IInv'
<1> DEFINE n == Arity[f]
           size == GlobalCount + n + 3
           cells == [j \in 1 .. n + 3 |->
                       CASE j <= n -> Computed
                         [] j = n + 1 -> Integer(n)
                         [] j = n + 2 -> Integer(GlobalCount)
                         [] OTHER -> Integer(0)]
           first == [base |-> size, ret |-> 0, saved |-> GlobalCount,
                     argc |-> n, fn |-> f]
<1>1. currentSize = GlobalCount /\ Depth = 0 /\ ~running
  BY DEF IInv, CallDiscipline, ActiveFrame, Execute
<1>2. /\ f \in Callable /\ f \in Addr /\ n \in Nat /\ Captures[f] = 0
      /\ MinDepth[f] = 0 /\ Owner[f] = f /\ ~Straight(f)
      /\ GlobalCount \in Nat /\ size \in 0 .. STACK_SIZE
      /\ size - 1 = GlobalCount + n + 2 /\ size - 2 = GlobalCount + n + 1
      /\ size - 3 = GlobalCount + n /\ size - 3 - n = GlobalCount
  <2>1. f \in Callable
    BY DEF Startable, Callable, Entries
  <2>2. n \in Nat /\ f \in Addr /\ Captures[f] = 0 /\ MinDepth[f] = 0
        /\ Owner[f] = f /\ ~Straight(f)
    BY <2>1, FunctionAt
  <2>3. GlobalCount + n + 3 <= STACK_SIZE
    BY RoomForExecute
  <2> QED
    BY <2>1, <2>2, <2>3, SizeAssumption
<1>3. /\ data' = Stacked(data, GlobalCount, cells)
      /\ currentSize' = size /\ stack_base' = size
      /\ frames' = <<first>>
      /\ command_ptr_' = f /\ running' /\ entryPoint' = f
      /\ running' = TRUE
  BY <1>1 DEF Execute
<1>4. /\ cells \in Seq(Cell) /\ Len(cells) = n + 3
      /\ cells[n + 1] = Integer(n)
      /\ cells[n + 2] = Integer(GlobalCount)
      /\ cells[n + 3] = Integer(0)
  <2>1. /\ n + 3 \in Nat /\ n + 1 \in 1 .. n + 3 /\ n + 2 \in 1 .. n + 3 /\ n + 3 \in 1 .. n + 3
        /\ ~(n + 1 <= n) /\ ~(n + 2 <= n) /\ ~(n + 3 <= n)
        /\ n + 2 # n + 1 /\ n + 3 # n + 1 /\ n + 3 # n + 2
    BY <1>2
  <2>2. Integer(n) \in Cell /\ Integer(GlobalCount) \in Cell /\ Integer(0) \in Cell
    BY <1>2, CellTypes
  <2>3. cells \in [1 .. n + 3 -> Cell]
    BY <2>2, CellTypes
  <2> QED
    BY <2>1, <2>3
<1>5. first \in Frame /\ first.base = size /\ first.ret = 0 /\ first.fn = f
      /\ first.saved = GlobalCount /\ first.argc = n
  BY <1>2, EndOfProgram DEF Frame
<1> HIDE DEF cells, first
<1>6. /\ frames' \in Seq(Frame) /\ Depth' = 1 /\ frames'[1] = first /\ Active' = first
  BY <1>3, <1>5 DEF Depth, Active
<1>7. data' \in [Slot -> Cell]
  <2>1. data \in [Slot -> Cell] /\ GlobalCount \in Int
    BY <1>2 DEF IInv, TypeOK
  <2> QED
    BY <1>3, <1>4, <2>1, StackedType
<1>8. /\ data'[size - 1] = Integer(0)
      /\ data'[size - 2] = Integer(GlobalCount)
      /\ data'[size - 3] = Integer(n)
  <2>1. /\ size - 1 \in Slot /\ size - 2 \in Slot /\ size - 3 \in Slot
    BY <1>2, SizeAssumption DEF Slot
  <2>2. \A i \in {size - 1, size - 2, size - 3} : ~(i < GlobalCount) /\ i - GlobalCount < n + 3
    BY <1>2
  <2>3. /\ (size - 1) - GlobalCount + 1 = n + 3
        /\ (size - 2) - GlobalCount + 1 = n + 2
        /\ (size - 3) - GlobalCount + 1 = n + 1
    <3> HIDE DEF size, n
    <3> QED
      BY <1>2
  <2> HIDE DEF size, n
  <2>4. \A i \in {size - 1, size - 2, size - 3} : data'[i] = cells[i - GlobalCount + 1]
    BY <1>3, <1>4, <2>1, <2>2 DEF Stacked
  <2> QED
    BY <1>4, <2>3, <2>4
<1>9. TypeOK'
  BY <1>2, <1>3, <1>6, <1>7 DEF TypeOK
<1>10. ActiveFrame'
  <2>1. currentSize' - stack_base' >= MinDepth[command_ptr_']
    BY <1>2, <1>3
  <2> QED
    BY <1>2, <1>3, <1>5, <1>6, <2>1 DEF ActiveFrame
<1>11. PushedBefore'
  BY <1>2, <1>3 DEF PushedBefore
<1>12. ChainedAt(1)'
  <2>1. FirstCell(first) = GlobalCount /\ GlobalCount >= GlobalCount
        /\ first.base <= currentSize' /\ \A j \in 1 .. 1 - 1 : FALSE
    BY <1>2, <1>3, <1>5 DEF FirstCell
  <2>2. first.fn # 0 => first.argc = Arity[first.fn]
    BY <1>5
  <2> HIDE DEF size, n
  <2> QED
    BY <1>3, <1>5, <1>6, <1>8, <2>1, <2>2 DEF ChainedAt, FirstCell
<1>13. \A i \in 1 .. Depth' : ChainedAt(i)'
  BY <1>6, <1>12
<1> QED
  BY <1>9, <1>10, <1>11, <1>13 DEF IInv, CallDiscipline

\* The machine starts out disciplined.
LEMMA InitKeeps ==
  ASSUME Init PROVE IInv
<1>1. GlobalCount \in 0 .. STACK_SIZE /\ <<>> \in Seq(Frame)
  BY EndOfProgram, RoomForExecute, SizeAssumption, FunctionAt
<1>2. data \in [Slot -> Cell]
  BY CellTypes DEF Init
<1>3. TypeOK
  <2>1. stack_base \in 0 .. STACK_SIZE /\ currentSize \in 0 .. STACK_SIZE
    BY <1>1, SizeAssumption DEF Init
  <2>2. command_ptr_ \in Addr /\ entryPoint \in Startable /\ running \in BOOLEAN
    BY EndOfProgram DEF Init
  <2>3. frames \in Seq(Frame)
    BY <1>1 DEF Init
  <2> QED
    BY <1>2, <2>1, <2>2, <2>3 DEF TypeOK
<1> QED
  BY <1>3 DEF Init, IInv, CallDiscipline, ActiveFrame, PushedBefore, Depth

\* Every step keeps type correctness and the discipline.
LEMMA NextKeeps ==
  ASSUME IInv, [Next]_vars PROVE IInv'
<1>1. CASE Next
  BY <1>1, LocalStepKeeps, CallKeeps, CallByVariableKeeps, ReturnKeeps,
     HaltKeeps, ExecuteKeeps DEF Next, Step
<1>2. CASE UNCHANGED vars
  BY <1>2 DEF vars, IInv, TypeOK, CallDiscipline, ChainedAt, FirstCell, ActiveFrame,
     Active, HaltBalanced, PushedBefore, Top, Instr, Depth
<1> QED BY <1>1, <1>2

\* The machine of a well-formed program never leaves its types and keeps the
\* discipline of calls: IInv is the inductive invariant.
THEOREM Disciplined == Spec => [](TypeOK /\ CallDiscipline)
BY InitKeeps, NextKeeps, PTL DEF Spec, IInv

\* The registers, the cells and the history of activations are what they should
\* be: no address is outside the code, no link outside the stack.
THEOREM WellTyped == Spec => []TypeOK
BY Disciplined, PTL

-----------------------------------------------------------------------------
(* What follows from the discipline.                                       *)

\* The links of the active functions are what was pushed at the calls, and no
\* frame reaches into the cells of its caller (OpCall, OpReturn, PopLocal).
THEOREM LinksSafe == Spec => []FrameLinks
<1>1. ASSUME IInv PROVE FrameLinks
  <2>1. Depth \in Nat
    BY <1>1 DEF IInv, TypeOK, Depth
  <2>2. Depth > 0 => stack_base = Active.base
    BY <1>1, <2>1 DEF IInv, CallDiscipline, ActiveFrame
  <2>3. ASSUME NEW i \in 1 .. Depth
        PROVE  /\ data[frames[i].base - 1] = Integer(frames[i].ret)
               /\ data[frames[i].base - 2] = Integer(frames[i].saved)
               /\ data[frames[i].base - 3] = Integer(frames[i].argc)
               /\ frames[i].base <= currentSize
               /\ FirstCell(frames[i]) >= IF i = 1 THEN GlobalCount ELSE frames[i - 1].base
    <3>1. ChainedAt(i)
      BY <1>1 DEF IInv, CallDiscipline
    <3>2. i # 1 => i - 1 \in 1 .. i - 1
      BY <2>1
    <3> QED
      BY <3>1, <3>2 DEF ChainedAt
  <2> QED
    BY <2>2, <2>3 DEF FrameLinks
<1> QED
  BY <1>1, Disciplined, PTL DEF IInv

\* Execute<T> finds the result of the function it started on top of the globals.
THEOREM HostBalanced == Spec => []HaltBalanced
<1>1. ASSUME IInv PROVE HaltBalanced
  BY <1>1 DEF IInv, CallDiscipline, ActiveFrame, HaltBalanced
<1> QED
  BY <1>1, Disciplined, PTL DEF IInv

\* Between two calls of the host the stack is the globals alone.
THEOREM HostIdle == Spec => []IdleAtGlobals
<1>1. ASSUME IInv PROVE IdleAtGlobals
  BY <1>1 DEF IInv, CallDiscipline, ActiveFrame, IdleAtGlobals
<1> QED
  BY <1>1, Disciplined, PTL DEF IInv

\* Every cell an instruction pops or addresses is its own function's: the
\* missing bounds checks of Stack::pop and Stack::operator[] are not needed.
THEOREM OperandsSafe == Spec => []OperandsInFrame
<1>1. ASSUME IInv PROVE OperandsInFrame
  <2> SUFFICES ASSUME running, Depth > 0
               PROVE  /\ currentSize - Pops(command_ptr_) >= stack_base
                      /\ At("retv") => currentSize > stack_base
                      /\ At("test") => currentSize - 2 >= stack_base
                      /\ At("call") => currentSize - 1 - Top.v >= stack_base
                      /\ At("callByVariable")
                           => currentSize - 2 - data[currentSize - 2].v >= stack_base
                      /\ At("pushLocal") \/ At("popLocal") =>
                           stack_base + Instr.arg
                             \in Arguments(Active) \cup (stack_base .. currentSize - 1)
    BY DEF OperandsInFrame
  <2> DEFINE a == command_ptr_
             d == MinDepth[a]
  <2>1. /\ a \in Addr /\ d \in Nat /\ currentSize \in Int /\ stack_base \in Int
        /\ currentSize - stack_base >= d
        /\ Verified(a, GlobalCount) /\ Code[a].arg \in Int
    BY <1>1, CodeAt, SizeAssumption DEF IInv, TypeOK, CallDiscipline, ActiveFrame, Instruction
  <2>2. Pops(a) \in Nat /\ Pops(a) <= d
    BY <2>1 DEF Verified
  <2>3. currentSize - Pops(a) >= stack_base
    BY <2>1, <2>2
  <2>4. At("retv") => d >= 1
    BY <2>1 DEF Verified, At, Instr
  <2>5. At("test") => d >= 2
    BY <2>1 DEF Verified, At, Instr
  <2>6. ASSUME At("call") PROVE currentSize - 1 - Top.v >= stack_base
    <3>1. Code[a].op = "call" /\ d >= 1 + Code[a - 1].arg /\ AfterConst(a)
      BY <2>1, <2>6 DEF Verified, At, Instr
    <3>2. Top.v = Code[a - 1].arg
      BY <1>1, <3>1 DEF IInv, CallDiscipline, PushedBefore, Straight, Instr, Integer
    <3>3. Code[a - 1].arg \in Nat
      BY <3>1, CodeAt DEF AfterConst, Verified
    <3> QED
      BY <2>1, <3>1, <3>2, <3>3
  <2>7. ASSUME At("callByVariable")
        PROVE  currentSize - 2 - data[currentSize - 2].v >= stack_base
    <3>1. /\ Code[a].op = "callByVariable" /\ d >= 2 + Code[a - 1].arg
          /\ a - 1 \in Addr /\ Code[a - 1].op = "pushFun"
      BY <2>1, <2>7 DEF Verified, At, Instr
    <3>2. data[currentSize - 2].v = Code[a - 1].arg
      BY <1>1, <3>1 DEF IInv, CallDiscipline, PushedBefore, Straight, Instr, Integer
    <3>3. Code[a - 1].arg \in Nat
      BY <3>1, CodeAt DEF AfterConst, Verified
    <3> QED
      BY <2>1, <3>1, <3>2, <3>3
  <2>8. ASSUME At("pushLocal") \/ At("popLocal")
        PROVE  stack_base + Instr.arg
                 \in Arguments(Active) \cup (stack_base .. currentSize - 1)
    <3>1. /\ Instr.op # "halt" /\ Instr.arg \in Int
          /\ At("pushLocal") => Addressable(a, Instr.arg, d)
          /\ At("popLocal") => Addressable(a, Instr.arg, d - 1) /\ d - 1 \in Nat
      <4>1. Instr.op \in {"pushLocal", "popLocal"} /\ Instr.arg = Code[a].arg
        BY <2>8 DEF At, Instr
      <4>2. Instr.op = "popLocal" => d - 1 \in Nat
        BY <2>1, <2>2 DEF Pops, Instr
      <4> QED
        BY <2>1, <4>1, <4>2 DEF Verified, At, Instr
    <3>2. \/ stack_base + Instr.arg \in Arguments(Active)
          \/ /\ stack_base + Instr.arg >= stack_base
             /\ stack_base + Instr.arg < stack_base + d
      <4>1. CASE At("pushLocal")
        BY <1>1, <2>1, <3>1, <4>1, OwnCell
      <4>2. CASE At("popLocal")
        <5>1. d - 1 <= currentSize - stack_base
          BY <2>1
        <5>2. \/ stack_base + Instr.arg \in Arguments(Active)
              \/ /\ stack_base + Instr.arg >= stack_base
                 /\ stack_base + Instr.arg < stack_base + (d - 1)
          BY <1>1, <2>1, <3>1, <4>2, <5>1, OwnCell
        <5> QED
          BY <2>1, <3>1, <5>2
      <4> QED BY <2>8, <4>1, <4>2
    <3> QED
      BY <2>1, <3>1, <3>2
  <2> QED
    BY <2>1, <2>3, <2>4, <2>5, <2>6, <2>7, <2>8
<1> QED
  BY <1>1, Disciplined, PTL DEF IInv

\* What each step of the running function does to the stack below its frame
\* and to the history of calls.
LEMMA StepShape ==
  ASSUME IInv, Step, running, running', Depth > 0
  PROVE  \/ Isolated
         \/ /\ Len(frames') = Depth + 1
            /\ \A i \in GlobalCount .. stack_base - 1 : data'[i] = data[i]
         \/ OpReturn \/ OpReturnV
<1>1. ASSUME NEW s \in Int, NEW cells \in Seq(Cell),
             s >= stack_base, data' = Stacked(data, s, cells)
      PROVE  \A i \in GlobalCount .. stack_base - 1 : data'[i] = data[i]
  <2>1. /\ data \in [Slot -> Cell] /\ stack_base \in 0 .. STACK_SIZE
    BY DEF IInv, TypeOK
  <2>2. \A i \in GlobalCount .. stack_base - 1 : i \in Slot /\ i < s
    BY <1>1, <2>1, SizeAssumption DEF Slot
  <2> QED
    BY <1>1, <2>1, <2>2, StackedType
<1>2. CASE LocalStep
  BY <1>2, LocalStepKeeps
<1>3. CASE OpCall
  <2>1. /\ Instr.op # "halt" /\ ~(currentSize + 2 > STACK_SIZE)
        /\ data' = Stacked(data, currentSize, <<Integer(stack_base), Integer(Next1)>>)
        /\ Len(frames') = Depth + 1
    BY <1>3 DEF OpCall, At, Throw, Depth, IInv, TypeOK
  <2>2. /\ currentSize \in Int /\ stack_base \in Nat /\ currentSize >= stack_base
        /\ command_ptr_ \in Nat
    BY <2>1, HasFrame, CodeAt DEF Addr
  <2> DEFINE cells == <<Integer(stack_base), Integer(Next1)>>
  <2>3. cells \in Seq(Cell)
    BY <2>2, CellTypes DEF Next1
  <2> HIDE DEF cells
  <2>4. data' = Stacked(data, currentSize, cells)
    BY <2>1 DEF cells
  <2>5. \A i \in GlobalCount .. stack_base - 1 : data'[i] = data[i]
    BY <1>1, <2>2, <2>3, <2>4
  <2> QED
    BY <2>1, <2>5
<1>4. CASE OpCallByVariable
  <2> DEFINE a == command_ptr_
             cells == [j \in 1 .. 2 + Captures[Top.v] |->
                         CASE j = 1 -> Integer(stack_base)
                           [] j = 2 -> Integer(Next1)
                           [] OTHER -> Computed]
  <2>1. Instr.op = "callByVariable" /\ Instr.op # "halt"
    BY <1>4 DEF OpCallByVariable, At
  <2>2. /\ data' = Stacked(data, currentSize - 1, cells)
        /\ Len(frames') = Depth + 1
    BY <1>4 DEF OpCallByVariable, Throw, Depth, IInv, TypeOK
  <2>3. /\ currentSize \in Int /\ stack_base \in Nat /\ a \in Addr
        /\ currentSize - stack_base >= MinDepth[a] /\ MinDepth[a] \in Nat
    BY <2>1, HasFrame, CodeAt
  <2>4. Top.v \in Lambdas
    BY <2>1 DEF IInv, CallDiscipline, PushedBefore, Straight, Instr, Function, FunctionsOfType
  <2>5. Captures[Top.v] \in Nat /\ Next1 \in Nat
    BY <2>3, <2>4, FunctionAt DEF Callable, Entries, Next1, Addr
  <2>6. cells \in Seq(Cell)
    <3>1. Integer(Next1) \in Cell /\ Integer(stack_base) \in Cell
      BY <2>3, <2>5, CellTypes
    <3>2. cells \in [1 .. 2 + Captures[Top.v] -> Cell] /\ 2 + Captures[Top.v] \in Nat
      BY <2>5, <3>1, CellTypes
    <3> QED BY <3>2
  <2> HIDE DEF cells
  <2>7. MinDepth[a] >= 1
    <3>1. a - 1 \in Addr /\ Code[a - 1].op = "pushFun" /\ MinDepth[a] >= 2 + Code[a - 1].arg
      BY <2>1, <2>3, CodeAt DEF Verified, Instr
    <3>2. Code[a - 1].arg \in Nat
      BY <3>1, CodeAt DEF Verified, AfterConst
    <3> QED
      BY <2>3, <3>1, <3>2
  <2>8. currentSize - 1 \in Int /\ currentSize - 1 >= stack_base
    BY <2>3, <2>7
  <2>9. \A i \in GlobalCount .. stack_base - 1 : data'[i] = data[i]
    BY <1>1, <2>2, <2>6, <2>8
  <2> QED
    BY <2>2, <2>9
<1>5. CASE Halt
  BY <1>5 DEF Halt
<1> QED
  BY <1>2, <1>3, <1>4, <1>5 DEF Step

\* A return, seen from the frame it leaves.
LEMMA ReturnShape ==
  ASSUME IInv, running, OpReturn \/ OpReturnV
  PROVE  /\ frames' = SubSeq(frames, 1, Depth - 1)
         /\ Len(frames') < Depth
         /\ command_ptr_' = Active.ret
         /\ stack_base' = Active.saved
         /\ currentSize' = FirstCell(Active) + Returns[Active.fn]
         /\ \A i \in GlobalCount .. FirstCell(Active) - 1 : data'[i] = data[i]
<1> DEFINE a == command_ptr_
<1>1. Code[a].op \in {"ret", "retv"} /\ Instr.op # "halt" /\ a \in Addr
  BY HasFrame DEF OpReturn, OpReturnV, At, Instr
<1>2. /\ Depth \in Nat /\ Depth > 0 /\ Depth \in 1 .. Depth
      /\ stack_base = Active.base /\ Active.fn = Owner[a]
      /\ Active.base \in Nat /\ Active.argc \in Nat
      /\ currentSize \in 0 .. STACK_SIZE /\ Active.base <= currentSize
      /\ FirstCell(Active) = Active.base - 3 - Active.argc
      /\ currentSize - stack_base >= MinDepth[a] /\ MinDepth[a] \in Nat
  <2>1. Depth \in Nat /\ Depth > 0 /\ Depth \in 1 .. Depth
    BY <1>1, HasFrame
  <2> QED
    BY <1>1, <2>1, HasFrame, FrameBounds, CodeAt DEF Active
<1>3. \E result \in Seq(Cell) : LeaveFrame(result) /\ Len(result) = Returns[Active.fn]
  <2>1. CASE OpReturn
    <3>1. Returns[Owner[a]] = 0 /\ <<>> \in Seq(Cell) /\ Len(<<>>) = 0
      BY <1>1, <2>1, CodeAt DEF Verified, OpReturn, At, Instr
    <3> QED
      BY <1>2, <2>1, <3>1 DEF OpReturn
  <2>2. CASE OpReturnV
    <3>1. Returns[Owner[a]] = 1 /\ MinDepth[a] >= 1
      BY <1>1, <2>2, CodeAt DEF Verified, OpReturnV, At, Instr
    <3>2. currentSize - 1 \in Slot
      BY <1>2, <3>1, SizeAssumption DEF Slot
    <3>3. <<Top>> \in Seq(Cell) /\ Len(<<Top>>) = 1 /\ LeaveFrame(<<Top>>)
      BY <2>2, <3>2 DEF Top, IInv, TypeOK, OpReturnV
    <3> QED
      BY <1>2, <3>1, <3>3
  <2> QED BY <2>1, <2>2
<1>4. PICK result \in Seq(Cell) : LeaveFrame(result) /\ Len(result) = Returns[Active.fn]
  BY <1>3
<1>5. /\ data' = Stacked(data, FirstCell(Active), result)
      /\ currentSize' = FirstCell(Active) + Returns[Active.fn]
      /\ stack_base' = Active.saved
      /\ command_ptr_' = Active.ret
      /\ frames' = SubSeq(frames, 1, Depth - 1)
  BY <1>1, <1>2, <1>4, LinksOfActive DEF LeaveFrame, Depth
<1>6. \A i \in GlobalCount .. FirstCell(Active) - 1 : data'[i] = data[i]
  <2>1. FirstCell(Active) \in Int /\ data \in [Slot -> Cell]
    BY <1>2 DEF IInv, TypeOK
  <2>2. \A i \in GlobalCount .. FirstCell(Active) - 1 : i \in Slot /\ i < FirstCell(Active)
    BY <1>2, SizeAssumption DEF Slot
  <2> QED
    BY <1>5, <2>1, <2>2, StackedType
<1>7. Len(frames') < Depth
  <2>1. Depth - 1 \in Int /\ 1 \in Int /\ \A i \in 1 .. Depth - 1 : frames[i] \in Frame
    BY <1>2 DEF IInv, TypeOK, Depth
  <2>2. Len(SubSeq(frames, 1, Depth - 1)) = IF 1 <= Depth - 1 THEN (Depth - 1) - 1 + 1 ELSE 0
    BY <2>1, SubSeqProperties
  <2> QED
    BY <1>2, <1>5, <2>2
<1> QED
  BY <1>5, <1>6, <1>7

\* No step of a function changes its callers' cells or its own links.
THEOREM Isolation == Spec => FrameIsolation
<1> DEFINE A == running /\ running' /\ Depth > 0 =>
                  \A i \in GlobalCount .. stack_base - 1 :
                    \/ i \in Arguments(Active)
                    \/ Len(frames') < Depth /\ i >= FirstCell(Active)
                    \/ data'[i] = data[i]
<1>1. ASSUME IInv, Next PROVE A
  <2> SUFFICES ASSUME running, running', Depth > 0,
                      NEW i \in GlobalCount .. stack_base - 1
               PROVE  \/ i \in Arguments(Active)
                      \/ Len(frames') < Depth /\ i >= FirstCell(Active)
                      \/ data'[i] = data[i]
    OBVIOUS
  <2>1. Step
    BY <1>1 DEF Next, Execute
  <2>2. CASE OpReturn \/ OpReturnV
    <3>1. Len(frames') < Depth
      BY <1>1, <2>2, ReturnShape
    <3>2. i >= FirstCell(Active) \/ i \in GlobalCount .. FirstCell(Active) - 1
      <4>1. Depth \in 1 .. Depth
        BY <1>1 DEF IInv, TypeOK, Depth
      <4>2. FirstCell(Active) \in Int
        BY <1>1, <4>1, FrameBounds DEF Active
      <4>3. stack_base \in Int
        BY <1>1, SizeAssumption DEF IInv, TypeOK
      <4> QED
        BY <4>2, <4>3, SizeAssumption
    <3> QED
      BY <1>1, <2>2, <3>1, <3>2, ReturnShape
  <2>3. CASE ~(OpReturn \/ OpReturnV)
    BY <1>1, <2>1, <2>3, StepShape DEF Isolated
  <2> QED BY <2>2, <2>3
<1>2. ASSUME IInv, [Next]_vars PROVE [A]_vars
  BY <1>1, <1>2
<1>3. FrameIsolation <=> [][A]_vars
  BY PTL DEF FrameIsolation
<1> HIDE DEF A
<1> QED
  BY <1>2, <1>3, Disciplined, PTL DEF Spec, IInv

\* A return goes to the instruction after its call, with the caller's frame
\* and a balanced stack.
THEOREM Returning == Spec => ReturnsToCaller
<1> DEFINE A == running /\ running' /\ Len(frames') < Depth =>
                  /\ frames' = SubSeq(frames, 1, Depth - 1)
                  /\ command_ptr_' = Active.ret
                  /\ stack_base' = Active.saved
                  /\ currentSize' = FirstCell(Active) + Returns[Active.fn]
<1>1. ASSUME IInv, Next PROVE A
  <2> SUFFICES ASSUME running, running', Len(frames') < Depth
               PROVE  OpReturn \/ OpReturnV
    BY <1>1, ReturnShape
  <2>1. Step
    BY <1>1 DEF Next, Execute
  <2>2. Depth \in Nat
    BY <1>1 DEF IInv, TypeOK, Depth
  <2>3. Depth > 0
    <3>1. CASE Depth = 0
      <4>1. Instr.op = "halt"
        BY <1>1, <3>1, HasFrame
      <4>2. Halt
        BY <2>1, <4>1 DEF Step, LocalStep, At, PushConst, PushLocal, PushGlobalValue,
           PushFunctionVariable, OpAllocStack, PopLocal, PopValue, OpPop, Operator,
           OpSysCall, OpPushLambda, OpJmp, OpJmpC, OpJmpNC, OpTest, OpCall,
           OpCallByVariable, OpReturn, OpReturnV
      <4> QED
        BY <4>2 DEF Halt
    <3> QED BY <2>2, <3>1
  <2>4. Isolated => Len(frames') = Depth
    BY DEF Isolated, Depth
  <2> QED
    BY <1>1, <2>1, <2>2, <2>3, <2>4, StepShape
<1>2. ASSUME IInv, [Next]_vars PROVE [A]_vars
  BY <1>1, <1>2
<1>3. ReturnsToCaller <=> [][A]_vars
  BY PTL DEF ReturnsToCaller
<1> HIDE DEF A
<1> QED
  BY <1>2, <1>3, Disciplined, PTL DEF Spec, IInv

-----------------------------------------------------------------------------
(* The flat stack implements the stack of activations of module            *)
(* CallStack: every step of the machine is a step of the running           *)
(* activation, a call, a return or the host's, and changes no other one.   *)

acts == Activations
Result == IF running /\ Depth = 0 THEN Slice(data, GlobalCount, currentSize - 1) ELSE <<>>

Part(s, k, n) == SubSeq(s, k, n)

-----------------------------------------------------------------------------
(* Slices of the stack.                                                    *)

\* Slices of arrays that agree.
LEMMA SliceKept ==
  ASSUME NEW d, NEW e, NEW a \in Int, NEW b \in Int, \A x \in a .. b : d[x] = e[x]
  PROVE  Slice(d, a, b) = Slice(e, a, b)
<1>1. \A j \in 1 .. b - a + 1 : a + j - 1 \in a .. b
  OBVIOUS
<1> QED
  BY <1>1 DEF Slice

\* How long a slice is.
LEMMA SliceLength ==
  ASSUME NEW d, NEW a \in Int, NEW b \in Int, b >= a - 1
  PROVE  Len(Slice(d, a, b)) = b - a + 1
<1>1. b - a + 1 \in Nat
  OBVIOUS
<1> QED
  BY <1>1 DEF Slice

\* A part of a slice.
LEMMA SlicePart ==
  ASSUME NEW d, NEW a \in Int, NEW b \in Int, NEW k \in Int, NEW n \in Int,
         NEW p \in Int, NEW q \in Int,
         1 <= k, k <= n + 1, q <= b, p = a + k - 1, q = a + n - 1
  PROVE  Part(Slice(d, a, b), k, n) = Slice(d, p, q)
<1> DEFINE s == Slice(d, a, b)
<1>1. \A j \in 1 .. b - a + 1 : s[j] = d[a + j - 1]
  BY DEF Slice
<1>2. Part(s, k, n) = [j \in 1 .. n - k + 1 |-> s[j + k - 1]]
  BY DEF Part
<1>3. Slice(d, p, q) = [j \in 1 .. n - k + 1 |-> d[p + j - 1]]
  <2>1. q - p + 1 = n - k + 1
    OBVIOUS
  <2> QED
    BY <2>1 DEF Slice
<1> HIDE DEF s
<1>4. ASSUME NEW j \in 1 .. n - k + 1
      PROVE  s[j + k - 1] = d[p + j - 1]
  <2>1. j + k - 1 \in 1 .. b - a + 1 /\ a + (j + k - 1) - 1 = p + j - 1
    OBVIOUS
  <2>2. s[j + k - 1] = d[a + (j + k - 1) - 1]
    BY <1>1, <2>1
  <2> QED
    BY <2>1, <2>2
<1>5. Part(s, k, n) = Slice(d, p, q)
  BY <1>2, <1>3, <1>4
<1> QED
  BY <1>5 DEF s

\* A slice without anything, and with one cell more.
LEMMA SliceEnds ==
  ASSUME NEW d, NEW a \in Int, NEW b \in Int, b >= a - 1
  PROVE  /\ Slice(d, a, a - 1) = <<>>
         /\ Slice(d, a, b + 1) = Slice(d, a, b) \o <<d[b + 1]>>
<1>1. Slice(d, a, a - 1) = <<>>
  BY DEF Slice
<1>2. Slice(d, a, b + 1) = Slice(d, a, b) \o <<d[b + 1]>>
  <2>1. PICK n \in Nat : n = b - a + 1
    OBVIOUS
  <2>2. Slice(d, a, b) = [j \in 1 .. n |-> d[a + j - 1]]
    BY <2>1 DEF Slice
  <2>3. Slice(d, a, b + 1) = [j \in 1 .. n + 1 |-> d[a + j - 1]]
    BY <2>1 DEF Slice
  <2>4. a + (n + 1) - 1 = b + 1
    BY <2>1
  <2>5. Slice(d, a, b) \o <<d[b + 1]>>
          = [j \in 1 .. n + 1 |-> IF j <= n THEN Slice(d, a, b)[j] ELSE <<d[b + 1]>>[j - n]]
    BY <2>2
  <2> QED
    BY <2>2, <2>3, <2>4, <2>5
<1> QED
  BY <1>1, <1>2

-----------------------------------------------------------------------------
(* Activations and frames.                                                 *)

\* The activation of the i-th frame.
LEMMA ActivationIs ==
  ASSUME IInv
  PROVE  /\ Depth \in Nat
         /\ Len(acts) = Depth
         /\ \A i \in 1 .. Depth :
              /\ acts[i].fn = frames[i].fn
              /\ acts[i].pc = IF i = Depth THEN command_ptr_ ELSE frames[i + 1].ret
              /\ acts[i].args = Slice(data, FirstCell(frames[i]), frames[i].base - 4)
              /\ acts[i].cells = Slice(data, frames[i].base,
                                   IF i = Depth THEN currentSize - 1 ELSE FirstCell(frames[i + 1]) - 1)
<1>1. Depth \in Nat
  BY DEF IInv, TypeOK, Depth
<1> QED
  BY <1>1 DEF acts, Activations

\* Where frames lie, one below the other.
LEMMA FrameOrder ==
  ASSUME IInv, NEW i \in 1 .. Depth
  PROVE  /\ Depth \in Nat /\ Depth > 0 /\ Depth \in 1 .. Depth
         /\ frames[i].base \in Int /\ FirstCell(frames[i]) \in Int
         /\ GlobalCount <= FirstCell(frames[i])
         /\ FirstCell(frames[i]) <= frames[i].base - 3
         /\ frames[i].base <= currentSize
         /\ i # Depth => /\ frames[i].base <= FirstCell(frames[i + 1])
                         /\ FirstCell(frames[i + 1]) \in Int
         /\ FirstCell(Active) \in Int
         /\ FirstCell(frames[i]) <= FirstCell(Active)
<1>1. Depth \in Nat /\ Depth > 0 /\ Depth \in 1 .. Depth
  BY DEF IInv, TypeOK, Depth
<1>2. /\ frames[i].base \in Int /\ FirstCell(frames[i]) \in Int
      /\ GlobalCount <= FirstCell(frames[i])
      /\ FirstCell(frames[i]) <= frames[i].base - 3
      /\ frames[i].base <= currentSize
  BY FrameBounds, SizeAssumption
<1>3. i # Depth => /\ frames[i].base <= FirstCell(frames[i + 1])
                   /\ FirstCell(frames[i + 1]) \in Int
  <2> SUFFICES ASSUME i # Depth
               PROVE  frames[i].base <= FirstCell(frames[i + 1]) /\ FirstCell(frames[i + 1]) \in Int
    OBVIOUS
  <2>1. i + 1 \in 1 .. Depth /\ i \in 1 .. (i + 1) - 1
    BY <1>1
  <2>2. /\ \A j \in 1 .. (i + 1) - 1 : frames[j].base <= FirstCell(frames[i + 1])
        /\ FirstCell(frames[i + 1]) = frames[i + 1].base - 3 - frames[i + 1].argc
        /\ frames[i + 1].base \in 3 .. currentSize /\ frames[i + 1].argc \in Nat
    BY <2>1, FrameBounds
  <2>3. FirstCell(frames[i + 1]) \in Int
    BY <2>2
  <2> QED
    BY <2>1, <2>2, <2>3
<1>4. FirstCell(Active) \in Int /\ (i # Depth => frames[i].base <= FirstCell(Active))
  <2>1. FirstCell(Active) \in Int
    BY <1>1, FrameBounds DEF Active
  <2> QED
    BY <1>1, <2>1, BelowActive
<1>5. FirstCell(frames[i]) <= FirstCell(Active)
  <2>1. CASE i = Depth
    BY <2>1, <1>2 DEF Active
  <2>2. CASE i # Depth
    BY <2>2, <1>2, <1>4
  <2> QED
    BY <2>1, <2>2
<1> QED
  BY <1>1, <1>2, <1>3, <1>4, <1>5

\* An activation that waits for the one above it is what it was, if nothing below
\* the first cell of that one changes.
LEMMA Waits ==
  ASSUME IInv, IInv', NEW i \in 1 .. Depth - 1,
         i + 1 <= Depth', frames'[i] = frames[i], frames'[i + 1] = frames[i + 1],
         \A x \in GlobalCount .. FirstCell(frames[i + 1]) - 1 : data'[x] = data[x]
  PROVE  acts'[i] = acts[i]
<1>1. /\ i \in 1 .. Depth /\ i # Depth /\ i + 1 \in 1 .. Depth
      /\ i \in 1 .. Depth' /\ i # Depth' /\ Depth' \in Nat
  BY DEF IInv, TypeOK, Depth
<1> DEFINE a == FirstCell(frames[i])
           b == frames[i].base
           c == FirstCell(frames[i + 1])
<1>2. /\ a \in Int /\ b \in Int /\ c \in Int /\ GlobalCount \in Int
      /\ GlobalCount <= a /\ a <= b - 3 /\ b <= c
  BY <1>1, FrameOrder, SizeAssumption
<1>3. FirstCell(frames'[i]) = a /\ FirstCell(frames'[i + 1]) = c
  OBVIOUS
<1>4. Slice(data', a, b - 4) = Slice(data, a, b - 4)
  <2>1. \A x \in a .. b - 4 : data'[x] = data[x]
    <3> HIDE DEF a, b
    <3> QED
      BY <1>2
  <2>2. b - 4 \in Int
    BY <1>2
  <2> QED
    BY <1>2, <2>1, <2>2, SliceKept
<1>5. Slice(data', b, c - 1) = Slice(data, b, c - 1)
  <2>1. \A x \in b .. c - 1 : data'[x] = data[x]
    <3> HIDE DEF a, b
    <3> QED
      BY <1>2
  <2>2. c - 1 \in Int
    BY <1>2
  <2> QED
    BY <1>2, <2>1, <2>2, SliceKept
<1>6. acts[i] = [fn |-> frames[i].fn, pc |-> frames[i + 1].ret,
                 args |-> Slice(data, a, b - 4), cells |-> Slice(data, b, c - 1)]
  BY <1>1 DEF acts, Activations
<1>7. acts'[i] = [fn |-> frames[i].fn, pc |-> frames[i + 1].ret,
                  args |-> Slice(data', a, b - 4), cells |-> Slice(data', b, c - 1)]
  BY <1>1, <1>3 DEF acts, Activations, FirstCell
<1> QED
  BY <1>4, <1>5, <1>6, <1>7

-----------------------------------------------------------------------------
(* Steps.                                                                  *)

\* The host gets control back: the end of the program, a full stack.
LEMMA Finishes ==
  ASSUME IInv, running, ~running', frames' = <<>>, entryPoint' = entryPoint
  PROVE  Abstract!Finish
<1>1. Depth' = 0
  BY DEF Depth
<1>2. acts' = <<>> /\ Result' = <<>>
  BY <1>1 DEF acts, Activations, Result
<1> QED
  BY <1>2 DEF Abstract!Finish, acts, Result

\* A step of a function changes its own activation only.
LEMMA StaysInside ==
  ASSUME IInv, IInv', running, running', Depth > 0, Isolated, entryPoint' = entryPoint
  PROVE  Abstract!Inside
<1>1. /\ Depth \in Nat /\ Depth \in 1 .. Depth /\ Depth' = Depth /\ frames' = frames
      /\ Len(acts) = Depth /\ Len(acts') = Depth
  BY ActivationIs DEF Isolated, Depth, acts, Activations
<1>2. \A i \in 1 .. Depth - 1 : acts'[i] = acts[i]
  <2> SUFFICES ASSUME NEW i \in 1 .. Depth - 1 PROVE acts'[i] = acts[i]
    OBVIOUS
  <2>1. /\ i + 1 \in 1 .. Depth /\ i + 1 <= Depth'
        /\ frames'[i] = frames[i] /\ frames'[i + 1] = frames[i + 1]
    BY <1>1
  <2>2. \A x \in GlobalCount .. FirstCell(frames[i + 1]) - 1 : data'[x] = data[x]
    <3> SUFFICES ASSUME NEW x \in GlobalCount .. FirstCell(frames[i + 1]) - 1
                 PROVE  data'[x] = data[x]
      OBVIOUS
    <3>1. /\ FirstCell(frames[i + 1]) \in Int /\ FirstCell(Active) \in Int
          /\ FirstCell(frames[i + 1]) <= FirstCell(Active)
          /\ FirstCell(Active) <= Active.base - 3 /\ Active.base \in Int
      BY <2>1, <1>1, FrameOrder DEF Active
    <3>2. stack_base = Active.base
      BY <1>1 DEF IInv, CallDiscipline, ActiveFrame
    <3>3. x \in GlobalCount .. stack_base - 1 /\ x < FirstCell(Active)
      BY <3>1, <3>2, SizeAssumption
    <3>4. x \notin Arguments(Active)
      BY <3>1, <3>3, SizeAssumption DEF Arguments
    <3> QED
      BY <3>3, <3>4 DEF Isolated
  <2> QED
    BY <2>1, <2>2, Waits
<1>3. SubSeq(acts', 1, Depth - 1) = SubSeq(acts, 1, Depth - 1)
  BY <1>1, <1>2
<1>4. /\ acts'[Depth].fn = acts[Depth].fn
      /\ Owner[acts'[Depth].pc] = acts[Depth].fn
      /\ Len(acts'[Depth].args) = Len(acts[Depth].args)
  <2>1. acts[Depth].fn = Active.fn /\ acts'[Depth].fn = Active.fn /\ acts'[Depth].pc = command_ptr_'
    BY <1>1 DEF acts, Activations, Active
  <2>2. Owner[command_ptr_'] = Active.fn
    BY <1>1 DEF IInv, CallDiscipline, ActiveFrame, Active
  <2>3. Len(acts'[Depth].args) = Len(acts[Depth].args)
    <3> DEFINE a == FirstCell(Active)
               b == Active.base - 4
    <3>1. a \in Int /\ b \in Int /\ b >= a - 1
      BY <1>1, FrameOrder DEF Active
    <3>2. acts[Depth].args = Slice(data, a, b) /\ acts'[Depth].args = Slice(data', a, b)
      BY <1>1 DEF acts, Activations, Active, FirstCell
    <3> QED
      BY <3>1, <3>2, SliceLength
  <2> QED
    BY <2>1, <2>2, <2>3
<1>5. Result = <<>> /\ Result' = <<>>
  BY <1>1 DEF Result
<1>6. acts # <<>>
  BY <1>1
<1> QED
  BY <1>1, <1>3, <1>4, <1>5, <1>6
  DEF Abstract!Inside, Abstract!Older, Abstract!Youngest, acts, Result

\* The host starts a function.
LEMMA Starts ==
  ASSUME IInv, IInv', NEW f \in Startable, Execute(f)
  PROVE  Abstract!Start(f)
<1> DEFINE size == currentSize + Arity[f] + 3
<1>1. /\ ~running /\ running' /\ entryPoint' = f /\ command_ptr_' = f /\ currentSize' = size
      /\ frames' = <<[base |-> size, ret |-> 0, saved |-> currentSize,
                      argc |-> Arity[f], fn |-> f]>>
  BY DEF Execute
<1>2. Depth' = 1 /\ frames'[1].base = size /\ frames'[1].fn = f /\ frames'[1].argc = Arity[f]
  BY <1>1 DEF Depth
<1>3. size \in Int /\ Arity[f] \in Nat
  <2>1. f \in Callable
    BY DEF Startable, Callable, Entries
  <2> QED
    BY <2>1, FunctionAt, SizeAssumption DEF IInv, TypeOK
<1> HIDE DEF size
<1>4. /\ Len(acts') = 1
      /\ acts'[1].fn = f /\ acts'[1].pc = f
      /\ acts'[1].args = Slice(data', size - 3 - Arity[f], size - 4)
      /\ acts'[1].cells = Slice(data', size, size - 1)
  BY <1>1, <1>2 DEF acts, Activations, FirstCell
<1>5. Len(acts'[1].args) = Arity[f]
  <2>1. size - 3 - Arity[f] \in Int /\ size - 4 \in Int /\ size - 4 >= (size - 3 - Arity[f]) - 1
    BY <1>3
  <2>2. Len(acts'[1].args) = (size - 4) - (size - 3 - Arity[f]) + 1
    BY <1>4, <2>1, SliceLength
  <2> QED
    BY <1>3, <2>2
<1>6. acts'[1].cells = <<>>
  <2>1. size - 1 \in Int /\ size - 1 >= size - 1
    BY <1>3
  <2> QED
    BY <1>3, <1>4, <2>1, SliceEnds
<1>7. Result = <<>> /\ Result' = <<>>
  BY <1>1, <1>2 DEF Result
<1> QED
  BY <1>1, <1>4, <1>5, <1>6, <1>7 DEF Abstract!Start, acts, Result

\* A call takes its arguments from the caller's cells; what is left there waits.
LEMMA Calls ==
  ASSUME IInv, IInv', running, Instr.op # "halt",
         NEW f \in Callable, NEW s \in Nat, NEW n \in Nat, NEW operands \in {1, 2},
         s = currentSize + 1 - operands, Enters(f, s, n)
  PROVE  Abstract!Call(f, n, operands) /\ n \in 0 .. Len(acts[Depth].cells)
<1> DEFINE base == stack_base
           left == s - 1 - n - base
           new == [base |-> s + 2, ret |-> command_ptr_ + 1,
                   saved |-> base, argc |-> n, fn |-> f]
<1>1. /\ Depth \in Nat /\ Depth > 0 /\ Depth \in 1 .. Depth
      /\ Active = frames[Depth] /\ Active.base = base /\ base \in Nat
      /\ currentSize \in 0 .. STACK_SIZE /\ Len(acts) = Depth
      /\ frames \in Seq(Frame)
  BY HasFrame, ActivationIs DEF Active, IInv, TypeOK
<1>2. /\ s \in Int /\ s <= currentSize /\ s - 1 - n >= base /\ left \in Nat
      /\ \A x \in Slot : x < s => data'[x] = data[x]
      /\ currentSize' = s + 2 + Captures[f] /\ command_ptr_' = f
      /\ frames' = Append(frames, new)
      /\ running' = running /\ entryPoint' = entryPoint
      /\ Captures[f] \in Nat
  BY <1>1, FunctionAt DEF Enters
<1>3. /\ Depth' = Depth + 1 /\ Len(acts') = Depth + 1
      /\ frames'[Depth + 1] = new /\ \A i \in 1 .. Depth : frames'[i] = frames[i]
  <2>1. Len(frames') = Depth + 1 /\ frames'[Depth + 1] = new /\ \A i \in 1 .. Depth : frames'[i] = frames[i]
    BY <1>1, <1>2 DEF Depth
  <2>2. Depth' = Depth + 1
    BY <2>1 DEF Depth
  <2>3. Len(acts') = Depth + 1
    BY <1>1, <2>2 DEF acts, Activations
  <2> QED
    BY <2>1, <2>2, <2>3
<1>4. FirstCell(new) = base + left /\ new.base = s + 2 /\ new.fn = f /\ new.ret = command_ptr_ + 1
  BY <1>1, <1>2 DEF FirstCell
<1> HIDE DEF new
<1>5. \A x \in GlobalCount .. s - 1 : data'[x] = data[x]
  <2>1. s \in 0 .. STACK_SIZE
    BY <1>1, <1>2, SizeAssumption
  <2>2. \A x \in GlobalCount .. s - 1 : x \in Slot /\ x < s
    BY ONLY <2>1, SizeAssumption DEF Slot
  <2> QED
    BY <2>2, <1>2
<1>6. Depth \in 1 .. Depth' /\ Depth # Depth' /\ Depth + 1 \in 1 .. Depth' /\ Depth + 1 = Depth'
  BY <1>1, <1>3
<1>7. \A i \in 1 .. Depth - 1 : acts'[i] = acts[i]
  <2> SUFFICES ASSUME NEW i \in 1 .. Depth - 1 PROVE acts'[i] = acts[i]
    OBVIOUS
  <2>1. /\ i + 1 \in 1 .. Depth /\ i + 1 <= Depth'
        /\ frames'[i] = frames[i] /\ frames'[i + 1] = frames[i + 1]
    BY <1>1, <1>3
  <2>2. /\ FirstCell(frames[i + 1]) \in Int
        /\ FirstCell(frames[i + 1]) <= FirstCell(Active)
        /\ FirstCell(Active) <= base - 3
    BY <2>1, <1>1, FrameOrder
  <2>3. FirstCell(frames[i + 1]) - 1 <= s - 1
    BY <2>2, <1>1, <1>2, FrameOrder
  <2>4. \A x \in GlobalCount .. FirstCell(frames[i + 1]) - 1 : data'[x] = data[x]
    <3>1. s \in Int
      BY <1>2
    <3>2. \A x \in GlobalCount .. FirstCell(frames[i + 1]) - 1 : x \in GlobalCount .. s - 1
      BY ONLY <2>2, <2>3, <3>1, SizeAssumption
    <3> QED
      BY <3>2, <1>5
  <2> QED
    BY <2>1, <2>4, Waits
<1>8. /\ acts[Depth].fn = Active.fn /\ acts[Depth].pc = command_ptr_
      /\ acts[Depth].args = Slice(data, FirstCell(Active), base - 4)
      /\ acts[Depth].cells = Slice(data, base, currentSize - 1)
  BY <1>1, ActivationIs
<1>9. acts'[Depth] = [fn |-> Active.fn, pc |-> command_ptr_ + 1,
                      args |-> Slice(data', FirstCell(Active), base - 4),
                      cells |-> Slice(data', base, base + left - 1)]
  <2>1. /\ frames'[Depth] = Active /\ FirstCell(frames'[Depth]) = FirstCell(Active)
        /\ frames'[Depth + 1].ret = command_ptr_ + 1 /\ FirstCell(frames'[Depth + 1]) = base + left
    BY <1>1, <1>3, <1>4
  <2>2. acts'[Depth] = [fn |-> frames'[Depth].fn, pc |-> frames'[Depth + 1].ret,
                        args |-> Slice(data', FirstCell(frames'[Depth]), frames'[Depth].base - 4),
                        cells |-> Slice(data', frames'[Depth].base, FirstCell(frames'[Depth + 1]) - 1)]
    BY <1>6 DEF acts, Activations, FirstCell
  <2>3. Active.base = base
    BY <1>1
  <2>4. base + left - 1 = (base + left) - 1
    BY <1>1, <1>2
  <2> HIDE DEF left, base
  <2>5. /\ acts'[Depth] = [fn |-> Active.fn, pc |-> command_ptr_ + 1,
                           args |-> Slice(data', FirstCell(Active), base - 4),
                           cells |-> Slice(data', base, FirstCell(frames'[Depth + 1]) - 1)]
    BY <2>1, <2>2, <2>3
  <2> QED
    BY <2>1, <2>4, <2>5
<1>10. /\ acts'[Depth + 1].fn = f /\ acts'[Depth + 1].pc = f
       /\ acts'[Depth + 1].args = Slice(data', base + left, s - 2)
       /\ acts'[Depth + 1].cells = Slice(data', s + 2, s + 2 + Captures[f] - 1)
  <2>1. /\ frames'[Depth + 1].fn = f /\ FirstCell(frames'[Depth + 1]) = base + left
        /\ frames'[Depth + 1].base = s + 2 /\ (s + 2) - 4 = s - 2
    BY <1>2, <1>3, <1>4
  <2>2. currentSize' - 1 = s + 2 + Captures[f] - 1
    BY <1>2
  <2>3. acts'[Depth'] = [fn |-> frames'[Depth'].fn, pc |-> command_ptr_',
                         args |-> Slice(data', FirstCell(frames'[Depth']), frames'[Depth'].base - 4),
                         cells |-> Slice(data', frames'[Depth'].base, currentSize' - 1)]
    BY <1>6 DEF acts, Activations, FirstCell
  <2>4. /\ acts'[Depth + 1].fn = f /\ acts'[Depth + 1].pc = command_ptr_'
        /\ acts'[Depth + 1].args = Slice(data', FirstCell(frames'[Depth + 1]), frames'[Depth + 1].base - 4)
        /\ acts'[Depth + 1].cells = Slice(data', frames'[Depth + 1].base, currentSize' - 1)
    BY ONLY <2>1, <2>3, <1>6
  <2> QED
    BY <2>1, <2>2, <2>4, <1>2
<1>11. Slice(data', FirstCell(Active), base - 4) = Slice(data, FirstCell(Active), base - 4)
  <2>1. FirstCell(Active) \in Int /\ GlobalCount <= FirstCell(Active)
    BY <1>1, FrameOrder
  <2>2. \A x \in FirstCell(Active) .. base - 4 : data'[x] = data[x]
    <3>1. base \in Int /\ s \in Int /\ base - 4 <= s - 1
      BY <1>1, <1>2
    <3>2. \A x \in FirstCell(Active) .. base - 4 : x \in GlobalCount .. s - 1
      BY ONLY <2>1, <3>1, SizeAssumption
    <3> QED
      BY <3>2, <1>5
  <2>3. base - 4 \in Int
    BY <1>1
  <2> QED
    BY <2>1, <2>2, <2>3, SliceKept
<1>12. GlobalCount <= base
  BY <1>1, FrameOrder, SizeAssumption
<1>13. /\ Len(acts[Depth].cells) = currentSize - base
       /\ Len(acts[Depth].cells) - operands - n = left
       /\ n \in 0 .. Len(acts[Depth].cells)
  <2>1. currentSize - 1 \in Int /\ currentSize - 1 >= base - 1
    BY <1>1, <1>2
  <2>2. Len(acts[Depth].cells) = (currentSize - 1) - base + 1
    <3>1. base \in Int
      BY <1>1
    <3>2. Len(Slice(data, base, currentSize - 1)) = (currentSize - 1) - base + 1
      BY ONLY <2>1, <3>1, SliceLength
    <3> QED
      BY <1>8, <3>2
  <2>3. /\ base \in Int /\ currentSize \in Int /\ left \in Nat /\ operands \in Int
        /\ s = currentSize + 1 - operands /\ left = s - 1 - n - base
    BY <1>1, <1>2
  <2> HIDE DEF left, base
  <2> QED
    BY ONLY <2>2, <2>3, n \in Nat
<1>14. Slice(data', base, base + left - 1) = SubSeq(acts[Depth].cells, 1, left)
  <2>1. Slice(data', base, base + left - 1) = Slice(data, base, base + left - 1)
    <3>1. base \in Int /\ s \in Int /\ left \in Int /\ base + left - 1 <= s - 1 /\ base + left - 1 \in Int
      BY <1>1, <1>2
    <3> HIDE DEF left
    <3>2. \A x \in base .. base + left - 1 : x \in GlobalCount .. s - 1
      BY ONLY <3>1, <1>12, SizeAssumption
    <3>3. \A x \in base .. base + left - 1 : data'[x] = data[x]
      BY <3>2, <1>5
    <3> DEFINE top == base + left - 1
    <3>4. top \in Int /\ \A x \in base .. top : data'[x] = data[x]
      BY <3>1, <3>3
    <3> HIDE DEF top
    <3>5. Slice(data', base, top) = Slice(data, base, top)
      BY <3>1, <3>4, SliceKept
    <3> QED
      BY <3>5 DEF top
  <2>2. Part(Slice(data, base, currentSize - 1), 1, left) = Slice(data, base, base + left - 1)
    <3>1. /\ left \in Nat /\ base + left - 1 <= currentSize - 1
          /\ base \in Int /\ currentSize - 1 \in Int
      BY <1>1, <1>2
    <3> HIDE DEF left
    <3>2. /\ left \in Int /\ 1 <= left + 1 /\ base = base + 1 - 1
          /\ base + left - 1 \in Int
      BY ONLY <3>1
    <3> QED
      BY ONLY <3>1, <3>2, SlicePart
  <2> QED
    BY <2>1, <2>2, <1>8 DEF Part
<1>15. Slice(data', base + left, s - 2) = SubSeq(acts[Depth].cells, left + 1, left + n)
  <2>1. base + left \in Int /\ s - 2 \in Int /\ s - 2 = base + (left + n) - 1 /\ GlobalCount <= base + left
    BY <1>1, <1>2, <1>12, SizeAssumption
  <2>2. Slice(data', base + left, s - 2) = Slice(data, base + left, s - 2)
    <3>1. \A x \in base + left .. s - 2 : data'[x] = data[x]
      <4>1. s \in Int
        BY <1>2
      <4> HIDE DEF left
      <4>2. \A x \in base + left .. s - 2 : x \in GlobalCount .. s - 1
        BY ONLY <2>1, <4>1, SizeAssumption
      <4> QED
        BY <4>2, <1>5
    <3> HIDE DEF left
    <3> QED
      BY <2>1, <3>1, SliceKept
  <2>3. Part(Slice(data, base, currentSize - 1), left + 1, left + n) = Slice(data, base + left, s - 2)
    <3>1. left \in Nat /\ base \in Int /\ currentSize - 1 \in Int /\ s - 2 <= currentSize - 1
      BY <1>1, <1>2
    <3> HIDE DEF left
    <3>2. /\ left + 1 \in Int /\ 1 <= left + 1 /\ left + n \in Int /\ left + 1 <= (left + n) + 1
          /\ base + left = base + (left + 1) - 1
      BY ONLY <3>1, n \in Nat
    <3> QED
      BY ONLY <2>1, <3>1, <3>2, SlicePart
  <2> QED
    BY <2>2, <2>3, <1>8 DEF Part
<1>16. Len(acts'[Depth + 1].args) = n /\ Len(acts'[Depth + 1].cells) = Captures[f]
  <2>1. base + left \in Int /\ s - 2 \in Int /\ s - 2 >= base + left - 1 /\ (s - 2) - (base + left) + 1 = n
    BY <1>1, <1>2
  <2>2. /\ s + 2 \in Int /\ s + 2 + Captures[f] - 1 \in Int /\ s + 2 + Captures[f] - 1 >= (s + 2) - 1
        /\ (s + 2 + Captures[f] - 1) - (s + 2) + 1 = Captures[f]
    <3>1. s \in Int /\ Captures[f] \in Nat
      BY <1>2
    <3> QED
      BY ONLY <3>1
  <2> HIDE DEF left
  <2>3. Len(acts'[Depth + 1].args) = n
    <3>1. Len(Slice(data', base + left, s - 2)) = (s - 2) - (base + left) + 1
      BY ONLY <2>1, SliceLength
    <3> QED
      BY <3>1, <2>1, <1>10
  <2>4. Len(acts'[Depth + 1].cells) = Captures[f]
    <3>1. Len(Slice(data', s + 2, s + 2 + Captures[f] - 1)) = (s + 2 + Captures[f] - 1) - (s + 2) + 1
      BY ONLY <2>2, SliceLength
    <3> QED
      BY <3>1, <2>2, <1>10
  <2> QED
    BY <2>3, <2>4
<1>17. SubSeq(acts', 1, Depth)
         = Append(SubSeq(acts, 1, Depth - 1),
                  [fn |-> acts[Depth].fn, pc |-> acts[Depth].pc + 1, args |-> acts[Depth].args,
                   cells |-> SubSeq(acts[Depth].cells, 1, left)])
  <2> DEFINE last == [fn |-> acts[Depth].fn, pc |-> acts[Depth].pc + 1, args |-> acts[Depth].args,
                      cells |-> SubSeq(acts[Depth].cells, 1, left)]
  <2>1. acts'[Depth] = last
    BY <1>8, <1>9, <1>11, <1>14
  <2> HIDE DEF last
  <2>2. SubSeq(acts', 1, Depth) = [i \in 1 .. Depth |-> acts'[i]]
    BY <1>1, <1>3
  <2>3. SubSeq(acts, 1, Depth - 1) = [i \in 1 .. Depth - 1 |-> acts[i]]
    BY <1>1
  <2>4. Append([i \in 1 .. Depth - 1 |-> acts[i]], last)
          = [i \in 1 .. Depth |-> IF i = Depth THEN last ELSE acts[i]]
    BY <1>1
  <2>5. \A i \in 1 .. Depth : acts'[i] = IF i = Depth THEN last ELSE acts[i]
    BY <2>1, <1>7, <1>1
  <2>6. SubSeq(acts', 1, Depth) = Append(SubSeq(acts, 1, Depth - 1), last)
    BY <2>2, <2>3, <2>4, <2>5
  <2> QED
    BY <2>6 DEF last
<1>18. Result = <<>> /\ Result' = <<>> /\ acts # <<>> /\ left >= 0
  BY <1>1, <1>2, <1>3 DEF Result
<1> HIDE DEF left
<1>19. Abstract!Call(f, n, operands)
  BY <1>1, <1>2, <1>3, <1>10, <1>13, <1>15, <1>16, <1>17, <1>18
  DEF Abstract!Call, Abstract!Older, Abstract!Youngest, Abstract!Prefix, acts, Result
<1> QED
  BY <1>13, <1>19

\* The cells above c, when there is at most one.
LEMMA SliceResult ==
  ASSUME NEW d, NEW a \in Int, NEW c \in Int, c >= a, NEW r \in {0, 1}
  PROVE  /\ Slice(d, c, c + r - 1) = IF r = 0 THEN <<>> ELSE <<d[c]>>
         /\ Slice(d, a, c + r - 1) = Slice(d, a, c - 1) \o (IF r = 0 THEN <<>> ELSE <<d[c]>>)
<1>1. c - 1 \in Int /\ c - 1 >= a - 1 /\ (c - 1) + 1 = c
  OBVIOUS
<1>2. CASE r = 0
  <2>1. Slice(d, c, c - 1) = <<>>
    BY SliceEnds, c >= c - 1
  <2>2. Slice(d, a, c - 1) \o <<>> = Slice(d, a, c - 1)
    <3>1. PICK n \in Nat : n = (c - 1) - a + 1
      BY <1>1
    <3>2. Slice(d, a, c - 1) = [j \in 1 .. n |-> d[a + j - 1]]
      BY <3>1 DEF Slice
    <3> QED
      BY <3>2
  <2>3. c + r - 1 = c - 1
    BY <1>2
  <2> QED
    BY <1>2, <2>1, <2>2, <2>3
<1>3. CASE r = 1
  <2>1. Slice(d, a, c) = Slice(d, a, c - 1) \o <<d[c]>>
    <3>1. Slice(d, a, (c - 1) + 1) = Slice(d, a, c - 1) \o <<d[(c - 1) + 1]>>
      BY ONLY <1>1, SliceEnds, a \in Int
    <3> QED
      BY <1>1, <3>1
  <2>2. Slice(d, c, c) = <<d[c]>>
    <3>1. c - c + 1 = 1 /\ c + 1 - 1 = c
      OBVIOUS
    <3>2. Slice(d, c, c) = [j \in 1 .. 1 |-> d[c + j - 1]]
      BY <3>1 DEF Slice
    <3> QED
      BY <3>1, <3>2
  <2>3. c + r - 1 = c
    BY <1>3
  <2> QED
    BY <1>3, <2>1, <2>2, <2>3
<1> QED
  BY <1>2, <1>3

\* What a return leaves above the caller's cells: the abstract result.
LEMMA ReturnPushes ==
  ASSUME IInv, running, OpReturn \/ OpReturnV
  PROVE  /\ running' = running /\ entryPoint' = entryPoint
         /\ Returns[Active.fn] \in {0, 1}
         /\ Abstract!Returned = IF Returns[Active.fn] = 0 THEN <<>> ELSE <<data'[FirstCell(Active)]>>
<1> DEFINE a == command_ptr_
           c == FirstCell(Active)
<1>1. Code[a].op \in {"ret", "retv"} /\ Instr.op # "halt" /\ a \in Addr
  BY HasFrame DEF OpReturn, OpReturnV, At, Instr
<1>2. /\ Depth \in Nat /\ Depth > 0 /\ Depth \in 1 .. Depth
      /\ stack_base = Active.base /\ Active.fn = Owner[a]
      /\ Active.base \in Nat /\ Active.argc \in Nat
      /\ currentSize \in 0 .. STACK_SIZE /\ Active.base <= currentSize
      /\ c = Active.base - 3 - Active.argc /\ GlobalCount <= c
      /\ currentSize - stack_base >= MinDepth[a] /\ MinDepth[a] \in Nat
  <2>1. Depth \in Nat /\ Depth > 0 /\ Depth \in 1 .. Depth
    BY <1>1, HasFrame
  <2> QED
    BY <1>1, <2>1, HasFrame, FrameBounds, CodeAt DEF Active
<1>3. running' = running /\ entryPoint' = entryPoint
  BY DEF OpReturn, OpReturnV, LeaveFrame
<1>4. Abstract!Youngest = acts[Depth] /\ acts[Depth].fn = Active.fn
  BY <1>2, ActivationIs DEF Abstract!Youngest, acts, Active
<1>5. CASE OpReturn
  <2>1. Returns[Active.fn] = 0
    BY <1>1, <1>2, <1>5, CodeAt DEF Verified, OpReturn, At, Instr
  <2> QED
    BY <1>3, <1>4, <2>1 DEF Abstract!Returned
<1>6. CASE OpReturnV
  <2>1. Returns[Active.fn] = 1 /\ MinDepth[a] >= 1
    BY <1>1, <1>2, <1>6, CodeAt DEF Verified, OpReturnV, At, Instr
  <2>2. data' = Stacked(data, c, <<Top>>)
    BY <1>1, <1>2, <1>6, LinksOfActive DEF OpReturnV, LeaveFrame
  <2>3. c \in Slot
    BY <1>2, SizeAssumption DEF Slot
  <2>4. data'[c] = Top
    BY <2>2, <2>3, PushedOne
  <2>5. acts[Depth].cells[Len(acts[Depth].cells)] = Top
    <3>1. acts[Depth].cells = Slice(data, Active.base, currentSize - 1)
      BY <1>2, ActivationIs DEF Active
    <3>2. PICK n \in Nat : n = currentSize - Active.base /\ n >= 1
      BY <1>2, <2>1
    <3>3. (currentSize - 1) - Active.base + 1 = n /\ Active.base + n - 1 = currentSize - 1
      BY <1>2, <3>2
    <3>4. Slice(data, Active.base, currentSize - 1) = [j \in 1 .. n |-> data[Active.base + j - 1]]
      BY <3>3 DEF Slice
    <3>5. Len(acts[Depth].cells) = n /\ acts[Depth].cells[n] = data[Active.base + n - 1]
      BY <3>1, <3>2, <3>4
    <3> QED
      BY <3>3, <3>5 DEF Top
  <2> HIDE DEF c
  <2> QED
    BY <1>3, <1>4, <2>1, <2>4, <2>5 DEF Abstract!Returned, c
<1> QED
  BY <1>5, <1>6

\* A return gives the caller its activation back, with the result on top.
LEMMA GivesBack ==
  ASSUME IInv, IInv', running, OpReturn \/ OpReturnV
  PROVE  Abstract!Return
<1> DEFINE c == FirstCell(Active)
           r == Returns[Active.fn]
           res == IF r = 0 THEN <<>> ELSE <<data'[c]>>
<1>1. Instr.op # "halt"
  BY DEF OpReturn, OpReturnV, At
<1>2. /\ Depth \in Nat /\ Depth > 0 /\ Depth \in 1 .. Depth
      /\ Len(acts) = Depth /\ Active = frames[Depth]
      /\ c \in Int /\ GlobalCount <= c /\ frames \in Seq(Frame)
  BY <1>1, HasFrame, ActivationIs, FrameOrder DEF Active, IInv, TypeOK
<1>3. /\ frames' = SubSeq(frames, 1, Depth - 1)
      /\ command_ptr_' = Active.ret
      /\ currentSize' = c + r
      /\ \A x \in GlobalCount .. c - 1 : data'[x] = data[x]
  BY ReturnShape
<1>4. running' /\ entryPoint' = entryPoint /\ r \in {0, 1} /\ Abstract!Returned = res
  BY ReturnPushes
<1>5. /\ Depth' = Depth - 1 /\ Len(acts') = Depth - 1
      /\ \A i \in 1 .. Depth - 1 : frames'[i] = frames[i]
  <2>1. Depth' = Depth - 1
    BY <1>2, <1>3 DEF Depth
  <2>2. Len(acts') = Depth - 1
    BY <1>2, <2>1 DEF acts, Activations
  <2> QED
    BY <1>2, <1>3, <2>1, <2>2 DEF Depth
<1>6. acts # <<>>
  BY <1>2
<1> HIDE DEF r, c
<1>7. CASE Depth = 1
  <2>1. Depth' = 0 /\ acts' = <<>>
    BY <1>5, <1>7 DEF acts, Activations
  <2>2. c = GlobalCount
    <3>1. ChainedAt(1) /\ Active = frames[1]
      BY <1>2, <1>7 DEF IInv, CallDiscipline
    <3> QED
      BY <3>1 DEF ChainedAt, c
  <2>3. Result' = Slice(data', c, c + r - 1)
    <3>1. Result' = Slice(data', GlobalCount, currentSize' - 1)
      BY <1>4, <2>1 DEF Result
    <3>2. currentSize' - 1 = c + r - 1
      BY <1>2, <1>3, <1>4
    <3> QED
      BY <3>1, <3>2, <2>2
  <2>4. Result' = res
    BY <1>2, <1>4, <2>3, SliceResult, c >= c
  <2> QED
    BY <1>2, <1>4, <1>6, <1>7, <2>1, <2>4 DEF Abstract!Return, acts, Result
<1>8. CASE Depth # 1
  <2> DEFINE k == Depth - 1
             b == frames[k].base
             older == SubSeq(acts, 1, k)
  <2>1. /\ k \in 1 .. Depth /\ k # Depth /\ k + 1 = Depth /\ k \in Nat /\ k > 0
        /\ k \in 1 .. Depth' /\ k = Depth'
    BY <1>2, <1>5, <1>8
  <2>2. /\ b \in Int /\ FirstCell(frames[k]) \in Int /\ GlobalCount <= FirstCell(frames[k])
        /\ FirstCell(frames[k]) <= b - 3 /\ b <= c
    BY <2>1, <1>2, FrameOrder DEF c, Active
  <2>3. acts[k] = [fn |-> frames[k].fn, pc |-> Active.ret,
                   args |-> Slice(data, FirstCell(frames[k]), b - 4),
                   cells |-> Slice(data, b, c - 1)]
    BY <2>1, <1>2 DEF acts, Activations, c, Active
  <2>4. acts'[k] = [fn |-> frames[k].fn, pc |-> Active.ret,
                    args |-> Slice(data', FirstCell(frames[k]), b - 4),
                    cells |-> Slice(data', b, c + r - 1)]
    <3>1. frames'[k] = frames[k] /\ FirstCell(frames'[k]) = FirstCell(frames[k])
      BY <2>1, <1>5
    <3>2. acts'[k] = [fn |-> frames'[k].fn, pc |-> command_ptr_',
                      args |-> Slice(data', FirstCell(frames'[k]), frames'[k].base - 4),
                      cells |-> Slice(data', frames'[k].base, currentSize' - 1)]
      BY <2>1 DEF acts, Activations, FirstCell
    <3>3. currentSize' - 1 = c + r - 1
      BY <1>2, <1>3, <1>4
    <3> HIDE DEF k
    <3> QED
      BY <3>1, <3>2, <3>3, <1>3
  <2>5. Slice(data', FirstCell(frames[k]), b - 4) = Slice(data, FirstCell(frames[k]), b - 4)
    <3>1. \A x \in FirstCell(frames[k]) .. b - 4 : data'[x] = data[x]
      <4> HIDE DEF k, b
      <4> QED
        BY <2>2, <1>2, <1>3, SizeAssumption
    <3>2. b - 4 \in Int
      BY <2>2
    <3> QED
      BY <3>1, <3>2, <2>2, SliceKept
  <2>6. Slice(data', b, c + r - 1) = acts[k].cells \o res
    <3>1. \A x \in b .. c - 1 : data'[x] = data[x]
      <4> HIDE DEF k, b
      <4> QED
        BY <2>2, <1>2, <1>3, SizeAssumption
    <3>2. c - 1 \in Int
      BY <1>2
    <3>3. Slice(data', b, c - 1) = Slice(data, b, c - 1)
      BY <3>1, <3>2, <2>2, SliceKept
    <3>4. Slice(data', b, c + r - 1) = Slice(data', b, c - 1) \o res
      BY <2>2, <1>2, <1>4, SliceResult
    <3> QED
      BY <3>3, <3>4, <2>3
  <2> HIDE DEF b
  <2>7. acts'[k] = [acts[k] EXCEPT !.cells = @ \o res]
    <3> DEFINE all == acts[k].cells \o res
    <3> HIDE DEF k, res
    <3>1. acts'[k].cells = all
      <4>1. acts'[k].cells = Slice(data', b, c + r - 1)
        BY <2>4
      <4> QED
        BY <4>1, <2>6
    <3>2. /\ acts[k].fn = acts'[k].fn /\ acts[k].pc = acts'[k].pc /\ acts[k].args = acts'[k].args
          /\ acts[k] = [fn |-> acts[k].fn, pc |-> acts[k].pc, args |-> acts[k].args,
                        cells |-> acts[k].cells]
          /\ acts'[k] = [fn |-> acts'[k].fn, pc |-> acts'[k].pc, args |-> acts'[k].args,
                         cells |-> acts'[k].cells]
      BY ONLY <2>3, <2>4, <2>5
    <3> HIDE DEF all
    <3>3. [acts[k] EXCEPT !.cells = all]
            = [fn |-> acts[k].fn, pc |-> acts[k].pc, args |-> acts[k].args, cells |-> all]
      BY <3>2
    <3>4. acts'[k] = [acts[k] EXCEPT !.cells = all]
      BY <3>1, <3>2, <3>3
    <3> QED
      BY <3>4 DEF all
  <2>8. \A i \in 1 .. k - 1 : acts'[i] = acts[i]
    <3> SUFFICES ASSUME NEW i \in 1 .. Depth - 2 PROVE acts'[i] = acts[i]
      BY <1>2
    <3>1. /\ i \in 1 .. Depth - 1 /\ i + 1 \in 1 .. Depth /\ i + 1 <= Depth'
          /\ frames'[i] = frames[i] /\ frames'[i + 1] = frames[i + 1]
      BY <1>2, <1>5
    <3>2. FirstCell(frames[i + 1]) \in Int /\ FirstCell(frames[i + 1]) <= c
      BY <3>1, FrameOrder DEF c
    <3>3. \A x \in GlobalCount .. FirstCell(frames[i + 1]) - 1 : data'[x] = data[x]
      BY <3>2, <1>2, <1>3, SizeAssumption
    <3> QED
      BY <3>1, <3>3, Waits
  <2>9. older = [i \in 1 .. k |-> acts[i]]
    BY <1>2, <2>1
  <2>10. acts' = [i \in 1 .. k |-> acts'[i]]
    BY <2>1 DEF acts, Activations
  <2> HIDE DEF k
  <2>11. acts' = [older EXCEPT ![k].cells = @ \o res]
    <3> HIDE DEF res
    <3>1. [older EXCEPT ![k].cells = @ \o res]
            = [i \in 1 .. k |-> IF i = k THEN [acts[k] EXCEPT !.cells = @ \o res] ELSE acts[i]]
      BY <2>1, <2>9
    <3>2. \A i \in 1 .. k : acts'[i] = IF i = k THEN [acts[k] EXCEPT !.cells = @ \o res] ELSE acts[i]
      BY <2>1, <2>7, <2>8
    <3> QED
      BY <2>10, <3>1, <3>2
  <2>12. Result = <<>> /\ Result' = <<>>
    BY <1>2, <1>5, <2>1 DEF Result
  <2>13. Len(acts) # 1 /\ k = Len(acts) - 1 /\ Abstract!Older = older
    BY <1>2, <1>8, <2>1 DEF Abstract!Older, acts, k
  <2> HIDE DEF older, res
  <2> QED
    BY <1>4, <1>6, <2>11, <2>12, <2>13 DEF Abstract!Return, acts, Result
<1> QED
  BY <1>7, <1>8

-----------------------------------------------------------------------------
(* The refinement.                                                         *)

\* A step inside a function either stays in its activation or fills the stack.
LEMMA LocalImplements ==
  ASSUME IInv, IInv', LocalStep
  PROVE  Abstract!CallNext
<1>1. running /\ Instr.op # "halt" /\ entryPoint' = entryPoint /\ (~running' => frames' = <<>>)
  BY DEF LocalStep, At, PushConst, PushLocal, PushGlobalValue, PushFunctionVariable, OpAllocStack,
     PopLocal, PopValue, OpPop, Operator, OpSysCall, OpPushLambda, OpJmp, OpJmpC, OpJmpNC, OpTest,
     Replace, PopInto, Throw
<1>2. Isolated /\ Depth > 0
  BY <1>1, LocalStepKeeps, HasFrame
<1>3. CASE running'
  BY <1>1, <1>2, <1>3, StaysInside DEF Abstract!CallNext
<1>4. CASE ~running'
  BY <1>1, <1>4, Finishes DEF Abstract!CallNext
<1> QED
  BY <1>3, <1>4

\* A function that is entered with one of its two instructions is an abstract call.
LEMMA EnterImplements ==
  ASSUME IInv, IInv', running, Instr.op # "halt",
         NEW f \in Callable, NEW s \in Nat, NEW n \in Nat,
         s = IF f \in Lambdas THEN currentSize - 1 ELSE currentSize,
         Enters(f, s, n)
  PROVE  Abstract!CallNext
<1> DEFINE operands == IF f \in Lambdas THEN 2 ELSE 1
<1>1. operands \in {1, 2} /\ s = currentSize + 1 - operands
  BY DEF IInv, TypeOK
<1> HIDE DEF operands
<1>2. Abstract!Call(f, n, operands) /\ n \in 0 .. Len(acts[Depth].cells)
  BY <1>1, Calls
<1>3. f # 0 => n = Arity[f]
  BY DEF Enters
<1>4. acts # <<>> /\ Abstract!Youngest = acts[Depth]
  BY HasFrame, ActivationIs DEF Abstract!Youngest, acts
<1> QED
  <2>1. Abstract!Call(f, n, IF f \in Lambdas THEN 2 ELSE 1)
    BY <1>2 DEF operands
  <2>2. n \in 0 .. Len(Abstract!Youngest.cells) /\ Activations # <<>>
    BY <1>2, <1>4 DEF acts
  <2> QED
    BY <2>1, <2>2, <1>3 DEF Abstract!CallNext, Callable, Entries, Abstract!Callable, Abstract!Entries

\* Every step of the machine is a step of the stack of activations.
LEMMA StepImplements ==
  ASSUME IInv, IInv', Next
  PROVE  Abstract!CallNext
<1>1. CASE LocalStep
  BY <1>1, LocalImplements
<1>2. CASE OpCall
  <2>1. running /\ Instr.op # "halt"
    BY <1>2 DEF OpCall, At
  <2>2. CASE currentSize + 2 > STACK_SIZE
    <3>1. ~running' /\ frames' = <<>> /\ entryPoint' = entryPoint
      BY <1>2, <2>2 DEF OpCall, Throw
    <3> QED
      BY <2>1, <3>1, Finishes DEF Abstract!CallNext
  <2>3. CASE ~(currentSize + 2 > STACK_SIZE)
    <3>1. PICK f \in Functions \cup {0}, n \in Nat : Enters(f, currentSize, n)
      BY <1>2, <2>3, CallEnters
    <3>2. f \in Callable /\ f \notin Lambdas /\ currentSize \in Nat
      BY CodeAssumption DEF WellFormed, Callable, Entries, IInv, TypeOK
    <3> QED
      BY <2>1, <3>1, <3>2, EnterImplements
  <2> QED
    BY <2>2, <2>3
<1>3. CASE OpCallByVariable
  <2>1. running /\ Instr.op # "halt"
    BY <1>3 DEF OpCallByVariable, At
  <2>2. CASE currentSize - 1 + 2 + Captures[Top.v] > STACK_SIZE
    <3>1. ~running' /\ frames' = <<>> /\ entryPoint' = entryPoint
      BY <1>3, <2>2 DEF OpCallByVariable, Throw
    <3> QED
      BY <2>1, <3>1, Finishes DEF Abstract!CallNext
  <2>3. CASE ~(currentSize - 1 + 2 + Captures[Top.v] > STACK_SIZE)
    <3>1. PICK f \in Lambdas, n \in Nat : currentSize - 1 \in Nat /\ Enters(f, currentSize - 1, n)
      BY <1>3, <2>3, CallByVariableEnters
    <3>2. f \in Callable
      BY DEF Callable, Entries
    <3> QED
      BY <2>1, <3>1, <3>2, EnterImplements
  <2> QED
    BY <2>2, <2>3
<1>4. CASE OpReturn \/ OpReturnV
  <2>1. running
    BY <1>4 DEF OpReturn, OpReturnV, At
  <2> QED
    BY <1>4, <2>1, GivesBack DEF Abstract!CallNext
<1>5. CASE Halt
  <2>1. running /\ ~running' /\ frames' = <<>> /\ entryPoint' = entryPoint
    BY <1>5 DEF Halt, At
  <2> QED
    BY <2>1, Finishes DEF Abstract!CallNext
<1>6. ASSUME NEW f \in Startable, Execute(f) PROVE Abstract!CallNext
  BY <1>6, Starts DEF Abstract!CallNext, Startable
<1> QED
  BY <1>1, <1>2, <1>3, <1>4, <1>5, <1>6 DEF Next, Step

\* For every well-formed program and every size of the stack, the flat stack,
\* with its links among the data, behaves as a stack of private activations.
THEOREM Implements == Spec => ImplementsCallStack
<1>1. Init => Abstract!CallInit
  <2> SUFFICES ASSUME Init PROVE Abstract!CallInit
    OBVIOUS
  <2>1. Depth = 0 /\ ~running /\ entryPoint = 0
    BY DEF Init, Depth
  <2>2. acts = <<>> /\ Result = <<>>
    BY <2>1 DEF acts, Activations, Result
  <2> QED
    BY <2>1, <2>2 DEF Abstract!CallInit, acts, Result
<1>2. IInv /\ IInv' /\ [Next]_vars => [Abstract!CallNext]_(Abstract!callVars)
  <2> SUFFICES ASSUME IInv, IInv', [Next]_vars PROVE [Abstract!CallNext]_(Abstract!callVars)
    OBVIOUS
  <2>1. CASE Next
    BY <2>1, StepImplements
  <2>2. CASE UNCHANGED vars
    <3>1. acts' = acts /\ Result' = Result /\ running' = running /\ entryPoint' = entryPoint
      BY <2>2 DEF vars, acts, Activations, Result, Depth, FirstCell, Slice
    <3> QED
      BY <3>1 DEF Abstract!callVars, acts, Result
  <2> QED
    BY <2>1, <2>2
<1>3. Spec => []IInv
  BY Disciplined DEF IInv
<1> QED
  BY <1>1, <1>2, <1>3, PTL DEF Spec, ImplementsCallStack, Abstract!CallStackSpec

=============================================================================
