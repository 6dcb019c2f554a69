------------------------------- MODULE Tasks -------------------------------
(***************************************************************************)
(* Events and tasks: what happens when machines are entered from more than *)
(* one place (VirtualMachine.cpp:79-94, 207-273).                          *)
(*                                                                         *)
(* RegistEvent hands the event system a function that calls Execute on     *)
(* this machine; whoever executes the event calls it, on its own thread,   *)
(* also a script that is being executed.  PushTask clones the machine; a   *)
(* worker thread executes a function on the clone and deletes it.  The     *)
(* event and the task system are libraries: a set of listeners that are    *)
(* called one after the other, and a queue.                                *)
(*                                                                         *)
(* A function is any sequence of at most MaxLength of the instructions     *)
(* that matter here, then a return.  The stack holds what is above the     *)
(* globals.  A global refers to an object.  Assigning one variable to      *)
(* another makes them one object, and a clone gets the objects of its      *)
(* machine: what is then done to the object itself, every variable that    *)
(* refers to it shows, on whichever thread.  An object counts with what it *)
(* consists of; members that are references are left out.                  *)
(***************************************************************************)
EXTENDS Integers, Sequences, FiniteSets, TLC

CONSTANTS
  Host, Workers,     \* threads
  Functions, Main,   \* what tasks and listeners call; what the host calls
  Events,
  Globals, Locals,   \* names of variables
  Values,
  Initial,           \* the value a global is allocated with
  MaxMachines,       \* bound on machines ever made
  MaxLength,         \* bound on the instructions of a function
  MaxNest,           \* bound on loops inside loops on one thread
  MaxRuns            \* bound on the host's calls

Threads == {Host} \cup Workers
Machines == 1 .. MaxMachines
Objects == 1 .. MaxMachines * (Cardinality(Globals) + Cardinality(Locals)) + 1

\* The address 0 is that of the VM_HALT: no function begins there.
ASSUME TasksAssumption ==
  /\ Host \notin Workers /\ Main \notin Functions /\ Initial \in Values
  /\ "halt" \notin Functions \cup {Main}
  /\ MaxMachines \in Nat \ {0} /\ MaxLength \in Nat /\ MaxNest \in Nat \ {0, 1} /\ MaxRuns \in Nat
  /\ IsFiniteSet(Globals) /\ IsFiniteSet(Locals) /\ IsFiniteSet(Workers)

VARIABLES
  alive,        \* machines constructed and not deleted
  made,         \* how many have been constructed
  p_host,       \* the host's machine, 0 if it has none
  valueStack, stack_base,
  command_ptr,  \* [function, at]; function "halt" is the VM_HALT at address 0
  cells,        \* of each machine: its globals, as objects
  locals,       \* of each machine: the objects its function's variables and
                \* operands have from globals, 0 for those that have none
  contents,     \* of each object
  loops,        \* of each thread: the loops of Execute_ it is in, each with the
                \* listeners its machine's instruction has still to call
  listeners,    \* of the event system
  tasks,        \* of the task system
  result,       \* what Execute gave the host last
  undefined,    \* the program has done what C++ does not define
  runs,
  careful       \* history: only the host's machines have listeners, only the
                \* host executes events they listen to, and before it destroys
                \* a machine its listeners are unregistered

machine == <<valueStack, stack_base, command_ptr>>
heap == <<cells, locals, contents>>
vars == <<alive, made, p_host, machine, heap, loops, listeners, tasks, result,
          undefined, runs, careful>>

Null == [is |-> "null"]
Local == [is |-> "local"]
Link(n) == [is |-> "link", to |-> n]
ResultOf(f) == [is |-> "result", of |-> f]

At(f) == [function |-> f, at |-> 0]
Halt == At("halt")

Listener(e, m, f) == [event |-> e, machine |-> m, function |-> f]
Task(m, f) == [machine |-> m, function |-> f]

\* A loop of Execute_; machine 0 stands for the host that executes an event.
Loop(m, entry, called) == [machine |-> m, entryPoint |-> entry, toCall |-> called]

Top(s) == s[Len(s)]
Cut(s, n) == SubSeq(s, 1, Len(s) - n)
Resized(s, n) == [i \in 1 .. n |-> IF i <= Len(s) THEN s[i] ELSE Null]

\* A function begins with no object of a global.
Bare == [l \in Locals |-> 0]

\* The objects machine m refers to.
Within(m) == {cells[m][g] : g \in Globals} \cup ({locals[m][l] : l \in Locals} \ {0})
InUse == UNION {Within(m) : m \in alive}
Free == CHOOSE o \in Objects \ InUse : TRUE

-----------------------------------------------------------------------------
(***************************************************************************)
(* Execute and its loop.                                                   *)
(***************************************************************************)
\* Faulty: the address of the VM_HALT is not pushed.
EnterHalfLinked(t, m, f, nest) ==
  LET s == valueStack[m] \o <<Link(0), Link(Len(valueStack[m]))>> IN
  /\ valueStack' = [valueStack EXCEPT ![m] = s]
  /\ stack_base' = [stack_base EXCEPT ![m] = Len(s)]
  /\ command_ptr' = [command_ptr EXCEPT ![m] = At(f)]
  /\ loops' = [loops EXCEPT ![t] = Append(nest, Loop(m, f, {}))]
  /\ locals' = [locals EXCEPT ![m] = Bare]
  /\ undefined' = (undefined \/ m \notin alive)

\* Execute pushes the links and Execute_ starts the loop.
Enter(t, m, f, nest) ==
  LET s == valueStack[m] \o <<Link(0), Link(Len(valueStack[m])), Link(0)>> IN
  /\ valueStack' = [valueStack EXCEPT ![m] = s]
  /\ stack_base' = [stack_base EXCEPT ![m] = Len(s)]
  /\ command_ptr' = [command_ptr EXCEPT ![m] = At(f)]
  /\ loops' = [loops EXCEPT ![t] = Append(nest, Loop(m, f, {}))]
  /\ locals' = [locals EXCEPT ![m] = Bare]
  /\ undefined' = (undefined \/ m \notin alive)

\* Thread t is in a loop of machine m, and about to execute an instruction of f.
Executing(t, m) ==
  /\ ~undefined
  /\ loops[t] # <<>>
  /\ Top(loops[t]).machine = m /\ m \in alive
  /\ Top(loops[t]).toCall = {}

Running(t, m) ==
  /\ Executing(t, m)
  /\ command_ptr[m].function # "halt"
  /\ command_ptr[m].at < MaxLength

GoOn(m) == command_ptr' = [command_ptr EXCEPT ![m].at = @ + 1]

\* Faulty: the clone is not deleted.
LeaveUndeleted(t, m, threw) ==
  /\ valueStack' = [valueStack EXCEPT ![m] = <<>>]
  /\ loops' = [loops EXCEPT ![t] = Cut(@, 1)]
  /\ locals' = [locals EXCEPT ![m] = Bare]
  /\ UNCHANGED <<alive, result>>

\* Faulty: the stack is not cut.
LeaveUncut(t, m, threw) ==
  /\ loops' = [loops EXCEPT ![t] = Cut(@, 1)]
  /\ alive' = IF t \in Workers /\ Len(loops[t]) = 1 THEN alive \ {m} ELSE alive
  /\ locals' = [locals EXCEPT ![m] = Bare]
  /\ UNCHANGED <<valueStack, result>>

\* Execute returns: the host takes the result of Main from the stack, a task's
\* clone is deleted.
Leave(t, m, threw) ==
  /\ valueStack' = [valueStack EXCEPT ![m] = <<>>]
  /\ loops' = [loops EXCEPT ![t] = Cut(@, 1)]
  /\ alive' = IF t \in Workers /\ Len(loops[t]) = 1 THEN alive \ {m} ELSE alive
  /\ result' = IF t = Host /\ Len(loops[t]) = 1
               THEN [threw |-> threw,
                     is |-> IF valueStack[m] = <<>> THEN Null ELSE Top(valueStack[m])]
               ELSE result
  /\ locals' = [locals EXCEPT ![m] = Bare]

HaltAt(t, m) ==
  /\ Executing(t, m)
  /\ command_ptr[m].function = "halt"
  /\ command_ptr' = [command_ptr EXCEPT ![m] = At(Top(loops[t]).entryPoint)]
  /\ Leave(t, m, FALSE)
  /\ UNCHANGED <<made, p_host, stack_base, cells, contents, listeners, tasks, undefined,
                 runs, careful>>

\* A built-in function or a push on the full stack throws.
Throw(t, m) ==
  /\ Running(t, m)
  /\ GoOn(m)
  /\ Leave(t, m, TRUE)
  /\ UNCHANGED <<made, p_host, stack_base, cells, contents, listeners, tasks, undefined,
                 runs, careful>>

-----------------------------------------------------------------------------
(***************************************************************************)
(* Instructions.                                                           *)
(***************************************************************************)
OpAllocStack(t, m) ==
  /\ Running(t, m)
  /\ valueStack' = [valueStack EXCEPT ![m] = Append(@, Local)]
  /\ GoOn(m)
  /\ UNCHANGED <<alive, made, p_host, stack_base, heap, loops, listeners, tasks, result,
                 undefined, runs, careful>>

\* OpReturn, or OpReturnV for Main.  The links are read from where the frame is
\* supposed to begin.
Return(t, m) ==
  LET f == command_ptr[m].function
      s == Resized(valueStack[m], stack_base[m])
      n == Len(s)
      linked == n >= 3 /\ \A i \in n - 2 .. n : s[i].is = "link"
      rest == Cut(s, 3)
  IN  /\ Executing(t, m)
      /\ f # "halt"
      /\ IF linked
         THEN /\ valueStack' = [valueStack EXCEPT ![m] =
                   IF f = Main THEN Append(rest, ResultOf(f)) ELSE rest]
              /\ stack_base' = [stack_base EXCEPT ![m] = s[n - 1].to]
              /\ command_ptr' = [command_ptr EXCEPT ![m] = Halt]
              /\ UNCHANGED undefined
         ELSE undefined' = TRUE /\ UNCHANGED machine
      /\ UNCHANGED <<alive, made, p_host, heap, loops, listeners, tasks, result, runs, careful>>

\* A function takes a global: it assigns the global to a variable of its own,
\* or passes a reference to it.  PushGlobalValueRef and PopLocal.
PopLocal(t, m, l, g) ==
  /\ Running(t, m)
  /\ locals' = [locals EXCEPT ![m][l] = cells[m][g]]
  /\ GoOn(m)
  /\ UNCHANGED <<alive, made, p_host, valueStack, stack_base, cells, contents, loops,
                 listeners, tasks, result, undefined, runs, careful>>

\* Faulty: the object is written, not the variable.
PopValueInPlace(t, m, g, v) ==
  /\ Running(t, m)
  /\ contents' = [contents EXCEPT ![cells[m][g]] = v]
  /\ GoOn(m)
  /\ UNCHANGED <<alive, made, p_host, valueStack, stack_base, cells, locals, loops,
                 listeners, tasks, result, undefined, runs, careful>>

\* A global is assigned what an expression has computed, which is another object.
PopValue(t, m, g, v) ==
  /\ Running(t, m)
  /\ cells' = [cells EXCEPT ![m][g] = Free]
  /\ contents' = [contents EXCEPT ![Free] = v]
  /\ GoOn(m)
  /\ UNCHANGED <<alive, made, p_host, valueStack, stack_base, locals, loops, listeners,
                 tasks, result, undefined, runs, careful>>

\* A global is assigned another variable: that has been pushed as it is, and the
\* two are one object from now on.
PopValueOf(t, m, g, o) ==
  /\ Running(t, m)
  /\ cells' = [cells EXCEPT ![m][g] = o]
  /\ GoOn(m)
  /\ UNCHANGED <<alive, made, p_host, valueStack, stack_base, locals, contents, loops,
                 listeners, tasks, result, undefined, runs, careful>>

\* Faulty: the member is one of the global, in every machine.
PopMemberEverywhere(t, m, o, v) ==
  /\ Running(t, m)
  /\ contents' = [p \in Objects |->
        IF \E n \in alive, g \in Globals : cells[m][g] = o /\ cells[n][g] = p THEN v
        ELSE contents[p]]
  /\ GoOn(m)
  /\ UNCHANGED <<alive, made, p_host, valueStack, stack_base, cells, locals, loops,
                 listeners, tasks, result, undefined, runs, careful>>

\* An assignment to a member, a method, an increment: the object itself is
\* changed, whoever has it.  What two threads leave in an object that they change
\* at once is not defined; v is any value.
PopMember(t, m, o, v) ==
  /\ Running(t, m)
  /\ contents' = [contents EXCEPT ![o] = v]
  /\ GoOn(m)
  /\ UNCHANGED <<alive, made, p_host, valueStack, stack_base, cells, locals, loops,
                 listeners, tasks, result, undefined, runs, careful>>

\* What a function does with globals and their objects.
UseGlobals(t, m) ==
  \/ \E l \in Locals, g \in Globals : PopLocal(t, m, l, g)
  \/ \E g \in Globals, v \in Values : PopValue(t, m, g, v)
  \/ \E g \in Globals, o \in Within(m) : PopValueOf(t, m, g, o)
  \/ \E o \in Within(m), v \in Values : PopMember(t, m, o, v)

sys_registEventListner(t, m, e, f) ==
  /\ Running(t, m)
  /\ listeners' = listeners \cup {Listener(e, m, f)}
  /\ careful' = (careful /\ m = p_host)
  /\ GoOn(m)
  /\ UNCHANGED <<alive, made, p_host, valueStack, stack_base, heap, loops, tasks, result,
                 undefined, runs>>

\* By the key, whoever has registered it.
sys_unregistEventListner(t, m, l) ==
  /\ Running(t, m)
  /\ listeners' = listeners \ {l}
  /\ GoOn(m)
  /\ UNCHANGED <<alive, made, p_host, valueStack, stack_base, heap, loops, tasks, result,
                 undefined, runs, careful>>

sys_executeEvent(t, m, e) ==
  LET called == {l \in listeners : l.event = e} IN
  /\ Running(t, m)
  /\ Len(loops[t]) < MaxNest
  /\ loops' = [loops EXCEPT ![t][Len(loops[t])].toCall = called]
  /\ careful' = (careful /\ called = {})
  /\ GoOn(m)
  /\ UNCHANGED <<alive, made, p_host, valueStack, stack_base, heap, listeners, tasks,
                 result, undefined, runs>>

\* The event system calls the next listener, which is Execute of its machine.
CallListener(t) ==
  /\ ~undefined
  /\ loops[t] # <<>>
  /\ \E l \in Top(loops[t]).toCall :
       Enter(t, l.machine, l.function,
             [loops[t] EXCEPT ![Len(loops[t])].toCall = @ \ {l}])
  /\ UNCHANGED <<alive, made, p_host, cells, contents, listeners, tasks, result, runs,
                 careful>>

\* Faulty: the task runs on the machine itself.
sys_pushTaskHere(t, m, f) ==
  /\ Running(t, m)
  /\ tasks' = Append(tasks, Task(m, f))
  /\ GoOn(m)
  /\ UNCHANGED <<alive, made, p_host, valueStack, stack_base, heap, loops, listeners,
                 result, undefined, runs, careful>>

\* Clone, on the thread that pushes: Initialize, and the globals, which are the
\* same objects.
sys_pushTask(t, m, f) ==
  LET clone == made + 1 IN
  /\ Running(t, m)
  /\ made < MaxMachines
  /\ made' = clone
  /\ alive' = alive \cup {clone}
  /\ cells' = [cells EXCEPT ![clone] = cells[m]]
  /\ locals' = [locals EXCEPT ![clone] = Bare]
  /\ tasks' = Append(tasks, Task(clone, f))
  /\ GoOn(m)
  /\ UNCHANGED <<p_host, valueStack, stack_base, contents, loops, listeners, result,
                 undefined, runs, careful>>

-----------------------------------------------------------------------------
(***************************************************************************)
(* Threads.                                                                *)
(***************************************************************************)
\* A worker of the task system; not every worker is ever idle when one is.
RunTask(t) ==
  /\ ~undefined
  /\ loops[t] = <<>> /\ tasks # <<>>
  /\ tasks' = Tail(tasks)
  /\ Enter(t, Head(tasks).machine, Head(tasks).function, <<>>)
  /\ UNCHANGED <<alive, made, p_host, cells, contents, listeners, result, runs, careful>>

Idle == ~undefined /\ loops[Host] = <<>>

HostExecute ==
  /\ Idle
  /\ p_host # 0 /\ runs < MaxRuns
  /\ runs' = runs + 1
  /\ Enter(Host, p_host, Main, <<>>)
  /\ UNCHANGED <<alive, made, p_host, cells, contents, listeners, tasks, result, careful>>

HostEvent(e) ==
  LET called == {l \in listeners : l.event = e} IN
  /\ Idle
  /\ called # {} /\ runs < MaxRuns
  /\ runs' = runs + 1
  /\ loops' = [loops EXCEPT ![Host] = <<Loop(0, Main, called)>>]
  /\ UNCHANGED <<alive, made, p_host, machine, heap, listeners, tasks, result, undefined, careful>>

HostEventDone ==
  /\ ~undefined
  /\ loops[Host] = <<Loop(0, Main, {})>>
  /\ loops' = [loops EXCEPT ![Host] = <<>>]
  /\ UNCHANGED <<alive, made, p_host, machine, heap, listeners, tasks, result, undefined,
                 runs, careful>>

\* The machine goes out of scope; the next script gets another one.  Its globals
\* are new objects: the free ones with the least numbers.
HostDestroy ==
  /\ Idle
  /\ p_host # 0
  /\ alive' = alive \ {p_host}
  /\ p_host' = 0
  /\ careful' = (careful /\ \A l \in listeners : l.machine # p_host)
  /\ UNCHANGED <<made, machine, heap, loops, listeners, tasks, result, undefined, runs>>

HostConstruct ==
  /\ Idle
  /\ p_host = 0 /\ made < MaxMachines
  /\ made' = made + 1
  /\ p_host' = made'
  /\ alive' = alive \cup {made'}
  /\ \E objects \in [Globals -> Objects \ InUse] :
       /\ \A g, h \in Globals : objects[g] = objects[h] => g = h
       /\ \A g \in Globals, o \in Objects \ InUse :
            o < objects[g] => \E h \in Globals : objects[h] = o
       /\ cells' = [cells EXCEPT ![made'] = objects]
       /\ contents' = [o \in Objects |->
            IF \E g \in Globals : objects[g] = o THEN Initial ELSE contents[o]]
  /\ locals' = [locals EXCEPT ![made'] = Bare]
  /\ UNCHANGED <<machine, loops, listeners, tasks, result, undefined, runs, careful>>

Init ==
  /\ alive = {1} /\ made = 1 /\ p_host = 1
  /\ valueStack = [m \in Machines |-> <<>>]
  /\ stack_base = [m \in Machines |-> 0]
  /\ command_ptr = [m \in Machines |-> Halt]
  /\ \E objects \in [Globals -> 1 .. Cardinality(Globals)] :
       /\ \A g, h \in Globals : objects[g] = objects[h] => g = h
       /\ cells = [m \in Machines |-> objects]
  /\ locals = [m \in Machines |-> Bare]
  /\ contents = [o \in Objects |-> Initial]
  /\ loops = [t \in Threads |-> <<>>]
  /\ listeners = {} /\ tasks = <<>>
  /\ result = [threw |-> FALSE, is |-> ResultOf(Main)]
  /\ undefined = FALSE
  /\ runs = 0
  /\ careful = TRUE

\* One step of a thread that has something to do.
Instruction(t) ==
  \E m \in Machines :
    \/ HaltAt(t, m) \/ Throw(t, m) \/ OpAllocStack(t, m) \/ Return(t, m)
    \/ UseGlobals(t, m)
    \/ \E e \in Events, f \in Functions : sys_registEventListner(t, m, e, f)
    \/ \E l \in listeners : sys_unregistEventListner(t, m, l)
    \/ \E e \in Events : sys_executeEvent(t, m, e)
    \/ \E f \in Functions : sys_pushTask(t, m, f)

Work(t) == RunTask(t) \/ Instruction(t) \/ CallListener(t)

Next ==
  \/ HostExecute \/ HostEventDone \/ HostDestroy \/ HostConstruct
  \/ \E e \in Events : HostEvent(e)
  \/ Instruction(Host) \/ CallListener(Host)
  \/ \E t \in Workers : Work(t)

Fairness == \A t \in Workers : WF_vars(Work(t))
Spec == Init /\ [][Next]_vars /\ Fairness

-----------------------------------------------------------------------------
Depth == Cardinality(Threads) * MaxNest * (MaxLength + 3)
Cell == {Null, Local, ResultOf(Main)} \cup {Link(n) : n \in 0 .. Depth}
Place == {[function |-> f, at |-> i] : f \in Functions \cup {Main, "halt"}, i \in 0 .. MaxLength}
Listening == {Listener(e, m, f) : e \in Events, m \in Machines, f \in Functions}
Looping == {Loop(m, f, called) :
              m \in Machines \cup {0}, f \in Functions \cup {Main}, called \in SUBSET listeners}

\* The machine's loops on a thread.
On(t, m) == {i \in 1 .. Len(loops[t]) : loops[t][i].machine = m}
Queued(m) == {i \in 1 .. Len(tasks) : tasks[i].machine = m}

\* An idle machine has nothing on its stack above the globals.
TypeOK ==
  /\ alive \subseteq 1 .. made /\ made \in Machines /\ p_host \in 0 .. made
  /\ \A m \in Machines :
       /\ valueStack[m] \in Seq(Cell)
       /\ Len(valueStack[m]) <=
            (MaxLength + 3) * Cardinality(UNION {On(t, m) \X {t} : t \in Threads})
       /\ stack_base[m] \in 0 .. Depth
       /\ command_ptr[m] \in Place
  /\ cells \in [Machines -> [Globals -> Objects]]
  /\ locals \in [Machines -> [Locals -> Objects \cup {0}]]
  /\ contents \in [Objects -> Values]
  /\ listeners \subseteq Listening
  /\ \A t \in Threads : Len(loops[t]) <= MaxNest
  /\ result.is \in Cell

\* A machine is used by one thread at a time: its stack and its registers have no
\* lock.  As long as only the host's machines listen and only the host executes
\* what they listen to, tasks keep to machines of their own.
OneThread ==
  careful => \A m \in Machines : Cardinality({t \in Threads : On(t, m) # {}}) <= 1

\* Every clone is waiting for a worker, or a worker is in it, and then it is
\* deleted: not before, not twice, and none is forgotten.
CloneHasOneTask ==
  careful => \A m \in 1 .. made \ {p_host} :
    LET users == Cardinality(Queued(m)) + Cardinality({t \in Workers : On(t, m) # {}})
    IN  IF m \in alive THEN users = 1 ELSE users = 0 /\ On(Host, m) = {}

\* A loop of Execute_ executes the function it was started for, on a stack that
\* holds its frame.
RunsItsFunction(t, m) ==
  Executing(t, m) /\ command_ptr[m].function # "halt" =>
    /\ command_ptr[m].function = Top(loops[t]).entryPoint
    /\ stack_base[m] <= Len(valueStack[m])

\* Listeners that the host executes between its calls, and tasks, leave every
\* function its frame and give the host what Main has returned.
FramesKept ==
  careful =>
    /\ ~undefined
    /\ \A t \in Threads, m \in Machines : RunsItsFunction(t, m)
    /\ ~result.threw => result.is = ResultOf(Main)

\* main.cpp:102 announces that main is being executed: what the host has called is
\* what runs, also after an event.
MainIsExecuted ==
  \A m \in Machines : Len(loops[Host]) = 1 => RunsItsFunction(Host, m)

\* An assignment to a global, of a value or of another variable, is seen in no
\* other variable: not in those that were one object with it, of this machine or
\* of one that was cloned before.
AssignedAlone ==
  [][\A t \in Threads, m \in Machines, g \in Globals :
       (\/ \E v \in Values : PopValue(t, m, g, v)
        \/ \E o \in Within(m) : PopValueOf(t, m, g, o))
       => \A n \in alive, h \in Globals : <<n, h>> # <<m, g>> =>
            contents'[cells'[n][h]] = contents[cells[n][h]]]_vars

\* What a machine does is seen in its own globals and in those of machines that
\* have an object in common with it; they have one only if one has been cloned
\* from the other, or both from a third, and once they have none they never have
\* one again.  What is assigned is not even seen there, only what is changed in place.
Shared == INSTANCE SharedGlobals WITH
  globals <- [m \in alive |-> [g \in Globals |-> contents[cells[m][g]]]],
  common <- {p \in alive \X alive : p[1] = p[2] \/ Within(p[1]) \cap Within(p[2]) # {}}
Isolated == Shared!Spec /\ AssignedAlone

\* Every task that was pushed is executed and its clone deleted.
TasksEnd ==
  \A m \in Machines : (Queued(m) # {}) ~> (m \notin alive \/ undefined)
=============================================================================
