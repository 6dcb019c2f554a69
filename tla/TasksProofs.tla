---------------------------- MODULE TasksProofs ----------------------------
(***************************************************************************)
(* What holds for every number of workers, machines, events and functions, *)
(* and whatever the functions do, in four parts.                           *)
(*                                                                         *)
(* Who uses which machine.  A machine has no lock, so what keeps threads   *)
(* apart is that every machine has one owner: the host has its own, and    *)
(* every clone belongs to a task, which is either waiting or on a worker.  *)
(* The invariant says this of alive, tasks and loops together; OneThread   *)
(* and CloneHasOneTask count what it says.                                 *)
(*                                                                         *)
(* Who sees what.  A clone has the objects of its machine, so a change of  *)
(* an object shows in both; an assignment makes a variable refer to an     *)
(* object that is free, and there is one, because there are more objects   *)
(* than variables.                                                         *)
(*                                                                         *)
(* What a loop of Execute_ finds on its machine: its own function and its  *)
(* own frame.  The registers and the stack of a machine are not saved when *)
(* Execute is called again, so this is not said by the machine alone: it   *)
(* needs that nobody else is in it, and that whoever comes in finds it as  *)
(* empty as it was constructed.                                            *)
(*                                                                         *)
(* How much there is of everything: the sizes of stacks and nests of loops.*)
(***************************************************************************)
EXTENDS Tasks, FiniteSetTheorems, TLAPS

ListenerRecords == [event : Events, machine : Machines, function : Functions]
TaskRecords == [machine : Machines, function : Functions]
LoopRecords == [machine : 0 .. MaxMachines, entryPoint : Functions \cup {Main},
                toCall : SUBSET ListenerRecords]

Shape ==
  /\ made \in Machines /\ alive \subseteq 1 .. made /\ p_host \in 0 .. made
  /\ loops \in [Threads -> Seq(LoopRecords)]
  /\ tasks \in Seq(TaskRecords)
  /\ listeners \subseteq ListenerRecords
  /\ careful \in BOOLEAN

\* The host's thread, and whoever listens, is in the host's machine.
HostKeeps ==
  /\ p_host # 0 => p_host \in alive
  /\ p_host = 0 => loops[Host] = <<>>
  /\ \A l \in listeners : p_host # 0 /\ l.machine = p_host
  /\ \A i \in 1 .. Len(loops[Host]) :
       /\ loops[Host][i].machine \in {0, p_host}
       /\ \A l \in loops[Host][i].toCall : l.machine = p_host

\* A worker is in one loop, of a clone, and calls no listeners.
Busy(t) == loops[t] # <<>>
CloneOf(t) == loops[t][1].machine
WorkersKeep == \A t \in Workers : Busy(t) =>
  /\ Len(loops[t]) = 1
  /\ CloneOf(t) \in alive \ {p_host}
  /\ loops[t][1].toCall = {}

\* A task that waits has a clone.
Waiting == 1 .. Len(tasks)
TasksKeep == \A i \in Waiting : tasks[i].machine \in alive \ {p_host}

\* No clone is used twice.
Apart ==
  /\ \A t, u \in Workers : Busy(t) /\ Busy(u) /\ CloneOf(t) = CloneOf(u) => t = u
  /\ \A i, j \in Waiting : tasks[i].machine = tasks[j].machine => i = j
  /\ \A i \in Waiting, t \in Workers : Busy(t) => tasks[i].machine # CloneOf(t)

\* Every clone is used.
NoneForgotten == \A m \in alive \ {p_host} :
  \/ \E i \in Waiting : tasks[i].machine = m
  \/ \E t \in Workers : Busy(t) /\ CloneOf(t) = m

Owned == HostKeeps /\ WorkersKeep /\ TasksKeep /\ Apart /\ NoneForgotten
IInv == Shape /\ (careful => Owned)

owners == <<alive, made, p_host, loops, listeners, tasks, careful>>

-----------------------------------------------------------------------------
\* The host has one machine, and nothing is going on.
LEMMA Initially == Init => IInv
<1> SUFFICES ASSUME Init PROVE IInv
  OBVIOUS
<1>1. made = 1 /\ alive = {1} /\ p_host = 1 /\ 1 \in Machines
  BY TasksAssumption DEF Init, Machines
<1>2. \A t \in Threads : loops[t] = <<>>
  BY DEF Init
<1>3. Host \in Threads /\ Workers \subseteq Threads
  BY DEF Threads
<1>4. Shape
  BY <1>1 DEF Init, Shape, LoopRecords, TaskRecords
<1>5. Owned
  BY <1>1, <1>2, <1>3 DEF Init, Owned, HostKeeps, WorkersKeep, TasksKeep, Apart, NoneForgotten,
                          Waiting, Busy
<1> QED
  BY <1>4, <1>5 DEF IInv

\* Instructions that touch none of it.
LEMMA Quiet ==
  ASSUME IInv, UNCHANGED owners
  PROVE  IInv'
<1>1. Shape'
  BY DEF IInv, owners, Shape
<1>2. careful' => Owned'
  <2>1. careful' => Owned
    BY DEF IInv, owners
  <2>2. Owned => HostKeeps'
    BY DEF owners, Owned, HostKeeps
  <2>3. Owned => WorkersKeep' /\ TasksKeep' /\ Apart' /\ NoneForgotten'
    BY DEF owners, Owned, WorkersKeep, TasksKeep, Apart, NoneForgotten, Waiting, Busy, CloneOf
  <2> QED
    BY <2>1, <2>2, <2>3 DEF Owned
<1> QED
  BY <1>1, <1>2 DEF IInv

\* What is left of a sequence without its last element.
LEMMA CutOne ==
  ASSUME NEW S, NEW s \in Seq(S), Len(s) # 0
  PROVE  /\ Cut(s, 1) \in Seq(S) /\ Len(Cut(s, 1)) = Len(s) - 1
         /\ \A i \in 1 .. Len(s) - 1 : Cut(s, 1)[i] = s[i]
         /\ Len(s) = 1 => Cut(s, 1) = <<>>
<1>1. Cut(s, 1) = SubSeq(s, 1, Len(s) - 1) /\ Len(s) \in Nat \ {0}
  BY DEF Cut
<1>2. /\ Cut(s, 1) \in Seq(S) /\ Len(Cut(s, 1)) = Len(s) - 1
      /\ \A i \in 1 .. Len(s) - 1 : Cut(s, 1)[i] = s[i]
  BY <1>1
<1>3. Len(s) = 1 => Cut(s, 1) = <<>>
  BY <1>2
<1> QED
  BY <1>2, <1>3

\* A thread leaves its innermost loop; a worker deletes its clone.
LEMMA LeaveKeeps ==
  ASSUME IInv, NEW t \in Threads, NEW m \in Machines, Executing(t, m),
         loops' = [loops EXCEPT ![t] = Cut(@, 1)],
         alive' = IF t \in Workers /\ Len(loops[t]) = 1 THEN alive \ {m} ELSE alive,
         UNCHANGED <<made, p_host, listeners, tasks, careful>>
  PROVE  IInv'
<1> DEFINE n == Len(loops[t])
<1>1. /\ loops \in [Threads -> Seq(LoopRecords)] /\ loops[t] \in Seq(LoopRecords)
      /\ n \in Nat \ {0} /\ loops[t][n].machine = m
  BY DEF IInv, Shape, Executing, Top
<1>2. /\ loops'[t] \in Seq(LoopRecords) /\ Len(loops'[t]) = n - 1
      /\ \A i \in 1 .. n - 1 : loops'[t][i] = loops[t][i]
      /\ n = 1 => loops'[t] = <<>>
  BY <1>1, CutOne
<1>3. \A u \in Threads \ {t} : loops'[u] = loops[u]
  BY <1>1
<1>4. Shape'
  BY <1>1, <1>2 DEF IInv, Shape
<1>5. ASSUME careful PROVE Owned'
  <2> USE <1>5
  <2>1. Owned
    BY DEF IInv
  <2>2. Host \in Threads /\ Workers \subseteq Threads /\ Host \notin Workers
    BY TasksAssumption DEF Threads
  <2>3. CASE t \in Workers
    <3>1. n = 1 /\ Busy(t) /\ CloneOf(t) = m /\ m # p_host /\ alive' = alive \ {m} /\ ~Busy(t)'
      BY <2>3, <2>1, <1>1, <1>2 DEF Owned, WorkersKeep, Busy, CloneOf
    <3>2. \A u \in Workers \ {t} : Busy(u)' = Busy(u) /\ CloneOf(u)' = CloneOf(u)
      BY <1>3, <2>2 DEF Busy, CloneOf
    <3>3. loops'[Host] = loops[Host]
      BY <1>3, <2>2, <2>3
    <3>4. HostKeeps'
      BY <2>1, <3>1, <3>3 DEF Owned, HostKeeps
    <3>5. WorkersKeep'
      <4> SUFFICES ASSUME NEW u \in Workers, Busy(u)'
                   PROVE  /\ Len(loops'[u]) = 1
                          /\ CloneOf(u)' \in alive' \ {p_host'}
                          /\ loops'[u][1].toCall = {}
        BY DEF WorkersKeep
      <4>1. u # t /\ loops'[u] = loops[u] /\ Busy(u) /\ CloneOf(u)' = CloneOf(u)
        BY <3>1, <3>2, <1>3, <2>2
      <4>2. CloneOf(u) # m
        BY <4>1, <3>1, <2>1, <2>3 DEF Owned, Apart
      <4> QED
        BY <4>1, <4>2, <3>1, <2>1 DEF Owned, WorkersKeep
    <3>6. TasksKeep' /\ Apart'
      BY <2>1, <2>3, <3>1, <3>2 DEF Owned, TasksKeep, Apart, Waiting
    <3>7. NoneForgotten'
      <4> SUFFICES ASSUME NEW o \in alive \ {p_host}, o # m
                   PROVE  \/ \E i \in Waiting : tasks[i].machine = o
                          \/ \E u \in Workers : Busy(u)' /\ CloneOf(u)' = o
        BY <3>1 DEF NoneForgotten, Waiting
      <4> QED
        BY <2>1, <3>1, <3>2 DEF Owned, NoneForgotten
    <3> QED
      BY <3>4, <3>5, <3>6, <3>7 DEF Owned
  <2>4. CASE t = Host
    <3>1. alive' = alive /\ \A u \in Workers : loops'[u] = loops[u]
      BY <2>4, <2>2, <1>3
    <3>2. HostKeeps'
      BY <2>1, <2>4, <3>1, <1>1, <1>2 DEF Owned, HostKeeps
    <3>3. WorkersKeep' /\ TasksKeep' /\ Apart' /\ NoneForgotten'
      BY <2>1, <3>1 DEF Owned, WorkersKeep, TasksKeep, Apart, NoneForgotten, Waiting, Busy, CloneOf
    <3> QED
      BY <3>2, <3>3 DEF Owned
  <2> QED
    BY <2>3, <2>4 DEF Threads
<1> QED
  BY <1>4, <1>5 DEF IInv

\* An instruction registers a function of its machine.
LEMMA RegisterKeeps ==
  ASSUME IInv, NEW t \in Threads, NEW m \in Machines, NEW e \in Events, NEW f \in Functions,
         sys_registEventListner(t, m, e, f)
  PROVE  IInv'
<1>1. /\ listeners' = listeners \cup {Listener(e, m, f)} /\ careful' = (careful /\ m = p_host)
      /\ UNCHANGED <<alive, made, p_host, loops, tasks>>
  BY DEF sys_registEventListner
<1>2. Listener(e, m, f) \in ListenerRecords /\ Listener(e, m, f).machine = m /\ m # 0
  BY DEF Listener, ListenerRecords, Machines
<1>3. Shape'
  BY <1>1, <1>2 DEF IInv, Shape
<1>4. careful' => careful /\ m = p_host
  BY <1>1
<1>5. ASSUME careful' PROVE Owned'
  <2>1. Owned /\ m = p_host
    BY <1>4, <1>5 DEF IInv
  <2>2. HostKeeps'
    BY <2>1, <1>1, <1>2 DEF Owned, HostKeeps
  <2> QED
    BY <2>1, <2>2, <1>1 DEF Owned, WorkersKeep, TasksKeep, Apart, NoneForgotten,
                            Waiting, Busy, CloneOf
<1> QED
  BY <1>3, <1>5 DEF IInv

\* A listener is taken away.
LEMMA UnregisterKeeps ==
  ASSUME IInv, listeners' \subseteq listeners,
         UNCHANGED <<alive, made, p_host, loops, tasks, careful>>
  PROVE  IInv'
<1>1. Shape'
  BY DEF IInv, Shape
<1>2. careful' => Owned'
  <2>1. careful' => Owned
    BY DEF IInv
  <2>2. Owned => HostKeeps'
    BY DEF Owned, HostKeeps
  <2>3. Owned => WorkersKeep' /\ TasksKeep' /\ Apart' /\ NoneForgotten'
    BY DEF Owned, WorkersKeep, TasksKeep, Apart, NoneForgotten, Waiting, Busy, CloneOf
  <2> QED
    BY <2>1, <2>2, <2>3 DEF Owned
<1> QED
  BY <1>1, <1>2 DEF IInv

\* An instruction executes an event: carefully, one that nobody listens to.
LEMMA EventKeeps ==
  ASSUME IInv, NEW t \in Threads, NEW m \in Machines, NEW e \in Events,
         sys_executeEvent(t, m, e)
  PROVE  IInv'
<1> DEFINE n == Len(loops[t])
           called == {l \in listeners : l.event = e}
<1>1. /\ loops \in [Threads -> Seq(LoopRecords)] /\ loops[t] \in Seq(LoopRecords)
      /\ n \in Nat \ {0} /\ loops[t][n] \in LoopRecords /\ loops[t][n].toCall = {}
  BY DEF IInv, Shape, sys_executeEvent, Running, Executing, Top
<1>2. /\ loops' = [loops EXCEPT ![t][n].toCall = called] /\ careful' = (careful /\ called = {})
      /\ UNCHANGED <<alive, made, p_host, listeners, tasks>>
  BY DEF sys_executeEvent
<1>3. called \subseteq ListenerRecords
  BY DEF IInv, Shape
<1>4. loops'[t] = [loops[t] EXCEPT ![n] = [loops[t][n] EXCEPT !.toCall = called]]
  BY <1>1, <1>2
<1>5. [loops[t][n] EXCEPT !.toCall = called] \in LoopRecords
  BY <1>1, <1>3 DEF LoopRecords
<1>6. loops'[t] \in Seq(LoopRecords)
  BY <1>1, <1>4, <1>5
<1>7. Shape'
  BY <1>1, <1>2, <1>6 DEF IInv, Shape
<1>8. ASSUME careful' PROVE Owned'
  <2>1. called = {} /\ Owned
    BY <1>8, <1>2 DEF IInv
  <2>2. [loops[t][n] EXCEPT !.toCall = called] = loops[t][n]
    BY <2>1, <1>1 DEF LoopRecords
  <2>3. loops'[t] = loops[t]
    BY <2>2, <1>4, <1>1
  <2>4. UNCHANGED <<alive, p_host, loops, listeners, tasks>>
    BY <2>3, <1>1, <1>2
  <2> QED
    BY <2>1, <2>4 DEF Owned, HostKeeps, WorkersKeep, TasksKeep, Apart, NoneForgotten,
                            Waiting, Busy, CloneOf
<1> QED
  BY <1>7, <1>8 DEF IInv

\* The event system calls a listener: carefully, one of the host's machine, on the
\* host's thread.
LEMMA CallKeeps ==
  ASSUME IInv, NEW t \in Threads, CallListener(t)
  PROVE  IInv'
<1> DEFINE n == Len(loops[t])
<1>1. /\ loops \in [Threads -> Seq(LoopRecords)] /\ loops[t] \in Seq(LoopRecords)
      /\ n \in Nat \ {0} /\ loops[t][n] \in LoopRecords
  BY DEF IInv, Shape, CallListener
<1>2. PICK l \in loops[t][n].toCall :
        Enter(t, l.machine, l.function, [loops[t] EXCEPT ![n].toCall = @ \ {l}])
  BY DEF CallListener, Top
<1> DEFINE rest == [loops[t][n] EXCEPT !.toCall = @ \ {l}]
           nest == [loops[t] EXCEPT ![n] = rest]
           new == Loop(l.machine, l.function, {})
<1>3. l \in ListenerRecords /\ l.machine \in Machines /\ l.machine # 0
  BY <1>1, <1>2 DEF LoopRecords, ListenerRecords, Machines
<1>4. /\ rest \in LoopRecords /\ rest.machine = loops[t][n].machine
      /\ rest.toCall \subseteq loops[t][n].toCall
  BY <1>1 DEF LoopRecords
<1>5. new \in LoopRecords /\ new.machine = l.machine /\ new.toCall = {}
  BY <1>3 DEF LoopRecords, ListenerRecords, Loop, Machines
<1>6. loops' = [loops EXCEPT ![t] = Append(nest, new)]
  BY <1>2 DEF Enter
<1>7. UNCHANGED <<alive, made, p_host, listeners, tasks, careful>>
  BY DEF CallListener
<1>8. /\ nest \in Seq(LoopRecords) /\ Len(nest) = n
      /\ \A i \in 1 .. n : nest[i] = IF i = n THEN rest ELSE loops[t][i]
  BY <1>1, <1>4
<1>9. /\ loops'[t] \in Seq(LoopRecords) /\ Len(loops'[t]) = n + 1
      /\ \A i \in 1 .. n + 1 : loops'[t][i] = IF i = n + 1 THEN new ELSE nest[i]
  BY <1>1, <1>5, <1>6, <1>8
<1>10. Shape'
  BY <1>1, <1>6, <1>7, <1>9 DEF IInv, Shape
<1>11. ASSUME careful PROVE Owned'
  <2>1. Owned /\ Host \notin Workers
    BY <1>11, TasksAssumption DEF IInv
  <2>2. t = Host
    <3> SUFFICES ASSUME t \in Workers PROVE FALSE
      BY DEF Threads
    <3>1. Busy(t)
      BY <1>1 DEF Busy
    <3>2. n = 1 /\ loops[t][1].toCall = {}
      BY <3>1, <2>1 DEF Owned, WorkersKeep
    <3> QED
      BY <3>2, <1>2
  <2>3. \A u \in Workers : loops'[u] = loops[u]
    BY <2>1, <2>2, <1>1, <1>6 DEF Threads
  <2>4. /\ \A i \in 1 .. n : /\ loops[Host][i].machine \in {0, p_host}
                             /\ \A o \in loops[Host][i].toCall : o.machine = p_host
        /\ l.machine = p_host /\ p_host # 0
    BY <2>1, <2>2, <1>1, <1>2, <1>3 DEF Owned, HostKeeps
  <2>5. \A i \in 1 .. n + 1 : /\ loops'[Host][i].machine \in {0, p_host}
                              /\ \A o \in loops'[Host][i].toCall : o.machine = p_host
    <3> SUFFICES ASSUME NEW i \in 1 .. n + 1
                 PROVE  /\ loops'[Host][i].machine \in {0, p_host}
                        /\ \A o \in loops'[Host][i].toCall : o.machine = p_host
      OBVIOUS
    <3>1. CASE i = n + 1
      BY <3>1, <2>2, <2>4, <1>5, <1>9
    <3>2. CASE i = n
      <4>1. n \in 1 .. n /\ n \in 1 .. n + 1 /\ n # n + 1
        BY <1>1
      <4>2. loops'[t][n] = rest
        BY <4>1, <1>8, <1>9
      <4> QED
        BY <4>1, <4>2, <3>2, <2>2, <2>4, <1>4
    <3>3. CASE i \in 1 .. n - 1
      <4>1. loops'[Host][i] = loops[Host][i]
        BY <3>3, <2>2, <1>1, <1>8, <1>9
      <4> QED
        BY <4>1, <3>3, <2>4, <1>1
    <3> QED
      BY <3>1, <3>2, <3>3, <1>1
  <2>6. HostKeeps'
    BY <2>1, <2>2, <2>4, <2>5, <1>7, <1>9 DEF Owned, HostKeeps
  <2> QED
    BY <2>1, <2>3, <2>6, <1>7 DEF Owned, WorkersKeep, TasksKeep, Apart, NoneForgotten,
                                  Waiting, Busy, CloneOf
<1> QED
  BY <1>7, <1>10, <1>11 DEF IInv

\* A task is pushed: its clone is new.
LEMMA PushKeeps ==
  ASSUME IInv, NEW t \in Threads, NEW m \in Machines, NEW f \in Functions,
         sys_pushTask(t, m, f)
  PROVE  IInv'
<1> DEFINE clone == made + 1
           n == Len(tasks)
<1>1. /\ made' = clone /\ alive' = alive \cup {clone} /\ tasks' = Append(tasks, Task(clone, f))
      /\ UNCHANGED <<p_host, loops, listeners, careful>>
  BY DEF sys_pushTask
<1>2. made \in Nat /\ clone \in Machines /\ clone \notin alive /\ p_host # clone
  BY TasksAssumption DEF IInv, Shape, Machines, sys_pushTask
<1>3. /\ tasks \in Seq(TaskRecords) /\ n \in Nat
      /\ Task(clone, f) \in TaskRecords /\ Task(clone, f).machine = clone
  BY <1>2 DEF IInv, Shape, TaskRecords, Task
<1>4. /\ tasks' \in Seq(TaskRecords) /\ Len(tasks') = n + 1
      /\ tasks'[n + 1] = Task(clone, f) /\ \A i \in 1 .. n : tasks'[i] = tasks[i]
  BY <1>1, <1>3
<1>5. Shape'
  BY <1>1, <1>2, <1>4 DEF IInv, Shape
<1>6. ASSUME careful PROVE Owned'
  <2>1. Owned
    BY <1>6 DEF IInv
  <2>2. Waiting' = Waiting \cup {n + 1} /\ n + 1 \notin Waiting
    BY <1>3, <1>4 DEF Waiting
  <2>3. \A i \in Waiting : tasks'[i].machine = tasks[i].machine /\ tasks[i].machine # clone
    BY <2>1, <1>2, <1>4 DEF Owned, TasksKeep, Waiting
  <2>4. tasks'[n + 1].machine = clone
    BY <1>3, <1>4
  <2>5. \A u \in Workers : /\ Busy(u)' = Busy(u) /\ CloneOf(u)' = CloneOf(u)
                           /\ Busy(u) => CloneOf(u) # clone
    BY <2>1, <1>1, <1>2 DEF Owned, WorkersKeep, Busy, CloneOf
  <2>6. HostKeeps'
    BY <2>1, <1>1 DEF Owned, HostKeeps
  <2>7. WorkersKeep'
    BY <2>1, <1>1 DEF Owned, WorkersKeep, Busy, CloneOf
  <2>8. TasksKeep'
    BY <2>1, <2>2, <2>3, <2>4, <1>1, <1>2 DEF Owned, TasksKeep
  <2>9. Apart'
    BY <2>1, <2>2, <2>3, <2>4, <2>5 DEF Owned, Apart
  <2>10. NoneForgotten'
    <3> SUFFICES ASSUME NEW o \in alive' \ {p_host}
                 PROVE  \/ \E i \in Waiting' : tasks'[i].machine = o
                        \/ \E u \in Workers : Busy(u)' /\ CloneOf(u)' = o
      BY <1>1 DEF NoneForgotten
    <3>1. CASE o = clone
      BY <3>1, <2>2, <2>4
    <3>2. CASE o \in alive
      BY <3>2, <2>1, <2>2, <2>3, <2>5 DEF Owned, NoneForgotten
    <3> QED
      BY <3>1, <3>2, <1>1
  <2> QED
    BY <2>6, <2>7, <2>8, <2>9, <2>10 DEF Owned
<1> QED
  BY <1>1, <1>5, <1>6 DEF IInv

\* A worker starts with the first of the tasks, which is no longer waiting.
LEMMA TakeKeeps ==
  ASSUME IInv, NEW t \in Workers, RunTask(t)
  PROVE  IInv'
<1> DEFINE clone == tasks[1].machine
           new == Loop(clone, tasks[1].function, {})
           n == Len(tasks)
<1>1. /\ tasks \in Seq(TaskRecords) /\ n \in Nat \ {0} /\ tasks[1] \in TaskRecords
      /\ t \in Threads /\ Workers \subseteq Threads /\ Host \in Threads /\ t # Host
      /\ loops \in [Threads -> Seq(LoopRecords)] /\ loops[t] = <<>>
  BY TasksAssumption DEF IInv, Shape, RunTask, Threads
<1>2. /\ loops' = [loops EXCEPT ![t] = <<new>>] /\ tasks' = Tail(tasks)
      /\ UNCHANGED <<alive, made, p_host, listeners, careful>>
  <2>1. Head(tasks) = tasks[1] /\ Append(<<>>, new) = <<new>>
    BY <1>1
  <2>2. loops' = [loops EXCEPT ![t] = Append(<<>>, Loop(Head(tasks).machine, Head(tasks).function, {}))]
    BY DEF RunTask, Enter
  <2>3. tasks' = Tail(tasks) /\ UNCHANGED <<alive, made, p_host, listeners, careful>>
    BY DEF RunTask
  <2> QED
    BY <2>1, <2>2, <2>3
<1>3. new \in LoopRecords /\ new.machine = clone /\ new.toCall = {}
  BY <1>1 DEF TaskRecords, LoopRecords, Loop, Machines
<1>4. loops'[t] = <<new>> /\ loops'[t] \in Seq(LoopRecords)
  BY <1>1, <1>2, <1>3
<1>5. \A u \in Threads \ {t} : loops'[u] = loops[u]
  BY <1>1, <1>2
<1>6. /\ tasks' \in Seq(TaskRecords) /\ Len(tasks') = n - 1
      /\ \A i \in 1 .. n - 1 : tasks'[i] = tasks[i + 1]
  BY <1>1, <1>2
<1>7. Shape'
  BY <1>1, <1>2, <1>4, <1>6 DEF IInv, Shape
<1>8. ASSUME careful PROVE Owned'
  <2>1. Owned
    BY <1>8 DEF IInv
  <2>2. /\ Busy(t)' /\ CloneOf(t)' = clone /\ ~Busy(t)
        /\ Len(loops'[t]) = 1 /\ loops'[t][1].toCall = {}
    BY <1>1, <1>3, <1>4 DEF Busy, CloneOf
  <2>3. \A u \in Workers \ {t} : loops'[u] = loops[u] /\ Busy(u)' = Busy(u) /\ CloneOf(u)' = CloneOf(u)
    BY <1>1, <1>5 DEF Busy, CloneOf
  <2>4. 1 \in Waiting /\ \A i \in Waiting' : i + 1 \in Waiting /\ tasks'[i] = tasks[i + 1] /\ i + 1 # 1
    BY <1>1, <1>6 DEF Waiting
  <2>5. clone \in alive \ {p_host}
    BY <2>1, <2>4 DEF Owned, TasksKeep
  <2>6. HostKeeps'
    BY <2>1, <1>1, <1>2, <1>5 DEF Owned, HostKeeps
  <2>7. WorkersKeep'
    <3> SUFFICES ASSUME NEW u \in Workers, Busy(u)'
                 PROVE  /\ Len(loops'[u]) = 1
                        /\ CloneOf(u)' \in alive \ {p_host}
                        /\ loops'[u][1].toCall = {}
      BY <1>2 DEF WorkersKeep
    <3>1. CASE u = t
      BY <3>1, <2>2, <2>5
    <3>2. CASE u # t
      BY <3>2, <2>1, <2>3 DEF Owned, WorkersKeep
    <3> QED
      BY <3>1, <3>2
  <2>8. TasksKeep'
    BY <2>1, <2>4, <1>2 DEF Owned, TasksKeep
  <2>9. Apart'
    <3>1. ASSUME NEW u \in Workers, NEW v \in Workers, Busy(u)', Busy(v)', CloneOf(u)' = CloneOf(v)'
          PROVE  u = v
      <4>1. CASE u # t /\ v # t
        BY <4>1, <3>1, <2>1, <2>3 DEF Owned, Apart
      <4>2. CASE u = t /\ v # t
        BY <4>2, <3>1, <2>1, <2>2, <2>3, <2>4 DEF Owned, Apart
      <4>3. CASE u # t /\ v = t
        BY <4>3, <3>1, <2>1, <2>2, <2>3, <2>4 DEF Owned, Apart
      <4> QED
        BY <4>1, <4>2, <4>3
    <3>2. ASSUME NEW i \in Waiting', NEW j \in Waiting', tasks'[i].machine = tasks'[j].machine
          PROVE  i = j
      <4>1. i + 1 = j + 1
        BY <3>2, <2>1, <2>4 DEF Owned, Apart
      <4> QED
        BY <4>1, <1>6, <1>1 DEF Waiting
    <3>3. ASSUME NEW i \in Waiting', NEW u \in Workers, Busy(u)'
          PROVE  tasks'[i].machine # CloneOf(u)'
      <4>1. CASE u = t
        BY <4>1, <2>1, <2>2, <2>4 DEF Owned, Apart
      <4>2. CASE u # t
        BY <4>2, <3>3, <2>1, <2>3, <2>4 DEF Owned, Apart
      <4> QED
        BY <4>1, <4>2
    <3> QED
      BY <3>1, <3>2, <3>3 DEF Apart
  <2>10. NoneForgotten'
    <3> SUFFICES ASSUME NEW o \in alive \ {p_host}
                 PROVE  \/ \E i \in Waiting' : tasks'[i].machine = o
                        \/ \E u \in Workers : Busy(u)' /\ CloneOf(u)' = o
      BY <1>2 DEF NoneForgotten
    <3>1. CASE \E u \in Workers : Busy(u) /\ CloneOf(u) = o
      BY <3>1, <2>2, <2>3
    <3>2. CASE \E i \in Waiting : tasks[i].machine = o
      <4>1. PICK i \in Waiting : tasks[i].machine = o
        BY <3>2
      <4>2. CASE i = 1
        BY <4>1, <4>2, <2>2
      <4>3. CASE i # 1
        <5>1. i - 1 \in Waiting' /\ (i - 1) + 1 = i
          BY <4>3, <1>1, <1>6 DEF Waiting
        <5>2. tasks'[i - 1].machine = o
          BY <5>1, <4>1, <2>4
        <5> QED
          BY <5>1, <5>2
      <4> QED
        BY <4>2, <4>3
    <3> QED
      BY <3>1, <3>2, <2>1 DEF Owned, NoneForgotten
  <2> QED
    BY <2>6, <2>7, <2>8, <2>9, <2>10 DEF Owned
<1> QED
  BY <1>2, <1>7, <1>8 DEF IInv

\* The host begins something on its idle thread, or ends it: a loop of its machine,
\* or one that calls the listeners of an event.
LEMMA HostKeepsItsLoops ==
  ASSUME IInv, NEW s \in Seq(LoopRecords),
         \A i \in 1 .. Len(s) : /\ s[i].machine \in {0, p_host}
                                /\ s[i].toCall \subseteq listeners,
         p_host = 0 /\ careful => s = <<>>,
         loops' = [loops EXCEPT ![Host] = s],
         UNCHANGED <<alive, made, p_host, listeners, tasks, careful>>
  PROVE  IInv'
<1>1. /\ loops \in [Threads -> Seq(LoopRecords)] /\ Host \in Threads
      /\ Workers \subseteq Threads /\ Host \notin Workers
  BY TasksAssumption DEF IInv, Shape, Threads
<1>2. loops'[Host] = s /\ \A u \in Workers : loops'[u] = loops[u]
  BY <1>1
<1>3. Shape'
  BY <1>1, <1>2 DEF IInv, Shape
<1>4. ASSUME careful PROVE Owned'
  <2>1. Owned
    BY <1>4 DEF IInv
  <2>2. HostKeeps'
    BY <2>1, <1>2, <1>4 DEF Owned, HostKeeps
  <2> QED
    BY <2>1, <2>2, <1>2 DEF Owned, WorkersKeep, TasksKeep, Apart, NoneForgotten,
                            Waiting, Busy, CloneOf
<1> QED
  BY <1>3, <1>4 DEF IInv

\* The host's machine goes; carefully, nobody listens any more.
LEMMA DestroyKeeps ==
  ASSUME IInv, HostDestroy
  PROVE  IInv'
<1>1. /\ p_host # 0 /\ alive' = alive \ {p_host} /\ p_host' = 0 /\ loops[Host] = <<>>
      /\ UNCHANGED <<made, loops, listeners, tasks>>
      /\ careful' = (careful /\ \A l \in listeners : l.machine # p_host)
  BY DEF HostDestroy, Idle
<1>2. careful' => careful /\ \A l \in listeners : l.machine # p_host
  BY <1>1
<1>3. Shape'
  BY <1>1 DEF IInv, Shape, Machines
<1>4. ASSUME careful' PROVE Owned'
  <2>1. Owned /\ listeners = {} /\ alive' = alive \ {p_host} /\ 0 \notin alive
    BY <1>1, <1>2, <1>4 DEF IInv, Shape, Owned, HostKeeps
  <2>2. alive' \ {p_host'} = alive \ {p_host}
    BY <2>1, <1>1
  <2>3. HostKeeps'
    BY <2>1, <1>1 DEF HostKeeps
  <2> QED
    BY <2>1, <2>2, <2>3, <1>1 DEF Owned, WorkersKeep, TasksKeep, Apart, NoneForgotten,
                                  Waiting, Busy, CloneOf
<1> QED
  BY <1>3, <1>4 DEF IInv

\* The host gets a machine that nobody has.
LEMMA ConstructKeeps ==
  ASSUME IInv, HostConstruct
  PROVE  IInv'
<1>1. /\ p_host = 0 /\ made < MaxMachines /\ made' = made + 1 /\ p_host' = made + 1
      /\ alive' = alive \cup {made + 1} /\ loops[Host] = <<>>
      /\ UNCHANGED <<loops, listeners, tasks, careful>>
  BY DEF HostConstruct, Idle
<1>2. made \in Nat /\ made + 1 \in Machines /\ made + 1 \notin alive /\ 0 \notin alive
  BY <1>1, TasksAssumption DEF IInv, Shape, Machines
<1>3. Shape'
  BY <1>1, <1>2 DEF IInv, Shape
<1>4. ASSUME careful PROVE Owned'
  <2>1. Owned /\ listeners = {}
    BY <1>1, <1>4 DEF IInv, Owned, HostKeeps
  <2>2. alive' \ {p_host'} = alive \ {p_host}
    BY <1>1, <1>2
  <2>3. HostKeeps'
    BY <2>1, <1>1 DEF HostKeeps
  <2> QED
    BY <2>1, <2>2, <2>3, <1>1 DEF Owned, WorkersKeep, TasksKeep, Apart, NoneForgotten,
                                  Waiting, Busy, CloneOf
<1> QED
  BY <1>1, <1>3, <1>4 DEF IInv

-----------------------------------------------------------------------------
\* One step of a thread: every instruction, whatever the function.
LEMMA InstructionKeeps ==
  ASSUME IInv, NEW t \in Threads, Instruction(t)
  PROVE  IInv'
<1>1. PICK m \in Machines :
        \/ HaltAt(t, m) \/ Throw(t, m) \/ OpAllocStack(t, m) \/ Return(t, m)
        \/ UseGlobals(t, m)
        \/ \E e \in Events, f \in Functions : sys_registEventListner(t, m, e, f)
        \/ \E l \in listeners : sys_unregistEventListner(t, m, l)
        \/ \E e \in Events : sys_executeEvent(t, m, e)
        \/ \E f \in Functions : sys_pushTask(t, m, f)
  BY DEF Instruction
<1>2. CASE HaltAt(t, m)
  <2>1. /\ Executing(t, m) /\ loops' = [loops EXCEPT ![t] = Cut(@, 1)]
        /\ alive' = IF t \in Workers /\ Len(loops[t]) = 1 THEN alive \ {m} ELSE alive
        /\ UNCHANGED <<made, p_host, listeners, tasks, careful>>
    BY <1>2 DEF HaltAt, Leave
  <2> QED
    BY <2>1, LeaveKeeps
<1>3. CASE Throw(t, m)
  <2>1. /\ Executing(t, m) /\ loops' = [loops EXCEPT ![t] = Cut(@, 1)]
        /\ alive' = IF t \in Workers /\ Len(loops[t]) = 1 THEN alive \ {m} ELSE alive
        /\ UNCHANGED <<made, p_host, listeners, tasks, careful>>
    BY <1>3 DEF Throw, Leave, Running
  <2> QED
    BY <2>1, LeaveKeeps
<1>4. CASE OpAllocStack(t, m) \/ Return(t, m)
  <2>1. UNCHANGED owners
    BY <1>4 DEF OpAllocStack, Return, owners
  <2> QED
    BY <2>1, Quiet
<1>5. CASE UseGlobals(t, m)
  <2>1. UNCHANGED owners
    BY <1>5 DEF UseGlobals, PopLocal, PopValue, PopValueOf, PopMember, owners
  <2> QED
    BY <2>1, Quiet
<1>6. CASE \E e \in Events, f \in Functions : sys_registEventListner(t, m, e, f)
  BY <1>6, RegisterKeeps
<1>7. CASE \E l \in listeners : sys_unregistEventListner(t, m, l)
  <2>1. listeners' \subseteq listeners /\ UNCHANGED <<alive, made, p_host, loops, tasks, careful>>
    BY <1>7 DEF sys_unregistEventListner
  <2> QED
    BY <2>1, UnregisterKeeps
<1>8. CASE \E e \in Events : sys_executeEvent(t, m, e)
  BY <1>8, EventKeeps
<1>9. CASE \E f \in Functions : sys_pushTask(t, m, f)
  BY <1>9, PushKeeps
<1> QED
  BY <1>1, <1>2, <1>3, <1>4, <1>5, <1>6, <1>7, <1>8, <1>9

\* Every step of the program.
LEMMA StepKeeps ==
  ASSUME IInv, [Next]_vars
  PROVE  IInv'
<1>1. Host \in Threads /\ Workers \subseteq Threads
  BY DEF Threads
<1>2. loops \in [Threads -> Seq(LoopRecords)] /\ p_host \in 0 .. MaxMachines /\ listeners \subseteq ListenerRecords
  BY TasksAssumption DEF IInv, Shape, Machines
<1>3. CASE HostExecute
  <2> DEFINE new == Loop(p_host, Main, {})
  <2>1. /\ p_host # 0 /\ loops' = [loops EXCEPT ![Host] = Append(<<>>, new)]
        /\ UNCHANGED <<alive, made, p_host, listeners, tasks, careful>>
    BY <1>3 DEF HostExecute, Enter
  <2>2. new \in LoopRecords /\ new.machine = p_host /\ new.toCall = {}
    BY <1>2 DEF LoopRecords, Loop
  <2>3. /\ Append(<<>>, new) = <<new>> /\ <<new>> \in Seq(LoopRecords)
        /\ \A i \in 1 .. Len(<<new>>) : <<new>>[i] = new
    BY <2>2
  <2> QED
    BY <2>1, <2>2, <2>3, HostKeepsItsLoops
<1>4. CASE \E e \in Events : HostEvent(e)
  <2>1. PICK e \in Events : HostEvent(e)
    BY <1>4
  <2> DEFINE called == {l \in listeners : l.event = e}
             new == Loop(0, Main, called)
  <2>2. /\ called # {} /\ loops' = [loops EXCEPT ![Host] = <<new>>]
        /\ UNCHANGED <<alive, made, p_host, listeners, tasks, careful>>
    BY <2>1 DEF HostEvent
  <2>3. new \in LoopRecords /\ new.machine = 0 /\ new.toCall = called
    BY <1>2, TasksAssumption DEF LoopRecords, Loop
  <2>4. <<new>> \in Seq(LoopRecords) /\ \A i \in 1 .. Len(<<new>>) : <<new>>[i] = new
    BY <2>3
  <2>5. careful => p_host # 0
    BY <2>2 DEF IInv, Owned, HostKeeps
  <2> QED
    BY <2>2, <2>3, <2>4, <2>5, HostKeepsItsLoops
<1>5. CASE HostEventDone
  <2>1. /\ loops' = [loops EXCEPT ![Host] = <<>>]
        /\ UNCHANGED <<alive, made, p_host, listeners, tasks, careful>>
    BY <1>5 DEF HostEventDone
  <2>2. /\ <<>> \in Seq(LoopRecords)
        /\ \A i \in 1 .. Len(<<>>) : /\ <<>>[i].machine \in {0, p_host}
                                    /\ <<>>[i].toCall \subseteq listeners
    OBVIOUS
  <2> QED
    BY <2>1, <2>2, HostKeepsItsLoops
<1>6. CASE HostDestroy
  BY <1>6, DestroyKeeps
<1>7. CASE HostConstruct
  BY <1>7, ConstructKeeps
<1>8. CASE Instruction(Host) \/ CallListener(Host)
  BY <1>8, <1>1, InstructionKeeps, CallKeeps
<1>9. CASE \E t \in Workers : Work(t)
  BY <1>9, <1>1, InstructionKeeps, CallKeeps, TakeKeeps DEF Work
<1>10. CASE UNCHANGED vars
  <2>1. UNCHANGED owners
    BY <1>10 DEF vars, owners
  <2> QED
    BY <2>1, Quiet
<1> QED
  BY <1>3, <1>4, <1>5, <1>6, <1>7, <1>8, <1>9, <1>10 DEF Next

\* The owners of the machines: what every state satisfies.
THEOREM Owners == Spec => []IInv
<1>1. Init => IInv
  BY Initially
<1>2. IInv /\ [Next]_vars => IInv'
  BY StepKeeps
<1> QED
  BY <1>1, <1>2, PTL DEF Spec

-----------------------------------------------------------------------------
\* How many a set has whose elements are all the same.
LEMMA AllTheSame ==
  ASSUME NEW S, \A a, b \in S : a = b
  PROVE  /\ S = {} => Cardinality(S) = 0
         /\ S # {} => Cardinality(S) = 1
<1>1. S = {} => Cardinality(S) = 0
  BY FS_EmptySet
<1>2. ASSUME S # {} PROVE Cardinality(S) = 1
  <2>1. PICK a \in S : TRUE
    BY <1>2
  <2>2. S = {a}
    BY <2>1
  <2> QED
    BY <2>2, FS_Singleton
<1> QED
  BY <1>1, <1>2

\* Where a thread is that is in a machine.
LEMMA WhereItIs ==
  ASSUME Shape, Owned, NEW m \in Machines
  PROVE  /\ On(Host, m) # {} => m = p_host
         /\ \A t \in Workers : On(t, m) # {} <=> Busy(t) /\ CloneOf(t) = m
         /\ \A t \in Workers : On(t, m) # {} => m \in alive \ {p_host}
<1>1. m # 0
  BY DEF Machines
<1>2. On(Host, m) # {} => m = p_host
  BY <1>1 DEF On, Owned, HostKeeps
<1>3. ASSUME NEW t \in Workers
      PROVE  /\ On(t, m) # {} <=> Busy(t) /\ CloneOf(t) = m
             /\ On(t, m) # {} => m \in alive \ {p_host}
  <2>1. t \in Threads /\ loops[t] \in Seq(LoopRecords)
    BY DEF Shape, Threads
  <2>2. ASSUME On(t, m) # {} PROVE Busy(t) /\ CloneOf(t) = m /\ m \in alive \ {p_host}
    <3>1. PICK i \in 1 .. Len(loops[t]) : loops[t][i].machine = m
      BY <2>2 DEF On
    <3>2. Busy(t)
      BY <2>1, <3>1 DEF Busy
    <3>3. i = 1 /\ CloneOf(t) \in alive \ {p_host}
      BY <3>1, <3>2 DEF Owned, WorkersKeep
    <3> QED
      BY <3>1, <3>2, <3>3 DEF CloneOf
  <2>3. ASSUME Busy(t), CloneOf(t) = m PROVE On(t, m) # {}
    <3>1. 1 \in 1 .. Len(loops[t])
      BY <2>1, <2>3 DEF Owned, WorkersKeep
    <3> QED
      BY <3>1, <2>3 DEF On, CloneOf
  <2> QED
    BY <2>2, <2>3
<1> QED
  BY <1>2, <1>3

\* No machine is used by two threads (a machine has no lock), as long as listeners
\* and events are used as carefully as the code needs.
THEOREM Exclusive == Spec => []OneThread
<1>1. ASSUME IInv PROVE OneThread
  <2> SUFFICES ASSUME careful, NEW m \in Machines
               PROVE  Cardinality({t \in Threads : On(t, m) # {}}) <= 1
    BY DEF OneThread
  <2> DEFINE users == {t \in Threads : On(t, m) # {}}
  <2>1. Shape /\ Owned
    BY <1>1 DEF IInv
  <2>2. ASSUME NEW t \in users, NEW u \in users PROVE t = u
    <3>1. t \in {Host} \cup Workers /\ u \in {Host} \cup Workers
      BY DEF Threads
    <3>2. CASE t \in Workers /\ u \in Workers
      BY <3>2, <2>1, WhereItIs DEF Owned, Apart
    <3>3. CASE t = Host /\ u \in Workers
      BY <3>3, <2>1, WhereItIs
    <3>4. CASE t \in Workers /\ u = Host
      BY <3>4, <2>1, WhereItIs
    <3> QED
      BY <3>1, <3>2, <3>3, <3>4
  <2>3. Cardinality(users) \in {0, 1}
    BY <2>2, AllTheSame
  <2> QED
    BY <2>3
<1> QED
  BY <1>1, Owners, PTL

\* Every clone has exactly one user, a task that waits or a worker, until the
\* worker deletes it (CloneHasOneTask): no clone is forgotten or deleted twice.
THEOREM OneTask == Spec => []CloneHasOneTask
<1>1. ASSUME IInv PROVE CloneHasOneTask
  <2> SUFFICES ASSUME careful, NEW m \in (1 .. made) \ {p_host}
               PROVE  LET users == Cardinality(Queued(m)) + Cardinality({t \in Workers : On(t, m) # {}})
                      IN  IF m \in alive THEN users = 1 ELSE users = 0 /\ On(Host, m) = {}
    BY DEF CloneHasOneTask
  <2> DEFINE workers == {t \in Workers : On(t, m) # {}}
  <2>1. Shape /\ Owned /\ m \in Machines
    BY <1>1, TasksAssumption DEF IInv, Shape, Machines
  <2>2. /\ \A t \in workers : Busy(t) /\ CloneOf(t) = m
        /\ \A t \in Workers : Busy(t) /\ CloneOf(t) = m => t \in workers
        /\ workers # {} => m \in alive
    BY <2>1, WhereItIs
  <2>3. Queued(m) = {i \in Waiting : tasks[i].machine = m}
    BY DEF Queued, Waiting
  <2>4. Queued(m) # {} => m \in alive
    BY <2>1, <2>3 DEF Owned, TasksKeep
  <2>5. \A t, u \in workers : t = u
    BY <2>1, <2>2 DEF Owned, Apart
  <2>6. \A i, j \in Queued(m) : i = j
    BY <2>1, <2>3 DEF Owned, Apart
  <2>7. Queued(m) = {} \/ workers = {}
    BY <2>1, <2>2, <2>3 DEF Owned, Apart
  <2>8. m \in alive => Queued(m) # {} \/ workers # {}
    BY <2>1, <2>2, <2>3 DEF Owned, NoneForgotten
  <2>9. /\ Cardinality(workers) = IF workers = {} THEN 0 ELSE 1
        /\ Cardinality(Queued(m)) = IF Queued(m) = {} THEN 0 ELSE 1
    BY <2>5, <2>6, AllTheSame
  <2>10. On(Host, m) = {}
    BY <2>1, WhereItIs
  <2>11. CASE m \in alive
    BY <2>11, <2>7, <2>8, <2>9
  <2>12. CASE m \notin alive
    BY <2>12, <2>2, <2>4, <2>9, <2>10
  <2> QED
    BY <2>11, <2>12
<1> QED
  BY <1>1, Owners, PTL

-----------------------------------------------------------------------------
\* The objects of the variables.
Heap ==
  /\ made \in Machines /\ alive \subseteq 1 .. made
  /\ cells \in [Machines -> [Globals -> Objects]]
  /\ locals \in [Machines -> [Locals -> Objects \cup {0}]]
  /\ contents \in [Objects -> Values]

\* What the machines see in their globals, and which have an object in common.
Seen == [m \in alive |-> [g \in Globals |-> contents[cells[m][g]]]]
Common == {p \in alive \X alive : p[1] = p[2] \/ Within(p[1]) \cap Within(p[2]) # {}}

\* There is always another object: Objects bounds no behaviour.
LEMMA FreeIsFree ==
  ASSUME Heap
  PROVE  Free \in Objects \ InUse
<1> DEFINE c == Cardinality(Globals)
           d == Cardinality(Locals)
           Names == (Globals \X {1}) \cup (Locals \X {2})
           Places == Machines \X Names
           Object(p) == IF p[2][2] = 1 THEN cells[p[1]][p[2][1]] ELSE locals[p[1]][p[2][1]]
<1>1. c \in Nat /\ d \in Nat /\ MaxMachines \in Nat \ {0} /\ MaxMachines * (c + d) \in Nat
  <2>1. c \in Nat /\ d \in Nat
    BY TasksAssumption, FS_CardinalityType
  <2> QED
    BY <2>1, TasksAssumption
<1>2. IsFiniteSet(Names) /\ Cardinality(Names) \in Nat /\ Cardinality(Names) <= c + d
  <2>1. /\ IsFiniteSet({1}) /\ Cardinality({1}) = 1 /\ IsFiniteSet({2}) /\ Cardinality({2}) = 1
    BY FS_Singleton
  <2>2. /\ IsFiniteSet(Globals \X {1}) /\ Cardinality(Globals \X {1}) = c * 1
        /\ IsFiniteSet(Locals \X {2}) /\ Cardinality(Locals \X {2}) = d * 1
    BY <2>1, TasksAssumption, FS_Product
  <2>3. /\ IsFiniteSet(Names)
        /\ Cardinality(Names) = c * 1 + d * 1 - Cardinality((Globals \X {1}) \cap (Locals \X {2}))
    BY <2>2, FS_Union
  <2>4. IsFiniteSet((Globals \X {1}) \cap (Locals \X {2}))
    BY <2>2, FS_Intersection
  <2>5. Cardinality((Globals \X {1}) \cap (Locals \X {2})) \in Nat /\ Cardinality(Names) \in Nat
    BY <2>3, <2>4, FS_CardinalityType
  <2> QED
    BY <2>3, <2>5, <1>1
<1>3. IsFiniteSet(Places) /\ Cardinality(Places) \in Nat /\ Cardinality(Places) <= MaxMachines * (c + d)
  <2>1. IsFiniteSet(Machines) /\ Cardinality(Machines) = MaxMachines
    BY <1>1, FS_Interval DEF Machines
  <2>2. PICK k \in Nat : k = Cardinality(Names)
    BY <1>2
  <2>3. IsFiniteSet(Places) /\ Cardinality(Places) = MaxMachines * k
    <3> HIDE DEF Names
    <3> QED
      BY <2>1, <2>2, <1>2, FS_Product
  <2>4. k <= c + d
    BY <2>2, <1>2
  <2>5. PICK n \in Nat : n = c + d
    BY <1>1
  <2>6. \A M \in Nat : k <= n => M * k <= M * n
    BY SMT
  <2> QED
    BY <2>3, <2>4, <2>5, <2>6, <1>1
<1>4. IsFiniteSet(Objects) /\ Cardinality(Objects) = MaxMachines * (c + d) + 1
  <2>1. PICK top \in Nat : top = MaxMachines * (c + d) + 1
    BY <1>1
  <2>2. IsFiniteSet(1 .. top) /\ Cardinality(1 .. top) = IF 1 > top THEN 0 ELSE top - 1 + 1
    BY FS_Interval
  <2>3. top >= 1
    BY <1>1, <2>1
  <2> QED
    BY <2>1, <2>2, <2>3 DEF Objects
<1>5. Objects \ InUse # {}
  <2> SUFFICES ASSUME Objects \subseteq InUse PROVE FALSE
    OBVIOUS
  <2> DEFINE home == [o \in Objects |-> CHOOSE p \in Places : Object(p) = o]
  <2>1. ASSUME NEW o \in Objects PROVE home[o] \in Places /\ Object(home[o]) = o
    <3>1. PICK m \in alive : o \in Within(m)
      BY DEF InUse
    <3>2. m \in Machines
      BY TasksAssumption DEF Heap, Machines
    <3>3. \E p \in Places : Object(p) = o
      <4>1. CASE \E g \in Globals : o = cells[m][g]
        <5>1. PICK g \in Globals : o = cells[m][g]
          BY <4>1
        <5>2. <<m, <<g, 1>>>> \in Places /\ Object(<<m, <<g, 1>>>>) = o
          BY <5>1, <3>2
        <5> QED
          BY <5>2
      <4>2. CASE \E l \in Locals : o = locals[m][l]
        <5>1. PICK l \in Locals : o = locals[m][l]
          BY <4>2
        <5>2. <<m, <<l, 2>>>> \in Places /\ Object(<<m, <<l, 2>>>>) = o
          BY <5>1, <3>2
        <5> QED
          BY <5>2
      <4> QED
        BY <3>1, <4>1, <4>2 DEF Within
    <3> HIDE DEF Object, Places
    <3> QED
      BY <3>3
  <2>2. home \in [Objects -> Places]
    <3> HIDE DEF Object, Places
    <3> QED
      BY <2>1
  <2>3. Cardinality(Places) < Cardinality(Objects)
    BY <1>1, <1>3, <1>4
  <2>4. PICK a, b \in Objects : a # b /\ home[a] = home[b]
    <3> HIDE DEF home, Places
    <3> QED
      BY <2>2, <2>3, <1>3, <1>4, FS_PigeonHole
  <2>5. Object(home[a]) = a /\ Object(home[b]) = b
    BY <2>1
  <2> HIDE DEF Object, home
  <2> QED
    BY <2>4, <2>5
<1> QED
  BY <1>5 DEF Free

\* A machine has no objects but those in use, and uses them by its variables alone.
LEMMA WithinUse ==
  ASSUME Heap
  PROVE  /\ \A m \in Machines : Within(m) \subseteq Objects
         /\ \A m \in alive : Within(m) \subseteq InUse /\ m \in Machines
         /\ \A m \in Machines, g \in Globals : cells[m][g] \in Within(m)
<1>1. alive \subseteq Machines
  BY TasksAssumption DEF Heap, Machines
<1> QED
  BY <1>1 DEF Heap, Within, InUse

LEMMA SameWithin ==
  ASSUME NEW m \in Machines, cells'[m] = cells[m], locals'[m] = locals[m]
  PROVE  Within(m)' = Within(m)
BY DEF Within

\* The host's first machine.
LEMMA HeapInitially == Init => Heap /\ Shared!Init
<1> SUFFICES ASSUME Init PROVE Heap /\ Shared!Init
  OBVIOUS
<1> DEFINE c == Cardinality(Globals)
<1>1. PICK objects \in [Globals -> 1 .. c] :
        /\ \A g, h \in Globals : objects[g] = objects[h] => g = h
        /\ cells = [m \in Machines |-> objects]
  BY DEF Init
<1>2. /\ alive = {1} /\ made = 1 /\ 1 \in Machines
      /\ contents = [o \in Objects |-> Initial] /\ locals = [m \in Machines |-> Bare]
  BY TasksAssumption DEF Init, Machines
<1>3. 1 .. c \subseteq Objects
  <2>1. c \in Nat /\ Cardinality(Locals) \in Nat /\ MaxMachines \in Nat \ {0}
    BY TasksAssumption, FS_CardinalityType
  <2>2. PICK n \in Nat : n = c + Cardinality(Locals)
    BY <2>1
  <2>3. c <= n /\ n <= MaxMachines * n
    BY <2>1, <2>2
  <2>4. Objects = 1 .. MaxMachines * n + 1
    BY <2>2 DEF Objects
  <2>5. PICK k \in Nat : k = MaxMachines * n
    BY <2>1
  <2> QED
    BY <2>1, <2>3, <2>4, <2>5
<1>4. Heap
  <2>1. cells \in [Machines -> [Globals -> Objects]]
    BY <1>1, <1>3
  <2>2. contents \in [Objects -> Values] /\ locals \in [Machines -> [Locals -> Objects \cup {0}]]
    BY <1>2, TasksAssumption DEF Bare
  <2> QED
    BY <1>2, <2>1, <2>2 DEF Heap
<1>5. Seen \in [{1} -> [Globals -> Values]]
  BY <1>2, <1>4 DEF Heap, Seen
<1>6. Common = {<<1, 1>>}
  BY <1>2 DEF Common
<1> QED
  BY <1>2, <1>4, <1>5, <1>6 DEF Shared!Init, Seen, Common

\* Nothing is done, or a function begins or ends and gives up what it refers to;
\* the machine may go with it.
LEMMA Parts ==
  ASSUME Heap, NEW m \in Machines, UNCHANGED <<made, cells, contents>>,
         locals' = locals \/ locals' = [locals EXCEPT ![m] = Bare],
         alive' = alive \/ alive' = alive \ {m}
  PROVE  Heap' /\ [Shared!Next]_<<Seen, Common>>
<1>1. Heap'
  BY DEF Heap, Bare, Objects, Machines
<1>2. ASSUME NEW n \in Machines
      PROVE  Within(n)' \subseteq Within(n) /\ (n # m => Within(n)' = Within(n))
  <2>1. locals \in [Machines -> [Locals -> Objects \cup {0}]]
    BY DEF Heap
  <2>2. locals'[n] = locals[n] \/ (n = m /\ locals'[n] = Bare)
    BY <2>1
  <2>3. CASE locals'[n] = locals[n]
    BY <2>3, SameWithin
  <2>4. CASE n = m /\ locals'[n] = Bare
    BY <2>4 DEF Within, Bare
  <2> QED
    BY <2>2, <2>3, <2>4
<1>3. alive \subseteq Machines /\ alive' \subseteq alive
  BY WithinUse
<1>4. Common' \subseteq Common
  BY <1>2, <1>3 DEF Common
<1>5. Seen' = [n \in alive' |-> Seen[n]] /\ DOMAIN Seen = alive
  BY <1>3 DEF Seen
<1>6. CASE alive' = alive
  <2>1. Seen' = Seen
    BY <1>6 DEF Seen
  <2>2. Shared!Part
    BY <2>1, <1>4 DEF Shared!Part, Seen, Common
  <2> QED
    BY <1>1, <2>2 DEF Shared!Next
<1>7. CASE alive' = alive \ {m} /\ m \in alive
  <2>1. Common' = {p \in Common : m \notin {p[1], p[2]}}
    <3>1. ASSUME NEW p \in Common' PROVE p \in Common /\ m \notin {p[1], p[2]}
      BY <1>4, <1>7 DEF Common
    <3>2. ASSUME NEW p \in Common, m \notin {p[1], p[2]} PROVE p \in Common'
      <4>1. /\ p \in alive \X alive /\ p[1] \in alive' /\ p[2] \in alive' /\ p = <<p[1], p[2]>>
            /\ p[1] = p[2] \/ Within(p[1]) \cap Within(p[2]) # {}
        BY <3>2, <1>7 DEF Common
      <4>2. Within(p[1])' = Within(p[1]) /\ Within(p[2])' = Within(p[2])
        BY <4>1, <3>2, <1>2, <1>3
      <4> QED
        BY <4>1, <4>2 DEF Common
    <3> QED
      BY <3>1, <3>2
  <2>2. Shared!Delete(m)
    BY <2>1, <1>5, <1>7 DEF Shared!Delete, Seen, Common
  <2> QED
    BY <1>1, <2>2 DEF Shared!Next
<1> QED
  BY <1>6, <1>7

\* What has to be shown for a change: machine m gets no object that another has,
\* and whoever sees it has an object in common with m.
LEMMA Changes ==
  ASSUME Heap, Heap', NEW m \in alive, NEW v \in Values, UNCHANGED alive,
         \A n \in alive \ {m} : Within(n)' = Within(n),
         \A o \in Within(m)' : o \in Within(m) \/ o \notin InUse,
         \A n \in alive, g \in Globals :
           contents'[cells'[n][g]] # contents[cells[n][g]] =>
             contents'[cells'[n][g]] = v /\ <<m, n>> \in Common
  PROVE  Shared!Next
<1>1. alive \subseteq Machines /\ \A n \in alive : Within(n) \subseteq InUse
  BY WithinUse
<1>2. Seen' \in [alive -> [Globals -> Values]] /\ DOMAIN Seen = alive
  <2>1. ASSUME NEW n \in alive, NEW g \in Globals PROVE contents'[cells'[n][g]] \in Values
    BY <1>1 DEF Heap
  <2> QED
    BY <2>1 DEF Seen
<1>3. \A n \in alive, g \in Globals :
        Seen'[n][g] # Seen[n][g] => Seen'[n][g] = v /\ <<m, n>> \in Common
  BY DEF Seen
<1>4. Common' \subseteq Common
  <2> SUFFICES ASSUME NEW p \in Common' PROVE p \in Common
    OBVIOUS
  <2>1. p \in alive \X alive /\ (p[1] = p[2] \/ Within(p[1])' \cap Within(p[2])' # {})
    BY DEF Common
  <2>2. CASE p[1] = p[2]
    BY <2>1, <2>2 DEF Common
  <2>3. CASE p[1] # p[2]
    <3>1. PICK o : o \in Within(p[1])' /\ o \in Within(p[2])'
      BY <2>1, <2>3
    <3>2. ASSUME NEW n \in alive \ {m}, o \in Within(n)' PROVE o \in Within(n) /\ o \in InUse
      BY <3>2, <1>1
    <3>3. o \in InUse
      BY <2>1, <2>3, <3>1, <3>2
    <3>4. o \in Within(p[1]) /\ o \in Within(p[2])
      BY <2>1, <3>1, <3>2, <3>3
    <3> QED
      BY <2>1, <3>4 DEF Common
  <2> QED
    BY <2>2, <2>3
<1>5. Shared!Change(m, v)
  BY <1>2, <1>3, <1>4 DEF Shared!Change, Seen, Common
<1>6. m \in Machines
  BY <1>1
<1> QED
  BY <1>5, <1>6 DEF Shared!Next

\* A function takes a global.
LEMMA PopLocalSeen ==
  ASSUME Heap, NEW t, NEW m \in Machines, NEW l \in Locals, NEW g \in Globals, PopLocal(t, m, l, g)
  PROVE  Heap' /\ Shared!Next
<1>1. /\ m \in alive /\ UNCHANGED <<alive, made, cells, contents>>
      /\ locals' = [locals EXCEPT ![m][l] = cells[m][g]]
  BY DEF PopLocal, Running, Executing
<1>2. /\ cells \in [Machines -> [Globals -> Objects]]
      /\ locals \in [Machines -> [Locals -> Objects \cup {0}]]
  BY DEF Heap
<1>3. \A n \in Machines, k \in Locals :
        locals'[n][k] = IF n = m /\ k = l THEN cells[m][g] ELSE locals[n][k]
  BY <1>1, <1>2
<1>4. Heap'
  <2>1. locals' \in [Machines -> [Locals -> Objects \cup {0}]]
    BY <1>1, <1>2
  <2> QED
    BY <2>1, <1>1 DEF Heap, Objects, Machines
<1>5. ASSUME NEW n \in alive \ {m} PROVE Within(n)' = Within(n)
  BY <1>1, <1>2, WithinUse, SameWithin
<1>6. ASSUME NEW o \in Within(m)' PROVE o \in Within(m)
  BY <1>1, <1>3 DEF Within
<1> QED
  BY <1>1, <1>4, <1>5, <1>6, TasksAssumption, Changes

\* An assignment of what was computed: the new object is nobody's.
LEMMA PopValueHeap ==
  ASSUME Heap, NEW t, NEW m \in Machines, NEW g \in Globals, NEW v \in Values, PopValue(t, m, g, v)
  PROVE  /\ Heap' /\ m \in alive /\ UNCHANGED <<alive, locals>>
         /\ Free \notin InUse
         /\ \A n \in Machines : n # m => cells'[n] = cells[n]
         /\ cells'[m][g] = Free
         /\ \A h \in Globals : h # g => cells'[m][h] = cells[m][h]
         /\ contents'[cells'[m][g]] = v
         /\ \A n \in alive, h \in Globals : n # m \/ h # g =>
              contents'[cells'[n][h]] = contents[cells[n][h]]
<1>1. /\ m \in alive /\ UNCHANGED <<alive, made, locals>>
      /\ cells' = [cells EXCEPT ![m][g] = Free] /\ contents' = [contents EXCEPT ![Free] = v]
  BY DEF PopValue, Running, Executing
<1>2. Free \in Objects /\ Free \notin InUse
  BY FreeIsFree
<1>3. cells \in [Machines -> [Globals -> Objects]] /\ contents \in [Objects -> Values]
  BY DEF Heap
<1>4. \A n \in Machines, h \in Globals :
        cells'[n][h] = IF n = m /\ h = g THEN Free ELSE cells[n][h]
  BY <1>1, <1>3
<1>5. \A o \in Objects : contents'[o] = IF o = Free THEN v ELSE contents[o]
  BY <1>1, <1>3
<1>6. \A n \in alive, h \in Globals : cells[n][h] # Free /\ cells[n][h] \in Objects /\ n \in Machines
  BY <1>2, WithinUse
<1>7. Heap'
  <2>1. cells' \in [Machines -> [Globals -> Objects]] /\ contents' \in [Objects -> Values]
    BY <1>1, <1>2, <1>3
  <2> QED
    BY <2>1, <1>1 DEF Heap, Objects, Machines
<1>8. \A n \in alive, h \in Globals :
        contents'[cells'[n][h]] = IF n = m /\ h = g THEN v ELSE contents[cells[n][h]]
  BY <1>2, <1>4, <1>5, <1>6
<1>9. \A n \in Machines : n # m => cells'[n] = cells[n]
  BY <1>1, <1>3
<1> QED
  BY <1>1, <1>2, <1>4, <1>7, <1>8, <1>9

LEMMA PopValueSeen ==
  ASSUME Heap, NEW t, NEW m \in Machines, NEW g \in Globals, NEW v \in Values, PopValue(t, m, g, v)
  PROVE  Heap' /\ Shared!Next
<1>1. /\ Heap' /\ m \in alive /\ UNCHANGED <<alive, locals>>
      /\ Free \notin InUse
      /\ \A n \in Machines : n # m => cells'[n] = cells[n]
      /\ cells'[m][g] = Free
      /\ \A h \in Globals : h # g => cells'[m][h] = cells[m][h]
      /\ contents'[cells'[m][g]] = v
      /\ \A n \in alive, h \in Globals : n # m \/ h # g =>
           contents'[cells'[n][h]] = contents[cells[n][h]]
  BY PopValueHeap
<1>2. ASSUME NEW n \in alive \ {m} PROVE Within(n)' = Within(n)
  BY <1>1, WithinUse, SameWithin
<1>3. ASSUME NEW o \in Within(m)' PROVE o \in Within(m) \/ o \notin InUse
  BY <1>1 DEF Within
<1>4. <<m, m>> \in Common
  BY <1>1 DEF Common
<1>5. ASSUME NEW n \in alive, NEW h \in Globals, contents'[cells'[n][h]] # contents[cells[n][h]]
      PROVE  contents'[cells'[n][h]] = v /\ <<m, n>> \in Common
  BY <1>1, <1>4, <1>5
<1> QED
  BY <1>1, <1>2, <1>3, <1>5, Changes

\* An assignment of another variable.
LEMMA PopValueOfHeap ==
  ASSUME Heap, NEW t, NEW m \in Machines, NEW g \in Globals, NEW o \in Within(m), PopValueOf(t, m, g, o)
  PROVE  /\ Heap' /\ m \in alive /\ UNCHANGED <<alive, locals, contents>>
         /\ \A n \in Machines : n # m => cells'[n] = cells[n]
         /\ cells'[m][g] = o /\ \A h \in Globals : h # g => cells'[m][h] = cells[m][h]
<1>1. /\ m \in alive /\ UNCHANGED <<alive, made, locals, contents>>
      /\ cells' = [cells EXCEPT ![m][g] = o]
  BY DEF PopValueOf, Running, Executing
<1>2. cells \in [Machines -> [Globals -> Objects]] /\ o \in Objects
  BY WithinUse DEF Heap
<1>3. cells' \in [Machines -> [Globals -> Objects]]
  BY <1>1, <1>2
<1>4. Heap'
  BY <1>1, <1>3 DEF Heap, Objects, Machines
<1> QED
  BY <1>1, <1>2, <1>4

LEMMA PopValueOfSeen ==
  ASSUME Heap, NEW t, NEW m \in Machines, NEW g \in Globals, NEW o \in Within(m), PopValueOf(t, m, g, o)
  PROVE  Heap' /\ Shared!Next
<1>1. /\ Heap' /\ m \in alive /\ UNCHANGED <<alive, locals, contents>>
      /\ \A n \in Machines : n # m => cells'[n] = cells[n]
      /\ cells'[m][g] = o /\ \A h \in Globals : h # g => cells'[m][h] = cells[m][h]
  BY PopValueOfHeap
<1>2. ASSUME NEW n \in alive \ {m} PROVE Within(n)' = Within(n)
  BY <1>1, WithinUse, SameWithin
<1>3. ASSUME NEW p \in Within(m)' PROVE p \in Within(m)
  BY <1>1 DEF Within
<1>4. <<m, m>> \in Common /\ contents[o] \in Values
  BY <1>1, WithinUse DEF Common, Heap
<1>5. ASSUME NEW n \in alive, NEW h \in Globals, contents'[cells'[n][h]] # contents[cells[n][h]]
      PROVE  contents'[cells'[n][h]] = contents[o] /\ <<m, n>> \in Common
  <2>1. n \in Machines
    BY WithinUse
  <2> QED
    BY <2>1, <1>1, <1>4, <1>5
<1> QED
  BY <1>1, <1>2, <1>3, <1>4, <1>5, Changes

\* A change of an object: whoever sees it has the object.
LEMMA PopMemberSeen ==
  ASSUME Heap, NEW t, NEW m \in Machines, NEW o \in Within(m), NEW v \in Values, PopMember(t, m, o, v)
  PROVE  Heap' /\ Shared!Next
<1>1. /\ m \in alive /\ UNCHANGED <<alive, made, cells, locals>>
      /\ contents' = [contents EXCEPT ![o] = v]
  BY DEF PopMember, Running, Executing
<1>2. contents \in [Objects -> Values] /\ o \in Objects
  BY WithinUse DEF Heap
<1>3. \A p \in Objects : contents'[p] = IF p = o THEN v ELSE contents[p]
  BY <1>1, <1>2
<1>4. Heap'
  BY <1>1, <1>2 DEF Heap, Objects, Machines
<1>5. \A n \in Machines : Within(n)' = Within(n)
  BY <1>1, SameWithin
<1>6. ASSUME NEW n \in alive, NEW h \in Globals, contents'[cells'[n][h]] # contents[cells[n][h]]
      PROVE  contents'[cells'[n][h]] = v /\ <<m, n>> \in Common
  <2>1. n \in Machines /\ cells[n][h] \in Within(n) /\ cells[n][h] \in Objects
    BY WithinUse DEF Heap
  <2>2. cells[n][h] = o
    BY <2>1, <1>1, <1>3, <1>6
  <2> QED
    BY <2>1, <2>2, <1>1, <1>3 DEF Common
<1>7. alive \subseteq Machines
  BY WithinUse
<1> QED
  BY <1>1, <1>4, <1>5, <1>6, <1>7, Changes

\* A task is pushed: its clone sees what the machine that pushes it sees, and has
\* the same objects in its globals.
LEMMA PushSeen ==
  ASSUME Heap, NEW t, NEW m \in Machines, NEW f \in Functions, sys_pushTask(t, m, f)
  PROVE  Heap' /\ Shared!Next
<1> PICK clone : clone = made + 1
  OBVIOUS
<1>1. /\ m \in alive /\ made < MaxMachines /\ made' = clone /\ alive' = alive \cup {clone}
      /\ cells' = [cells EXCEPT ![clone] = cells[m]] /\ UNCHANGED contents
      /\ locals' = [locals EXCEPT ![clone] = Bare]
  BY DEF sys_pushTask, Running, Executing
<1>2. clone \in Machines /\ clone \notin alive /\ alive \subseteq Machines /\ alive \subseteq 1 .. clone
  BY <1>1, TasksAssumption DEF Heap, Machines
<1>3. /\ cells \in [Machines -> [Globals -> Objects]] /\ contents \in [Objects -> Values]
      /\ locals \in [Machines -> [Locals -> Objects \cup {0}]]
  BY DEF Heap
<1>4. \A n \in Machines : /\ cells'[n] = IF n = clone THEN cells[m] ELSE cells[n]
                          /\ locals'[n] = IF n = clone THEN Bare ELSE locals[n]
  BY <1>1, <1>3
<1>5. Heap'
  <2>1. cells' \in [Machines -> [Globals -> Objects]]
    BY <1>1, <1>2, <1>3
  <2>2. locals' \in [Machines -> [Locals -> Objects \cup {0}]]
    BY <1>1, <1>2, <1>3 DEF Bare
  <2> QED
    BY <2>1, <2>2, <1>1, <1>2, <1>3 DEF Heap, Objects, Machines
<1>6. Seen' = [k \in alive \cup {clone} |-> IF k = clone THEN Seen[m] ELSE Seen[k]]
  BY <1>1, <1>2, <1>4 DEF Seen
<1>7. \A n \in alive : Within(n)' = Within(n)
  BY <1>2, <1>4, SameWithin
<1>8. Within(clone)' \subseteq Within(m)
  BY <1>2, <1>4 DEF Within, Bare
<1>9. Common \subseteq Common'
  BY <1>1, <1>7 DEF Common
<1>10. ASSUME NEW p \in Common' \ Common
       PROVE  \/ p = <<clone, clone>>
              \/ p[1] = clone /\ <<m, p[2]>> \in Common
              \/ p[2] = clone /\ <<p[1], m>> \in Common
  <2>1. /\ p = <<p[1], p[2]>> /\ p[1] \in alive \cup {clone} /\ p[2] \in alive \cup {clone}
        /\ p[1] = p[2] \/ Within(p[1])' \cap Within(p[2])' # {}
    BY <1>1 DEF Common
  <2>2. CASE p[1] \in alive /\ p[2] \in alive
    BY <2>1, <2>2, <1>7 DEF Common
  <2>3. CASE p[1] = clone /\ p[2] \in alive
    <3>1. Within(p[1])' \cap Within(p[2])' # {}
      BY <2>1, <2>3, <1>2
    <3>2. Within(m) \cap Within(p[2]) # {}
      BY <3>1, <2>3, <1>7, <1>8
    <3> QED
      BY <3>2, <2>3, <1>1 DEF Common
  <2>4. CASE p[1] \in alive /\ p[2] = clone
    <3>1. Within(p[1])' \cap Within(p[2])' # {}
      BY <2>1, <2>4, <1>2
    <3>2. Within(p[1]) \cap Within(m) # {}
      BY <3>1, <2>4, <1>7, <1>8
    <3> QED
      BY <3>2, <2>4, <1>1 DEF Common
  <2>5. CASE p[1] = clone /\ p[2] = clone
    BY <2>1, <2>5
  <2> QED
    BY <2>1, <2>2, <2>3, <2>4, <2>5
<1>11. Shared!Clone(m, clone)
  <2>1. DOMAIN Seen = alive
    BY DEF Seen
  <2> QED
    BY <2>1, <1>1, <1>2, <1>6, <1>9, <1>10 DEF Shared!Clone, Seen, Common
<1> QED
  BY <1>2, <1>5, <1>11 DEF Shared!Next

\* The host's next machine has objects that nobody has.
LEMMA ConstructSeen ==
  ASSUME Heap, HostConstruct
  PROVE  Heap' /\ Shared!Next
<1> PICK new : new = made + 1
  OBVIOUS
<1>1. /\ made < MaxMachines /\ made' = new /\ alive' = alive \cup {new}
      /\ locals' = [locals EXCEPT ![made'] = Bare]
  BY DEF HostConstruct
<1>2. PICK objects \in [Globals -> Objects \ InUse] :
        /\ cells' = [cells EXCEPT ![made'] = objects]
        /\ contents' = [o \in Objects |->
             IF \E g \in Globals : objects[g] = o THEN Initial ELSE contents[o]]
  BY DEF HostConstruct
<1>3. new \in Machines /\ new \notin alive /\ alive \subseteq Machines /\ alive \subseteq 1 .. new
  BY <1>1, TasksAssumption DEF Heap, Machines
<1>4. /\ cells \in [Machines -> [Globals -> Objects]] /\ contents \in [Objects -> Values]
      /\ locals \in [Machines -> [Locals -> Objects \cup {0}]]
  BY DEF Heap
<1>5. \A n \in Machines : /\ cells'[n] = IF n = new THEN objects ELSE cells[n]
                          /\ locals'[n] = IF n = new THEN Bare ELSE locals[n]
  BY <1>1, <1>2, <1>4
<1>6. Heap'
  <2>1. cells' \in [Machines -> [Globals -> Objects]]
    BY <1>1, <1>2, <1>3, <1>4
  <2>2. contents' \in [Objects -> Values]
    BY <1>2, <1>4, TasksAssumption
  <2>3. locals' \in [Machines -> [Locals -> Objects \cup {0}]]
    BY <1>1, <1>3, <1>4 DEF Bare
  <2>4. made' \in Machines /\ alive' \subseteq 1 .. made'
    BY <1>1, <1>3 DEF Heap, Machines
  <2> QED
    BY <2>1, <2>2, <2>3, <2>4 DEF Heap, Objects, Machines
<1>7. \A n \in alive, g \in Globals : contents'[cells'[n][g]] = contents[cells[n][g]]
  <2> SUFFICES ASSUME NEW n \in alive, NEW g \in Globals
               PROVE  contents'[cells'[n][g]] = contents[cells[n][g]]
    OBVIOUS
  <2>1. cells[n][g] \in InUse /\ cells[n][g] \in Objects /\ cells'[n][g] = cells[n][g]
    BY <1>3, <1>4, <1>5, WithinUse
  <2>2. \A h \in Globals : objects[h] # cells[n][g]
    BY <2>1
  <2> QED
    BY <2>1, <2>2, <1>2
<1>8. \A g \in Globals : contents'[cells'[new][g]] = Initial
  BY <1>2, <1>3, <1>5
<1>9. Seen' = [n \in alive \cup {new} |-> IF n = new THEN [g \in Globals |-> Initial] ELSE Seen[n]]
  <2>1. Seen' = [n \in alive \cup {new} |-> [g \in Globals |-> contents'[cells'[n][g]]]]
    BY <1>1 DEF Seen
  <2>2. [g \in Globals |-> contents'[cells'[new][g]]] = [g \in Globals |-> Initial]
    BY <1>8
  <2>3. \A n \in alive : n # new /\ [g \in Globals |-> contents'[cells'[n][g]]] = Seen[n]
    BY <1>3, <1>7 DEF Seen
  <2> QED
    BY <2>1, <2>2, <2>3
<1>10. [g \in Globals |-> Initial] \in [Globals -> Values]
  BY TasksAssumption
<1>11. \A n \in alive : Within(n)' = Within(n) /\ Within(n) \subseteq InUse
  BY <1>3, <1>5, SameWithin, WithinUse
<1>12. Within(new)' \cap InUse = {}
  BY <1>3, <1>5 DEF Within, Bare
<1>13. Common' = Common \cup {<<new, new>>}
  <2>1. ASSUME NEW p \in Common' PROVE p \in Common \/ p = <<new, new>>
    <3>1. /\ p = <<p[1], p[2]>> /\ p[1] \in alive \cup {new} /\ p[2] \in alive \cup {new}
          /\ p[1] = p[2] \/ Within(p[1])' \cap Within(p[2])' # {}
      BY <1>1 DEF Common
    <3>2. CASE p[1] \in alive /\ p[2] \in alive
      BY <3>1, <3>2, <1>11 DEF Common
    <3>3. CASE p[1] = new /\ p[2] = new
      BY <3>1, <3>3
    <3>4. CASE p[1] = new /\ p[2] \in alive
      BY <3>1, <3>4, <1>3, <1>11, <1>12
    <3>5. CASE p[1] \in alive /\ p[2] = new
      BY <3>1, <3>5, <1>3, <1>11, <1>12
    <3> QED
      BY <3>1, <3>2, <3>3, <3>4, <3>5
  <2>2. Common \cup {<<new, new>>} \subseteq Common'
    BY <1>1, <1>11 DEF Common
  <2> QED
    BY <2>1, <2>2
<1>14. Shared!Construct(new)
  <2>1. DOMAIN Seen = alive
    BY DEF Seen
  <2> QED
    BY <2>1, <1>3, <1>9, <1>10, <1>13 DEF Shared!Construct, Seen, Common
<1> QED
  BY <1>3, <1>6, <1>14 DEF Shared!Next

\* Every step is a step of SharedGlobals, or not seen there.
LEMMA StepSeen ==
  ASSUME Heap, [Next]_vars
  PROVE  Heap' /\ [Shared!Next]_<<Seen, Common>>
<1>1. ASSUME UNCHANGED <<alive, made, cells, locals, contents>>
      PROVE  Heap' /\ [Shared!Next]_<<Seen, Common>>
  BY <1>1, Parts DEF Heap
<1>2. ASSUME NEW m, NEW t, NEW f, NEW nest, Enter(t, m, f, nest),
             UNCHANGED <<alive, made, cells, contents>>
      PROVE  Heap' /\ [Shared!Next]_<<Seen, Common>>
  <2>1. locals' = [locals EXCEPT ![m] = Bare]
    BY <1>2 DEF Enter
  <2>2. CASE m \in Machines
    BY <1>2, <2>1, <2>2, Parts
  <2>3. CASE m \notin Machines
    <3>1. locals' = locals
      BY <2>1, <2>3 DEF Heap
    <3> QED
      BY <1>1, <1>2, <3>1
  <2> QED
    BY <2>2, <2>3
<1>3. ASSUME NEW t \in Threads, Instruction(t)
      PROVE  Heap' /\ [Shared!Next]_<<Seen, Common>>
  <2>1. PICK m \in Machines :
          \/ HaltAt(t, m) \/ Throw(t, m) \/ OpAllocStack(t, m) \/ Return(t, m)
          \/ UseGlobals(t, m)
          \/ \E e \in Events, f \in Functions : sys_registEventListner(t, m, e, f)
          \/ \E l \in listeners : sys_unregistEventListner(t, m, l)
          \/ \E e \in Events : sys_executeEvent(t, m, e)
          \/ \E f \in Functions : sys_pushTask(t, m, f)
    BY <1>3 DEF Instruction
  <2>2. CASE HaltAt(t, m) \/ Throw(t, m)
    <3>1. /\ UNCHANGED <<made, cells, contents>> /\ (alive' = alive \/ alive' = alive \ {m})
          /\ locals' = [locals EXCEPT ![m] = Bare]
      BY <2>2 DEF HaltAt, Throw, Leave
    <3> QED
      BY <3>1, Parts
  <2>3. CASE OpAllocStack(t, m) \/ Return(t, m)
    BY <2>3, <1>1 DEF OpAllocStack, Return, heap
  <2>4. CASE UseGlobals(t, m)
    BY <2>4, PopLocalSeen, PopValueSeen, PopValueOfSeen, PopMemberSeen DEF UseGlobals
  <2>5. CASE \E e \in Events, f \in Functions : sys_registEventListner(t, m, e, f)
    BY <2>5, <1>1 DEF sys_registEventListner, heap
  <2>6. CASE \E l \in listeners : sys_unregistEventListner(t, m, l)
    BY <2>6, <1>1 DEF sys_unregistEventListner, heap
  <2>7. CASE \E e \in Events : sys_executeEvent(t, m, e)
    BY <2>7, <1>1 DEF sys_executeEvent, heap
  <2>8. CASE \E f \in Functions : sys_pushTask(t, m, f)
    BY <2>8, PushSeen
  <2> QED
    BY <2>1, <2>2, <2>3, <2>4, <2>5, <2>6, <2>7, <2>8
<1>4. CASE HostEventDone \/ \E e \in Events : HostEvent(e)
  BY <1>1, <1>4 DEF HostEventDone, HostEvent, heap
<1>5. CASE HostDestroy
  <2>1. UNCHANGED <<made, cells, locals, contents>> /\ alive' = alive \ {p_host}
    BY <1>5 DEF HostDestroy, heap
  <2>2. CASE p_host \in Machines
    BY <2>1, <2>2, Parts
  <2>3. CASE p_host \notin Machines
    <3>1. alive' = alive
      BY <2>1, <2>3, WithinUse
    <3> QED
      BY <2>1, <3>1, <1>1
  <2> QED
    BY <2>2, <2>3
<1>6. CASE HostConstruct
  BY <1>6, ConstructSeen
<1>7. CASE HostExecute
  BY <1>2, <1>7 DEF HostExecute
<1>8. ASSUME NEW t, RunTask(t) PROVE Heap' /\ [Shared!Next]_<<Seen, Common>>
  BY <1>2, <1>8 DEF RunTask
<1>9. ASSUME NEW t, CallListener(t) PROVE Heap' /\ [Shared!Next]_<<Seen, Common>>
  <2>1. UNCHANGED <<alive, made, cells, contents>>
    BY <1>9 DEF CallListener
  <2>2. PICK l \in Top(loops[t]).toCall :
          Enter(t, l.machine, l.function,
                [loops[t] EXCEPT ![Len(loops[t])].toCall = @ \ {l}])
    BY <1>9 DEF CallListener
  <2> QED
    BY <1>2, <2>1, <2>2
<1>10. CASE Instruction(Host) \/ CallListener(Host) \/ \E t \in Workers : Work(t)
  BY <1>3, <1>8, <1>9, <1>10 DEF Work, Threads
<1>11. CASE UNCHANGED vars
  BY <1>1, <1>11 DEF vars, heap
<1> QED
  BY <1>4, <1>5, <1>6, <1>7, <1>10, <1>11 DEF Next

\* A machine's globals show what it has done itself and what machines have
\* done that have an object in common with it; such machines have been cloned
\* from each other, or from a third, and are never joined again once they are
\* apart (VirtualMachine.cpp:79-94: Clone pushes the globals as they are).
LEMMA SharedAlways == Spec => Shared!Spec
<1>1. Init => Heap /\ Shared!Init
  BY HeapInitially
<1>2. Heap /\ [Next]_vars => Heap' /\ [Shared!Next]_<<Seen, Common>>
  BY StepSeen
<1> QED
  BY <1>1, <1>2, PTL DEF Spec, Shared!Spec, Shared!vars, Seen, Common

\* An assignment to a global is seen in no other variable, of no machine: it
\* makes the global refer to another object and writes none that is in use
\* (VirtualMachine.h:380-386: PopValue puts the operand into the variable).
LEMMA AssignedAloneAlways == Spec => AssignedAlone
<1> DEFINE Assign(t, m, g) == \/ \E v \in Values : PopValue(t, m, g, v)
                              \/ \E o \in Within(m) : PopValueOf(t, m, g, o)
           Unseen(m, g) == \A n \in alive, h \in Globals : <<n, h>> # <<m, g>> =>
                             contents'[cells'[n][h]] = contents[cells[n][h]]
<1>1. Init => Heap
  BY HeapInitially
<1>2. Heap /\ [Next]_vars => Heap'
  BY StepSeen
<1>3. ASSUME Heap, NEW t \in Threads, NEW m \in Machines, NEW g \in Globals, Assign(t, m, g)
      PROVE  Unseen(m, g)
  <2> SUFFICES ASSUME NEW n \in alive, NEW h \in Globals, <<n, h>> # <<m, g>>
               PROVE  contents'[cells'[n][h]] = contents[cells[n][h]]
    OBVIOUS
  <2>1. n \in Machines /\ (n # m \/ h # g)
    BY <1>3, WithinUse
  <2>2. ASSUME NEW v \in Values, PopValue(t, m, g, v)
        PROVE  contents'[cells'[n][h]] = contents[cells[n][h]]
    <3>1. \A k \in alive, i \in Globals : k # m \/ i # g =>
            contents'[cells'[k][i]] = contents[cells[k][i]]
      BY <1>3, <2>2, PopValueHeap
    <3> QED
      BY <2>1, <3>1
  <2>3. ASSUME NEW o \in Within(m), PopValueOf(t, m, g, o)
        PROVE  contents'[cells'[n][h]] = contents[cells[n][h]]
    <3>1. /\ UNCHANGED contents
          /\ \A k \in Machines : k # m => cells'[k] = cells[k]
          /\ cells'[m][g] = o /\ \A k \in Globals : k # g => cells'[m][k] = cells[m][k]
      BY <1>3, <2>3, PopValueOfHeap
    <3> QED
      BY <2>1, <3>1
  <2> QED
    BY <1>3, <2>2, <2>3
<1>4. Heap => \A t \in Threads, m \in Machines, g \in Globals : Assign(t, m, g) => Unseen(m, g)
  BY <1>3
<1> QED
  BY <1>1, <1>2, <1>4, PTL DEF Spec, AssignedAlone

\* What machines see of each other, whatever the threads do, careful or not: an
\* assignment is seen nowhere else, a change of an object in machines that
\* refer to it, which are those that one has been cloned from the other or
\* both from a third (VirtualMachine.cpp:79-94, VM_value.h:531-537).
THEOREM Sharing == Spec => Isolated
BY SharedAlways, AssignedAloneAlways DEF Isolated

-----------------------------------------------------------------------------
(* Frames and registers.                                                   *)

\* Values, with a number in a link that nothing bounds.
AnyCell == {Null, Local, ResultOf(Main)} \cup [is : {"link"}, to : Nat]

Typed ==
  /\ valueStack \in [Machines -> Seq(AnyCell)]
  /\ stack_base \in [Machines -> Nat]
  /\ command_ptr \in [Machines -> [function : Functions \cup {Main, "halt"}, at : Nat]]

\* The host is in its machine for a call, or calls listeners, which are functions
\* of the machine it is not in.
CallOf(l) == l.machine # 0 /\ l.toCall = {}
HostNest ==
  /\ Len(loops[Host]) \in 0 .. 2
  /\ Len(loops[Host]) = 1 =>
       \/ loops[Host][1].machine = 0
       \/ CallOf(loops[Host][1]) /\ loops[Host][1].entryPoint = Main
  /\ Len(loops[Host]) = 2 =>
       loops[Host][1].machine = 0 /\ CallOf(loops[Host][2]) /\ loops[Host][2].entryPoint \in Functions

WorkersRun == \A t \in Workers : Busy(t) => loops[t][1].entryPoint \in Functions

\* The machine a thread is in, and the function it was entered for.
In(t, m) == loops[t] # <<>> /\ Top(loops[t]).machine = m
Unused(m) == \A t \in Threads : ~In(t, m)

\* The three links that Execute pushes on the stack of an idle machine are its
\* first cells until the function returns, which leaves its result alone.
Returned(m, f) ==
  /\ command_ptr[m].function = "halt"
  /\ valueStack[m] = IF f = Main THEN <<ResultOf(Main)>> ELSE <<>>
Executed(m, f) ==
  /\ command_ptr[m].function = f
  /\ stack_base[m] = 3 /\ Len(valueStack[m]) >= 3
  /\ \A i \in 1 .. 3 : valueStack[m][i] = Link(0)
Frame(m, f) == Returned(m, f) \/ Executed(m, f)

Framed == \A t \in Threads, m \in Machines : In(t, m) => Frame(m, Top(loops[t]).entryPoint)
Emptied == \A m \in Machines : Unused(m) => valueStack[m] = <<>>
Given == ~result.threw => result.is = ResultOf(Main)

Frames == ~undefined /\ Typed /\ HostNest /\ WorkersRun /\ Framed /\ Emptied /\ Given
FInv == careful => Frames

-----------------------------------------------------------------------------
\* Machines are constructed with an empty stack, and the host has called nothing.
LEMMA FramesInitially == Init => FInv
<1> SUFFICES ASSUME Init PROVE Frames
  BY DEF FInv
<1>1. Typed /\ ~undefined
  BY DEF Init, Typed, Halt, At
<1>2. \A t \in Threads : loops[t] = <<>>
  BY DEF Init
<1>3. Host \in Threads /\ Workers \subseteq Threads
  BY DEF Threads
<1>4. HostNest /\ WorkersRun /\ Framed
  BY <1>2, <1>3 DEF HostNest, WorkersRun, Framed, Busy, In
<1>5. Emptied /\ Given
  BY DEF Init, Emptied, Given
<1> QED
  BY <1>1, <1>4, <1>5 DEF Frames

\* What is careful now has always been.
LEMMA CarefulBefore ==
  ASSUME [Next]_vars, careful' PROVE careful
<1>1. CASE HostExecute
  BY <1>1 DEF HostExecute
<1>2. CASE HostEventDone
  BY <1>2 DEF HostEventDone
<1>3. CASE HostDestroy
  BY <1>3 DEF HostDestroy
<1>4. CASE HostConstruct
  BY <1>4 DEF HostConstruct
<1>5. CASE \E e \in Events : HostEvent(e)
  BY <1>5 DEF HostEvent
<1>6. ASSUME NEW t, Instruction(t) PROVE careful
  BY <1>6 DEF Instruction, HaltAt, Throw, OpAllocStack, Return, UseGlobals, PopLocal, PopValue, PopValueOf, PopMember,
     sys_registEventListner, sys_unregistEventListner, sys_executeEvent, sys_pushTask
<1>7. ASSUME NEW t, CallListener(t) PROVE careful
  BY <1>7 DEF CallListener
<1>8. ASSUME NEW t, RunTask(t) PROVE careful
  BY <1>8 DEF RunTask
<1>9. CASE UNCHANGED vars
  BY <1>9 DEF vars
<1> QED
  BY <1>1, <1>2, <1>3, <1>4, <1>5, <1>6, <1>7, <1>8, <1>9 DEF Next, Work

\* The host is not a worker.
LEMMA Threading ==
  Host \in Threads /\ Workers \subseteq Threads /\ Host \notin Workers
BY TasksAssumption DEF Threads

\* Of the values, only the links are links.
LEMMA CellsApart ==
  /\ Null.is # "link" /\ Local.is # "link" /\ ResultOf(Main).is # "link"
  /\ Link(0) \in AnyCell /\ Link(0).is = "link" /\ Link(0).to = 0
  /\ Null \in AnyCell /\ Local \in AnyCell /\ ResultOf(Main) \in AnyCell
BY DEF Null, Local, ResultOf, Link, AnyCell

\* A sequence with one more element.
LEMMA AppendOne ==
  ASSUME NEW S, NEW s \in Seq(S), NEW x \in S
  PROVE  /\ Len(Append(s, x)) = Len(s) + 1 /\ Append(s, x)[Len(s) + 1] = x
         /\ \A i \in 1 .. Len(s) : Append(s, x)[i] = s[i]
OBVIOUS

\* A worker is in its clone, the host in its own machine.
LEMMA WhoIsWhere ==
  ASSUME IInv, careful, NEW t \in Threads, NEW m \in Machines, In(t, m)
  PROVE  /\ t \in Workers => /\ Len(loops[t]) = 1 /\ Busy(t) /\ CloneOf(t) = m
                             /\ m \in alive \ {p_host}
         /\ t = Host => m = p_host /\ p_host # 0 /\ m \in alive
<1>1. /\ Owned /\ loops[t] \in Seq(LoopRecords) /\ m # 0
      /\ Len(loops[t]) \in Nat \ {0} /\ loops[t][Len(loops[t])].machine = m
  BY DEF IInv, Shape, In, Top, Machines
<1>2. t \in Workers => Len(loops[t]) = 1 /\ Busy(t) /\ CloneOf(t) = m /\ m \in alive \ {p_host}
  BY <1>1 DEF Owned, WorkersKeep, Busy, CloneOf, In
<1>3. ASSUME t = Host PROVE m = p_host /\ p_host # 0 /\ m \in alive
  BY <1>1, <1>3 DEF Owned, HostKeeps
<1> QED
  BY <1>2, <1>3

\* No machine has two threads.
LEMMA Alone ==
  ASSUME IInv, careful, NEW t \in Threads, NEW u \in Threads, NEW m \in Machines,
         In(t, m), In(u, m)
  PROVE  t = u
<1>1. CASE t \in Workers /\ u \in Workers
  BY <1>1, WhoIsWhere DEF IInv, Owned, Apart
<1>2. CASE t = Host /\ u \in Workers
  BY <1>2, WhoIsWhere
<1>3. CASE t \in Workers /\ u = Host
  BY <1>3, WhoIsWhere
<1> QED
  BY <1>1, <1>2, <1>3 DEF Threads

-----------------------------------------------------------------------------
\* A function goes on, on its machine.
LEMMA StaysFramed ==
  ASSUME IInv, careful, Frames, NEW t \in Threads, NEW m \in Machines, In(t, m),
         loops' = loops, result' = result, ~undefined',
         Typed', Frame(m, Top(loops[t]).entryPoint)',
         \A n \in Machines \ {m} :
           /\ valueStack'[n] = valueStack[n] /\ stack_base'[n] = stack_base[n]
           /\ command_ptr'[n] = command_ptr[n]
  PROVE  Frames'
<1>1. \A u \in Threads, n \in Machines : In(u, n)' <=> In(u, n)
  BY DEF In
<1>2. Framed'
  <2> SUFFICES ASSUME NEW u \in Threads, NEW n \in Machines, In(u, n)'
               PROVE  Frame(n, Top(loops[u]).entryPoint)'
    BY DEF Framed
  <2>1. In(u, n)
    BY <1>1
  <2>2. CASE n = m
    <3>1. u = t
      BY <2>1, <2>2, Alone
    <3> QED
      BY <3>1, <2>2
  <2>3. CASE n # m
    <3>1. Frame(n, Top(loops[u]).entryPoint)
      BY <2>1 DEF Frames, Framed
    <3>2. Top(loops[u])' = Top(loops[u])
      BY DEF Top
    <3> QED
      BY <3>1, <3>2, <2>3 DEF Frame, Returned, Executed
  <2> QED
    BY <2>2, <2>3
<1>3. Emptied'
  <2> SUFFICES ASSUME NEW n \in Machines, Unused(n)' PROVE valueStack'[n] = <<>>
    BY DEF Emptied
  <2>1. Unused(n) /\ n # m
    BY <1>1 DEF Unused
  <2> QED
    BY <2>1 DEF Frames, Emptied
<1>4. HostNest' /\ WorkersRun' /\ Given'
  BY DEF Frames, HostNest, WorkersRun, Given, Busy, CallOf
<1> QED
  BY <1>2, <1>3, <1>4 DEF Frames

\* A thread leaves its innermost loop: the machine is left with an empty stack.
LEMMA LeavesFramed ==
  ASSUME IInv, careful, Frames, NEW t \in Threads, NEW m \in Machines, In(t, m),
         valueStack' = [valueStack EXCEPT ![m] = <<>>],
         NEW p \in [function : Functions \cup {Main, "halt"}, at : Nat],
         command_ptr' = [command_ptr EXCEPT ![m] = p],
         loops' = [loops EXCEPT ![t] = Cut(@, 1)],
         UNCHANGED <<stack_base, undefined>>, Given'
  PROVE  Frames'
<1> DEFINE n == Len(loops[t])
<1>1. /\ loops \in [Threads -> Seq(LoopRecords)] /\ loops[t] \in Seq(LoopRecords)
      /\ n \in Nat \ {0} /\ loops[t][n].machine = m /\ m # 0
  BY DEF IInv, Shape, In, Top, Machines
<1>2. /\ loops'[t] \in Seq(LoopRecords) /\ Len(loops'[t]) = n - 1
      /\ \A i \in 1 .. n - 1 : loops'[t][i] = loops[t][i]
      /\ n = 1 => loops'[t] = <<>>
  BY <1>1, CutOne
<1>3. \A u \in Threads \ {t} : loops'[u] = loops[u]
  BY <1>1
<1>4. HostNest /\ WorkersRun /\ Typed /\ Emptied /\ Framed
  BY DEF Frames
<1>5. t \in Workers => n = 1
  BY WhoIsWhere
<1>6. t = Host => n \in {1, 2} /\ (n = 2 => loops[t][1].machine = 0)
  BY <1>1, <1>4 DEF HostNest
<1>7. \A q \in Machines : ~In(t, q)'
  <2> SUFFICES ASSUME NEW q \in Machines, In(t, q)' PROVE FALSE
    OBVIOUS
  <2>1. n # 1
    BY <1>2 DEF In
  <2>2. t = Host /\ n = 2
    BY <2>1, <1>5, <1>6 DEF Threads
  <2>3. loops'[t][1] = loops[t][1] /\ Len(loops'[t]) = 1
    BY <2>2, <1>2
  <2> QED
    BY <2>2, <2>3, <1>6 DEF In, Top, Machines
<1>8. \A u \in Threads \ {t}, q \in Machines :
        In(u, q)' <=> In(u, q)
  BY <1>3 DEF In, Top
<1>9. Typed'
  BY <1>4 DEF Typed
<1>10. \A q \in Machines \ {m} :
         /\ valueStack'[q] = valueStack[q] /\ stack_base'[q] = stack_base[q]
         /\ command_ptr'[q] = command_ptr[q]
  BY <1>4 DEF Typed
<1>11. Framed'
  <2> SUFFICES ASSUME NEW u \in Threads, NEW q \in Machines, In(u, q)'
               PROVE  Frame(q, Top(loops[u]).entryPoint)'
    BY DEF Framed
  <2>1. u # t /\ In(u, q)
    BY <1>7, <1>8
  <2>2. q # m
    BY <2>1, Alone
  <2>3. Frame(q, Top(loops[u]).entryPoint)
    BY <2>1, <1>4 DEF Framed
  <2>4. Top(loops[u])' = Top(loops[u])
    BY <2>1, <1>3 DEF Top
  <2> QED
    BY <2>2, <2>3, <2>4, <1>10 DEF Frame, Returned, Executed
<1>12. Emptied'
  <2> SUFFICES ASSUME NEW q \in Machines, Unused(q)', q # m PROVE valueStack'[q] = <<>>
    BY <1>4 DEF Emptied, Typed
  <2>1. \A u \in Threads : ~In(u, q)
    <3> SUFFICES ASSUME NEW u \in Threads, In(u, q) PROVE FALSE
      OBVIOUS
    <3>1. u # t
      BY <1>1 DEF In, Top
    <3> QED
      BY <3>1, <1>8 DEF Unused
  <2> QED
    BY <2>1, <1>4, <1>10 DEF Emptied, Unused
<1>13. WorkersRun'
  <2> SUFFICES ASSUME NEW u \in Workers, Busy(u)' PROVE loops'[u][1].entryPoint \in Functions
    BY DEF WorkersRun
  <2>1. u # t
    BY <1>2, <1>5 DEF Busy
  <2> QED
    BY <2>1, <1>3, <1>4, Threading DEF WorkersRun, Busy
<1>14. HostNest'
  <2>1. CASE t = Host
    <3>1. CASE n = 1
      <4>1. Len(loops'[Host]) = 0
        BY <3>1, <2>1, <1>2
      <4> QED
        BY <4>1 DEF HostNest
    <3>2. CASE n = 2
      <4>1. Len(loops'[Host]) = 1 /\ loops'[Host][1].machine = 0
        BY <3>2, <2>1, <1>2, <1>6
      <4> QED
        BY <4>1 DEF HostNest
    <3> QED
      BY <3>1, <3>2, <2>1, <1>6
  <2>2. CASE t # Host
    <3>1. loops'[Host] = loops[Host]
      BY <2>2, <1>3, Threading
    <3> QED
      BY <3>1, <1>4 DEF HostNest, CallOf
  <2> QED
    BY <2>1, <2>2
<1> QED
  BY <1>9, <1>11, <1>12, <1>13, <1>14 DEF Frames

\* A thread enters a machine that no thread is in.
LEMMA EntersFramed ==
  ASSUME IInv, careful, Frames, NEW t \in Threads, NEW m \in Machines,
         NEW f \in Functions \cup {Main}, NEW nest \in Seq(LoopRecords),
         Enter(t, m, f, nest), m \in alive, Unused(m), \A q \in Machines : ~In(t, q),
         HostNest', WorkersRun', result' = result
  PROVE  Frames'
<1> DEFINE new == Loop(m, f, {})
<1>1. valueStack[m] = <<>> /\ Typed /\ ~undefined /\ Framed /\ Emptied
  BY DEF Frames, Emptied
<1>2. /\ loops \in [Threads -> Seq(LoopRecords)]
      /\ new \in LoopRecords /\ new.machine = m /\ new.entryPoint = f
  <2>1. new \in LoopRecords
    BY DEF LoopRecords, Loop, Machines
  <2>2. new.machine = m /\ new.entryPoint = f
    BY DEF Loop
  <2> QED
    BY <2>1, <2>2 DEF IInv, Shape
<1>3. loops' = [loops EXCEPT ![t] = Append(nest, new)]
  BY DEF Enter
<1> HIDE DEF new
<1>4. loops'[t] # <<>> /\ Top(loops'[t]) = new
  <2>1. loops'[t] = Append(nest, new)
    BY <1>2, <1>3
  <2>2. Len(Append(nest, new)) = Len(nest) + 1 /\ Append(nest, new)[Len(nest) + 1] = new
    BY <1>2
  <2> QED
    BY <2>1, <2>2 DEF Top
<1>5. \A u \in Threads \ {t} : loops'[u] = loops[u]
  BY <1>2, <1>3
<1> DEFINE s == <<Link(0), Link(0), Link(0)>>
<1>6. valueStack[m] \o <<Link(0), Link(Len(valueStack[m])), Link(0)>> = s
  BY <1>1
<1>7. s \in Seq(AnyCell) /\ Len(s) = 3 /\ \A i \in 1 .. 3 : s[i] = Link(0)
  BY CellsApart
<1>8. /\ valueStack' = [valueStack EXCEPT ![m] = s]
      /\ stack_base' = [stack_base EXCEPT ![m] = Len(s)]
      /\ command_ptr' = [command_ptr EXCEPT ![m] = At(f)]
      /\ undefined' = (undefined \/ m \notin alive)
  BY <1>6 DEF Enter
<1> HIDE DEF s
<1>9. At(f) \in [function : Functions \cup {Main, "halt"}, at : Nat] /\ At(f).function = f
  BY DEF At
<1>10. Typed' /\ ~undefined'
  <2>1. Typed'
    BY <1>1, <1>7, <1>8, <1>9 DEF Typed
  <2>2. ~undefined'
    BY <1>1, <1>8
  <2> QED
    BY <2>1, <2>2
<1>11. /\ valueStack'[m] = s /\ stack_base'[m] = 3 /\ command_ptr'[m].function = f
       /\ \A q \in Machines \ {m} :
            /\ valueStack'[q] = valueStack[q] /\ stack_base'[q] = stack_base[q]
            /\ command_ptr'[q] = command_ptr[q]
  BY <1>1, <1>7, <1>8, <1>9 DEF Typed
<1>12. \A u \in Threads \ {t}, q \in Machines : In(u, q)' <=> In(u, q)
  BY <1>5 DEF In, Top
<1>13. \A q \in Machines : In(t, q)' <=> q = m
  BY <1>2, <1>4 DEF In, Top
<1>14. Framed'
  <2> SUFFICES ASSUME NEW u \in Threads, NEW q \in Machines, In(u, q)'
               PROVE  Frame(q, Top(loops[u]).entryPoint)'
    BY DEF Framed
  <2>1. CASE u = t
    <3>1. q = m /\ Top(loops'[u]) = new
      BY <2>1, <1>4, <1>13
    <3>2. Executed(m, f)'
      BY <1>7, <1>11 DEF Executed
    <3> QED
      BY <3>1, <3>2, <1>2 DEF Frame, Top
  <2>2. CASE u # t
    <3>1. In(u, q) /\ q # m
      BY <2>2, <1>12 DEF Unused
    <3>2. Frame(q, Top(loops[u]).entryPoint)
      BY <3>1, <1>1 DEF Framed
    <3>3. Top(loops[u])' = Top(loops[u])
      BY <2>2, <1>5 DEF Top
    <3> QED
      BY <3>1, <3>2, <3>3, <1>11 DEF Frame, Returned, Executed
  <2> QED
    BY <2>1, <2>2
<1>15. Emptied'
  <2> SUFFICES ASSUME NEW q \in Machines, Unused(q)' PROVE valueStack'[q] = <<>>
    BY DEF Emptied
  <2>1. q # m /\ Unused(q)
    BY <1>12, <1>13 DEF Unused
  <2> QED
    BY <2>1, <1>1, <1>11 DEF Emptied
<1>16. Given'
  BY DEF Frames, Given
<1> QED
  BY <1>10, <1>14, <1>15, <1>16 DEF Frames

\* The host begins to call listeners, or has called them all.
LEMMA HostFramed ==
  ASSUME IInv, Frames, NEW s, loops' = [loops EXCEPT ![Host] = s],
         \A q \in Machines : ~In(Host, q) /\ ~In(Host, q)',
         HostNest', UNCHANGED <<machine, result, undefined>>
  PROVE  Frames'
<1>1. loops \in [Threads -> Seq(LoopRecords)]
  BY DEF IInv, Shape
<1>2. \A u \in Threads \ {Host} : loops'[u] = loops[u]
  BY <1>1
<1>3. \A u \in Threads, q \in Machines : In(u, q)' <=> In(u, q)
  BY <1>2 DEF In, Top
<1>4. UNCHANGED <<valueStack, stack_base, command_ptr>>
  BY DEF machine
<1>5. Framed'
  <2> SUFFICES ASSUME NEW u \in Threads, NEW q \in Machines, In(u, q)'
               PROVE  Frame(q, Top(loops[u]).entryPoint)'
    BY DEF Framed
  <2>1. u # Host /\ In(u, q) /\ Top(loops[u])' = Top(loops[u])
    BY <1>2, <1>3 DEF Top
  <2>2. Frame(q, Top(loops[u]).entryPoint)
    BY <2>1 DEF Frames, Framed
  <2> QED
    BY <2>1, <2>2, <1>4 DEF Frame, Returned, Executed
<1>6. Emptied'
  BY <1>3, <1>4 DEF Frames, Emptied, Unused
<1>7. WorkersRun'
  BY <1>2, Threading DEF Frames, WorkersRun, Busy
<1>8. Given' /\ Typed' /\ ~undefined'
  BY <1>4 DEF Frames, Given, Typed
<1> QED
  BY <1>5, <1>6, <1>7, <1>8 DEF Frames

-----------------------------------------------------------------------------
\* A function that has not returned has its frame.
LEMMA InIts ==
  ASSUME IInv, Frames, NEW t \in Threads, NEW m \in Machines, Executing(t, m)
  PROVE  /\ In(t, m) /\ m \in alive
         /\ Frame(m, Top(loops[t]).entryPoint)
         /\ Top(loops[t]).entryPoint \in Functions \cup {Main}
         /\ command_ptr[m].function # "halt" => Executed(m, Top(loops[t]).entryPoint)
         /\ command_ptr[m].function = "halt" => Returned(m, Top(loops[t]).entryPoint)
<1>1. In(t, m) /\ m \in alive
  BY DEF Executing, In
<1>2. Frame(m, Top(loops[t]).entryPoint)
  BY <1>1 DEF Frames, Framed
<1>3. loops[t] \in Seq(LoopRecords) /\ Len(loops[t]) \in Nat \ {0}
  BY DEF IInv, Shape, Executing
<1>4. Top(loops[t]).entryPoint \in Functions \cup {Main}
  <2>1. Top(loops[t]) \in LoopRecords
    BY <1>3 DEF Top
  <2> QED
    BY <2>1 DEF LoopRecords
<1>5. Top(loops[t]).entryPoint # "halt"
  BY <1>4, TasksAssumption
<1> QED
  BY <1>1, <1>2, <1>4, <1>5 DEF Frame, Executed, Returned

\* The next instruction is one of the same function.
LEMMA Advances ==
  ASSUME Typed, NEW m \in Machines, GoOn(m)
  PROVE  \E p \in [function : Functions \cup {Main, "halt"}, at : Nat] :
           /\ command_ptr' = [command_ptr EXCEPT ![m] = p]
           /\ p.function = command_ptr[m].function
<1> DEFINE p == [command_ptr[m] EXCEPT !.at = @ + 1]
<1>1. command_ptr[m] \in [function : Functions \cup {Main, "halt"}, at : Nat]
  BY DEF Typed
<1>2. p \in [function : Functions \cup {Main, "halt"}, at : Nat] /\ p.function = command_ptr[m].function
  BY <1>1
<1>3. command_ptr' = [command_ptr EXCEPT ![m] = p]
  BY DEF GoOn
<1> QED
  BY <1>2, <1>3

\* An instruction that leaves the stack alone.
LEMMA GoesOn ==
  ASSUME IInv, careful, Frames, NEW t \in Threads, NEW m \in Machines, Running(t, m), GoOn(m),
         UNCHANGED <<valueStack, stack_base, loops, result, undefined>>
  PROVE  Frames'
<1>1. Executing(t, m) /\ command_ptr[m].function # "halt"
  BY DEF Running
<1>2. In(t, m) /\ Executed(m, Top(loops[t]).entryPoint)
  BY <1>1, InIts
<1>3. Typed
  BY DEF Frames
<1>4. PICK p \in [function : Functions \cup {Main, "halt"}, at : Nat] :
        /\ command_ptr' = [command_ptr EXCEPT ![m] = p]
        /\ p.function = command_ptr[m].function
  BY <1>3, Advances
<1>5. Typed' /\ ~undefined'
  BY <1>3, <1>4 DEF Frames, Typed
<1>6. command_ptr'[m] = p /\ \A n \in Machines \ {m} : command_ptr'[n] = command_ptr[n]
  BY <1>3, <1>4 DEF Typed
<1>7. Top(loops[t])' = Top(loops[t])
  BY DEF Top
<1>8. Executed(m, Top(loops[t]).entryPoint)'
  BY <1>2, <1>4, <1>6, <1>7 DEF Executed
<1> QED
  BY <1>2, <1>5, <1>6, <1>8, StaysFramed DEF Frame

\* A push is above the links.
LEMMA PushesFramed ==
  ASSUME IInv, careful, Frames, NEW t \in Threads, NEW m \in Machines, OpAllocStack(t, m)
  PROVE  Frames'
<1>1. Executing(t, m) /\ command_ptr[m].function # "halt" /\ GoOn(m)
  BY DEF OpAllocStack, Running
<1>2. In(t, m) /\ Executed(m, Top(loops[t]).entryPoint)
  BY <1>1, InIts
<1>3. Typed /\ valueStack[m] \in Seq(AnyCell) /\ Local \in AnyCell
  BY CellsApart DEF Frames, Typed
<1>4. /\ valueStack' = [valueStack EXCEPT ![m] = Append(valueStack[m], Local)]
      /\ UNCHANGED <<stack_base, loops, result, undefined>>
  BY DEF OpAllocStack
<1>5. PICK p \in [function : Functions \cup {Main, "halt"}, at : Nat] :
        /\ command_ptr' = [command_ptr EXCEPT ![m] = p]
        /\ p.function = command_ptr[m].function
  BY <1>1, <1>3, Advances
<1> DEFINE s == Append(valueStack[m], Local)
<1>6. /\ s \in Seq(AnyCell) /\ Len(s) = Len(valueStack[m]) + 1
      /\ \A i \in 1 .. Len(valueStack[m]) : s[i] = valueStack[m][i]
  BY <1>3
<1>7. valueStack' = [valueStack EXCEPT ![m] = s]
  BY <1>4
<1> HIDE DEF s
<1>8. Typed' /\ ~undefined'
  BY <1>3, <1>4, <1>5, <1>6, <1>7 DEF Frames, Typed
<1>9. /\ command_ptr'[m] = p /\ \A n \in Machines \ {m} : command_ptr'[n] = command_ptr[n]
      /\ valueStack'[m] = s /\ \A n \in Machines \ {m} : valueStack'[n] = valueStack[n]
  BY <1>3, <1>5, <1>7 DEF Typed
<1>10. Top(loops[t])' = Top(loops[t])
  BY <1>4 DEF Top
<1>11. Executed(m, Top(loops[t]).entryPoint)'
  BY <1>2, <1>3, <1>4, <1>5, <1>6, <1>9, <1>10 DEF Executed
<1> QED
  BY <1>2, <1>4, <1>8, <1>9, <1>11, StaysFramed DEF Frame

\* A function finds its links, and there is nothing under them.
LEMMA ReturnsFramed ==
  ASSUME IInv, careful, Frames, NEW t \in Threads, NEW m \in Machines, Return(t, m)
  PROVE  Frames'
<1> DEFINE f == command_ptr[m].function
           s == Resized(valueStack[m], stack_base[m])
           e == Top(loops[t]).entryPoint
<1>1. Executing(t, m) /\ f # "halt"
  BY DEF Return
<1>2. /\ In(t, m) /\ Executed(m, e) /\ e \in Functions \cup {Main} /\ f = e
      /\ Typed /\ valueStack[m] \in Seq(AnyCell) /\ ~undefined
  BY <1>1, InIts DEF Executed, Frames, Typed
<1>3. /\ stack_base[m] = 3 /\ Len(valueStack[m]) >= 3 /\ Len(valueStack[m]) \in Nat
      /\ \A i \in 1 .. 3 : valueStack[m][i] = Link(0)
  BY <1>2 DEF Executed
<1>4. s = [i \in 1 .. 3 |-> IF i <= Len(valueStack[m]) THEN valueStack[m][i] ELSE Null]
  BY <1>3 DEF Resized
<1>5. s = [i \in 1 .. 3 |-> Link(0)]
  BY <1>3, <1>4
<1>6. s \in Seq(AnyCell) /\ Len(s) = 3 /\ \A i \in 1 .. 3 : s[i] = Link(0)
  BY <1>5, CellsApart
<1>7. Cut(s, 3) = <<>>
  BY <1>6 DEF Cut
<1>8. Len(s) >= 3 /\ \A i \in Len(s) - 2 .. Len(s) : s[i].is = "link"
  BY <1>6, CellsApart
<1> DEFINE left == IF f = Main THEN Append(Cut(s, 3), ResultOf(f)) ELSE Cut(s, 3)
<1>9. /\ valueStack' = [valueStack EXCEPT ![m] = left]
      /\ stack_base' = [stack_base EXCEPT ![m] = s[Len(s) - 1].to]
      /\ command_ptr' = [command_ptr EXCEPT ![m] = Halt]
      /\ undefined' = undefined
  BY <1>8 DEF Return
<1>10. UNCHANGED <<loops, result>>
  BY DEF Return
<1>11. /\ e = Main => left = <<ResultOf(Main)>>
       /\ e # Main => left = <<>>
  <2>1. Append(<<>>, ResultOf(Main)) = <<ResultOf(Main)>>
    OBVIOUS
  <2> QED
    BY <1>2, <1>7, <2>1
<1>12. left \in Seq(AnyCell)
  <2>1. <<>> \in Seq(AnyCell) /\ <<ResultOf(Main)>> \in Seq(AnyCell)
    BY CellsApart
  <2> QED
    BY <1>11, <2>1
<1>13. s[Len(s) - 1].to = 0
  BY <1>6, CellsApart
<1>14. Halt \in [function : Functions \cup {Main, "halt"}, at : Nat] /\ Halt.function = "halt"
  BY DEF Halt, At
<1> HIDE DEF left, s
<1>15. Typed' /\ ~undefined'
  BY <1>2, <1>9, <1>12, <1>13, <1>14 DEF Typed
<1>16. /\ valueStack'[m] = left /\ command_ptr'[m].function = "halt"
       /\ \A n \in Machines \ {m} :
            /\ valueStack'[n] = valueStack[n] /\ stack_base'[n] = stack_base[n]
            /\ command_ptr'[n] = command_ptr[n]
  BY <1>2, <1>9, <1>14 DEF Typed
<1>17. Top(loops[t])' = Top(loops[t])
  BY <1>10 DEF Top
<1>18. Returned(m, Top(loops[t]).entryPoint)'
  BY <1>11, <1>16, <1>17 DEF Returned
<1> QED
  BY <1>2, <1>10, <1>15, <1>16, <1>18, StaysFramed DEF Frame

\* Execute returns at the VM_HALT: the host gets what Main has left.
LEMMA HaltsFramed ==
  ASSUME IInv, careful, Frames, NEW t \in Threads, NEW m \in Machines, HaltAt(t, m)
  PROVE  Frames'
<1> DEFINE e == Top(loops[t]).entryPoint
<1>1. Executing(t, m) /\ command_ptr[m].function = "halt"
  BY DEF HaltAt
<1>2. In(t, m) /\ Returned(m, e) /\ e \in Functions \cup {Main}
  BY <1>1, InIts
<1>3. At(e) \in [function : Functions \cup {Main, "halt"}, at : Nat]
  BY <1>2 DEF At
<1>4. /\ command_ptr' = [command_ptr EXCEPT ![m] = At(e)]
      /\ valueStack' = [valueStack EXCEPT ![m] = <<>>]
      /\ loops' = [loops EXCEPT ![t] = Cut(@, 1)]
      /\ UNCHANGED <<stack_base, undefined>>
      /\ result' = IF t = Host /\ Len(loops[t]) = 1
                   THEN [threw |-> FALSE,
                         is |-> IF valueStack[m] = <<>> THEN Null ELSE Top(valueStack[m])]
                   ELSE result
  BY DEF HaltAt, Leave
<1>5. Given'
  <2>1. CASE t = Host /\ Len(loops[t]) = 1
    <3>1. e = Main
      BY <2>1, <1>2 DEF Frames, HostNest, In, Top, Machines
    <3>2. valueStack[m] = <<ResultOf(Main)>>
      BY <3>1, <1>2 DEF Returned
    <3>3. valueStack[m] # <<>> /\ Top(valueStack[m]) = ResultOf(Main)
      BY <3>2 DEF Top
    <3>4. result'.is = ResultOf(Main)
      BY <2>1, <1>4, <3>3
    <3> QED
      BY <3>4 DEF Given
  <2>2. CASE ~(t = Host /\ Len(loops[t]) = 1)
    BY <2>2, <1>4 DEF Frames, Given
  <2> QED
    BY <2>1, <2>2
<1> QED
  BY <1>2, <1>3, <1>4, <1>5, LeavesFramed

\* Execute returns with an exception.
LEMMA ThrowsFramed ==
  ASSUME IInv, careful, Frames, NEW t \in Threads, NEW m \in Machines, Throw(t, m)
  PROVE  Frames'
<1>1. Executing(t, m) /\ GoOn(m)
  BY DEF Throw, Running
<1>2. In(t, m)
  BY <1>1, InIts
<1>3. PICK p \in [function : Functions \cup {Main, "halt"}, at : Nat] :
        command_ptr' = [command_ptr EXCEPT ![m] = p]
  BY <1>1, Advances DEF Frames
<1>4. /\ valueStack' = [valueStack EXCEPT ![m] = <<>>]
      /\ loops' = [loops EXCEPT ![t] = Cut(@, 1)]
      /\ UNCHANGED <<stack_base, undefined>>
      /\ result' = IF t = Host /\ Len(loops[t]) = 1
                   THEN [threw |-> TRUE,
                         is |-> IF valueStack[m] = <<>> THEN Null ELSE Top(valueStack[m])]
                   ELSE result
  BY DEF Throw, Leave
<1>5. Given'
  <2>1. CASE t = Host /\ Len(loops[t]) = 1
    <3>1. result'.threw = TRUE
      BY <2>1, <1>4
    <3> QED
      BY <3>1 DEF Given
  <2>2. CASE ~(t = Host /\ Len(loops[t]) = 1)
    BY <2>2, <1>4 DEF Frames, Given
  <2> QED
    BY <2>1, <2>2
<1> QED
  BY <1>2, <1>3, <1>4, <1>5, LeavesFramed

\* An event that nobody listens to.
LEMMA EventFramed ==
  ASSUME IInv, careful, Frames, NEW t \in Threads, NEW m \in Machines, NEW e \in Events,
         sys_executeEvent(t, m, e), careful'
  PROVE  Frames'
<1> DEFINE n == Len(loops[t])
           called == {l \in listeners : l.event = e}
<1>1. /\ loops \in [Threads -> Seq(LoopRecords)] /\ loops[t] \in Seq(LoopRecords)
      /\ n \in Nat \ {0} /\ loops[t][n] \in LoopRecords /\ loops[t][n].toCall = {}
  BY DEF IInv, Shape, sys_executeEvent, Running, Executing, Top
<1>2. /\ loops' = [loops EXCEPT ![t][n].toCall = called] /\ careful' = (careful /\ called = {})
      /\ Running(t, m) /\ GoOn(m) /\ UNCHANGED <<valueStack, stack_base, result, undefined>>
  BY DEF sys_executeEvent
<1>3. called = {}
  BY <1>2
<1>4. loops' = [loops EXCEPT ![t] = [loops[t] EXCEPT ![n] = [loops[t][n] EXCEPT !.toCall = called]]]
  BY <1>1, <1>2
<1>5. [loops[t][n] EXCEPT !.toCall = called] = loops[t][n]
  BY <1>3, <1>1 DEF LoopRecords
<1>6. loops' = loops
  BY <1>1, <1>4, <1>5
<1> QED
  BY <1>2, <1>6, GoesOn

-----------------------------------------------------------------------------
\* Every instruction, whatever the function.
LEMMA InstructionFramed ==
  ASSUME IInv, careful, Frames, NEW t \in Threads, Instruction(t), careful'
  PROVE  Frames'
<1>1. PICK m \in Machines :
        \/ HaltAt(t, m) \/ Throw(t, m) \/ OpAllocStack(t, m) \/ Return(t, m)
        \/ UseGlobals(t, m)
        \/ \E e \in Events, f \in Functions : sys_registEventListner(t, m, e, f)
        \/ \E l \in listeners : sys_unregistEventListner(t, m, l)
        \/ \E e \in Events : sys_executeEvent(t, m, e)
        \/ \E f \in Functions : sys_pushTask(t, m, f)
  BY DEF Instruction
<1>2. CASE HaltAt(t, m) \/ Throw(t, m) \/ OpAllocStack(t, m) \/ Return(t, m)
  BY <1>2, HaltsFramed, ThrowsFramed, PushesFramed, ReturnsFramed
<1>3. CASE UseGlobals(t, m)
  <2>1. /\ Running(t, m) /\ GoOn(m)
        /\ UNCHANGED <<valueStack, stack_base, loops, result, undefined>>
    BY <1>3 DEF UseGlobals, PopLocal, PopValue, PopValueOf, PopMember
  <2> QED
    BY <2>1, GoesOn
<1>4. CASE \E e \in Events, f \in Functions : sys_registEventListner(t, m, e, f)
  <2>1. /\ Running(t, m) /\ GoOn(m)
        /\ UNCHANGED <<valueStack, stack_base, loops, result, undefined>>
    BY <1>4 DEF sys_registEventListner
  <2> QED
    BY <2>1, GoesOn
<1>5. CASE \E l \in listeners : sys_unregistEventListner(t, m, l)
  <2>1. /\ Running(t, m) /\ GoOn(m)
        /\ UNCHANGED <<valueStack, stack_base, loops, result, undefined>>
    BY <1>5 DEF sys_unregistEventListner
  <2> QED
    BY <2>1, GoesOn
<1>6. CASE \E e \in Events : sys_executeEvent(t, m, e)
  BY <1>6, EventFramed
<1>7. CASE \E f \in Functions : sys_pushTask(t, m, f)
  <2>1. /\ Running(t, m) /\ GoOn(m)
        /\ UNCHANGED <<valueStack, stack_base, loops, result, undefined>>
    BY <1>7 DEF sys_pushTask
  <2> QED
    BY <2>1, GoesOn
<1> QED
  BY <1>1, <1>2, <1>3, <1>4, <1>5, <1>6, <1>7

\* A listener is called by the host, between its calls.
LEMMA CallFramed ==
  ASSUME IInv, careful, Frames, NEW t \in Threads, CallListener(t)
  PROVE  Frames'
<1> DEFINE n == Len(loops[t])
<1>1. /\ loops \in [Threads -> Seq(LoopRecords)] /\ loops[t] \in Seq(LoopRecords)
      /\ n \in Nat \ {0} /\ loops[t][n] \in LoopRecords /\ Owned
  BY DEF IInv, Shape, CallListener
<1>2. PICK l \in loops[t][n].toCall :
        Enter(t, l.machine, l.function, [loops[t] EXCEPT ![n].toCall = @ \ {l}])
  BY DEF CallListener, Top
<1> DEFINE rest == [loops[t][n] EXCEPT !.toCall = @ \ {l}]
           nest == [loops[t] EXCEPT ![n] = rest]
           new == Loop(l.machine, l.function, {})
<1>3. l \in ListenerRecords /\ l.machine \in Machines /\ l.machine # 0 /\ l.function \in Functions
  BY <1>1, <1>2 DEF LoopRecords, ListenerRecords, Machines
<1>4. rest \in LoopRecords /\ rest.machine = loops[t][n].machine
  BY <1>1 DEF LoopRecords
<1>5. nest \in Seq(LoopRecords) /\ Len(nest) = n /\ nest[n] = rest
  <2> HIDE DEF rest
  <2> QED
    BY <1>1, <1>4
<1>6. Enter(t, l.machine, l.function, nest)
  <2>1. nest = [loops[t] EXCEPT ![n].toCall = @ \ {l}]
    BY Zenon
  <2> QED
    BY <1>2, <2>1
<1>7. t = Host
  <2> SUFFICES ASSUME t \in Workers PROVE FALSE
    BY DEF Threads
  <2>1. n = 1 /\ loops[t][1].toCall = {}
    BY <1>1 DEF Owned, WorkersKeep, Busy
  <2> QED
    BY <2>1, <1>2
<1>8. n = 1 /\ loops[Host][1].machine = 0
  <2>1. HostNest /\ loops[Host][n].toCall # {} /\ n = Len(loops[Host])
    BY <1>2, <1>7 DEF Frames
  <2>2. n \in {1, 2}
    BY <2>1, <1>1 DEF HostNest
  <2>3. n # 2
    BY <2>1 DEF HostNest, CallOf
  <2> QED
    BY <2>1, <2>2, <2>3 DEF HostNest, CallOf
<1>9. l.machine = p_host /\ l.machine \in alive
  BY <1>1, <1>2, <1>3, <1>7 DEF Owned, HostKeeps
<1>10. \A q \in Machines : ~In(Host, q)
  BY <1>7, <1>8 DEF In, Top, Machines
<1>11. Unused(l.machine)
  BY <1>3, <1>9, <1>10, WhoIsWhere DEF Unused, Threads
<1>12. new.machine = l.machine /\ new.entryPoint = l.function /\ new.toCall = {}
  BY DEF Loop
<1>13. new \in LoopRecords
  BY <1>3 DEF LoopRecords, Loop, Machines
<1>14. loops' = [loops EXCEPT ![t] = Append(nest, new)]
  BY <1>6 DEF Enter
<1> HIDE DEF nest, new, rest
<1>15. loops'[Host] = Append(nest, new) /\ \A u \in Threads \ {Host} : loops'[u] = loops[u]
  BY <1>1, <1>7, <1>14
<1>16. Len(loops'[Host]) = 2 /\ loops'[Host][1] = rest /\ loops'[Host][2] = new
  <2>1. nest \in Seq(LoopRecords) /\ Len(nest) = 1 /\ nest[1] = rest
    BY <1>5, <1>8
  <2>2. nest \in Seq(LoopRecords)
    BY <2>1
  <2>3. new \in LoopRecords
    BY <1>13
  <2>4. /\ Len(Append(nest, new)) = Len(nest) + 1 /\ Append(nest, new)[Len(nest) + 1] = new
        /\ \A i \in 1 .. Len(nest) : Append(nest, new)[i] = nest[i]
    BY <2>2, <2>3, AppendOne
  <2> QED
    BY <2>1, <2>4, <1>15
<1>17. HostNest'
  <2>1. loops'[Host][1].machine = 0
    BY <1>4, <1>7, <1>8, <1>16
  <2>2. CallOf(loops'[Host][2]) /\ loops'[Host][2].entryPoint \in Functions
    BY <1>3, <1>12, <1>16 DEF CallOf
  <2> QED
    BY <1>16, <2>1, <2>2 DEF HostNest, CallOf
<1>18. WorkersRun'
  BY <1>15, Threading DEF Frames, WorkersRun, Busy
<1>19. result' = result
  BY DEF CallListener
<1> QED
  BY <1>3, <1>5, <1>6, <1>7, <1>9, <1>10, <1>11, <1>17, <1>18, <1>19, EntersFramed

\* A worker begins a task: its clone has been waiting.
LEMMA TakeFramed ==
  ASSUME IInv, careful, Frames, NEW t \in Workers, RunTask(t)
  PROVE  Frames'
<1> DEFINE m == Head(tasks).machine
           f == Head(tasks).function
<1>1. /\ tasks \in Seq(TaskRecords) /\ Len(tasks) \in Nat \ {0} /\ Head(tasks) = tasks[1]
      /\ tasks[1] \in TaskRecords /\ loops[t] = <<>> /\ Owned /\ t \in Threads
      /\ loops \in [Threads -> Seq(LoopRecords)]
  BY DEF IInv, Shape, RunTask, Threads
<1>2. m \in Machines /\ f \in Functions /\ 1 \in Waiting /\ m = tasks[1].machine
  BY <1>1 DEF TaskRecords, Waiting
<1>3. m \in alive \ {p_host}
  BY <1>1, <1>2 DEF Owned, TasksKeep
<1>4. Unused(m)
  <2> SUFFICES ASSUME NEW u \in Threads, In(u, m) PROVE FALSE
    BY DEF Unused
  <2>1. CASE u = Host
    BY <2>1, <1>2, <1>3, WhoIsWhere
  <2>2. CASE u \in Workers
    <3>1. Busy(u) /\ CloneOf(u) = m
      BY <2>2, <1>2, WhoIsWhere
    <3> QED
      BY <3>1, <2>2, <1>1, <1>2 DEF Owned, Apart
  <2> QED
    BY <2>1, <2>2 DEF Threads
<1>5. \A q \in Machines : ~In(t, q)
  BY <1>1 DEF In
<1>6. Enter(t, m, f, <<>>) /\ result' = result
  BY DEF RunTask
<1> DEFINE new == Loop(m, f, {})
<1>7. loops' = [loops EXCEPT ![t] = Append(<<>>, new)]
  BY <1>6 DEF Enter
<1>8. Append(<<>>, new) = <<new>> /\ new.entryPoint = f
  BY DEF Loop
<1> HIDE DEF new, m, f
<1>9. loops'[t] = <<new>> /\ \A u \in Threads \ {t} : loops'[u] = loops[u]
  BY <1>1, <1>7, <1>8
<1>10. HostNest'
  <2>1. loops'[Host] = loops[Host]
    BY <1>9, Threading
  <2> QED
    BY <2>1 DEF Frames, HostNest, CallOf
<1>11. WorkersRun'
  <2> SUFFICES ASSUME NEW u \in Workers, Busy(u)' PROVE loops'[u][1].entryPoint \in Functions
    BY DEF WorkersRun
  <2>1. CASE u = t
    BY <2>1, <1>2, <1>8, <1>9
  <2>2. CASE u # t
    BY <2>2, <1>9, Threading DEF Frames, WorkersRun, Busy
  <2> QED
    BY <2>1, <2>2
<1>12. <<>> \in Seq(LoopRecords)
  OBVIOUS
<1> QED
  BY <1>1, <1>2, <1>3, <1>4, <1>5, <1>6, <1>10, <1>11, <1>12, EntersFramed

\* The host calls Main in its machine.
LEMMA ExecuteFramed ==
  ASSUME IInv, careful, Frames, HostExecute
  PROVE  Frames'
<1>1. /\ loops[Host] = <<>> /\ p_host # 0 /\ Enter(Host, p_host, Main, <<>>) /\ result' = result
      /\ Owned /\ loops \in [Threads -> Seq(LoopRecords)]
  BY DEF HostExecute, Idle, IInv, Shape
<1>2. p_host \in alive /\ p_host \in Machines
  BY <1>1, TasksAssumption DEF Owned, HostKeeps, IInv, Shape, Machines
<1>3. \A q \in Machines : ~In(Host, q)
  BY <1>1 DEF In
<1>4. Unused(p_host)
  BY <1>2, <1>3, WhoIsWhere DEF Unused, Threads
<1> DEFINE new == Loop(p_host, Main, {})
<1>5. loops' = [loops EXCEPT ![Host] = Append(<<>>, new)]
  BY <1>1 DEF Enter
<1>6. Append(<<>>, new) = <<new>> /\ new.entryPoint = Main /\ new.machine = p_host /\ new.toCall = {}
  BY DEF Loop
<1> HIDE DEF new
<1>7. loops'[Host] = <<new>> /\ \A u \in Threads \ {Host} : loops'[u] = loops[u]
  BY <1>1, <1>5, <1>6, Threading
<1>8. HostNest'
  <2>1. Len(loops'[Host]) = 1 /\ loops'[Host][1] = new
    BY <1>7
  <2> QED
    BY <2>1, <1>1, <1>6 DEF HostNest, CallOf
<1>9. WorkersRun'
  BY <1>7, Threading DEF Frames, WorkersRun, Busy
<1>10. <<>> \in Seq(LoopRecords)
  OBVIOUS
<1> QED
  BY <1>1, <1>2, <1>3, <1>4, <1>8, <1>9, <1>10, Threading, EntersFramed

\* The host executes an event, and is done with it.
LEMMA HostEventFramed ==
  ASSUME IInv, careful, Frames,
         (\E e \in Events : HostEvent(e)) \/ HostEventDone
  PROVE  Frames'
<1>1. loops \in [Threads -> Seq(LoopRecords)] /\ Host \in Threads
  BY Threading DEF IInv, Shape
<1>2. CASE \E e \in Events : HostEvent(e)
  <2>1. PICK e \in Events : HostEvent(e)
    BY <1>2
  <2> DEFINE new == Loop(0, Main, {l \in listeners : l.event = e})
  <2>2. /\ loops[Host] = <<>> /\ loops' = [loops EXCEPT ![Host] = <<new>>]
        /\ UNCHANGED <<machine, result, undefined>>
    BY <2>1 DEF HostEvent, Idle
  <2>3. new.machine = 0
    BY DEF Loop
  <2> HIDE DEF new
  <2>4. loops'[Host] = <<new>> /\ Len(<<new>>) = 1 /\ <<new>>[1] = new
    BY <2>2, <1>1
  <2>5. HostNest'
    BY <2>3, <2>4 DEF HostNest
  <2>6. \A q \in Machines : ~In(Host, q) /\ ~In(Host, q)'
    BY <2>2, <2>3, <2>4 DEF In, Top, Machines
  <2> QED
    BY <2>2, <2>5, <2>6, HostFramed
<1>3. CASE HostEventDone
  <2> DEFINE new == Loop(0, Main, {})
  <2>1. /\ loops[Host] = <<new>> /\ loops' = [loops EXCEPT ![Host] = <<>>]
        /\ UNCHANGED <<machine, result, undefined>>
    BY <1>3 DEF HostEventDone
  <2>2. new.machine = 0
    BY DEF Loop
  <2> HIDE DEF new
  <2>3. loops'[Host] = <<>> /\ Len(<<new>>) = 1 /\ <<new>>[1] = new
    BY <2>1, <1>1
  <2>4. HostNest'
    BY <2>3 DEF HostNest
  <2>5. \A q \in Machines : ~In(Host, q) /\ ~In(Host, q)'
    BY <2>1, <2>2, <2>3 DEF In, Top, Machines
  <2> QED
    BY <2>1, <2>4, <2>5, HostFramed
<1> QED
  BY <1>2, <1>3

\* Steps that touch neither a machine nor a loop.
LEMMA QuietFramed ==
  ASSUME Frames, UNCHANGED <<machine, loops, result, undefined>>
  PROVE  Frames'
<1>1. UNCHANGED <<valueStack, stack_base, command_ptr, loops, result, undefined>>
  BY DEF machine
<1>2. Framed'
  <2> SUFFICES ASSUME NEW u \in Threads, NEW q \in Machines, In(u, q)'
               PROVE  Frame(q, Top(loops[u]).entryPoint)'
    BY DEF Framed
  <2>1. In(u, q) /\ Top(loops[u])' = Top(loops[u])
    BY <1>1 DEF In, Top
  <2>2. Frame(q, Top(loops[u]).entryPoint)
    BY <2>1 DEF Frames, Framed
  <2> QED
    BY <2>1, <2>2, <1>1 DEF Frame, Returned, Executed
<1>3. Emptied'
  BY <1>1 DEF Frames, Emptied, Unused, In, Top
<1>4. WorkersRun' /\ HostNest' /\ Given' /\ Typed' /\ ~undefined'
  BY <1>1 DEF Frames, WorkersRun, HostNest, Given, Typed, Busy, CallOf
<1> QED
  BY <1>2, <1>3, <1>4 DEF Frames

\* Every step of the program.
LEMMA FramesKeep ==
  ASSUME IInv, FInv, [Next]_vars
  PROVE  FInv'
<1> SUFFICES ASSUME careful' PROVE Frames'
  BY DEF FInv
<1>1. careful /\ Frames
  BY CarefulBefore DEF FInv
<1>2. CASE HostExecute
  BY <1>1, <1>2, ExecuteFramed
<1>3. CASE HostEventDone \/ \E e \in Events : HostEvent(e)
  BY <1>1, <1>3, HostEventFramed
<1>4. CASE HostDestroy \/ HostConstruct
  BY <1>1, <1>4, QuietFramed DEF HostDestroy, HostConstruct
<1>5. CASE Instruction(Host) \/ CallListener(Host)
  BY <1>1, <1>5, Threading, InstructionFramed, CallFramed
<1>6. CASE \E t \in Workers : Work(t)
  BY <1>1, <1>6, Threading, InstructionFramed, CallFramed, TakeFramed DEF Work
<1>7. CASE UNCHANGED vars
  BY <1>1, <1>7, QuietFramed DEF vars
<1> QED
  BY <1>2, <1>3, <1>4, <1>5, <1>6, <1>7 DEF Next

\* The frames and the registers: what every careful state satisfies
\* (VirtualMachine.h:116-137, VirtualMachine.cpp:207-263).
THEOREM FramesAlways == Spec => []FInv
<1>1. Init => IInv /\ FInv
  BY Initially, FramesInitially
<1>2. IInv /\ FInv /\ [Next]_vars => IInv' /\ FInv'
  BY StepKeeps, FramesKeep
<1> QED
  BY <1>1, <1>2, PTL DEF Spec

\* Listeners that the host executes between its calls, and tasks, leave every
\* function its frame and give the host what Main has returned.
THEOREM FramesAreKept == Spec => []FramesKept
<1>1. IInv /\ FInv => FramesKept
  <2> SUFFICES ASSUME IInv, FInv, careful PROVE
        /\ ~undefined
        /\ \A t \in Threads, m \in Machines : RunsItsFunction(t, m)
        /\ ~result.threw => result.is = ResultOf(Main)
    BY DEF FramesKept
  <2>1. Frames
    BY DEF FInv
  <2>2. ASSUME NEW t \in Threads, NEW m \in Machines PROVE RunsItsFunction(t, m)
    <3> SUFFICES ASSUME Executing(t, m), command_ptr[m].function # "halt"
                 PROVE  /\ command_ptr[m].function = Top(loops[t]).entryPoint
                        /\ stack_base[m] <= Len(valueStack[m])
      BY DEF RunsItsFunction
    <3>1. Executed(m, Top(loops[t]).entryPoint)
      BY <2>1, InIts
    <3> QED
      BY <3>1 DEF Executed
  <2> QED
    BY <2>1, <2>2 DEF Frames, Given
<1> QED
  BY <1>1, Owners, FramesAlways, PTL

-----------------------------------------------------------------------------
(* How much there is of everything.  Nothing here needs care: two threads  *)
(* in one machine, too, fill its stack no faster than the loops they are   *)
(* in allow.                                                               *)

\* The loops on a machine.
LoopsOn(m) == UNION {On(t, m) \X {t} : t \in Threads}

\* What the function a machine is in may still push.
StillToPush(m) == IF command_ptr[m].function = "halt" THEN 0 ELSE MaxLength - command_ptr[m].at

Filled(m) ==
  valueStack[m] = <<>> \/ Len(valueStack[m]) + StillToPush(m) <= (MaxLength + 3) * Cardinality(LoopsOn(m))

Nesting == \A t \in Threads :
  /\ Len(loops[t]) <= MaxNest
  /\ \A i \in 1 .. Len(loops[t]) : loops[t][i].toCall # {} => i < MaxNest

Bounds ==
  /\ valueStack \in [Machines -> Seq(Cell)]
  /\ stack_base \in [Machines -> 0 .. Depth]
  /\ command_ptr \in [Machines -> Place]
  /\ \A m \in Machines : Filled(m)
  /\ Nesting
  /\ result.is \in Cell

LEMMA Times ==
  ASSUME NEW a \in Nat, NEW b \in Nat, NEW n \in Nat, a <= b
  PROVE  n * a <= n * b /\ n * a \in Nat /\ n * b \in Nat
<1>1. PICK d \in Nat : b = a + d
  <2> WITNESS b - a \in Nat
  <2> QED
    OBVIOUS
<1>2. n * b = n * a + n * d /\ n * d \in Nat /\ n * a \in Nat
  BY <1>1
<1> QED
  BY <1>2

\* The loops on a machine are finitely many.
LEMMA LoopsAre ==
  ASSUME Shape, NEW m \in Machines
  PROVE  \A p : p \in LoopsOn(m) <=>
           \E t \in Threads : \E i \in 1 .. Len(loops[t]) : loops[t][i].machine = m /\ p = <<i, t>>
BY DEF LoopsOn, On

LEMMA LoopsCount ==
  ASSUME NEW L, L \subseteq (1 .. MaxNest) \X Threads
  PROVE  /\ IsFiniteSet(L) /\ Cardinality(L) \in Nat
         /\ (MaxLength + 3) * Cardinality(L) <= Depth /\ (MaxLength + 3) * Cardinality(L) \in Nat
         /\ Depth \in Nat
<1>1. IsFiniteSet(Threads) /\ Cardinality(Threads) \in Nat
  BY TasksAssumption, FS_Singleton, FS_Union, FS_CardinalityType DEF Threads
<1>2. MaxNest \in Nat /\ IsFiniteSet(1 .. MaxNest) /\ Cardinality(1 .. MaxNest) = MaxNest
  BY TasksAssumption, FS_Interval
<1>3. /\ IsFiniteSet((1 .. MaxNest) \X Threads)
      /\ Cardinality((1 .. MaxNest) \X Threads) = MaxNest * Cardinality(Threads)
  BY <1>1, <1>2, FS_Product
<1>4. /\ IsFiniteSet(L) /\ Cardinality(L) \in Nat
      /\ Cardinality(L) <= MaxNest * Cardinality(Threads)
  BY <1>3, FS_Subset, FS_CardinalityType
<1>5. PICK c \in Nat : c = Cardinality(Threads) * MaxNest
  BY <1>1, <1>2
<1>6. MaxNest * Cardinality(Threads) = c
  BY <1>1, <1>2, <1>5
<1>7. MaxLength + 3 \in Nat
  BY TasksAssumption
<1>8. Depth = (MaxLength + 3) * c /\ Depth \in Nat
  BY <1>5, <1>7 DEF Depth
<1> QED
  BY <1>4, <1>5, <1>6, <1>7, <1>8, Times

\* The loops on a machine are no deeper than the threads' nests.
LEMMA LoopsInside ==
  ASSUME Shape, Nesting, NEW m \in Machines
  PROVE  LoopsOn(m) \subseteq (1 .. MaxNest) \X Threads
<1> SUFFICES ASSUME NEW p \in LoopsOn(m) PROVE p \in (1 .. MaxNest) \X Threads
  OBVIOUS
<1>1. PICK t \in Threads : \E i \in 1 .. Len(loops[t]) : p = <<i, t>>
  BY LoopsAre
<1>2. Len(loops[t]) \in Nat /\ Len(loops[t]) <= MaxNest
  BY DEF Shape, Nesting
<1> QED
  BY <1>1, <1>2, TasksAssumption

\* A thread leaves a loop.
LEMMA LoopsLeft ==
  ASSUME Shape, Nesting, NEW t \in Threads, NEW m \in Machines, loops[t] # <<>>, Top(loops[t]).machine = m,
         loops' = [loops EXCEPT ![t] = Cut(@, 1)]
  PROVE  /\ Nesting'
         /\ \A n \in Machines \ {m} : LoopsOn(n)' = LoopsOn(n)
         /\ \A u \in Threads \ {t} : loops'[u] = loops[u]
         /\ Cardinality(LoopsOn(m)) >= 1
<1>1. loops[t] \in Seq(LoopRecords) /\ Len(loops[t]) \in Nat \ {0}
  BY DEF Shape
<1>2. /\ loops'[t] = Cut(loops[t], 1) /\ \A u \in Threads \ {t} : loops'[u] = loops[u]
      /\ Len(loops'[t]) = Len(loops[t]) - 1
      /\ \A i \in 1 .. Len(loops[t]) - 1 : loops'[t][i] = loops[t][i]
  BY <1>1, CutOne DEF Shape
<1>3. Nesting'
  <2> SUFFICES ASSUME NEW u \in Threads
               PROVE  /\ Len(loops'[u]) <= MaxNest
                      /\ \A i \in 1 .. Len(loops'[u]) : loops'[u][i].toCall # {} => i < MaxNest
    BY DEF Nesting
  <2>1. CASE u = t
    <3>1. Len(loops[t]) <= MaxNest /\ MaxNest \in Nat
      BY TasksAssumption DEF Nesting
    <3> QED
      BY <2>1, <3>1, <1>1, <1>2 DEF Nesting
  <2>2. CASE u # t
    BY <2>2, <1>2 DEF Nesting
  <2> QED
    BY <2>1, <2>2
<1>4. ASSUME NEW n \in Machines \ {m}, NEW u \in Threads PROVE On(u, n)' = On(u, n)
  <2>1. CASE u = t
    <3>1. loops[t][Len(loops[t])].machine # n
      BY DEF Top
    <3> QED
      BY <2>1, <3>1, <1>1, <1>2 DEF On
  <2>2. CASE u # t
    BY <2>2, <1>2 DEF On
  <2> QED
    BY <2>1, <2>2
<1>5. <<Len(loops[t]), t>> \in LoopsOn(m)
  BY <1>1, LoopsAre DEF Top
<1>6. Cardinality(LoopsOn(m)) # 0
  <2>1. IsFiniteSet(LoopsOn(m))
    BY LoopsInside, LoopsCount
  <2> QED
    BY <1>5, <2>1, FS_EmptySet
<1>7. \A n \in Machines \ {m} : LoopsOn(n)' = LoopsOn(n)
  BY <1>4 DEF LoopsOn
<1>8. Cardinality(LoopsOn(m)) >= 1
  BY <1>6, LoopsInside, LoopsCount
<1> QED
  BY <1>2, <1>3, <1>7, <1>8

\* A thread enters a machine.
LEMMA LoopsEntered ==
  ASSUME Shape, Nesting, NEW t \in Threads, NEW m \in Machines, NEW f, NEW nest \in Seq(LoopRecords),
         Len(nest) = Len(loops[t]), Len(nest) < MaxNest,
         \A i \in 1 .. Len(nest) : nest[i].machine = loops[t][i].machine /\ nest[i].toCall \subseteq loops[t][i].toCall,
         Shape', loops' = [loops EXCEPT ![t] = Append(nest, Loop(m, f, {}))]
  PROVE  /\ Nesting'
         /\ \A n \in Machines \ {m} : LoopsOn(n)' = LoopsOn(n)
         /\ Cardinality(LoopsOn(m)') = Cardinality(LoopsOn(m)) + 1
         /\ LoopsOn(m)' \subseteq (1 .. MaxNest) \X Threads
<1> DEFINE k == Len(loops[t])
           new == Append(nest, Loop(m, f, {}))
<1>1. k \in Nat /\ k < MaxNest /\ MaxNest \in Nat
  BY TasksAssumption DEF Shape
<1>2. /\ loops'[t] = new /\ \A u \in Threads \ {t} : loops'[u] = loops[u]
  BY DEF Shape
<1>3. /\ Len(new) = k + 1 /\ \A i \in 1 .. k : new[i] = nest[i]
      /\ new[k + 1].machine = m /\ new[k + 1].toCall = {}
  BY <1>1 DEF Loop
<1> HIDE DEF new
<1>4. Nesting'
  <2> SUFFICES ASSUME NEW u \in Threads
               PROVE  /\ Len(loops'[u]) <= MaxNest
                      /\ \A i \in 1 .. Len(loops'[u]) : loops'[u][i].toCall # {} => i < MaxNest
    BY DEF Nesting
  <2>1. CASE u = t
    BY <2>1, <1>1, <1>2, <1>3 DEF Nesting
  <2>2. CASE u # t
    BY <2>2, <1>2 DEF Nesting
  <2> QED
    BY <2>1, <2>2
<1>5. ASSUME NEW n \in Machines, NEW u \in Threads
      PROVE  On(u, n)' = IF u = t /\ n = m THEN On(u, n) \cup {k + 1} ELSE On(u, n)
  <2>1. CASE u = t
    BY <2>1, <1>1, <1>2, <1>3 DEF On
  <2>2. CASE u # t
    BY <2>2, <1>2 DEF On
  <2> QED
    BY <2>1, <2>2
<1>6. LoopsOn(m)' = LoopsOn(m) \cup {<<k + 1, t>>}
  BY <1>5 DEF LoopsOn
<1>7. <<k + 1, t>> \notin LoopsOn(m)
  BY <1>1, LoopsAre
<1>8. Cardinality(LoopsOn(m)') = Cardinality(LoopsOn(m)) + 1
  BY <1>6, <1>7, LoopsInside, LoopsCount, FS_AddElement
<1>9. \A n \in Machines \ {m} : LoopsOn(n)' = LoopsOn(n)
  BY <1>5 DEF LoopsOn
<1>10. LoopsOn(m)' \subseteq (1 .. MaxNest) \X Threads
  BY <1>1, <1>6, LoopsInside
<1> QED
  BY <1>4, <1>8, <1>9, <1>10

\* The loops that are not left or entered stay.
LEMMA LoopsStay ==
  ASSUME Shape, Nesting, Nesting',
         \A t \in Threads, m \in Machines : On(t, m)' = On(t, m)
  PROVE  \A m \in Machines : LoopsOn(m)' = LoopsOn(m)
BY DEF LoopsOn

LEMMA Places ==
  /\ \A f \in Functions \cup {Main, "halt"}, i \in 0 .. MaxLength : [function |-> f, at |-> i] \in Place
  /\ \A p \in Place : /\ p.function \in Functions \cup {Main, "halt"} /\ p.at \in 0 .. MaxLength
                     /\ p = [function |-> p.function, at |-> p.at]
BY DEF Place

\* A machine is entered: three links, and a function that may push all it has.
LEMMA EntersBounds ==
  ASSUME Shape, Bounds, Shape', NEW t \in Threads, NEW m \in Machines, NEW f \in Functions \cup {Main},
         NEW nest \in Seq(LoopRecords), Enter(t, m, f, nest),
         Len(nest) = Len(loops[t]), Len(nest) < MaxNest,
         \A i \in 1 .. Len(nest) : nest[i].machine = loops[t][i].machine /\ nest[i].toCall \subseteq loops[t][i].toCall,
         result' = result
  PROVE  Bounds'
<1> DEFINE s == valueStack[m] \o <<Link(0), Link(Len(valueStack[m])), Link(0)>>
           k == Cardinality(LoopsOn(m))
<1>1. /\ valueStack' = [valueStack EXCEPT ![m] = s]
      /\ stack_base' = [stack_base EXCEPT ![m] = Len(s)]
      /\ command_ptr' = [command_ptr EXCEPT ![m] = At(f)]
      /\ loops' = [loops EXCEPT ![t] = Append(nest, Loop(m, f, {}))]
  BY DEF Enter
<1>2. /\ Nesting' /\ \A n \in Machines \ {m} : LoopsOn(n)' = LoopsOn(n)
      /\ Cardinality(LoopsOn(m)') = k + 1 /\ LoopsOn(m)' \subseteq (1 .. MaxNest) \X Threads
  BY <1>1, LoopsEntered DEF Bounds
<1>3. /\ k \in Nat /\ (MaxLength + 3) * k <= Depth /\ (MaxLength + 3) * (k + 1) <= Depth /\ Depth \in Nat
  <2>1. LoopsOn(m) \subseteq (1 .. MaxNest) \X Threads
    BY LoopsInside DEF Bounds
  <2> QED
    BY <2>1, <1>2, LoopsCount
<1>4. MaxLength \in Nat /\ (MaxLength + 3) * (k + 1) = (MaxLength + 3) * k + MaxLength + 3 /\ (MaxLength + 3) * k \in Nat
  BY <1>3, TasksAssumption
<1>5. valueStack[m] \in Seq(Cell) /\ Len(valueStack[m]) \in Nat /\ Len(valueStack[m]) <= (MaxLength + 3) * k
  <2>1. command_ptr[m] \in Place /\ Filled(m) /\ valueStack[m] \in Seq(Cell)
    BY DEF Bounds
  <2>2. StillToPush(m) \in Nat
    BY <2>1, <1>4 DEF StillToPush, Place
  <2> QED
    BY <2>1, <2>2, <1>4 DEF Filled
<1>6. PICK len, q, r \in Nat :
        /\ len = Len(valueStack[m]) /\ q = (MaxLength + 3) * k /\ r = (MaxLength + 3) * (k + 1)
        /\ len <= q /\ r = q + MaxLength + 3 /\ q <= Depth /\ r <= Depth
  BY <1>3, <1>4, <1>5
<1>7. s \in Seq(Cell) /\ Len(s) = len + 3
  <2>1. len \in 0 .. Depth /\ 0 \in 0 .. Depth
    BY <1>3, <1>6
  <2>2. Link(0) \in Cell /\ Link(len) \in Cell
    BY <2>1 DEF Cell
  <2> QED
    BY <2>2, <1>5, <1>6
<1> HIDE DEF s
<1>8. Len(s) \in 0 .. Depth /\ Len(s) + MaxLength <= (MaxLength + 3) * (k + 1)
  <2>1. Len(s) = len + 3 /\ Depth \in Nat /\ MaxLength \in Nat
    BY <1>3, <1>4, <1>7
  <2>2. len + 3 \in 0 .. Depth /\ len + 3 + MaxLength <= r
    BY <2>1, <1>6
  <2> QED
    BY <2>1, <2>2, <1>6
<1>9. At(f) \in Place
  <2>1. 0 \in 0 .. MaxLength /\ f \in Functions \cup {Main, "halt"}
    BY <1>4
  <2>2. [function |-> f, at |-> 0] \in Place
    BY <2>1, Places
  <2> QED
    BY <2>2 DEF At
<1>10. /\ valueStack' \in [Machines -> Seq(Cell)] /\ stack_base' \in [Machines -> 0 .. Depth]
       /\ command_ptr' \in [Machines -> Place]
  BY <1>1, <1>7, <1>8, <1>9 DEF Bounds
<1>11. ASSUME NEW n \in Machines PROVE Filled(n)'
  <2>1. CASE n = m
    <3>1. valueStack'[m] = s /\ command_ptr'[m] = At(f) /\ f # "halt"
      BY <1>1, TasksAssumption DEF Bounds
    <3>2. StillToPush(m)' = MaxLength
      BY <3>1, <1>4 DEF StillToPush, At
    <3> QED
      BY <2>1, <3>1, <3>2, <1>2, <1>8 DEF Filled
  <2>2. CASE n # m
    <3>1. valueStack'[n] = valueStack[n] /\ command_ptr'[n] = command_ptr[n] /\ LoopsOn(n)' = LoopsOn(n) /\ Filled(n)
      BY <2>2, <1>1, <1>2 DEF Bounds
    <3> QED
      BY <3>1 DEF Filled, StillToPush
  <2> QED
    BY <2>1, <2>2
<1> QED
  BY <1>2, <1>10, <1>11 DEF Bounds

\* A loop is left, with an empty stack behind it.
LEMMA LeavesBounds ==
  ASSUME Shape, Bounds, Shape', NEW t \in Threads, NEW m \in Machines, Executing(t, m), NEW threw \in BOOLEAN,
         Leave(t, m, threw), NEW p \in Place, command_ptr' = [command_ptr EXCEPT ![m] = p],
         stack_base' = stack_base
  PROVE  Bounds'
<1>1. /\ valueStack' = [valueStack EXCEPT ![m] = <<>>]
      /\ loops' = [loops EXCEPT ![t] = Cut(@, 1)]
  BY DEF Leave
<1>2. Nesting' /\ \A n \in Machines \ {m} : LoopsOn(n)' = LoopsOn(n)
  BY <1>1, LoopsLeft DEF Bounds, Executing
<1>3. /\ valueStack' \in [Machines -> Seq(Cell)] /\ stack_base' \in [Machines -> 0 .. Depth]
      /\ command_ptr' \in [Machines -> Place]
  BY <1>1 DEF Bounds
<1>4. ASSUME NEW n \in Machines PROVE Filled(n)'
  <2>1. CASE n = m
    BY <2>1, <1>1 DEF Filled, Bounds
  <2>2. CASE n # m
    <3>1. valueStack'[n] = valueStack[n] /\ command_ptr'[n] = command_ptr[n] /\ LoopsOn(n)' = LoopsOn(n) /\ Filled(n)
      BY <2>2, <1>1, <1>2 DEF Bounds
    <3> QED
      BY <3>1 DEF Filled, StillToPush
  <2> QED
    BY <2>1, <2>2
<1>5. result'.is \in Cell
  <2>1. valueStack[m] \in Seq(Cell) /\ Null \in Cell /\ result.is \in Cell
    BY DEF Bounds, Cell
  <2>2. valueStack[m] # <<>> => Top(valueStack[m]) \in Cell
    BY <2>1 DEF Top
  <2> QED
    BY <2>1, <2>2 DEF Leave
<1> QED
  BY <1>2, <1>3, <1>4, <1>5 DEF Bounds

\* What happens in a machine whose loops stay.
LEMMA StaysBounded ==
  ASSUME Shape, Bounds, Nesting', NEW m \in Machines,
         \A t \in Threads, n \in Machines : On(t, n)' = On(t, n),
         NEW s \in Seq(Cell), valueStack' = [valueStack EXCEPT ![m] = s],
         NEW b \in 0 .. Depth, stack_base' = [stack_base EXCEPT ![m] = b],
         NEW p \in Place, command_ptr' = [command_ptr EXCEPT ![m] = p],
         s = <<>> \/ Len(s) + (IF p.function = "halt" THEN 0 ELSE MaxLength - p.at)
                       <= (MaxLength + 3) * Cardinality(LoopsOn(m)),
         result' = result
  PROVE  Bounds'
<1>1. \A n \in Machines : LoopsOn(n)' = LoopsOn(n)
  BY LoopsStay DEF Bounds
<1>2. /\ valueStack' \in [Machines -> Seq(Cell)] /\ stack_base' \in [Machines -> 0 .. Depth]
      /\ command_ptr' \in [Machines -> Place]
  BY DEF Bounds
<1>3. ASSUME NEW n \in Machines PROVE Filled(n)'
  <2>1. CASE n = m
    <3>1. valueStack'[m] = s /\ command_ptr'[m] = p
      BY DEF Bounds
    <3> QED
      BY <2>1, <3>1, <1>1 DEF Filled, StillToPush
  <2>2. CASE n # m
    <3>1. valueStack'[n] = valueStack[n] /\ command_ptr'[n] = command_ptr[n] /\ LoopsOn(n)' = LoopsOn(n) /\ Filled(n)
      BY <2>2, <1>1 DEF Bounds
    <3> QED
      BY <3>1 DEF Filled, StillToPush
  <2> QED
    BY <2>1, <2>2
<1> QED
  BY <1>2, <1>3 DEF Bounds

\* A step that does not touch the machines, nor the loops on them.
LEMMA RestBounds ==
  ASSUME Shape, Bounds, UNCHANGED <<machine, result>>, Nesting',
         \A t \in Threads, m \in Machines : On(t, m)' = On(t, m)
  PROVE  Bounds'
<1>1. \A m \in Machines : LoopsOn(m)' = LoopsOn(m)
  BY LoopsStay DEF Bounds
<1> QED
  BY <1>1 DEF Bounds, Filled, StillToPush, machine

\* Instructions of a function, and its return.
LEMMA InstructionBounds ==
  ASSUME Shape, Bounds, Shape', NEW t \in Threads, Instruction(t)
  PROVE  Bounds'
<1>1. PICK m \in Machines :
        \/ HaltAt(t, m) \/ Throw(t, m) \/ OpAllocStack(t, m) \/ Return(t, m)
        \/ UseGlobals(t, m)
        \/ \E e \in Events, f \in Functions : sys_registEventListner(t, m, e, f)
        \/ \E l \in listeners : sys_unregistEventListner(t, m, l)
        \/ \E e \in Events : sys_executeEvent(t, m, e)
        \/ \E f \in Functions : sys_pushTask(t, m, f)
  BY DEF Instruction
<1> DEFINE p == command_ptr[m]
           next == [p EXCEPT !.at = @ + 1]
           k == Cardinality(LoopsOn(m))
<1>2. /\ Executing(t, m) /\ loops[t] \in Seq(LoopRecords) /\ Len(loops[t]) \in Nat \ {0}
      /\ Top(loops[t]) = loops[t][Len(loops[t])] /\ Top(loops[t]) \in LoopRecords /\ Top(loops[t]).machine = m
  <2>1. Executing(t, m)
    <3>1. CASE HaltAt(t, m) \/ Return(t, m)
      BY <3>1 DEF HaltAt, Return
    <3>2. CASE Throw(t, m) \/ OpAllocStack(t, m)
      BY <3>2 DEF Throw, OpAllocStack, Running
    <3>3. CASE UseGlobals(t, m)
      BY <3>3 DEF UseGlobals, PopLocal, PopValue, PopValueOf, PopMember, Running
    <3>4. CASE \/ \E e \in Events, f \in Functions : sys_registEventListner(t, m, e, f)
               \/ \E l \in listeners : sys_unregistEventListner(t, m, l)
               \/ \E e \in Events : sys_executeEvent(t, m, e)
      BY <3>4 DEF sys_registEventListner, sys_unregistEventListner, sys_executeEvent, Running
    <3>5. CASE \E f \in Functions : sys_pushTask(t, m, f)
      BY <3>5 DEF sys_pushTask, Running
    <3> QED
      BY <1>1, <3>1, <3>2, <3>3, <3>4, <3>5
  <2> QED
    BY <2>1 DEF Executing, Shape, Top
<1>3. /\ MaxLength \in Nat /\ p \in Place /\ valueStack[m] \in Seq(Cell) /\ stack_base[m] \in 0 .. Depth
      /\ valueStack' = valueStack => valueStack' = [valueStack EXCEPT ![m] = valueStack[m]]
      /\ stack_base' = stack_base => stack_base' = [stack_base EXCEPT ![m] = stack_base[m]]
      /\ Filled(m)
  BY TasksAssumption DEF Bounds
<1>4. k \in Nat \ {0} /\ (MaxLength + 3) * k \in Nat /\ (MaxLength + 3) * k >= MaxLength + 3
  <2>1. k \in Nat /\ (MaxLength + 3) * k \in Nat /\ IsFiniteSet(LoopsOn(m))
    BY LoopsInside, LoopsCount DEF Bounds
  <2>2. <<Len(loops[t]), t>> \in LoopsOn(m)
    BY <1>2, LoopsAre
  <2>3. k # 0
    BY <2>1, <2>2, FS_EmptySet
  <2>4. PICK j \in Nat : k = j + 1
    BY <2>1, <2>3
  <2> QED
    BY <2>1, <2>3, <2>4, <1>3
<1>5. Running(t, m) => next \in Place /\ next.function = p.function /\ next.at = p.at + 1 /\ p.function # "halt"
                       /\ p.at \in Nat /\ p.at < MaxLength
  <2> SUFFICES ASSUME Running(t, m)
               PROVE  /\ next \in Place /\ next.function = p.function /\ next.at = p.at + 1
                      /\ p.function # "halt" /\ p.at \in Nat /\ p.at < MaxLength
    OBVIOUS
  <2>1. /\ p.function # "halt" /\ p.at < MaxLength /\ p.at \in 0 .. MaxLength
        /\ p = [function |-> p.function, at |-> p.at] /\ p.function \in Functions \cup {Main, "halt"}
    BY <1>3, Places DEF Running
  <2>2. next = [function |-> p.function, at |-> p.at + 1] /\ p.at + 1 \in 0 .. MaxLength
    BY <2>1, <1>3
  <2> QED
    BY <2>1, <2>2, Places
<1> HIDE DEF next
<1>6. ASSUME Running(t, m), GoOn(m), UNCHANGED <<valueStack, stack_base, result>>, Nesting',
             \A u \in Threads, n \in Machines : On(u, n)' = On(u, n)
      PROVE  Bounds'
  <2>1. command_ptr' = [command_ptr EXCEPT ![m] = next]
    BY <1>6 DEF GoOn, next
  <2>2. valueStack[m] = <<>> \/ Len(valueStack[m]) + (MaxLength - next.at) <= (MaxLength + 3) * k
    <3>1. next.at = p.at + 1 /\ p.at \in Nat /\ StillToPush(m) = MaxLength - p.at /\ Len(valueStack[m]) \in Nat
      BY <1>3, <1>5, <1>6 DEF StillToPush
    <3>2. PICK q \in Nat : q = (MaxLength + 3) * k
      BY <1>4
    <3>3. CASE valueStack[m] # <<>>
      <4>1. Len(valueStack[m]) + (MaxLength - p.at) <= q
        BY <3>1, <3>2, <3>3, <1>3 DEF Filled
      <4> QED
        BY <4>1, <3>1, <3>2, <1>3
    <3> QED
      BY <3>3
  <2> QED
    BY <2>1, <2>2, <1>3, <1>5, <1>6, StaysBounded
<1>7. loops' = loops => Nesting' /\ \A u \in Threads, n \in Machines : On(u, n)' = On(u, n)
  BY DEF Bounds, Nesting, On
<1>8. CASE HaltAt(t, m)
  <2>1. At(Top(loops[t]).entryPoint) \in Place
    BY <1>2, <1>3, Places DEF LoopRecords, At
  <2> QED
    BY <2>1, <1>2, <1>8, LeavesBounds DEF HaltAt
<1>9. CASE Throw(t, m)
  <2>1. next \in Place /\ command_ptr' = [command_ptr EXCEPT ![m] = next]
    BY <1>5, <1>9 DEF Throw, GoOn, next
  <2> QED
    BY <2>1, <1>2, <1>9, LeavesBounds DEF Throw
<1>10. CASE OpAllocStack(t, m)
  <2> DEFINE s == Append(valueStack[m], Local)
  <2>1. s \in Seq(Cell) /\ Len(s) = Len(valueStack[m]) + 1 /\ s # <<>>
    BY <1>3 DEF Cell
  <2>2. /\ Running(t, m) /\ command_ptr' = [command_ptr EXCEPT ![m] = next]
        /\ valueStack' = [valueStack EXCEPT ![m] = s] /\ UNCHANGED <<stack_base, result, loops>>
    BY <1>10 DEF OpAllocStack, GoOn, next
  <2> HIDE DEF s
  <2>3. Len(s) + (MaxLength - next.at) <= (MaxLength + 3) * k
    <3>1. Len(valueStack[m]) + (MaxLength - p.at) <= (MaxLength + 3) * k
      <4>1. CASE valueStack[m] = <<>>
        BY <4>1, <2>2, <1>3, <1>4, <1>5
      <4>2. CASE valueStack[m] # <<>>
        BY <4>2, <2>2, <1>3, <1>5 DEF Filled, StillToPush
      <4> QED
        BY <4>1, <4>2
    <3>2. PICK q \in Nat : q = (MaxLength + 3) * k
      BY <1>4
    <3>3. next.at = p.at + 1 /\ p.at \in Nat /\ Len(s) = Len(valueStack[m]) + 1 /\ Len(valueStack[m]) \in Nat
      BY <1>3, <1>5, <2>1, <2>2
    <3>4. \A l, i, x \in Nat : l + (x - i) <= q => (l + 1) + (x - (i + 1)) <= q
      OBVIOUS
    <3>5. Len(valueStack[m]) + (MaxLength - p.at) <= q
      BY <3>1, <3>2
    <3>6. (Len(valueStack[m]) + 1) + (MaxLength - (p.at + 1)) <= q
      BY <3>3, <3>4, <3>5, <1>3
    <3> QED
      BY <3>2, <3>3, <3>6
  <2> QED
    BY <2>1, <2>2, <2>3, <1>3, <1>5, <1>7, StaysBounded
<1>11. CASE Return(t, m)
  <2> DEFINE b == stack_base[m]
             s == Resized(valueStack[m], b)
             linked == Len(s) >= 3 /\ \A i \in Len(s) - 2 .. Len(s) : s[i].is = "link"
             rest == Cut(s, 3)
             new == IF p.function = Main THEN Append(rest, ResultOf(p.function)) ELSE rest
  <2>1. UNCHANGED <<loops, result>>
    BY <1>11 DEF Return
  <2>2. Len(s) = b /\ b \in Nat /\ Len(valueStack[m]) \in Nat /\ Depth \in Nat
        /\ \A i \in 1 .. b : s[i] = IF i <= Len(valueStack[m]) THEN valueStack[m][i] ELSE Null
    <3>1. Depth \in Nat
      BY LoopsInside, LoopsCount DEF Bounds
    <3> QED
      BY <3>1, <1>3 DEF Resized
  <2>3. CASE ~linked
    <3>1. UNCHANGED machine
      BY <2>3, <1>11 DEF Return
    <3> QED
      BY <3>1, <2>1, <1>7, RestBounds
  <2>4. CASE linked
    <3>1. /\ valueStack' = [valueStack EXCEPT ![m] = new]
          /\ stack_base' = [stack_base EXCEPT ![m] = s[Len(s) - 1].to]
          /\ command_ptr' = [command_ptr EXCEPT ![m] = Halt]
      BY <2>4, <1>11 DEF Return
    <3>2. b >= 3 /\ b <= Len(valueStack[m])
      <4>1. s[b].is = "link" /\ b >= 3
        BY <2>2, <2>4
      <4>2. Null.is = "null"
        BY DEF Null
      <4> QED
        BY <4>1, <4>2, <2>2
    <3>3. s[b - 1].is = "link" /\ s[b - 1] \in Cell
      BY <2>2, <2>4, <3>2, <1>3
    <3>4. s[b - 1].to \in 0 .. Depth
      <4>1. Null.is # "link" /\ Local.is # "link" /\ ResultOf(Main).is # "link"
        BY DEF Null, Local, ResultOf
      <4>2. PICK i \in 0 .. Depth : s[b - 1] = Link(i)
        BY <4>1, <3>3 DEF Cell
      <4> QED
        BY <4>2 DEF Link
    <3>5. rest \in Seq(Cell) /\ Len(rest) = b - 3
      <4>1. Len(rest) = b - 3 /\ \A i \in 1 .. b - 3 : rest[i] = s[i]
        BY <2>2, <3>2 DEF Cut, Resized
      <4>2. rest = [i \in 1 .. b - 3 |-> s[i]]
        BY <2>2, <3>2 DEF Cut, Resized
      <4>3. \A i \in 1 .. b - 3 : s[i] \in Cell
        BY <2>2, <3>2, <1>3
      <4> QED
        BY <4>1, <4>2, <4>3, <3>2, <2>2
    <3>6. new \in Seq(Cell) /\ Len(new) <= Len(valueStack[m])
      <4>1. ResultOf(Main) \in Cell
        BY DEF Cell
      <4> HIDE DEF rest
      <4> QED
        BY <4>1, <3>2, <3>5, <2>2
    <3>7. Halt \in Place /\ Halt.function = "halt"
      BY <1>3, Places DEF Halt, At
    <3>8. Len(new) + 0 <= (MaxLength + 3) * k
      <4>1. valueStack[m] # <<>> /\ StillToPush(m) \in Nat
        BY <3>2, <1>3 DEF StillToPush, Place
      <4>2. Len(valueStack[m]) <= (MaxLength + 3) * k
        BY <4>1, <1>3, <1>4, <2>2 DEF Filled
      <4> QED
        BY <4>2, <3>6, <1>4, <2>2
    <3> HIDE DEF new, s
    <3> QED
      BY <3>1, <3>4, <3>6, <3>7, <3>8, <2>1, <2>2, <1>7, StaysBounded
  <2> QED
    BY <2>3, <2>4
<1>12. CASE \/ UseGlobals(t, m)
            \/ \E e \in Events, f \in Functions : sys_registEventListner(t, m, e, f)
            \/ \E l \in listeners : sys_unregistEventListner(t, m, l)
            \/ \E f \in Functions : sys_pushTask(t, m, f)
  <2>1. Running(t, m) /\ GoOn(m) /\ UNCHANGED <<valueStack, stack_base, result, loops>>
    BY <1>12 DEF UseGlobals, PopLocal, PopValue, PopValueOf, PopMember, sys_registEventListner, sys_unregistEventListner, sys_pushTask
  <2> QED
    BY <2>1, <1>6, <1>7
<1>13. CASE \E e \in Events : sys_executeEvent(t, m, e)
  <2>1. PICK e \in Events : sys_executeEvent(t, m, e)
    BY <1>13
  <2> DEFINE called == {l \in listeners : l.event = e}
  <2>2. /\ Running(t, m) /\ GoOn(m) /\ UNCHANGED <<valueStack, stack_base, result>>
        /\ Len(loops[t]) < MaxNest
        /\ loops' = [loops EXCEPT ![t][Len(loops[t])].toCall = called]
    BY <2>1 DEF sys_executeEvent
  <2>3. /\ \A u \in Threads \ {t} : loops'[u] = loops[u]
        /\ Len(loops'[t]) = Len(loops[t])
        /\ \A i \in 1 .. Len(loops[t]) : /\ loops'[t][i].machine = loops[t][i].machine
                                         /\ i # Len(loops[t]) => loops'[t][i] = loops[t][i]
    BY <2>2, <1>2 DEF Shape, LoopRecords
  <2>4. Nesting'
    <3> SUFFICES ASSUME NEW u \in Threads
                 PROVE  /\ Len(loops'[u]) <= MaxNest
                        /\ \A i \in 1 .. Len(loops'[u]) : loops'[u][i].toCall # {} => i < MaxNest
      BY DEF Nesting
    <3> QED
      BY <2>2, <2>3 DEF Bounds, Nesting
  <2>5. ASSUME NEW u \in Threads, NEW n \in Machines PROVE On(u, n)' = On(u, n)
    BY <2>3 DEF On
  <2> QED
    BY <2>2, <2>4, <2>5, <1>6
<1> QED
  BY <1>1, <1>8, <1>9, <1>10, <1>11, <1>12, <1>13

\* The event system calls a listener; its machine may be anyone's.
LEMMA CallBounds ==
  ASSUME Shape, Bounds, Shape', NEW t \in Threads, CallListener(t)
  PROVE  Bounds'
<1> DEFINE k == Len(loops[t])
<1>1. /\ loops[t] \in Seq(LoopRecords) /\ k \in Nat \ {0} /\ Top(loops[t]) = loops[t][k]
      /\ loops[t][k] \in LoopRecords /\ result' = result
  BY DEF CallListener, Shape, Top
<1>2. PICK l \in loops[t][k].toCall :
        Enter(t, l.machine, l.function, [loops[t] EXCEPT ![k].toCall = @ \ {l}])
  BY <1>1 DEF CallListener
<1> DEFINE nest == [loops[t] EXCEPT ![k].toCall = @ \ {l}]
<1>3. l \in ListenerRecords /\ l.machine \in Machines /\ l.function \in Functions
  BY <1>1, <1>2 DEF LoopRecords, ListenerRecords
<1>4. /\ nest \in Seq(LoopRecords) /\ Len(nest) = k
      /\ \A i \in 1 .. k : /\ nest[i].machine = loops[t][i].machine
                          /\ nest[i].toCall \subseteq loops[t][i].toCall
  <2>1. nest = [loops[t] EXCEPT ![k] = [loops[t][k] EXCEPT !.toCall = loops[t][k].toCall \ {l}]]
    BY <1>1
  <2>2. [loops[t][k] EXCEPT !.toCall = loops[t][k].toCall \ {l}] \in LoopRecords
    BY <1>1 DEF LoopRecords
  <2>3. /\ [loops[t][k] EXCEPT !.toCall = loops[t][k].toCall \ {l}].machine = loops[t][k].machine
        /\ [loops[t][k] EXCEPT !.toCall = loops[t][k].toCall \ {l}].toCall = loops[t][k].toCall \ {l}
    BY <1>1 DEF LoopRecords
  <2> HIDE DEF nest
  <2> QED
    BY <2>1, <2>2, <2>3, <1>1
<1>5. k < MaxNest
  <2>1. k \in 1 .. Len(loops[t]) /\ loops[t][k].toCall # {}
    BY <1>1, <1>2
  <2>2. Nesting
    BY DEF Bounds
  <2> QED
    BY <2>1, <2>2 DEF Nesting
<1> HIDE DEF nest
<1> QED
  BY <1>1, <1>2, <1>3, <1>4, <1>5, EntersBounds DEF nest

\* A thread that is in no loop enters a machine.
LEMMA StartBounds ==
  ASSUME Shape, Bounds, Shape', NEW t \in Threads, loops[t] = <<>>, NEW m \in Machines,
         NEW f \in Functions \cup {Main}, Enter(t, m, f, <<>>), result' = result
  PROVE  Bounds'
<1>1. <<>> \in Seq(LoopRecords) /\ Len(<<>>) = 0 /\ Len(<<>>) = Len(loops[t]) /\ 0 < MaxNest
  BY TasksAssumption
<1> QED
  BY <1>1, EntersBounds

LEMMA BoundsInitially == Init => Bounds
<1> SUFFICES ASSUME Init PROVE Bounds
  OBVIOUS
<1>1. /\ MaxLength \in Nat /\ \A t \in Threads : loops[t] = <<>>
      /\ valueStack = [m \in Machines |-> <<>>] /\ stack_base = [m \in Machines |-> 0]
      /\ command_ptr = [m \in Machines |-> Halt] /\ result.is = ResultOf(Main) /\ MaxNest \in Nat
  BY TasksAssumption DEF Init
<1>2. Depth \in Nat
  BY LoopsCount
<1>3. Halt \in Place
  <2>1. 0 \in 0 .. MaxLength
    BY <1>1
  <2> QED
    BY <2>1, Places DEF Halt, At
<1> QED
  BY <1>1, <1>2, <1>3 DEF Bounds, Nesting, Filled, Cell

LEMMA BoundsKeep ==
  ASSUME IInv, IInv', Bounds, [Next]_vars
  PROVE  Bounds'
<1>1. Shape /\ Shape' /\ Host \in Threads /\ Workers \subseteq Threads
  BY DEF IInv, Threads
<1>2. loops' = loops => Nesting' /\ \A t \in Threads, m \in Machines : On(t, m)' = On(t, m)
  BY DEF Bounds, Nesting, On
<1>3. CASE HostExecute
  <2>1. p_host \in Machines /\ loops[Host] = <<>> /\ Enter(Host, p_host, Main, <<>>) /\ result' = result
    BY <1>1, <1>3, TasksAssumption DEF HostExecute, Idle, Shape, Machines
  <2> QED
    BY <2>1, <1>1, StartBounds
<1>4. CASE \E e \in Events : HostEvent(e)
  <2>1. PICK e \in Events : HostEvent(e)
    BY <1>4
  <2> DEFINE called == {l \in listeners : l.event = e}
  <2>2. /\ loops[Host] = <<>> /\ loops' = [loops EXCEPT ![Host] = <<Loop(0, Main, called)>>]
        /\ UNCHANGED <<machine, result>>
    BY <2>1 DEF HostEvent, Idle
  <2>3. /\ loops'[Host] = <<Loop(0, Main, called)>> /\ \A u \in Threads \ {Host} : loops'[u] = loops[u]
    BY <2>2, <1>1 DEF Shape
  <2>4. 1 < MaxNest /\ MaxNest \in Nat
    BY TasksAssumption
  <2>5. Nesting'
    <3> SUFFICES ASSUME NEW u \in Threads
                 PROVE  /\ Len(loops'[u]) <= MaxNest
                        /\ \A i \in 1 .. Len(loops'[u]) : loops'[u][i].toCall # {} => i < MaxNest
      BY DEF Nesting
    <3>1. CASE u = Host
      <4>1. Len(loops'[u]) = 1
        BY <2>3, <3>1
      <4> QED
        BY <4>1, <2>4
    <3>2. CASE u # Host
      BY <2>3, <3>2 DEF Bounds, Nesting
    <3> QED
      BY <3>1, <3>2
  <2>6. ASSUME NEW u \in Threads, NEW n \in Machines PROVE On(u, n)' = On(u, n)
    <3>1. n # 0
      BY DEF Machines
    <3> QED
      BY <2>2, <2>3, <3>1 DEF On, Loop
  <2> QED
    BY <2>2, <2>5, <2>6, <1>1, RestBounds
<1>5. CASE HostEventDone
  <2>1. /\ loops[Host] = <<Loop(0, Main, {})>> /\ loops' = [loops EXCEPT ![Host] = <<>>]
        /\ UNCHANGED <<machine, result>>
    BY <1>5 DEF HostEventDone
  <2>2. /\ loops'[Host] = <<>> /\ \A u \in Threads \ {Host} : loops'[u] = loops[u]
    BY <2>1, <1>1 DEF Shape
  <2>3. Nesting'
    BY <2>2, TasksAssumption DEF Bounds, Nesting
  <2>4. ASSUME NEW u \in Threads, NEW n \in Machines PROVE On(u, n)' = On(u, n)
    <3>1. n # 0
      BY DEF Machines
    <3> QED
      BY <2>1, <2>2, <3>1 DEF On, Loop
  <2> QED
    BY <2>1, <2>3, <2>4, <1>1, RestBounds
<1>6. CASE HostDestroy \/ HostConstruct
  BY <1>1, <1>2, <1>6, RestBounds DEF HostDestroy, HostConstruct
<1>7. ASSUME NEW t \in Threads, Instruction(t) \/ CallListener(t) PROVE Bounds'
  BY <1>1, <1>7, InstructionBounds, CallBounds
<1>8. ASSUME NEW t \in Workers, RunTask(t) PROVE Bounds'
  <2>1. /\ loops[t] = <<>> /\ tasks # <<>> /\ result' = result
        /\ Enter(t, Head(tasks).machine, Head(tasks).function, <<>>)
    BY <1>8 DEF RunTask
  <2>2. Head(tasks) \in TaskRecords
    BY <1>1, <2>1 DEF Shape
  <2> QED
    BY <2>1, <2>2, <1>1, StartBounds DEF TaskRecords
<1>9. CASE UNCHANGED vars
  BY <1>1, <1>2, <1>9, RestBounds DEF vars
<1> QED
  BY <1>1, <1>3, <1>4, <1>5, <1>6, <1>7, <1>8, <1>9 DEF Next, Work

\* Stacks, registers and nests of loops have the size that the loops the threads
\* are in account for; an idle machine has nothing on its stack
\* (VirtualMachine.h:116-137, VirtualMachine.cpp:207-263).
THEOREM TypeCorrect == Spec => []TypeOK
<1>1. Init => IInv /\ Heap /\ Bounds
  BY Initially, HeapInitially, BoundsInitially
<1>2. IInv /\ Heap /\ Bounds /\ [Next]_vars => IInv' /\ Heap' /\ Bounds'
  BY StepKeeps, StepSeen, BoundsKeep
<1>3. IInv /\ Heap /\ Bounds => TypeOK
  <2> SUFFICES ASSUME IInv, Heap, Bounds PROVE TypeOK
    OBVIOUS
  <2>1. Shape /\ Nesting
    BY DEF IInv, Bounds
  <2>2. listeners \subseteq Listening
    <3> SUFFICES ASSUME NEW l \in listeners PROVE l \in Listening
      OBVIOUS
    <3>1. l \in ListenerRecords
      BY <2>1 DEF Shape
    <3>2. l = Listener(l.event, l.machine, l.function)
      BY <3>1 DEF ListenerRecords, Listener
    <3> QED
      BY <3>1, <3>2 DEF ListenerRecords, Listening
  <2>3. ASSUME NEW m \in Machines
        PROVE  /\ valueStack[m] \in Seq(Cell)
               /\ Len(valueStack[m]) <= (MaxLength + 3) * Cardinality(UNION {On(t, m) \X {t} : t \in Threads})
               /\ stack_base[m] \in 0 .. Depth
               /\ command_ptr[m] \in Place
    <3>1. PICK q \in Nat : q = (MaxLength + 3) * Cardinality(LoopsOn(m))
      BY <2>1, LoopsInside, LoopsCount
    <3>2. StillToPush(m) \in Nat
      <4>1. command_ptr[m].at \in 0 .. MaxLength /\ MaxLength \in Nat
        BY Places, TasksAssumption DEF Bounds
      <4> QED
        BY <4>1 DEF StillToPush
    <3>3. valueStack[m] \in Seq(Cell) /\ Filled(m)
      BY DEF Bounds
    <3>4. Len(valueStack[m]) <= q
      <4>1. Len(valueStack[m]) \in Nat
        BY <3>3
      <4>2. valueStack[m] = <<>> => Len(valueStack[m]) = 0
        OBVIOUS
      <4> QED
        BY <4>1, <4>2, <3>1, <3>2, <3>3 DEF Filled
    <3> QED
      BY <3>1, <3>4 DEF LoopsOn, Bounds
  <2> QED
    BY <2>1, <2>2, <2>3 DEF TypeOK, Shape, Heap, Nesting, Bounds
<1> QED
  BY <1>1, <1>2, <1>3, PTL DEF Spec
=============================================================================
