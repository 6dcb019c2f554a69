# ButiScript in TLA+

ButiScript compiles a C-like script to byte code (`ButiScript_Compiler`) and
runs it on a stack machine (`ButiScript_VirtualMachine`) inside a host program.
This directory holds TLA+ models of the machine and of what surrounds it, the
TLC configurations that check them on small programs, and proofs of the main
safety properties.

## Inventory

| Component | State | Operations | How it meets the others | What is hard | Correct when |
|---|---|---|---|---|---|
| Stack machine, `VirtualMachine.h/.cpp`, `VM_value.h` | value stack, `stack_base`, `command_ptr_` | one handler per opcode, `Execute` | runs the compiler's output for the host | frame links lie among the script's data; nothing is bounds-checked on pop; overflow by exception | frames stay linked and isolated, the host gets its result and the globals back |
| Global values, `VirtualMachine.cpp:55-205, 276-305` | bottom of the stack, `globalValue_base/size`, `globalValueAllocOpSize`, class infos | `AllocGlobalValue`, `Clear`, `HotReload`, `SaveGlobalValue`, `RestoreGlobalValue` | the host calls them between executions | sequences of legal calls; a changed declaration not noticed | the globals are the ones the loaded program declares, a restore brings back what was saved |
| Events and tasks, `VirtualMachine.cpp:79-94, 227-273` | listeners and task queue of external libraries, clones | register, execute event, push task, `Clone` | re-enter `Execute`, on this thread or on a worker | re-entrancy, shared objects, lifetime of the clone | a machine is executed by one thread at a time and not after its deletion |
| Code generation, `Node.cpp`, `Declaration.cpp` | tree, variable tables, break label | `Analyze`, `Push`, `Pop`, `Assign` | writes statements into the compiler | stack balance, argument order, addresses of locals in nested blocks | its output is well formed (`Bytecode!WellFormed`) and computes what the source says |
| Compiler driver, `Compiler.cpp` | statements, labels, text, tables | `Compile`, `Analyze`, `LabelSetting`, `CreateData`, `Clear` | parser callbacks fill its tables | order of phases, errors that are counted and not read | every jump lands where its label was set; data only without errors |
| Type and function tables, `Tags.h` | maps of types, functions, enums | register, find, overload match | used by the compiler, kept in the compiled data | indices computed from counts, registration order | an index names one type for as long as it is used |
| Compiled data, `CompiledData.h`, `Compiler.cpp:647-945` | code, text, tables | output, input | from compiler to machine | fields dropped on the round trip | what is loaded is what was saved |
| Parser, `Parser.cpp`, `Compiler.cpp:151-262, 595-612, 946-1048` | grammar; `currentNameSpace`, `list_namespaces`, `list_parentFunction` | `ScriptParse`, the actions of the rules, `NameSpace` | builds the tree, registers in the middle of the text; the passes use the same fields | a syntax error anywhere, backtracking after an action, passes that pop what the parser has pushed | everything is declared under the name of where it is written; nothing is left for the next script |
| Built-in types and functions, `BuiltInTypeRegister.h`, `Compiler.cpp:1090-1291` | registration tables | `sys_func`, `sys_method` wrappers | called by `OpSysCall` | number of values popped and pushed | as many as registered |
| Command-line driver, `main.cpp` | none | compile, save, load, run each file | uses all of them, one compiler for all files | after a compilation that failed it loads and runs the file an earlier one has left | |

The machine executes one script function at a time, on the thread of the host
that called `Execute`. Concurrency enters by `PushTask` only, re-entrancy by
`EventExecute` only; both are module `Tasks`.

## Modules

| Module | Models |
|---|---|
| `Bytecode` | the format of compiled code and what the machine relies on of it (`WellFormed`): which instruction follows which, at which least depth of the frame |
| `VMStack` | the machine: the value stack, frames, every instruction, `Execute`, stack overflow |
| `CallStack` | what the machine promises: a stack of activations with private cells |
| `VMStackProofs` | theorems about `VMStack` |
| `MCVMStack` | two scripts, in one program, for TLC |
| `GlobalStore` | global values over `AllocGlobalValue`, `HotReload`, `SaveGlobalValue`, `RestoreGlobalValue` and assignments |
| `GlobalStoreProofs` | theorems about `GlobalStore` |
| `MCGlobalStore` | sets of programs for TLC |
| `Syntax` | the syntax tree |
| `Codegen` | the code generator: `Push`, `Assign`, `Analyze` of each node, blocks, variable tables, names, labels, a call at a time |
| `Compiler` | `Compile`: the passes of `Analyze`, `LabelSetting`, `CreateData`, `Clear`, script after script |
| `Script` | what a script does when read the way C is; the reference the compiled code is compared with |
| `Running` | the machine once more, as a function, with the numbers that conditions depend on |
| `Execution` | the compiled code of `Compiler`, run by `Running`, against `Script` |
| `CompilerProofs` | theorems about `Compiler`, for every set of scripts: what is pending, what is left between functions, what the host finds |
| `CompilerAddressProofs` | the same for labels and addresses of variables |
| `MCCompiler` | the scripts for TLC |
| `Parsing` | from the text to declarations: the actions of the grammar, namespaces and parent functions, the passes of `Analyze`, syntax errors, script after script |
| `TypeTable` | types, their numbers, and the tables of host, compiler, file and machine that have to agree on them |
| `Tasks` | events, tasks and clones: `Execute` entered from several places and threads |
| `SharedGlobals` | what a script may expect of a task: globals of its own, of which others see something only through objects in common |
| `TasksProofs` | theorems about `Tasks`: who uses which machine, who sees what; that every loop has its frame; how much is on a stack |
| `TypeTableProofs` | theorems about `TypeTable` |
| `ParsingProofs` | theorems about `Parsing`, for every text |
| `ParsingCleanProofs` | theorems about `Parsing`, for texts that end between two declarations |
| `MCParsing`, `MCTypeTable`, `MCTasks` | names, threads and constraints for TLC |

### VMStack

State and code: `data` and `currentSize` are `Stack::data` and
`Stack::currentSize`; `stack_base` and `command_ptr_` are the members of that
name; `running` is the host being inside `Execute`; `entryPoint` is the
function it asked for. `frames` is a history variable, a record of each active
call as it was entered; no action reads it to decide what to do.

One action is one turn of the loop in `Execute_` (one opcode handler), a call
of `Execute` by the host, or its end. Instructions with the same effect on the
stack are one class: `PushConst` stands for all constants, `PushLocal` for
locals, arguments and their references, array elements and members,
`Operator` for all arithmetic, comparison and cast instructions, `OpSysCall`
for built-in functions and methods. What is computed is the value `"data"`,
and a branch on it goes either way; integers that matter (counts of
arguments, links, switch constants) and function objects keep their value. A
push on a full stack is the action `Throw`: the exception leaves the handler,
`Execute_` reports it, and `Execute` cuts the stack.

A program is data: `Code`, with the function each address is in (`Owner`) and a
least depth of the frame there (`MinDepth`). `WellFormed` says of these what
the compiler has to guarantee, one instruction at a time; it is the assumption
`CodeAssumption` of every theorem. It is stated as a lower bound and not as an
exact depth, because the compiler emits code whose depth is not fixed: a `for`
statement leaves the value of its third expression on the stack in every round
(`Node.cpp:2056`). That the code generator meets `WellFormed` is checked on
scripts (`OutputWellFormed` of module `Compiler`). The programs of the runs
also have a switch and a lambda: the compiler has the code that emits `VM_TEST`
and `VM_PUSHRAMDA`, and the machine executes them, but no script reaches that
code at present (`Node.h:276`, `Parser.cpp:280`).

`CallStack` is the abstract specification: activations with their own
arguments and cells, a call that takes arguments from the caller's cells, a
return that gives the caller back exactly its cells and the result. `VMStack`
implements it under the mapping `Activations`, which reads the activations out
of the flat stack between the links.

### GlobalStore

One action is one call by the host (or an assignment by a script, for which
only the global cell matters). A cell keeps its declared type; its object has
a kind (what `Get<T>` would be applied to), a value and, for an enum, the
program whose compiled data its tag pointer points into. Code is modelled byte
by byte only as far as `HotReload` compares it: `VM_HALT`, five bytes for each
global, `VM_HALT`, the functions. A `memcmp` that runs beyond the end of a
table may find anything. An enum variable that a script has assigned holds an
integer object, into which `HotReload` writes a tag: status `"corrupt"`, after
which nothing is claimed. An exception from the allocation leaves status
`"threw"`. `vlp_data`, `commandTable`, `globalValue_size` and
`globalValueAllocOpSize` are the members of that name; `saved` is the host's
list, and `atSave`, `previous` and `last` are history variables.

### Codegen and Compiler

The nodes of the tree call each other, and what is left of these calls is the state
`work`: a sequence of calls, the first of which is made next. One action of `Codegen` is
a call of `Push`, `Assign` or `Analyze` of one kind of node, and puts the calls that the
node makes in its own place, up to the next point where the code looks at something: the
type a `Push` has returned, the break label, a table. So an expression
that is pushed twice is two calls in `work`, a loop is its parts with the labels
between them and the break label put back at the end, and a block that fails in the middle
is one whose remaining statements are taken off `work`. `statement`, `labels`,
`variables`, `breakIndex`, `errorCount`, `functions`, `currentNameSpace`, `currentFunction` are the members of
that name; `type` is what the last `Push` returned; `places` are the labels that were
set. `Compiler` is the machine around
this: one action is one pass of `Compiler::Analyze` (functions one at a time), then
`LabelSetting`, `CreateData`, and the return of `Compile`, which clears the tables for
the next script. An address is the number of instructions in front of it.

A script is a record of globals and functions, as the grammar builds them:
namespaces, overloads, blocks with declarations, every statement. There is one
data type, and conditions are constants or come from `read`, which stands for a
built-in function with a result; `print` stands for one without. The other
variables hold `Unknown`. So what a script *does* is what it prints for what it
reads, and whether it ends: `Script!Meaning` says it from the tree, without any
of the compiler, and `Running!Behaviour` from the compiled code, with the
machine's instructions. `ComputesAsWritten` compares them. `Out` is module
`Bytecode` with the compiled data as its constants, so `OutputWellFormed` is the
assumption of the theorems about `VMStack`, checked of the compiler's output;
the least depths it needs are taken down while the code is generated (`frames`,
`depth`).

`frames`, `depth`, `notes` and `doubts` are a history of what was
generated: no action decides anything by them. `doubts` has `"value"` when code
takes a value where no expression has left one (a `return` or an operand without value,
which is no error, `Node.cpp:2002`), and `"label"` when a case or a default has set a
label that was never assigned (`Node.h:276`). What is claimed of a script's
data (`OutputWellFormed`) and of its labels (`LabelsSetOnce`) is claimed of scripts
without such a doubt; the further configurations `Compiler_Nothing` and
`Compiler_Switch` show what happens with one.

### Parsing

`Compiler` starts from a tree; `Parsing` is where it comes from. One action is a
construct the grammar recognises (`OpenNameSpace`, `CloseClass`, `AddFunction`,
...), with the call into the compiler that the rule makes, or one call of the passes
of `Compiler::Analyze` (`DeclareClass`, `DeclareValue`, `PushCompiler`,
`AnalyzeFunction`), or the clearing at the end of `ScriptParse`. The text can end or
fail after any of them (`EndOfFile`, `SyntaxError`); the passes run in either case, as
they do in the code. What the five loops are still to call is the set `calls`, fixed
when the passes start, since no pass adds to the namespaces; the order (loop,
namespace, entry, method, function in function) is in the calls themselves
(`Before`), `entered` says in which round of which loop the compiler is, because
each round sets `currentNameSpace` anew and the calls in it do not, and
`nameSpaceBuffer` is the local of `Analyze` that is restored at the end.
`currentNameSpace`, `list_namespaces` and `list_parentFunction` are the members
of that name; `open` is what the grammar is in the middle of, `items` the
declarations, with what has become of each: the name it is registered under
(`as`), the namespace it was analyzed in, the functions attached to it (`subs`).
A namespace that is in the list no more keeps its name only, `Stale`, since
nothing else of it is read again. `unclean` is a history: a script that ended in
the middle of a construct leaves the namespace it was in behind, and so does a
prototype whose name begins with `class` or `function`, because the rules for
those have fired their actions before they are given up. Properties that do not
survive this are claimed until it happens; `OutermostIsGlobal` is about what follows.

### TypeTable

A type's number is its place in `list_types`, and it is computed from counts in
many places: by the host's registration, by the compiler for the operands of
allocation instructions, by the machine for the members of classes, by the
reader of the file for what the file does not say. The variables are those
tables: `typeIndexMap` and `calls` (the statics of `Value`), `register`
(`SystemTypeRegister`), `types` and `enums` of the compiler, `data`, `file` and
`machine` for the compiled data before, in and after the file. Actions are the
calls of the host, the steps of a compilation that touch a table, output and
input. `orderly` is a history: no name registered twice, no C++ type after an
enum, and no enum of a script whose uninitialised `isSystem` (`Tags.h:121`) reads
as true. Without order the numbers are wrong, in the code as in the model.

### Tasks

`loops` holds, for each thread, the loops of `Execute_` it is in, one inside the
other when a listener is called. `Enter` and `Leave` are the two ends of
`Execute`; the instructions between them are the ones that matter to other
machines (`UseGlobals` below), registering, unregistering and executing events,
`sys_pushTask`. A function is any sequence of them. A worker runs one task at a
time and deletes the clone at the end. `careful` is a history: only the host's
machine has listeners, only the host executes events they listen to, and it
destroys no machine that still listens. `MainIsExecuted` shows why.

A global refers to an object (`cells`), and so do the variables and operands that a
function has from globals (`locals`); `contents` says what is in each object.
`Clone` gives the clone the same objects, and an assignment of a variable makes two
variables one object, because `Value::Assign` copies the pointer. So
there are four things a function does (`UseGlobals`): a global goes to a local or is
passed by reference (`PopLocal`); a global is assigned what an expression has
computed, a new object (`PopValue`), or another variable (`PopValueOf`); an object is
changed in place, by an assignment to a member, a method or `++` (`PopMember`). The
last has no guard, as the code has none: whoever has the object sees the change,
the parent of a task and its clone too, with or without a race. What
two threads leave in an object that they change at once is undefined; the model
takes any value. An object counts with its members, except those that are references
themselves.

The first part of `Isolated` is the refinement of `SharedGlobals`, with `common` the pairs of machines
that have an object in common: a change is seen by those alone, a clone has in common with
others what its machine has, and machines that are apart stay apart. Its other part,
`AssignedAlone`, says that an assignment, unlike a change in place, is seen in no other variable.

## Runs

| Run | Shows | Bounds |
|---|---|---|
| `service` | frames linked (`FrameLinks`), operands in the frame (`OperandsInFrame`), the stack balanced at the end (`HaltBalanced`), callers untouched (`FrameIsolation`), returns to the caller (`ReturnsToCaller`), the invariant of the proofs (`CallDiscipline`), refinement of `CallStack`, the globals alone on the stack between host calls (`IdleAtGlobals`), the host gets control back (`GivesControlBack`) | two scripts in one program: a service, and recursion by name and through a function variable with two captured values; 28 cells: several activations deep, and a loop that leaks a cell in each round, until the stack is full in the middle of a call chain |
| `reload` | the globals are the ones declared (`DeclaredByLoaded`), a restore brings the values back (`RestoreBringsBack`), objects are of the right kind (`KindsAgree`), tags at most one reload old (`TagsAtMostOneBehind`), and which programs the host has to keep so that no value points into a freed one (`NothingPointsToFreed`) | five programs that differ in code, in the first global, in the class layout, in the number of globals; two values; `MaxCounter` 9 is two reallocations after the load, with which the comparison reaches into the second global |
| `resized` | finding: a reload keeps a global that was removed, and a restore is refused with the wrong reason | two programs, of one global and of two |
| `scripts` | nothing left behind between functions and scripts (`BetweenFunctions`), labels (`LabelsSetOnce`), variables that live together apart (`LiveVariablesDistinct`), every overload reachable by the host (`HostFindsEveryFunction`), output well formed (`OutputWellFormed`) and doing what the script says (`ComputesAsWritten`) | 1390 scripts: two compound statements around every way to leave them, functions with overloads in namespaces, an operand without value, a negation, a case that is not reached, scripts with errors; all inputs of up to four numbers (`MaxInput`), which is twice through each of two nested loops; `Fuel` 300 is more than any of them takes |
| `argument` | finding: `ArgumentsChecked` | one call with two arguments |
| `hiding` | finding: `NamesInnermost` | a parameter and a global of one name |
| `parsing` | namespace and parents follow the text (`NameSpaceFollowsText`), every declaration is registered and analyzed where it is written (`DeclaredAsWritten`), functions in functions belong to the innermost one around them (`AttachedToEnclosing`), nothing is left for the next script (`NothingLeft`) | four declarations of two names, in any nesting: two functions in a class in a namespace, three functions inside each other; two scripts, the second of two declarations if the first has left something behind (`ShortWhenUnclean`) |
| `afterwards` | finding: `OutermostIsGlobal` | the same |
| `types` | a number is a place (`NumberIsPlace`), nothing of a script stays (`NothingOfScriptsLeft`), variables, tables and members mean the same type in compiler and machine (`AllocatedAsDeclared`, `LoadedAsCompiled`, `MembersAsDeclared`) | two built-in types, up to eight types in all: a C++ type and an enum of the host, enums, classes and function types of scripts in every order; no further step after disorder (`StopAtDisorder`) |
| `tasks` | every loop runs its own function in its own frame (`FramesKept`), a machine is in the hands of one thread (`OneThread`), each clone has one task and is deleted after it (`CloneHasOneTask`), every task ends (`TasksEnd`) | two workers and the host, three machines (two clones, or a clone of a clone, or a second machine of the host), functions of one instruction, two loops inside each other, three calls by the host; no further step after carelessness (`StopAtCareless`) |
| `sharing` | machines see of each other what happens to objects they have in common, and nothing else, and an assignment in the assigned variable alone (`Isolated`) | a worker and the host, three machines, two globals and a local, two values, functions of two instructions (take a global, change it), one call by the host; no events: listeners do not touch objects but by the same instructions |
| `nested` | finding: `MainIsExecuted` | one machine, main of two instructions |

`DeclaredByLoaded` is claimed of programs that `HotReload` tells apart
(`Distinct`): programs with the same globals, another class table, or a
difference in as many bytes as there are globals. The run `resized` has two
programs that are not told apart. `KindsAgree` and `TagsAtMostOneBehind` ask
further that the programs mean the same by the type indices of their globals
(`SameKinds`), since `RestoreGlobalValue` compares the index. `RestoreBringsBack`
asks nothing of the programs.

Fairness: `GivesControlBack` is checked under `WF_vars(Step)`: the loop of
`Execute_` is sequential code that nothing blocks, so an enabled instruction is
executed. The host is not assumed to call anything. The property is claimed of
programs without loops, or, like the one of the run, with a loop that leaks a cell in
each round, which overflow ends; a script with another loop may run for ever. `TasksEnd` is checked under weak fairness of each worker's `Work(t)`: the
task library runs its queue on threads of its own, and a function of the model
is a finite sequence of instructions. Nothing is assumed of the host.

## Proofs

`VMStackProofs` proves, for every well-formed program, stack size and number
of globals:

* `Disciplined`, `WellTyped`: `TypeOK` and `CallDiscipline`, the inductive invariant. What
  has to hold for a return to be right was decided at the call, so `FrameLinks`
  is not inductive: the invariant adds, for each frame, how it chains to the
  next (saved base, address of an instruction of the caller, enough of the
  caller's cells left for that instruction), for the running function that it
  has `MinDepth` cells, and for the instructions that take a count or a
  function object from the top, that it is the one pushed just before. Each
  class of instruction has a lemma that it keeps the invariant; `ReplaceKeeps`
  is the common core of those that stay in the function, `EnterKeeps` of the
  calls, `LeaveKeeps` of the returns.
* `LinksSafe`, `HostBalanced`, `HostIdle`, `OperandsSafe`: the safety invariants, from it.
* `Isolation`, `Returning`: the action properties.

`GlobalStoreProofs` proves, for every set of programs and every order of host
calls, `AlwaysTyped`, `AlwaysDeclared`, `AlwaysRestored`, `AlwaysSound`
(`KindsAgree`), `AlwaysRecent` (`TagsAtMostOneBehind`) and `AlwaysKept` (a
host that keeps the programs since the last reload that reported a change, and
the one before it, never has a value point into a freed one). The invariant adds
to the properties that the counter is never below the number of globals (so
`HotReload` compares at least the bytes that `Distinct` speaks of), that a save
holds what the cells held, that every saved value has the kind some program
means by its type, that only values of enums, functions and restored classes
point into a program, and that what they point into is among the kept ones.

Assumptions of the proofs: `CodeAssumption` (the program is well formed),
`SizeAssumption`, `RoomForExecute` (the globals, the arguments of an entry
function and three links fit the stack: `Execute` pushes them outside the `try`
of `Execute_`), and in `GlobalStore` the types of its constants and
`ReferencesAllocatable` (no global is a reference to an enum or a function: the
file holds no function that allocates one).

`VMStackProofs` also proves `Implements`: for every well-formed program and stack size,
`VMStack` implements `CallStack`. From its invariant it
takes that frames lie one below the other (`FrameOrder`), so an activation that
waits is read from cells no later step writes (`Waits`); a call cuts the
caller's cells in two, those that stay and the arguments (`Calls`), and a return
finds the first part again and puts the result on top (`GivesBack`).

`TasksProofs` proves, for any number of workers, machines, events and functions:

* `Exclusive` (`OneThread`) and `OneTask` (`CloneHasOneTask`), from the invariant
  `Owned`: every machine has one owner, the host its own, and each clone a task
  that waits or is on a worker. Neither property is inductive, since what a worker
  takes next depends on the queue, and what is in the queue on who pushed it. It is
  claimed while `careful` holds.
* `Sharing` (`Isolated`): `Tasks` implements `SharedGlobals` (`SharedAlways`), and an
  assignment is seen nowhere else (`AssignedAloneAlways`), in every behaviour,
  careful or not. The invariant (`Heap`) is that every variable refers to an object;
  a free object exists, because there are more objects than variables (a
  pigeonhole argument, `FreeIsFree`), so an assignment writes none that is in use.
  Every instruction gives its machine no object but its own or a free one
  (`Changes`), so machines are joined by cloning alone.

* `TypeCorrect` (`TypeOK`), whether the host is careful or not: a stack holds no
  more than the loops that threads are in on its machine account for. That is no
  invariant by itself, since one machine may be in several loops of several
  threads; `Bounds` says of every machine that its stack is at most `MaxLength + 3` cells
  for each of them, less what the function has still to push (`Filled`), and that a loop
  with listeners still to call is not the `MaxNest`-th (`Nesting`).

And `FramesAreKept` (`FramesKept`), while `careful` holds.
`Execute` saves neither the registers nor the stack of a machine that is in use,
so that a loop finds its function and its frame is a matter of who else comes in.
The invariant `Frames` says of every machine: nobody is in it and its stack is
empty; or one thread is, and the three links of its loop are the first cells of
the stack, or the function has returned and its result alone is there. It says of
the host that it is in its machine for a call, or calls listeners, not both
(`HostNest`). A step keeps it because the thread is alone (`Alone`, from `Owned`)
and who enters finds nothing there (`EntersFramed`).

The assumption of all is `TasksAssumption`: the threads, functions and machines are
apart, no function begins at the address of the `VM_HALT` (`Compiler.cpp:90` puts it
in front of all code), the bounds are numbers, globals and workers finitely many. At
least two loops may be inside each other (`MaxNest`): with one, no function that
`Execute` is in could fire an event whose listener is a script.

`TypeTableProofs` proves, for every host (its names, C++ types, enums and classes, in
any number and order) and every sequence of scripts:

* `Numbers` (`NumberIsPlace`), `Forgets` (`NothingOfScriptsLeft`), `Allocates`
  (`AllocatedAsDeclared`), `Reads` (`LoadedAsCompiled`), `Makes`
  (`MembersAsDeclared`).
* `Inductive`: the invariant they follow from, `Numbered`. That a number is a place
  is kept by each registration, but says nothing of what is computed from the
  numbers: the compiler subtracts counts from an index, and the machine counts the
  types of the file again. So the invariant describes the whole list: the C++ types
  of the host in the order of its table of functions, its enums, the enums and
  classes of the script, its function types; that the compiler's counts are the ends
  of these parts; that the data is the compiler's tables, the file what
  `OutputCompiledData` makes of the data, and the machine what `InputCompiledData`
  makes of the file. The last two are equations, so nothing has to be kept about
  them; what they say of the parts is shown once (`FoundOut`, `OneAllocated`,
  `OneMade`).

These are claimed while `orderly` holds: no name or C++ type is registered twice.
`TypeCorrect` (`TypeOK`) is not: whatever is registered over what, a list names types
that have a tag, and is no longer than the bound. Its invariant (`Sized`) counts: a new
C++ type is placed at the number of the ones before it, which is its place or one that
is taken, because there are never more of them than types in the list (`Counted`).
When `Clear_notSystem` drops types, what is kept of the list is taken in its order
(`Ranks`, `EntriesOf`). The
assumption is `TypesAssumption`: the built-in types are of different C++ types,
classes have finitely many members, at places that are numbers and of types that
have names; the null pointer, which is what a type without a C++ type gets for
its allocation function, is no C++ type; and the bound on types has room for the
built-in ones.

`ParsingProofs` proves, for every text of any length, cut anywhere, with prototypes
and syntax errors, and any number of scripts one after another:

* `WellTyped` (`TypeOK`) and `Attaches` (`AttachedToEnclosing`).
* `EveryText`: the invariant they follow from, `TextInv`. That a function in a function
  is attached to the innermost one around it depends on `list_parentFunction`, from
  which nothing is taken when a function or method ends, only when one in a function
  does. So the invariant says (`Parents`) that the functions the text is in the
  middle of are the last of the list, in their order, whatever lies below them; for
  that it needs what can be in what (`Text`: a method is in a class, a function in a
  function directly in one, everything else in namespaces only), that the current
  namespace is as deep as the text (`Current`, so no pop reaches the null pointer),
  that namespaces lie in earlier ones (`Nested`), and that nothing is attached
  to two functions (`Owned`) or called as what it is not (`Callable`).

Every action is one of a few effects on this state (`EveryStep`: a construct
begins, ends, is a declaration without an inside; a pass changes what has become
of one item), and each effect is shown to keep the invariant. The assumption is
`ParsingAssumption`: the bounds are numbers.

`ParsingCleanProofs` proves what does not hold of every text, while `clean` holds: every
text has ended between two declarations and none has had a prototype that begins like a
construct. (What an action of the grammar has done is not undone when the grammar turns
back; the run `afterwards` shows what that does to a script after one that was cut.)
Functions may be nested, namespaces opened again, and names used twice.

* `FollowsText` (`NameSpaceFollowsText`), `LeavesNothing` (`NothingLeft`),
  `DeclaresAsWritten` (`DeclaredAsWritten`).
* `CleanTexts`: the invariant they follow from, `CleanInv`, on top of `TextInv`. The list
  of parents is pushed in the text and popped in the passes, in another order, and what
  is popped is not looked at there: it is right because there are as many parents as
  functions that have not been registered (`Counted`), and each is registered once.
  For that, nothing may be called twice. A namespace holds one function or class at
  most and nothing is in two (`Separate`), since each construct makes a namespace of
  its own, also when the name is not new; and a function goes to the buffer of its
  namespace when it ends, where no other has been put since it began (`Fresh`). So a
  call is for the one entry of its buffer (`Due`), what has been read is in a buffer or
  will be when the text has gone on (`Placed`), and what has not been done is called
  later, unless there has been an error (`Awaited`). The current namespace is
  the text's, and the passes set it back (`InPlace`), so that what is declared is
  called what it is written as (`Correct`).

That a function in a function has been analyzed at the end (`SubsAnalyzed`) is a chain:
it is analyzed by the one around it. The chain ends because what is around
has been read earlier: the first one in the text that is not analyzed would be
in one that is. This needs that a set of numbers has a least element, and no
induction beyond.

`CompilerProofs` and `CompilerAddressProofs` prove, for every set of scripts, with trees
of any size and depth, compiled one after another in any order, with errors or without:

* `TypeCorrect` (`TypeOK`), `BetweenFunctionsHolds` (`BetweenFunctions`),
  `LabelsSetOnceHolds` (`LabelsSetOnce`), `LiveVariablesDistinctHolds`
  (`LiveVariablesDistinct`), `HostFindsEveryFunctionHolds` (`HostFindsEveryFunction`).
* `AlwaysSound`: the invariant they rest on, `Sound`. The code generator is recursive
  over the tree, and what a recursion does is out of the provers' reach; but as a machine
  of pending calls it has an invariant, which speaks of all of `work`. With
  each call goes a number of tables and a break label that it needs (`InPlace`): the call in front
  leaves them behind, whether it succeeds or fails, and the last call leaves one table
  and no break label. That is why nothing is left between two functions, however
  deep a break, an error or the end of a block was. A call that names a function names a
  registered one (`Callees`); a name with a number of parameters has one tag, and each
  function without code is still to come (`Registry`), so an overload is never
  confused with another; every label of a function is one that was made (`Bounded`).
* Labels (`Labelling`): the labels that were made are in three classes, the ones that
  are set, the ones that a call in `work` will set, and those of functions without
  code, and each is in one class, once. Each action moves labels from one class to
  another or makes new ones for the second; when no call and no function is left, the
  first class has all. After a case or a default, which set whatever number is
  in `label_`, nothing is claimed.
* Addresses (`Numbered`): the tables of nested blocks have ranges of
  addresses one behind the other, and the parameters, which are numbered downwards from -4 while `work` still has the
  rest of them, lie below all of these.

`NodesAssumption` and `ScriptsAssumption` say that scripts are made of the nodes of the
grammar: an expression's operands are expressions, a body is a block, a function's
parameters are names. Nothing is assumed of names, nesting or length, and the set of
expressions may be infinite.

The theorems about `VMStack` assume `CodeAssumption`. Two kinds of scripts get data
that does not meet it, both shown by runs: scripts with errors, for which the
compiler returns data all the same, and scripts that use the result of a
function without result (`Compiler_Nothing.cfg`). For the scripts of the run `scripts` the
assumption is checked.

Only model-checked:

* `GivesControlBack` and `TasksEnd`: liveness, which the provers do not do.
* `ComputesAsWritten`: what a script means (`Script!Meaning`) and what a machine does
  with code (`Running!Behaviour`) are recursive functions, and that they agree for every
  script is an induction over trees, which the provers do not do either.
* `OutputWellFormed`: it speaks of the addresses in the finished code, after
  `LabelSetting`, and of the least depth of the frame at each. The depth at a label is
  the least over the ways that lead there, and that a `jmp` emitted for a `break` has no
  less cells than its label needs depends on all that was emitted since the label
  was promised. The invariants above do not carry the code itself; one that does is the
  next step of the plan.

## Findings

Shown by runs that expect a violation:

* `VirtualMachine.cpp:141`: it is used as a number of bytes in `memcmp`, though
  each instruction has five; a global that the new script does not declare any more
  goes unnoticed and is kept, and a later restore is refused with a message that is
  not true (run `resized`). The trace: a value is saved under a script with one global,
  one with two is loaded, and a hot reload goes back to the first. (The other
  direction is the same comparison: a global that was added would not be allocated.)
* `Node.cpp:1662`: every argument is checked against the last parameter, and
  arguments arrive in the opposite order (run `argument`).
* `Node.cpp:1179`: a global of the namespace hides a parameter (run `hiding`).
* `VirtualMachine.cpp:223`: a listener that a script calls by executing the event
  leaves the machine at its own entry, without the caller's frame (run `nested`).
* `Compiler.cpp:808`: a syntax error inside a namespace leaves the compiler in it:
  the next script's functions are registered there, and its variables not at all
  (run `afterwards`).

In the scripts of the run `scripts` nothing depends on the value of a `!` or on whether a
`case` is entered, no function is in a namespace that has a global of a parameter's
name, and no result of a function without one is used where it would be popped, since
the properties are known to fail there.


### Further configurations

Each of these checks one more property, stated in the module from a comment of
the repository, and TLC finds it violated by what the code does.

| Configuration | Property | What TLC finds |
|---|---|---|
| `GlobalStore_Counter` | `CountsAllocInstructions` | `globalValueAllocOpSize`, the number of allocation instructions (`VirtualMachine.h:1333`), is never reset and sums up over reloads (`VirtualMachine.cpp:65`) |
| `Compiler_Negation` | `ComputesAsWritten` | the negation of a number falls through into the increment and evaluates its operand again (`Node.cpp:813`) |
| `Compiler_Switch` | `ComputesAsWritten` | `Case_Analyze` is called and `case_Analyze` is defined: a switch never enters a case (`Node.h:276`) |
| `Compiler_Sibling` | `ReservedWhereAddressed` | the cells of a closed block stay, its addresses are used again (`Compiler.cpp:454`) |
| `Compiler_Nothing` | `OutputWellFormed` | the result of a function without result may be returned (`Node.cpp:2002`) |
| `TypeTable_ClassReference` | `ClassReferencesAllocated` | a local reference to a class is allocated by an index that still has the reference bit (`Compiler.cpp:1069`) |
| `TypeTable_EnumReference` | `EnumReferencesAllocated` | a reference to an enum is allocated by a function that is not there (`Compiler.cpp:881`) |
| `TypeTable_Infos` | `InfosAreOfClasses` | enums of a script are among the class infos (`Tags.h:1044`) |
| `TypeTable_Members` | `EveryMemberMade` | an enum of the host moves the members of classes by one place (`VM_value.cpp:57`) |
| `TypeTable_Circle` | `NothingHoldsItself` | two classes that hold each other are accepted (`Compiler.cpp:272`) |
| `Parsing_Methods` | `MethodsInTheirClass` | the second method of a class is analyzed in the namespace around it (`Declaration.cpp:77`) |
| `Parsing_Enums` | `EnumsAnywhere` | an enum in a namespace is looked up under another name than it is stored (`Compiler.cpp:376`) |
## Not modelled

* The values that scripts compute, members of classes at run time, text: the
  properties here do not tell them apart. (`Mod` of `VM_value.h:628` reads its
  left operand twice, so that `%` gives 0: a value.)
* The text of a script below the level of declarations: characters, comments,
  expressions. The grammar of statements and expressions makes a tree, which is
  the data of module `Syntax`. Of rules that are tried and given up after an
  action was fired, `Parsing` has the ones of declarations (`Prototype`).
* The event and task libraries, which are not part of the repository: they are
  modelled from how they are called. Event messengers, two calls that are passed
  on, are left out.
* Of the code generator: classes and methods, enums, references, arrays, casts,
  function objects, functions in functions. Lambdas cannot occur: the grammar's
  `make_lambda` asserts that it is not finished (`Parser.cpp:280`).
* Of the function table: templates and implicit casts in the choice of overloads.
* The bytes of the file; names and texts in it. What types, classes, enums and
  allocation instructions become on the way through is in `TypeTable`.
* The driver as a component of its own: its loop over scripts is the environment
  of `Compiler`, `Parsing`, `TypeTable` (`NextScript`) and `Tasks`
  (`HostConstruct`, `HostDestroy`). That it runs the file of an earlier
  compilation when one has failed needs a file system and is plain from
  `main.cpp:85-96`.
* Functions registered by the host: generated wrappers, whose effect on the stack is
  `OpSysCall` of `VMStack`.

## Plan

1. `Bytecode`, `VMStack`, `CallStack`: done, proved.
2. `GlobalStore`: done, proved.
3. `Syntax`, `Codegen`, `Compiler`, `Script`, `Running`, `Execution`: done for one
   data type; all but two of the safety properties are proved.
4. `Tasks`: done; the safety properties are proved.
5. `TypeTable`: done; the safety properties are proved.
6. `Parsing`: done; the safety properties are proved (`TextInv`, `CleanInv`).
7. `Codegen`, continued: functions in functions (`ValueAddressSubtract`), methods,
   function objects.
8. Proofs: everything is proved but liveness, `OutputWellFormed` and
   `ComputesAsWritten`. The next step would be `OutputWellFormed`: an invariant of the
   code so far and `work` that gives each instruction its depth.
