------------------------------ MODULE Parsing ------------------------------
(***************************************************************************)
(* From the text of a script to the functions, classes and variables the   *)
(* compiler knows, and under which names (Parser.cpp, Declaration.cpp,     *)
(* Compiler.cpp:82-262, 594-612, 945-1048).                                *)
(*                                                                         *)
(* The grammar has no state.  What it recognises calls the compiler at     *)
(* once, in the middle of the text: a namespace, class or function opens a *)
(* NameSpace when its head has been read, and leaves it when its end has.  *)
(* Nothing is undone if the text then turns out to be no script after all. *)
(* Functions are registered and analyzed in passes over the namespaces     *)
(* afterwards, on the same currentNameSpace and list_parentFunction.       *)
(*                                                                         *)
(* A script is any text, read one construct at a time.  Functions have no  *)
(* parameters, so functions of one name are the same function.             *)
(***************************************************************************)
EXTENDS Integers, Sequences, FiniteSets, SequencesExt

CONSTANTS
  Names,         \* of namespaces, classes, functions, variables, enums
  MaxItems,      \* bound on what one script declares
  MaxScripts     \* bound on scripts

ASSUME ParsingAssumption == MaxItems \in Nat /\ MaxScripts \in Nat

VARIABLES
  phase,             \* idle, parsing, analyzing, crashed
  list_namespaces,   \* objects: [path, parent, functions, classes, values]
  currentNameSpace,
  list_parentFunction,
  nameSpaceBuffer,   \* in Analyze: the namespace to come back to,
  calls,             \* what is still to be called,
  entered,           \* and the loop and the namespace of the last call
  open,              \* what the text is in the middle of: [kind, name, item]
  items,             \* what it declares, in order, and what has become of it
  enums,             \* names of the script's enums
  failed,            \* the text is no script
  errors,            \* errorCount is not zero
  scripts,
  unclean            \* history: "cut" if a text has ended in the middle of a construct,
                     \* "prototype" if one has a prototype that begins like a construct

passes == <<nameSpaceBuffer, calls, entered>>
vars == <<phase, list_namespaces, currentNameSpace, list_parentFunction, passes, open, items,
          enums, failed, errors, scripts, unclean>>

-----------------------------------------------------------------------------
(***************************************************************************)
(* Namespaces.  A reference to one is its path and its place in the list,  *)
(* 0 if it is in the list no more; the global one is there always.         *)
(***************************************************************************)
Ref(path, index) == [path |-> path, index |-> index]
Global == Ref(<<>>, 1)
Nowhere == Ref(<<>>, 0)    \* the null pointer

Entry(path, parent) ==
  [path |-> path, parent |-> parent, functions |-> <<>>, classes |-> <<>>, values |-> <<>>]

\* Of an object that is in the list no more only its path matters.
Stale(ref) == IF ref.path = <<>> THEN ref ELSE Ref(ref.path, 0)

GetParent(ref) ==
  IF ref.index # 0 THEN list_namespaces[ref.index].parent
  ELSE IF Len(ref.path) <= 1 THEN Global ELSE Ref(Front(ref.path), 0)

\* Without a current namespace nothing happens.
PopNameSpace(current) == IF current = Nowhere THEN current ELSE GetParent(current)

PushNameSpace(name) ==
  LET path == Append(currentNameSpace.path, name) IN
  /\ list_namespaces' = Append(list_namespaces, Entry(path, currentNameSpace))
  /\ currentNameSpace' = Ref(path, Len(list_namespaces) + 1)

\* What a namespace off the list is given is not looked at again.
PushFunction(item) ==
  list_namespaces' = IF currentNameSpace.index = 0 THEN list_namespaces
    ELSE [list_namespaces EXCEPT ![currentNameSpace.index].functions = Append(@, item)]
PushValue(item) ==
  list_namespaces' = IF currentNameSpace.index = 0 THEN list_namespaces
    ELSE [list_namespaces EXCEPT ![currentNameSpace.index].values = Append(@, item)]

-----------------------------------------------------------------------------
(***************************************************************************)
(* The text.                                                               *)
(***************************************************************************)
\* own and analyzed are namespaces, as a name; <<>> and {} stand for none.
Item(is, name) ==
  [is |-> is, name |-> name, within |-> [i \in DOMAIN open |-> open[i].name],
   own |-> Nowhere, as |-> <<>>, subs |-> {}, analyzed |-> {}]

Opened(kind, name, item) == [kind |-> kind, name |-> name, item |-> item]
Inside == IF open = <<>> THEN "input" ELSE Last(open).kind
Reading(kinds) == phase = "parsing" /\ Inside \in kinds
Declares == Len(items) < MaxItems
New == Len(items) + 1

\* Where the grammar has declarations, and where it has statements.
Declarations == {"input", "namespace"}
Functions == {"function", "method", "sub"}

OpenNameSpace(name) ==
  /\ Reading(Declarations)
  /\ Declares
  /\ PushNameSpace(name)
  /\ open' = Append(open, Opened("namespace", name, 0))
  /\ items' = Append(items, Item("namespace", name))
  /\ UNCHANGED <<phase, list_parentFunction, passes, enums, failed, errors, scripts, unclean>>

CloseNameSpace ==
  /\ Reading({"namespace"})
  /\ currentNameSpace' = PopNameSpace(currentNameSpace)
  /\ open' = Front(open)
  /\ UNCHANGED <<phase, list_namespaces, list_parentFunction, items, passes, enums, failed,
                 errors, scripts, unclean>>

\* make_class: the class is in its own namespace.
OpenClass(name) ==
  /\ Reading(Declarations)
  /\ Declares
  /\ LET path == Append(currentNameSpace.path, name) IN
     /\ list_namespaces' = Append(list_namespaces,
          [Entry(path, currentNameSpace) EXCEPT !.classes = <<New>>])
     /\ currentNameSpace' = Ref(path, Len(list_namespaces) + 1)
  /\ open' = Append(open, Opened("class", name, New))
  /\ items' = Append(items, Item("class", name))
  /\ UNCHANGED <<phase, list_parentFunction, passes, enums, failed, errors, scripts, unclean>>

\* Faulty: the rule of the class and the one that uses it both leave the namespace.
CloseClassTwice ==
  /\ Reading({"class"})
  /\ currentNameSpace' = PopNameSpace(PopNameSpace(currentNameSpace))
  /\ open' = Front(open)
  /\ UNCHANGED <<phase, list_namespaces, list_parentFunction, items, passes, enums, failed,
                 errors, scripts, unclean>>

CloseClass ==
  /\ Reading({"class"})
  /\ currentNameSpace' = PopNameSpace(currentNameSpace)
  /\ open' = Front(open)
  /\ UNCHANGED <<phase, list_namespaces, list_parentFunction, items, passes, enums, failed,
                 errors, scripts, unclean>>

\* set_functionType, after the type of the result: PushAnalyzeFunction.
PushAnalyzeFunction(kind, name) ==
  /\ PushNameSpace(name)
  /\ list_parentFunction' = Append(list_parentFunction, New)
  /\ items' = Append(items, Item(kind, name))

OpenFunction(name) ==
  /\ Reading(Declarations \cup {"class"} \cup Functions)
  /\ Declares
  /\ LET kind == CASE Inside \in Declarations -> "function"
                   [] Inside = "class" -> "method"
                   [] Inside \in Functions -> "sub"
     IN  /\ PushAnalyzeFunction(kind, name)
         /\ open' = Append(open, Opened(kind, name, New))
  /\ UNCHANGED <<phase, passes, enums, failed, errors, scripts, unclean>>

\* Faulty: the namespace of the function is not left.
AddFunctionStays ==
  /\ Reading({"function"})
  /\ PushFunction(Last(open).item)
  /\ open' = Front(open)
  /\ UNCHANGED <<phase, currentNameSpace, list_parentFunction, items, passes, enums, failed, errors, scripts, unclean>>

\* The function is in its own namespace, and stays in list_parentFunction.
AddFunction ==
  /\ Reading({"function"})
  /\ PushFunction(Last(open).item)
  /\ currentNameSpace' = PopNameSpace(currentNameSpace)
  /\ open' = Front(open)
  /\ UNCHANGED <<phase, list_parentFunction, items, passes, enums, failed, errors, scripts, unclean>>

\* list_methods, which is the items of the class; also a method stays in the list.
RegistMethod ==
  /\ Reading({"method"})
  /\ currentNameSpace' = PopNameSpace(currentNameSpace)
  /\ items' = [items EXCEPT ![open[Len(open) - 1].item].subs = @ \cup {Last(open).item}]
  /\ open' = Front(open)
  /\ UNCHANGED <<phase, list_namespaces, list_parentFunction, passes, enums, failed, errors, scripts, unclean>>

\* A namespace is left for every function that is taken off.
PopAnalyzeFunction(current) ==
  IF list_parentFunction = <<>>
  THEN currentNameSpace' = current /\ UNCHANGED list_parentFunction
  ELSE /\ list_parentFunction' = Front(list_parentFunction)
       /\ currentNameSpace' = PopNameSpace(current)

Registered(i, own, as) == [[items[i] EXCEPT !.own = own] EXCEPT !.as = as]

\* Faulty: the function is attached before it is taken off the list.
PushCompiler_subFirst ==
  LET i == Last(open).item IN
  /\ Reading({"sub"})
  /\ PopAnalyzeFunction(currentNameSpace)
  /\ items' = [[items EXCEPT
        ![i] = Registered(i, currentNameSpace, Append(currentNameSpace'.path, @.name))] EXCEPT
        ![Last(list_parentFunction)].subs = @ \cup {i}]
  /\ open' = Front(open)
  /\ UNCHANGED <<phase, list_namespaces, passes, enums, failed, errors, scripts, unclean>>

\* A function in a function is registered at once.  PushSubFunction attaches it to
\* the last one that has not been taken off, one of this script.
PushCompiler_sub ==
  LET i == Last(open).item IN
  /\ Reading({"sub"})
  /\ PopAnalyzeFunction(currentNameSpace)
  /\ items' = [[items EXCEPT
        ![i] = Registered(i, currentNameSpace, Append(currentNameSpace'.path, @.name))] EXCEPT
        ![Last(list_parentFunction')].subs = @ \cup {i}]
  /\ open' = Front(open)
  /\ UNCHANGED <<phase, list_namespaces, passes, enums, failed, errors, scripts, unclean>>

AddValue(name) ==
  /\ Reading(Declarations)
  /\ Declares
  /\ PushValue(New)
  /\ items' = Append(items, Item("value", name))
  /\ UNCHANGED <<phase, currentNameSpace, list_parentFunction, open, passes, enums, failed, errors, scripts, unclean>>

\* Enum::Analyze: SetEnum under the name with its namespace, then RegistType of what
\* FindType finds under the name alone, a null pointer if there is none.
RegistEnumType(name) ==
  LET known == enums \cup {Append(currentNameSpace.path, name)} IN
  /\ Reading(Declarations)
  /\ Declares
  /\ IF <<name>> \in known
     THEN /\ enums' = known
          /\ items' = Append(items, [Item("enum", name) EXCEPT !.as = Append(currentNameSpace.path, name)])
          /\ UNCHANGED phase
     ELSE phase' = "crashed" /\ UNCHANGED <<enums, items>>
  /\ UNCHANGED <<list_namespaces, currentNameSpace, list_parentFunction, passes, open, failed, errors, scripts, unclean>>

\* decl_func, the declaration of a function that is elsewhere, is read and ignored.
\* If its name begins with "class" or "function", the rules of those have been tried
\* first and have opened what follows in the name.
Prototype(like, name) ==
  /\ Reading(Declarations)
  /\ Declares
  /\ CASE like = "class" ->
            /\ LET path == Append(currentNameSpace.path, name) IN
               /\ list_namespaces' = Append(list_namespaces,
                    [Entry(path, currentNameSpace) EXCEPT !.classes = <<New>>])
               /\ currentNameSpace' = Ref(path, Len(list_namespaces) + 1)
            /\ items' = Append(items, Item("class", name))
            /\ UNCHANGED list_parentFunction
       [] like = "function" ->
            PushAnalyzeFunction("function", name)
  /\ unclean' = unclean \cup {"prototype"}
  /\ UNCHANGED <<phase, open, passes, enums, failed, errors, scripts>>

-----------------------------------------------------------------------------
(***************************************************************************)
(* The passes of Compiler::Analyze.  A call is <<loop, namespace, entry,   *)
(* stage, item>>: which of the five loops over the namespaces it is in, at *)
(* which namespace and entry of its buffer, on which item.  A class calls  *)
(* its methods twice, to register and to analyze them.  Functions in       *)
(* functions are called after the block that they are in, in the order of  *)
(* the text.                                                               *)
(***************************************************************************)
CallsOver(loop, buffers) ==
  UNION {{<<loop, n, e, 0, buffers[n][e]>> : e \in DOMAIN buffers[n]} : n \in DOMAIN list_namespaces}

DeclareClasses == CallsOver(1, [n \in DOMAIN list_namespaces |-> list_namespaces[n].classes])
DeclareValues == CallsOver(2, [n \in DOMAIN list_namespaces |-> list_namespaces[n].values])
DeclareFunctions == CallsOver(3, [n \in DOMAIN list_namespaces |-> list_namespaces[n].functions])
AnalyzeClasses ==
  UNION {{<<4, c[2], c[3], stage, i>> : stage \in {0, 1}, i \in items[c[5]].subs} : c \in DeclareClasses}
AnalyzeFunctions == CallsOver(5, [n \in DOMAIN list_namespaces |-> list_namespaces[n].functions])

Registers(c) == c[1] = 3 \/ (c[1] = 4 /\ c[4] = 0)
Analyzes(c) == c[1] = 5 \/ (c[1] = 4 /\ c[4] = 1)
Before(c, d) == \E k \in 1 .. 5 : c[k] < d[k] /\ \A l \in 1 .. k - 1 : c[l] = d[l]

Analyze ==
  /\ phase' = "analyzing"
  /\ nameSpaceBuffer' = currentNameSpace
  /\ calls' = DeclareClasses \cup DeclareValues \cup DeclareFunctions \cup AnalyzeClasses
                \cup AnalyzeFunctions

Analyzed == phase = "analyzing" /\ calls = {}

\* Every loop enters every namespace anew.
Within(c) ==
  IF entered = <<c[1], c[2]>> THEN currentNameSpace ELSE Ref(list_namespaces[c[2]].path, c[2])

Called(c, inside) ==
  /\ phase = "analyzing"
  /\ \A d \in calls : ~Before(d, c)
  /\ calls' = (calls \ {c}) \cup inside
  /\ entered' = <<c[1], c[2]>>
  /\ UNCHANGED <<list_namespaces, nameSpaceBuffer, open, enums, failed, scripts, unclean>>

\* Under the bare name, whatever the namespace.
DeclareClass(c) ==
  /\ c[1] = 1
  /\ Called(c, {})
  /\ currentNameSpace' = Within(c)
  /\ items' = [items EXCEPT ![c[5]].as = <<items[c[5]].name>>]
  /\ UNCHANGED <<phase, list_parentFunction, errors>>

\* A name that is taken is an error, and the variable is not in the table.
DeclareValue(c) ==
  LET name == Append(Within(c).path, items[c[5]].name)
      taken == \E j \in DOMAIN items : items[j].is = "value" /\ items[j].as = name
  IN  /\ c[1] = 2
      /\ Called(c, {})
      /\ currentNameSpace' = Within(c)
      /\ items' = IF taken THEN items ELSE [items EXCEPT ![c[5]].as = name]
      /\ errors' = (errors \/ taken)
      /\ UNCHANGED <<phase, list_parentFunction>>

\* Faulty: the function is registered before its namespace is left.
PushCompilerInside(c) ==
  LET i == c[5] IN
  /\ Registers(c)
  /\ Called(c, {})
  /\ PopAnalyzeFunction(Within(c))
  /\ items' = [items EXCEPT ![i] = Registered(i, Within(c), Append(Within(c).path, @.name))]
  /\ UNCHANGED <<phase, errors>>

\* The namespace is left as often as there are functions on the list.
PushCompiler(c) ==
  LET i == c[5] IN
  /\ Registers(c)
  /\ Called(c, {})
  /\ PopAnalyzeFunction(Within(c))
  /\ items' = [items EXCEPT ![i] = Registered(i, Within(c),
        IF c[1] = 4 THEN <<@.name>> ELSE Append(currentNameSpace'.path, @.name))]
  /\ UNCHANGED <<phase, errors>>

Defined(i) ==
  \E j \in DOMAIN items \ {i} :
    /\ items[j].analyzed # {} /\ items[j].is \in Functions
    /\ items[j].as = items[i].as
    /\ (items[i].is = "method") <=> (items[j].is = "method")
    /\ items[i].is = "method" =>
         \E k \in DOMAIN items : items[k].is = "class" /\ {i, j} \subseteq items[k].subs

OwnNameSpace(c) == IF items[c[5]].own = Nowhere THEN Within(c) ELSE items[c[5]].own

\* A method without a namespace runs into the null pointer as soon as it has a variable.
AnalyzeFunction(c) ==
  LET i == c[5] IN
  /\ Analyzes(c)
  /\ ~Defined(i)
  /\ Called(c, {<<c[1], c[2], c[3], c[4], j>> : j \in items[i].subs})
  /\ currentNameSpace' = Within(c)
  /\ items' = [items EXCEPT ![i].analyzed = {OwnNameSpace(c)}]
  /\ phase' \in {phase} \cup {p \in {"crashed"} : OwnNameSpace(c) = Nowhere}
  /\ UNCHANGED <<list_parentFunction, errors>>

\* A second definition is an error.  The namespace is not restored, but by the
\* function around it.
DefinedTwice(c) ==
  /\ Analyzes(c)
  /\ Defined(c[5])
  /\ Called(c, {})
  /\ currentNameSpace' = IF items[c[5]].is = "sub" THEN Within(c) ELSE OwnNameSpace(c)
  /\ errors' = TRUE
  /\ UNCHANGED <<phase, items, list_parentFunction>>
-----------------------------------------------------------------------------
(***************************************************************************)
(* Compile.                                                                *)
(***************************************************************************)
Compile ==
  /\ phase = "idle"
  /\ scripts < MaxScripts
  /\ scripts' = scripts + 1
  /\ phase' = "parsing"
  /\ open' = <<>> /\ items' = <<>> /\ enums' = {}
  /\ failed' = FALSE /\ errors' = FALSE
  /\ UNCHANGED <<list_namespaces, currentNameSpace, list_parentFunction, passes, unclean>>

CannotOpen ==
  /\ phase = "parsing"
  /\ items = <<>> /\ open = <<>>
  /\ phase' = "idle"
  /\ UNCHANGED <<list_namespaces, currentNameSpace, list_parentFunction, passes, open, items, enums,
                 failed, errors, scripts, unclean>>

EndOfFile ==
  /\ Reading({"input"})
  /\ Analyze
  /\ UNCHANGED <<list_namespaces, currentNameSpace, list_parentFunction, entered, open, items,
                 enums, failed, errors, scripts, unclean>>

\* What has been read so far is analyzed all the same.
SyntaxError ==
  /\ phase = "parsing"
  /\ Analyze
  /\ failed' = TRUE
  /\ unclean' = unclean \cup {c \in {"cut"} : open # <<>>}
  /\ UNCHANGED <<list_namespaces, currentNameSpace, list_parentFunction, entered, open, items,
                 enums, errors, scripts>>

\* Faulty: the namespaces are not emptied.
ClearNameSpaceKeeps ==
  /\ Analyzed
  /\ phase' = "idle"
  /\ list_namespaces' = <<list_namespaces[1]>>
  /\ currentNameSpace' = Stale(nameSpaceBuffer)
  /\ list_parentFunction' = [i \in DOMAIN list_parentFunction |-> 0]
  /\ open' = <<>> /\ items' = <<>> /\ enums' = {}
  /\ nameSpaceBuffer' = Nowhere /\ entered' = <<0, 0>>
  /\ UNCHANGED <<calls, failed, errors, scripts, unclean>>

\* The end of Analyze, ClearNameSpace and ClearGlobalNameSpace: the current namespace is
\* the one before, and the parents stay what they are.  Whether data is made depends on the text alone, not on errors.
ClearNameSpace ==
  /\ Analyzed
  /\ phase' = "idle"
  /\ list_namespaces' = <<Entry(<<>>, Nowhere)>>
  /\ currentNameSpace' = Stale(nameSpaceBuffer)
  /\ list_parentFunction' = [i \in DOMAIN list_parentFunction |-> 0]
  /\ open' = <<>> /\ items' = <<>> /\ enums' = {}
  /\ nameSpaceBuffer' = Nowhere /\ entered' = <<0, 0>>
  /\ UNCHANGED <<calls, failed, errors, scripts, unclean>>

\* RegistDefaultSystems has made the global namespace.
Init ==
  /\ phase = "idle"
  /\ list_namespaces = <<Entry(<<>>, Nowhere)>>
  /\ currentNameSpace = Global
  /\ list_parentFunction = <<>>
  /\ open = <<>> /\ items = <<>> /\ enums = {}
  /\ failed = FALSE /\ errors = FALSE
  /\ scripts = 0
  /\ nameSpaceBuffer = Nowhere /\ calls = {} /\ entered = <<0, 0>>
  /\ unclean = {}

Next ==
  \/ Compile \/ CannotOpen \/ EndOfFile \/ SyntaxError
  \/ CloseNameSpace \/ CloseClass \/ AddFunction \/ RegistMethod \/ PushCompiler_sub
  \/ \E n \in Names :
       \/ OpenNameSpace(n) \/ OpenClass(n) \/ OpenFunction(n)
       \/ AddValue(n) \/ RegistEnumType(n)
       \/ \E like \in {"class", "function"} : Prototype(like, n)
  \/ \E c \in calls : DeclareClass(c)
  \/ \E c \in calls : DeclareValue(c)
  \/ \E c \in calls : PushCompiler(c)
  \/ \E c \in calls : AnalyzeFunction(c)
  \/ \E c \in calls : DefinedTwice(c)
  \/ ClearNameSpace

Spec == Init /\ [][Next]_vars

-----------------------------------------------------------------------------
clean == unclean = {}
Here(i) == Append(items[i].within, items[i].name)
Of(kinds) == {i \in DOMAIN items : items[i].is \in kinds}
Texts == UNION {[1 .. n -> Names] : n \in 0 .. MaxItems}

TypeOK ==
  /\ phase \in {"idle", "parsing", "analyzing", "crashed"}
  /\ Len(items) <= MaxItems
  /\ \A i \in DOMAIN items :
       /\ items[i].is \in {"namespace", "class", "value", "enum"} \cup Functions
       /\ items[i].within \in Texts
       /\ items[i].subs \subseteq i + 1 .. Len(items)
  /\ \A i \in DOMAIN list_namespaces :
       LET n == list_namespaces[i] IN
       /\ n.parent.index < i
       /\ {n.functions, n.classes, n.values} \subseteq Seq(DOMAIN items)
  /\ currentNameSpace.index \in 0 .. Len(list_namespaces)
  /\ phase # "analyzing" /\ phase # "crashed" => currentNameSpace # Nowhere
  /\ list_parentFunction \in Seq(0 .. Len(items))

\* In the middle of a text the current namespace is the one of the constructs around
\* it, and is in the list; the functions around it are the last of the parents.
NameSpaceFollowsText ==
  clean /\ phase = "parsing" =>
    /\ currentNameSpace.path = [i \in DOMAIN open |-> open[i].name]
    /\ currentNameSpace.index # 0
    /\ list_namespaces[currentNameSpace.index].path = currentNameSpace.path
    /\ \A i \in DOMAIN open : open[i].kind \in Functions =>
         LET above == Len(open) - i IN
         /\ above < Len(list_parentFunction)
         /\ list_parentFunction[Len(list_parentFunction) - above] = open[i].item

\* What a script declares is declared under the names of what it is written in, and
\* every function is analyzed once and looks for names from where it is written:
\* each of the passes finds the namespaces and the parents the way the one before
\* has left them.
DeclaredAsWritten ==
  clean /\ Analyzed /\ ~failed /\ ~errors =>
    /\ \A i \in Of({"function", "sub", "value"}) : items[i].as = Here(i)
    /\ \A i \in Of({"function", "sub"}) : \E n \in DOMAIN list_namespaces :
         list_namespaces[n].path = Here(i) /\ items[i].analyzed = {Ref(Here(i), n)}
    /\ \A i \in Of({"class", "method"}) : items[i].as = <<items[i].name>>
    /\ \A i \in Of({"method"}) : Cardinality(items[i].analyzed) = 1

\* Whatever was read before, a function in a function belongs to the innermost one
\* around it, whose variables it uses, and to no other.
AttachedToEnclosing ==
  \A j \in Of({"sub"}) : items[j].as # <<>> =>
    \E i \in Of(Functions) :
      /\ {k \in DOMAIN items : j \in items[k].subs} = {i}
      /\ items[j].within = Here(i)
      /\ \A k \in Of(Functions) : k < j /\ Here(k) = Here(i) => k <= i

\* A script that could be read, and one that could not but ended between two
\* declarations, leaves nothing to the next.
NothingLeft ==
  clean /\ phase = "idle" =>
    /\ currentNameSpace = Global
    /\ list_parentFunction = <<>>
    /\ list_namespaces = <<Entry(<<>>, Nowhere)>>

\* Compiler.cpp:75 sets the global namespace, once: a function, or a variable, that is written
\* in nothing is declared under its own name.
OutermostIsGlobal ==
  "prototype" \notin unclean /\ Analyzed /\ ~failed /\ ~errors =>
    \A i \in Of({"function", "value"}) : items[i].within = <<>> => items[i].as = <<items[i].name>>

\* Parser.cpp:425 registers methods: they look for names from the class they are in.
MethodsInTheirClass ==
  clean /\ Analyzed /\ ~failed =>
    \A i \in Of({"method"}) : \A n \in items[i].analyzed :
      n # Nowhere /\ IsPrefix(items[i].within, n.path)

\* Parser.cpp:350 makes enums, and the grammar has them in namespaces.
EnumsAnywhere == phase = "crashed" => \E i \in Of({"method"}) : items[i].analyzed # {}
=============================================================================
