----------------------------- MODULE TypeTable -----------------------------
(***************************************************************************)
(* The types of a script and the numbers they go by: SystemTypeRegister,   *)
(* where the host registers its own; TypeTable and EnumTable of the        *)
(* compiler, which starts from a copy and adds the script's enums, classes *)
(* and function types; the compiled data, its file, and the tables of the  *)
(* machine that has loaded it (Tags.h, BuiltInTypeRegister.h, Compiler.cpp,*)
(* VirtualMachine.h).                                                      *)
(*                                                                         *)
(* A type's number is its place in list_types.  The compiler computes from *)
(* it what an allocation instruction says, the machine looks that up in    *)
(* tables of its own, and nothing but the order of registration makes the  *)
(* two agree.                                                              *)
(*                                                                         *)
(* A script is what the parser and the passes of Compiler::Analyze make of *)
(* it: enums while it is parsed, then its classes, one global, the members *)
(* of the classes, function types and one local variable.                  *)
(***************************************************************************)
EXTENDS Integers, Sequences, FiniteSets

CONSTANTS
  Defaults,        \* the built-in types, in the order of their registration
  HostTypes,       \* names under which a host may register a C++ type
  CppType,         \* the C++ type registered under such a name
  HostEnums,       \* names of enums a host may register
  ScriptEnums, ScriptClasses, FunctionTypes,  \* names in scripts
  Bodies,          \* the members of a class: name |-> [type, ref]
  MaxTypes         \* bound on list_types, and on systemTypeCount

BuiltIn == {Defaults[i] : i \in 1 .. Len(Defaults)}
Names == BuiltIn \cup HostTypes \cup HostEnums
           \cup ScriptEnums \cup ScriptClasses \cup FunctionTypes
CppTypes == {CppType[t] : t \in BuiltIn \cup HostTypes}

\* Members are named by numbers, so that they have an order; "null" stands for the
\* null pointer.
ASSUME TypesAssumption ==
  /\ Defaults \in Seq(BuiltIn) /\ Defaults # <<>>
  /\ \A i, j \in 1 .. Len(Defaults) : CppType[Defaults[i]] = CppType[Defaults[j]] => i = j
  /\ \A b \in Bodies : \A m \in DOMAIN b :
       m \in Nat /\ b[m].type \in Names /\ b[m].ref \in BOOLEAN
  /\ \A b \in Bodies : IsFiniteSet(DOMAIN b)
  /\ "null" \notin CppTypes
  /\ MaxTypes \in Nat /\ Len(Defaults) <= MaxTypes

VARIABLES
  phase,           \* where the host and Compiler::Compile are
  typeIndexMap,    \* GetTypeIndexMap: C++ type -> its number
  calls,           \* C++ types in order of registration: list_valueAllocCall,
                   \* list_refValueAllocCall, GetCreateMemberInstanceFunction
  allocIndex,      \* map_valueAllocCallsIndex: number of a type -> place in calls
  register,        \* SystemTypeRegister: [types, enums]
  types,           \* Compiler::types, a type table
  enums,           \* Compiler::enums
  classes,         \* the classes of the script, as the namespaces hold them
  analyzed,        \* how many of them have their members
  code,            \* the allocation instructions generated
  failed,          \* errorCount is not zero
  data,            \* CompiledData, after CreateData
  file,            \* what OutputCompiledData has written of it
  machine,         \* CompiledData as InputCompiledData reads it
  orderly          \* history: no name or C++ type registered twice, no C++ type
                   \* after an enum, no enum of a script taken for the host's

host == <<typeIndexMap, calls, allocIndex, register>>
products == <<data, file, machine>>
vars == <<phase, typeIndexMap, calls, allocIndex, register, types, enums, classes,
          analyzed, code, failed, data, file, machine, orderly>>

None == [none |-> TRUE]

-----------------------------------------------------------------------------
\* A number together with the bit TYPE_REF; -1 has it.
Index(i, ref) == [index |-> i, ref |-> ref]
Unknown == Index(-1, TRUE)

Tag(name, kind, index, system) ==
  [name |-> name, kind |-> kind, index |-> index, system |-> system, members |-> <<>>]

EmptyTable == [list |-> <<>>, tags |-> <<>>, systemTypeCount |-> 0, functionTypeCount |-> 0]

\* The entries of s at the places in K, in their order.
Entries(s, K) ==
  [i \in 1 .. Cardinality(K) |-> s[CHOOSE k \in K : Cardinality({j \in K : j <= k}) = i]]

\* std::map::emplace, which keeps what is there.
Emplace(f, k, v) == [x \in DOMAIN f \cup {k} |-> IF x \in DOMAIN f THEN f[x] ELSE v]

\* list_types holds pointers to the tags in the map, that is names.
Place(list, index, name) ==
  IF index = Len(list) THEN Append(list, name) ELSE [list EXCEPT ![index + 1] = name]

RegistType(t, tag) ==
  [t EXCEPT !.list = Place(@, tag.index, tag.name),
            !.tags = Emplace(@, tag.name, tag),
            !.systemTypeCount = IF tag.system THEN @ + 1 ELSE @]

\* The tag at a place of the list.
TagAt(t, i) == t.tags[t.list[i]]
GetType(t, index) == TagAt(t, index + 1)
HasType(t, index) == index \in 0 .. Len(t.list) - 1

GetTypeIndex(t, name, ref) ==
  IF name \in DOMAIN t.tags THEN Index(t.tags[name].index, ref) ELSE Unknown

\* Faulty: the pointers in the list are not erased.
Clear_notSystemMap(t) ==
  [t EXCEPT !.tags = [n \in {m \in DOMAIN @ : @[m].system} |-> @[n]],
            !.functionTypeCount = 0]

Clear_notSystem(t) ==
  [t EXCEPT !.list = Entries(@, {i \in 1 .. Len(@) : TagAt(t, i).system}),
            !.tags = [n \in {m \in DOMAIN @ : @[m].system} |-> @[n]],
            !.functionTypeCount = 0]

ClearEnums(e) == [n \in {m \in DOMAIN e : e[m].system} |-> e[n]]

\* GetScriptClassInfo: one for every type that is neither the host's nor a
\* function type.  Resize leaves a member no index names at zero.
ClassInfo(tag) ==
  [typeIndex |-> tag.index,
   members |-> [i \in 1 .. Cardinality(DOMAIN tag.members) |->
     LET named == {m \in DOMAIN tag.members : tag.members[m].index = i - 1} IN
     IF named = {} THEN Index(0, FALSE)
     ELSE tag.members[CHOOSE m \in named : \A o \in named : o <= m].type]]

\* Faulty: not of enums.
GetScriptClassInfoOfClasses(t) ==
  LET own == Entries(t.list, {i \in 1 .. Len(t.list) : TagAt(t, i).kind = "class"})
  IN  [i \in 1 .. Len(own) |-> ClassInfo(t.tags[own[i]])]

GetScriptClassInfo(t) ==
  LET own == Entries(t.list, {i \in 1 .. Len(t.list) :
                                ~TagAt(t, i).system /\ TagAt(t, i).kind # "function"})
  IN  [i \in 1 .. Len(own) |-> ClassInfo(t.tags[own[i]])]

-----------------------------------------------------------------------------
(***************************************************************************)
(* The host.                                                               *)
(***************************************************************************)
\* RegistSystemType and RegistValueSystemType.
Registered(r, m, c, a, name) ==
  LET T == CppType[name]
      index == Cardinality(DOMAIN m)
  IN  [register |-> [r EXCEPT !.types = RegistType(@, Tag(name, "cpp", index, TRUE))],
       typeIndexMap |-> Emplace(m, T, index),
       calls |-> Append(c, T),
       allocIndex |-> Emplace(a, index, Len(c))]

RegistSystemType(name) ==
  LET new == Registered(register, typeIndexMap, calls, allocIndex, name) IN
  /\ phase = "host"
  /\ Len(calls) < MaxTypes /\ register.types.systemTypeCount < MaxTypes
  /\ register' = new.register
  /\ typeIndexMap' = new.typeIndexMap
  /\ calls' = new.calls
  /\ allocIndex' = new.allocIndex
  /\ orderly' = (orderly /\ name \notin DOMAIN register.types.tags
                   /\ CppType[name] \notin DOMAIN typeIndexMap
                   /\ DOMAIN register.enums = {})
  /\ UNCHANGED <<phase, types, enums, classes, analyzed, code, failed, products>>

\* An enum table with the number its enum of that name has got last.
Renumbered(e, name, index, system) ==
  [n \in DOMAIN e \cup {name} |-> IF n = name THEN [index |-> index, system |-> system] ELSE e[n]]

RegistSystemEnumType(name) ==
  LET index == Len(register.types.list) IN
  /\ phase = "host"
  /\ index < MaxTypes /\ register.types.systemTypeCount < MaxTypes
  /\ register' = [types |-> RegistType(register.types, Tag(name, "enum", index, TRUE)),
                  enums |-> Renumbered(register.enums, name, index, TRUE)]
  /\ orderly' = (orderly /\ name \notin DOMAIN register.types.tags)
  /\ UNCHANGED <<phase, typeIndexMap, calls, allocIndex, types, enums, classes, analyzed,
                 code, failed, products>>

RegistDefaultSystems ==
  /\ phase = "host"
  /\ phase' = "idle"
  /\ types' = register.types
  /\ enums' = register.enums
  /\ UNCHANGED <<host, classes, analyzed, code, failed, products, orderly>>

-----------------------------------------------------------------------------
(***************************************************************************)
(* The compiler.                                                           *)
(***************************************************************************)
\* Faulty: Clear forgets the enums.
ClearTypesOnly ==
  /\ types' = Clear_notSystem(types)
  /\ enums' = enums
  /\ failed' = FALSE
  /\ classes' = <<>>
  /\ analyzed' = 0
  /\ code' = {}

Clear ==
  /\ types' = Clear_notSystem(types)
  /\ enums' = ClearEnums(enums)
  /\ failed' = FALSE
  /\ classes' = <<>>
  /\ analyzed' = 0
  /\ code' = {}

Compile ==
  /\ phase = "idle"
  /\ phase' = "parsing"
  /\ Clear
  /\ data' = None /\ file' = None /\ machine' = None
  /\ UNCHANGED <<host, orderly>>

\* While the script is parsed, in the global namespace.  isSystem of a new EnumTag
\* is not initialised.  An enum that was there gets another number, while the type
\* of its name keeps the one it has.
RegistEnumType(name) ==
  LET index == Len(types.list) IN
  /\ phase = "parsing"
  /\ index < MaxTypes /\ types.systemTypeCount < MaxTypes
  /\ \E system \in IF name \in DOMAIN enums THEN {enums[name].system} ELSE BOOLEAN :
       /\ types' = RegistType(types, Tag(name, "enum", index, system))
       /\ enums' = Renumbered(enums, name, index, system)
       /\ orderly' = (orderly /\ ~system /\ name \notin DOMAIN types.tags)
  /\ UNCHANGED <<phase, host, classes, analyzed, code, failed, products>>

ParseError ==
  /\ phase = "parsing"
  /\ phase' = "idle"
  /\ Clear
  /\ UNCHANGED <<host, products, orderly>>

Parsed ==
  /\ phase = "parsing"
  /\ phase' = "classes"
  /\ UNCHANGED <<host, types, enums, classes, analyzed, code, failed, products, orderly>>

\* Faulty: the script's enums are not counted.
RegistScriptTypeAfterHost(name) ==
  LET index == types.systemTypeCount + Len(classes) IN
  /\ phase = "classes"
  /\ index < MaxTypes
  /\ types' = RegistType(types, Tag(name, "class", index, FALSE))
  /\ classes' = Append(classes, name)
  /\ orderly' = (orderly /\ name \notin DOMAIN types.tags)
  /\ UNCHANGED <<phase, host, enums, analyzed, code, failed, products>>

\* DeclareClasses: each class of each namespace, under its bare name.
RegistScriptType(name) ==
  LET index == Len(types.list) IN
  /\ phase = "classes"
  /\ index < MaxTypes
  /\ types' = RegistType(types, Tag(name, "class", index, FALSE))
  /\ classes' = Append(classes, name)
  /\ orderly' = (orderly /\ name \notin DOMAIN types.tags)
  /\ UNCHANGED <<phase, host, enums, analyzed, code, failed, products>>

\* Declaration::Analyze for a global and ValueTable::Alloc for a local variable:
\* the opcode and its argument, which for a class is its place behind the host's
\* types; a local variable's keeps the bit of the reference.
AllocationOf(tag, v, position, local) ==
  IF v.ref
  THEN CASE tag.system -> [op |-> "ref", arg |-> v]
         [] ~tag.system /\ tag.kind = "enum" -> [op |-> "refEnum", arg |-> v]
         [] ~tag.system /\ tag.kind = "function" -> [op |-> "refFunction", arg |-> v]
         [] OTHER -> [op |-> "refClass", arg |-> Index(position, local)]
  ELSE CASE tag.kind = "enum" -> [op |-> "enum", arg |-> v]
         [] tag.kind # "enum" /\ tag.system -> [op |-> "value", arg |-> v]
         [] tag.kind = "function" /\ ~tag.system -> [op |-> "function", arg |-> v]
         [] OTHER -> [op |-> "class", arg |-> Index(position, FALSE)]

\* Faulty: the host's enums are not counted.
AllocationAfterCpp(t, v, local) ==
  AllocationOf(GetType(t, v.index), v, v.index - Len(calls), local)

Allocation(t, v, local) ==
  AllocationOf(GetType(t, v.index), v, v.index - t.systemTypeCount, local)

\* Functions are analyzed in the end, methods with their class.
InFunctions == phase = "functions" \/ (phase = "members" /\ analyzed > 0)

\* The tag of an unknown type is a null pointer.
DeclareValue(name, ref, local) ==
  LET v == GetTypeIndex(types, name, ref) IN
  /\ IF local THEN InFunctions ELSE phase = "classes"
  /\ code = {}
  /\ IF ~HasType(types, v.index)
     THEN /\ phase' = "crashed"
          /\ UNCHANGED code
     ELSE /\ code' = {[type |-> v, local |-> local, do |-> Allocation(types, v, local)]}
          /\ phase' = IF local THEN phase ELSE "members"
  /\ UNCHANGED <<host, types, enums, classes, analyzed, failed, products, orderly>>

NoGlobals ==
  /\ phase = "classes"
  /\ phase' = "members"
  /\ UNCHANGED <<host, types, enums, classes, analyzed, code, failed, products, orderly>>

\* The members of the next class, by name; a class of the same name has its
\* members counted from 0 again.
MemberInfo(t, body) ==
  [m \in DOMAIN body |->
     [index |-> Cardinality({o \in DOMAIN body : o < m}),
      type |-> GetTypeIndex(t, body[m].type, body[m].ref)]]

AnalyzeScriptType(body) ==
  LET name == classes[analyzed + 1]
      members == MemberInfo(types, body)
  IN  /\ phase = "members"
      /\ analyzed < Len(classes)
      /\ analyzed' = analyzed + 1
      /\ types' = [types EXCEPT !.tags[name].members =
                     [m \in DOMAIN @ \cup DOMAIN members |->
                        IF m \in DOMAIN @ THEN @[m] ELSE members[m]]]
      /\ failed' = (failed \/ \E m \in DOMAIN members :
                      members[m].type = Index(types.tags[name].index, FALSE))
      /\ UNCHANGED <<phase, host, enums, classes, code, products, orderly>>

MembersKnown ==
  /\ phase = "members"
  /\ analyzed = Len(classes)
  /\ phase' = "functions"
  /\ UNCHANGED <<host, types, enums, classes, analyzed, code, failed, products, orderly>>

\* GetfunctionTypeIndex, when a function or lambda is used as a value.
CreateFunctionType(name) ==
  LET index == Len(types.list) IN
  /\ InFunctions
  /\ index < MaxTypes
  /\ name \notin DOMAIN types.tags
  /\ types' = [RegistType(types, Tag(name, "function", index, FALSE))
                 EXCEPT !.functionTypeCount = @ + 1]
  /\ UNCHANGED <<phase, host, enums, classes, analyzed, code, failed, products, orderly>>

\* CreateData, then Clear.  Of two enums with one number the first in the order
\* of their names is kept, here any.
CreateData ==
  /\ phase = "functions"
  /\ phase' = "compiled"
  /\ \E byIndex \in [{enums[n].index : n \in DOMAIN enums} -> DOMAIN enums] :
       /\ \A i \in DOMAIN byIndex : enums[byIndex[i]].index = i
       /\ data' = [types |-> [i \in 1 .. Len(types.list) |-> TagAt(types, i)],
                   infos |-> GetScriptClassInfo(types),
                   functionTypeCount |-> types.functionTypeCount,
                   enums |-> byIndex,
                   code |-> code,
                   failed |-> failed]
  /\ Clear
  /\ UNCHANGED <<host, file, machine, orderly>>

-----------------------------------------------------------------------------
(***************************************************************************)
(* File and machine.                                                       *)
(***************************************************************************)
\* Only types of the host that are no enums have an allocation function; -1
\* stands for none.  Whether a type is the host's, an enum or a function type is
\* not written.
OutputCompiledData ==
  LET cpp == {i \in DOMAIN data.types : data.types[i].system /\ data.types[i].kind # "enum"} IN
  /\ phase = "compiled"
  /\ IF \A i \in cpp : data.types[i].index \in DOMAIN allocIndex
     THEN /\ phase' = "saved"
          /\ file' = [types |-> [i \in DOMAIN data.types |->
                        [name |-> data.types[i].name, index |-> data.types[i].index,
                         alloc |-> IF i \in cpp THEN allocIndex[data.types[i].index] ELSE -1]],
                      infos |-> data.infos,
                      functionTypeCount |-> data.functionTypeCount,
                      enums |-> data.enums,
                      code |-> data.code]
     ELSE phase' = "crashed" /\ UNCHANGED file
  /\ UNCHANGED <<host, types, enums, classes, analyzed, code, failed, data, machine, orderly>>

\* What the file does not say, isSystem, what is an enum, and the number of the
\* host's types, is found out again from its other tables.
Read(f, systemTypeCount) ==
  LET classed == {f.infos[i].typeIndex : i \in DOMAIN f.infos} IN
  [types |-> [i \in DOMAIN f.types |->
     [name |-> f.types[i].name, index |-> f.types[i].index,
      alloc |-> IF f.types[i].alloc \in 0 .. Len(calls) - 1
                THEN calls[f.types[i].alloc + 1] ELSE "null",
      system |-> i - 1 \notin classed,
      enum |-> i - 1 \in DOMAIN f.enums]],
   infos |-> f.infos,
   enums |-> f.enums,
   systemTypeCount |-> systemTypeCount,
   code |-> f.code]

\* Faulty: the function types are taken for the host's.
LoadedWithFunctions(f) == Read(f, Len(f.types) - Len(f.infos))

Loaded(f) == Read(f, Len(f.types) - Len(f.infos) - f.functionTypeCount)

\* A number that is none of the file's types is an exception, and no data.
InputCompiledData ==
  /\ phase = "saved"
  /\ IF \A index \in {file.infos[i].typeIndex : i \in DOMAIN file.infos} \cup DOMAIN file.enums :
          index < Len(file.types)
     THEN phase' = "loaded" /\ machine' = Loaded(file)
     ELSE phase' = "idle" /\ UNCHANGED machine
  /\ UNCHANGED <<host, types, enums, classes, analyzed, code, failed, data, file, orderly>>

\* The host goes on with the next script.
NextScript ==
  /\ phase \in {"compiled", "saved", "loaded"}
  /\ phase' = "idle"
  /\ UNCHANGED <<host, types, enums, classes, analyzed, code, failed, products, orderly>>

\* p_pushValues, p_pushRefValues: of two types with one number the later one.
PushFunction(m, index) ==
  LET with == {i \in DOMAIN m.types : m.types[i].index = index}
  IN  IF with = {} THEN "null" ELSE m.types[CHOOSE i \in with : \A j \in with : j <= i].alloc

Fails == [type |-> Unknown, as |-> "fails"]

\* What an allocation instruction pushes: a value of which type, made as what;
\* or that it runs into something that is not there.
Pushed(m, do) ==
  LET infos == {i \in DOMAIN m.infos : do.arg.index + 1 = i /\ ~do.arg.ref}
      function == PushFunction(m, do.arg.index)
  IN  CASE do.op \in {"value", "ref", "refEnum", "refFunction"} ->
             IF function = "null" THEN Fails
             ELSE [type |-> Index(typeIndexMap[function], do.op # "value"), as |-> "cpp"]
        [] do.op = "enum" ->
             IF do.arg.index \in DOMAIN m.enums
             THEN [type |-> do.arg, as |-> "enum"] ELSE Fails
        [] do.op = "function" -> [type |-> do.arg, as |-> "function"]
        [] do.op \in {"class", "refClass"} ->
             IF infos = {} THEN Fails
             ELSE [type |-> Index(m.infos[do.arg.index + 1].typeIndex, do.op = "refClass"),
                   as |-> "class"]

\* CreateScriptValueData: what a member that is no reference is made as.
Member(m, index) ==
  LET position == index - Len(calls) + 1 IN
  IF index < Len(calls) THEN [type |-> Index(typeIndexMap[calls[index + 1]], FALSE), as |-> "cpp"]
  ELSE IF position \in DOMAIN m.infos
       THEN [type |-> Index(m.infos[position].typeIndex, FALSE), as |-> "class"]
       ELSE Fails

-----------------------------------------------------------------------------
\* SetDefaultSystemType has registered the built-in types.
Init ==
  /\ phase = "host"
  /\ typeIndexMap = [T \in {CppType[n] : n \in BuiltIn} |->
                       (CHOOSE i \in 1 .. Len(Defaults) : CppType[Defaults[i]] = T) - 1]
  /\ calls = [i \in 1 .. Len(Defaults) |-> CppType[Defaults[i]]]
  /\ allocIndex = [i \in 0 .. Len(Defaults) - 1 |-> i]
  /\ register = [types |-> [list |-> Defaults,
                            tags |-> [n \in BuiltIn |->
                              Tag(n, "cpp", (CHOOSE i \in 1 .. Len(Defaults) : Defaults[i] = n) - 1, TRUE)],
                            systemTypeCount |-> Len(Defaults),
                            functionTypeCount |-> 0],
                 enums |-> <<>>]
  /\ types = EmptyTable
  /\ enums = <<>>
  /\ classes = <<>>
  /\ analyzed = 0
  /\ code = {}
  /\ failed = FALSE
  /\ data = None /\ file = None /\ machine = None
  /\ orderly = TRUE

Next ==
  \/ \E n \in HostTypes : RegistSystemType(n)
  \/ \E n \in HostEnums : RegistSystemEnumType(n)
  \/ RegistDefaultSystems
  \/ Compile
  \/ \E n \in ScriptEnums : RegistEnumType(n)
  \/ ParseError
  \/ Parsed
  \/ \E n \in ScriptClasses : RegistScriptType(n)
  \/ \E n \in Names, ref, local \in BOOLEAN : DeclareValue(n, ref, local)
  \/ NoGlobals
  \/ \E b \in Bodies : AnalyzeScriptType(b)
  \/ MembersKnown
  \/ \E n \in FunctionTypes : CreateFunctionType(n)
  \/ CreateData
  \/ OutputCompiledData
  \/ InputCompiledData
  \/ NextScript

Spec == Init /\ [][Next]_vars

-----------------------------------------------------------------------------
TypeOK ==
  /\ phase \in {"host", "idle", "parsing", "classes", "members", "functions",
                 "compiled", "saved", "loaded", "crashed"}
  /\ \A t \in {register.types, types} :
       /\ t.list \in Seq(DOMAIN t.tags)
       /\ DOMAIN t.tags \subseteq Names
       /\ Len(t.list) <= MaxTypes /\ t.systemTypeCount \in 0 .. MaxTypes
       /\ \A n \in DOMAIN t.tags :
            /\ t.tags[n].name = n
            /\ t.tags[n].kind \in {"cpp", "enum", "class", "function"}
            /\ t.tags[n].index \in 0 .. MaxTypes
  /\ analyzed \in 0 .. Len(classes)

\* What the whole scheme rests on: as long as nothing is registered twice and the
\* host's enums come after its C++ types, the number of a type is its place in
\* the list, whatever scripts have been compiled, or failed to be parsed, before.
NumberIsPlace ==
  orderly => \A t \in {register.types, types} :
    /\ \A i \in DOMAIN t.list : TagAt(t, i).index = i - 1
    /\ \A n \in DOMAIN t.tags : \E i \in DOMAIN t.list : t.list[i] = n

\* Between two scripts the compiler knows the types the host has registered, and
\* nothing of any script, also when the script could not be parsed.
NothingOfScriptsLeft ==
  orderly /\ phase \in {"idle", "compiled", "saved", "loaded"} =>
    types = register.types /\ enums = register.enums

\* What the compiler takes a variable of the type v for.
Declared(v) == [type |-> v, as |-> LET kind == data.types[v.index + 1].kind IN
  IF v.ref /\ kind # "class" THEN "cpp" ELSE kind]

\* References for which there is a function, and an index that is one.
Referable(a) == a.type.ref =>
  LET kind == data.types[a.type.index + 1].kind IN
  kind = "cpp" \/ (kind = "class" /\ ~a.local)

\* A variable is, in the machine that has loaded the file, of the type the script
\* has declared it with: the index the compiler computed from its counts means the
\* same in the tables the machine has rebuilt.
AllocatedAsDeclared ==
  orderly /\ phase = "loaded" =>
    \A a \in machine.code : Referable(a) => Pushed(machine, a.do) = Declared(a.type)

\* What the file does not say of a type is found out correctly when it is read:
\* whether it is the host's, whether it is an enum, and how many are the host's.
\* A function type passes for one of the host's.
LoadedAsCompiled ==
  orderly /\ phase = "loaded" =>
    /\ machine.systemTypeCount = register.types.systemTypeCount
    /\ \A i \in DOMAIN data.types :
         LET old == data.types[i]
             new == machine.types[i]
         IN  /\ new.system <=> old.system \/ old.kind = "function"
             /\ new.enum <=> old.kind = "enum"
             /\ new.alloc # "null" <=> old.kind = "cpp"
             /\ old.kind = "cpp" => typeIndexMap[new.alloc] = old.index
    /\ \A i \in DOMAIN machine.enums : data.types[i + 1].name = machine.enums[i]

\* The members of class values.
MembersOf(kinds) ==
  UNION {{v \in {machine.infos[i].members[j] : j \in DOMAIN machine.infos[i].members} :
            ~v.ref /\ data.types[v.index + 1].kind \in kinds} : i \in DOMAIN machine.infos}

\* The members of a new class value are of their types, those that are of a C++
\* type or a class, when the host has registered no enum.
MembersAsDeclared ==
  orderly /\ phase = "loaded" /\ DOMAIN register.enums = {} =>
    \A v \in MembersOf({"cpp", "class"}) : Member(machine, v.index) = Declared(v)

\* VirtualMachine.h:523 says of OpAllocStack_Ref_ScriptType: reserve a local variable (reference
\* type, defined by the script).
ClassReferencesAllocated ==
  orderly /\ phase = "loaded" => \A a \in machine.code :
    a.type.ref /\ a.local /\ data.types[a.type.index + 1].kind = "class" =>
      Pushed(machine, a.do) = Declared(a.type)

\* VirtualMachine.h:532 says of OpAllocStack_Ref_EnumType: reserve a local variable (reference
\* type, enumeration).
EnumReferencesAllocated ==
  orderly /\ phase = "loaded" => \A a \in machine.code :
    a.type.ref /\ data.types[a.type.index + 1].kind = "enum" => Pushed(machine, a.do) # Fails

\* Tags.h:722 says of ScriptClassInfo: information on a class defined by a script.
InfosAreOfClasses ==
  orderly /\ data # None => \A i \in DOMAIN data.infos :
    data.types[data.infos[i].typeIndex + 1].kind = "class"

\* BuiltInTypeRegister.h:106 says of PushCreateMemberInstance: register the types that types
\* defined by scripts use as members.
EveryMemberMade ==
  orderly /\ phase = "loaded" =>
    \A v \in MembersOf({"cpp", "class"}) : Member(machine, v.index) = Declared(v)

\* Compiler.cpp:273, an error: the class has a member of its own type.  A value of classes
\* that hold each other in a circle cannot be made either.
NothingHoldsItself ==
  orderly /\ data # None /\ ~data.failed =>
    ~ \E S \in SUBSET DOMAIN data.infos :
        /\ S # {}
        /\ \A i \in S : \E j \in S, k \in DOMAIN data.infos[i].members :
             data.infos[i].members[k] = Index(data.infos[j].typeIndex, FALSE)
=============================================================================
