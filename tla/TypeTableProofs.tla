-------------------------- MODULE TypeTableProofs --------------------------
(***************************************************************************)
(* What TypeTable keeps true for every set of names, C++ types and classes.*)
(*                                                                         *)
(* That the number of a type is its place says nothing of the tables that  *)
(* are computed from it, so the invariant describes the list as a whole:   *)
(* the C++ types of the host, in the order of the table of functions; its  *)
(* enums; the enums and classes of the script; its function types.  The    *)
(* counts the compiler keeps, and those the machine finds again when it    *)
(* reads the file, are the ends of these four parts, and what an           *)
(* allocation instruction, a class's information and an enum are found by  *)
(* is a distance from one of the ends.                                     *)
(***************************************************************************)
EXTENDS TypeTable, FiniteSetTheorems, FunctionTheorems, TLAPS

\* The host's table; where its parts and a script's end in the list.
Host == register.types
hostCount == Len(Host.list)
cppCount == Len(calls)
ownEnd(t) == Len(t.list) - t.functionTypeCount

\* What tags and numbers are.
Kinds == {"cpp", "enum", "class", "function"}
Number == [index : Int, ref : BOOLEAN]

IsTag(tag) ==
  /\ tag \in [name : Names, kind : Kinds, index : Int, system : BOOLEAN, members : {tag.members}]
  /\ tag.members \in [DOMAIN tag.members -> [index : Nat, type : Number]]

\* A type table, its tags keyed by name.
IsTable(t) ==
  /\ t \in [list : Seq(Names), tags : {t.tags}, systemTypeCount : Nat, functionTypeCount : Nat]
  /\ t.tags = [x \in DOMAIN t.tags |-> t.tags[x]]
  /\ \A x \in DOMAIN t.tags : IsTag(t.tags[x])

\* Names and places go together.
Placed(t) ==
  /\ \A i \in 1 .. Len(t.list) : t.list[i] \in DOMAIN t.tags /\ TagAt(t, i).index = i - 1
  /\ \A x \in DOMAIN t.tags :
       /\ t.tags[x].name = x
       /\ t.tags[x].index \in 0 .. Len(t.list) - 1
       /\ t.list[t.tags[x].index + 1] = x

\* The enum table that belongs to a type table.
EnumsOf(t) == [x \in {y \in DOMAIN t.tags : t.tags[y].kind = "enum"} |->
                 [index |-> t.tags[x].index, system |-> t.tags[x].system]]

\* The host's C++ types have the numbers of their functions, and its enums follow them.
HostInv ==
  /\ calls \in Seq(CppTypes) /\ cppCount <= hostCount
  /\ DOMAIN typeIndexMap = {calls[i] : i \in 1 .. cppCount}
  /\ \A i \in 1 .. cppCount : typeIndexMap[calls[i]] = i - 1
  /\ allocIndex = [i \in 0 .. cppCount - 1 |-> i]
  /\ register = [types |-> Host, enums |-> EnumsOf(Host)]
  /\ IsTable(Host) /\ Placed(Host)
  /\ Host.systemTypeCount = hostCount /\ Host.functionTypeCount = 0
  /\ \A i \in 1 .. hostCount : LET tag == TagAt(Host, i) IN
       /\ tag.system /\ tag.members = <<>>
       /\ tag.kind = IF i <= cppCount THEN "cpp" ELSE "enum"

\* The members of a class: of known types, and numbered apart.
MembersInv(t) ==
  \A x \in DOMAIN t.tags : LET ms == t.tags[x].members IN
    /\ IsFiniteSet(DOMAIN ms) /\ DOMAIN ms \subseteq Nat
    /\ \A m \in DOMAIN ms : ms[m].type = Unknown \/ HasType(t, ms[m].type.index)
    /\ \A m, o \in DOMAIN ms : ms[m].index = ms[o].index => m = o

\* A compiler's table: the host's, then enums and classes, then function types.
TableInv(t, e) ==
  /\ IsTable(t) /\ Placed(t)
  /\ hostCount <= ownEnd(t) /\ t.systemTypeCount = hostCount
  /\ \A i \in 1 .. hostCount : t.list[i] = Host.list[i] /\ TagAt(t, i) = TagAt(Host, i)
  /\ \A i \in hostCount + 1 .. Len(t.list) : LET tag == TagAt(t, i) IN
       ~tag.system /\ (IF i > ownEnd(t) THEN tag.kind = "function" ELSE tag.kind \in {"enum", "class"})
  /\ e = EnumsOf(t)

\* The classes declared, each once, and of which the members are known.
ClassesInv(t, cs, n) ==
  /\ cs \in Seq(DOMAIN t.tags) /\ n \in 0 .. Len(cs)
  /\ \A k \in 1 .. Len(cs) : t.tags[cs[k]].kind = "class"
  /\ \A j, k \in 1 .. Len(cs) : cs[j] = cs[k] => j = k
  /\ \A k \in n + 1 .. Len(cs) : t.tags[cs[k]].members = <<>>

\* Instructions, as they would still be generated now.
CodeInv(t, generated) ==
  \A a \in generated :
    /\ a.type \in [index : 0 .. Len(t.list) - 1, ref : BOOLEAN]
    /\ a.local \in BOOLEAN
    /\ a.do = Allocation(t, a.type, a.local)

\* Between two scripts.
Between == {"idle", "compiled", "saved", "loaded"}

\* The compiler, once it has the host's table.
CompilerInv ==
  /\ TableInv(types, enums) /\ MembersInv(types)
  /\ ClassesInv(types, classes, analyzed) /\ CodeInv(types, code)
  /\ phase \in Between => types = register.types
  /\ phase \in Between \cup {"parsing"} => classes = <<>>
  /\ phase \in Between \cup {"parsing", "classes"} =>
       types.functionTypeCount = 0 /\ code = {} /\ analyzed = 0

\* Compiled data: the four parts of its list, and its tables in terms of them.
DataInv(d) ==
  LET count == Len(d.types)
      own == count - d.functionTypeCount
  IN  /\ count \in Nat /\ DOMAIN d.types = 1 .. count
      /\ d.functionTypeCount \in Nat /\ hostCount <= own
      /\ \A i \in 1 .. count : LET tag == d.types[i] IN
           /\ tag.index = i - 1
           /\ tag.system <=> i <= hostCount
           /\ i <= cppCount => tag.kind = "cpp"
           /\ cppCount < i /\ i <= hostCount => tag.kind = "enum"
           /\ hostCount < i /\ i <= own => tag.kind \in {"enum", "class"}
           /\ own < i => tag.kind = "function"
      /\ DOMAIN d.infos = 1 .. own - hostCount /\ Len(d.infos) = own - hostCount
      /\ \A i \in DOMAIN d.infos :
           /\ d.infos[i].typeIndex = hostCount + i - 1
           /\ \A j \in DOMAIN d.infos[i].members : d.infos[i].members[j] \in Number
           /\ \A j \in DOMAIN d.infos[i].members :
                \/ d.infos[i].members[j] = Unknown
                \/ d.infos[i].members[j].index \in 0 .. count - 1
      /\ DOMAIN d.enums = {i \in 0 .. count - 1 : d.types[i + 1].kind = "enum"}
      /\ \A i \in DOMAIN d.enums : d.enums[i] = d.types[i + 1].name
      /\ \A a \in d.code :
           /\ a.type \in [index : 0 .. count - 1, ref : BOOLEAN] /\ a.local \in BOOLEAN
           /\ a.do = AllocationOf(d.types[a.type.index + 1], a.type, a.type.index - hostCount, a.local)

\* What the file of some data says.
FileOf(d) ==
  [types |-> [i \in DOMAIN d.types |->
     [name |-> d.types[i].name, index |-> i - 1, alloc |-> IF i <= cppCount THEN i - 1 ELSE -1]],
   infos |-> d.infos,
   functionTypeCount |-> d.functionTypeCount,
   enums |-> d.enums,
   code |-> d.code]

\* All of it, phase by phase.
Numbered ==
  /\ HostInv
  /\ phase = "host" => types = EmptyTable /\ classes = <<>> /\ analyzed = 0 /\ code = {}
  /\ phase # "host" => CompilerInv
  /\ phase \in {"compiled", "saved", "loaded"} => DataInv(data)
  /\ phase \in {"saved", "loaded"} => file = FileOf(data)
  /\ phase = "loaded" => machine = Loaded(file)

\* Nothing is claimed of what follows a name registered twice.
IInv == orderly => Numbered

\* u is t with one more tag at its end.
Grown(t, tag, u) ==
  /\ IsTable(u) /\ Placed(u)
  /\ u.list = Append(t.list, tag.name) /\ Len(u.list) = Len(t.list) + 1
  /\ DOMAIN u.tags = DOMAIN t.tags \cup {tag.name}
  /\ u.tags[tag.name] = tag
  /\ \A x \in DOMAIN t.tags : u.tags[x] = t.tags[x]
  /\ \A i \in 1 .. Len(t.list) : u.list[i] = t.list[i] /\ TagAt(u, i) = TagAt(t, i)
  /\ TagAt(u, Len(t.list) + 1) = tag
  /\ u.systemTypeCount = IF tag.system THEN t.systemTypeCount + 1 ELSE t.systemTypeCount

-----------------------------------------------------------------------------
\* A table with three fields replaced, as Clear and RegistType replace them.
LEMMA TableExcept ==
  ASSUME NEW t, NEW A, t \in [list : Seq(Names), tags : A, systemTypeCount : Nat, functionTypeCount : Nat],
         NEW a, NEW b, NEW c
  PROVE  /\ [t EXCEPT !.list = a, !.tags = b, !.systemTypeCount = c]
              = [list |-> a, tags |-> b, systemTypeCount |-> c, functionTypeCount |-> t.functionTypeCount]
         /\ [t EXCEPT !.list = a, !.tags = b, !.functionTypeCount = c]
              = [list |-> a, tags |-> b, systemTypeCount |-> t.systemTypeCount, functionTypeCount |-> c]
<1> DEFINE n == t.systemTypeCount
           f == t.functionTypeCount
<1>1. [t EXCEPT !.list = a]
        = [list |-> a, tags |-> t.tags, systemTypeCount |-> n, functionTypeCount |-> f]
  OBVIOUS
<1>2. [[list |-> a, tags |-> t.tags, systemTypeCount |-> n, functionTypeCount |-> f] EXCEPT !.tags = b]
        = [list |-> a, tags |-> b, systemTypeCount |-> n, functionTypeCount |-> f]
  OBVIOUS
<1>3. /\ [[list |-> a, tags |-> b, systemTypeCount |-> n, functionTypeCount |-> f]
            EXCEPT !.systemTypeCount = c]
           = [list |-> a, tags |-> b, systemTypeCount |-> c, functionTypeCount |-> f]
      /\ [[list |-> a, tags |-> b, systemTypeCount |-> n, functionTypeCount |-> f]
            EXCEPT !.functionTypeCount = c]
           = [list |-> a, tags |-> b, systemTypeCount |-> n, functionTypeCount |-> c]
  OBVIOUS
<1>4. /\ [t EXCEPT !.list = a, !.tags = b, !.systemTypeCount = c]
            = [[[t EXCEPT !.list = a] EXCEPT !.tags = b] EXCEPT !.systemTypeCount = c]
      /\ [t EXCEPT !.list = a, !.tags = b, !.functionTypeCount = c]
            = [[[t EXCEPT !.list = a] EXCEPT !.tags = b] EXCEPT !.functionTypeCount = c]
  BY Zenon
<1> HIDE DEF n, f
<1> QED BY <1>1, <1>2, <1>3, <1>4 DEF n, f

\* RegistType puts a new name at the end, and moves nothing.
LEMMA RegisteredGrows ==
  ASSUME NEW t, IsTable(t), Placed(t),
         NEW tag, IsTag(tag), tag.index = Len(t.list), tag.name \notin DOMAIN t.tags,
         NEW u, u = RegistType(t, tag)
  PROVE  Grown(t, tag, u) /\ u.functionTypeCount = t.functionTypeCount
<1> DEFINE tags == Emplace(t.tags, tag.name, tag)
<1>1. /\ t.list \in Seq(Names) /\ tag.name \in Names /\ Len(t.list) \in Nat
      /\ t.systemTypeCount \in Nat /\ t.functionTypeCount \in Nat
  BY DEF IsTable, IsTag
<1>2. /\ u.list = Append(t.list, tag.name) /\ u.tags = tags
      /\ u.systemTypeCount = IF tag.system THEN t.systemTypeCount + 1 ELSE t.systemTypeCount
      /\ u.functionTypeCount = t.functionTypeCount
      /\ u \in [list : Seq(Names), tags : {u.tags}, systemTypeCount : Nat, functionTypeCount : Nat]
  <2>1. u = [t EXCEPT !.list = Append(t.list, tag.name), !.tags = tags,
                      !.systemTypeCount = IF tag.system THEN t.systemTypeCount + 1 ELSE t.systemTypeCount]
    BY DEF RegistType, Place
  <2>2. u = [list |-> Append(t.list, tag.name), tags |-> tags,
             systemTypeCount |-> IF tag.system THEN t.systemTypeCount + 1 ELSE t.systemTypeCount,
             functionTypeCount |-> t.functionTypeCount]
    <3> HIDE DEF tags
    <3> QED BY <2>1, TableExcept DEF IsTable
  <2> HIDE DEF tags
  <2> QED BY <1>1, <2>2
<1>3. /\ DOMAIN u.tags = DOMAIN t.tags \cup {tag.name}
      /\ u.tags[tag.name] = tag
      /\ \A x \in DOMAIN t.tags : u.tags[x] = t.tags[x]
      /\ u.tags = [x \in DOMAIN u.tags |-> u.tags[x]]
  <2> HIDE DEF tags
  <2>1. /\ DOMAIN tags = DOMAIN t.tags \cup {tag.name} /\ tags[tag.name] = tag
        /\ \A x \in DOMAIN t.tags : tags[x] = t.tags[x]
        /\ tags = [x \in DOMAIN t.tags \cup {tag.name} |-> tags[x]]
    BY DEF tags, Emplace
  <2> QED BY <1>2, <2>1
<1>4. IsTable(u)
  BY <1>2, <1>3 DEF IsTable
<1>5. /\ Len(u.list) = Len(t.list) + 1 /\ u.list[Len(t.list) + 1] = tag.name
      /\ \A i \in 1 .. Len(t.list) : u.list[i] = t.list[i]
  BY <1>1, <1>2
<1>6. /\ TagAt(u, Len(t.list) + 1) = tag
      /\ \A i \in 1 .. Len(t.list) : TagAt(u, i) = TagAt(t, i)
  BY <1>3, <1>5 DEF TagAt, Placed
<1>7. \A i \in 1 .. Len(u.list) : u.list[i] \in DOMAIN u.tags /\ TagAt(u, i).index = i - 1
  <2> SUFFICES ASSUME NEW i \in 1 .. Len(u.list)
               PROVE  u.list[i] \in DOMAIN u.tags /\ TagAt(u, i).index = i - 1
    OBVIOUS
  <2>1. CASE i = Len(t.list) + 1
    BY <2>1, <1>1, <1>3, <1>5, <1>6
  <2>2. CASE i \in 1 .. Len(t.list)
    BY <2>2, <1>1, <1>3, <1>5, <1>6 DEF Placed
  <2> QED BY <2>1, <2>2, <1>1, <1>5
<1>8. ASSUME NEW x \in DOMAIN u.tags
      PROVE  /\ u.tags[x].name = x
             /\ u.tags[x].index \in 0 .. Len(u.list) - 1
             /\ u.list[u.tags[x].index + 1] = x
  <2>1. CASE x = tag.name
    BY <2>1, <1>1, <1>3, <1>5
  <2>2. CASE x \in DOMAIN t.tags
    <3>1. /\ t.tags[x].name = x /\ t.tags[x].index \in 0 .. Len(t.list) - 1
          /\ t.list[t.tags[x].index + 1] = x
      BY <2>2 DEF Placed
    <3>2. u.tags[x] = t.tags[x]
      BY <2>2, <1>3
    <3>3. t.tags[x].index + 1 \in 1 .. Len(t.list)
      BY <3>1, <1>1
    <3>4. u.list[t.tags[x].index + 1] = t.list[t.tags[x].index + 1]
      BY <3>3, <1>5
    <3> QED BY <3>1, <3>2, <3>4, <1>1, <1>5
  <2> QED BY <2>1, <2>2, <1>3
<1> QED BY <1>2, <1>3, <1>4, <1>5, <1>6, <1>7, <1>8 DEF Placed, Grown

\* The enum table grows with the type table, by enums only.
LEMMA EnumsGrow ==
  ASSUME NEW t, NEW u, NEW tag, tag.name \notin DOMAIN t.tags, Grown(t, tag, u)
  PROVE  /\ tag.kind = "enum" => EnumsOf(u) = Renumbered(EnumsOf(t), tag.name, tag.index, tag.system)
         /\ tag.kind # "enum" => EnumsOf(u) = EnumsOf(t)
BY DEF Grown, EnumsOf, Renumbered

\* Keeping the entries of an interval is cutting it out: Clear_notSystem keeps the beginning
\* of list_types, GetScriptClassInfo takes a part from the middle.
LEMMA EntriesAre ==
  ASSUME NEW q, NEW K, NEW a \in Nat, NEW b \in Nat, K = a .. b, a <= b + 1
  PROVE  Entries(q, K) = SubSeq(q, a, b)
<1>1. \A k \in a - 1 .. b : Cardinality(a .. k) = k - a + 1
  <2> SUFFICES ASSUME NEW k \in a - 1 .. b
               PROVE  Cardinality(a .. k) = k - a + 1
    OBVIOUS
  <2>1. a \in Int /\ k \in Int
    OBVIOUS
  <2>2. Cardinality(a .. k) = IF a > k THEN 0 ELSE k - a + 1
    BY <2>1, FS_Interval
  <2> QED BY <2>2
<1>2. ASSUME NEW i \in 1 .. b - a + 1
      PROVE  (CHOOSE k \in a .. b : Cardinality({j \in a .. b : j <= k}) = i) = a + i - 1
  <2>1. ASSUME NEW k \in a .. b
        PROVE  Cardinality({j \in a .. b : j <= k}) = k - a + 1
    <3>1. {j \in a .. b : j <= k} = a .. k
      OBVIOUS
    <3>2. k \in a - 1 .. b
      OBVIOUS
    <3> QED BY <3>1, <3>2, <1>1
  <2>2. \A k \in a .. b : (Cardinality({j \in a .. b : j <= k}) = i) <=> k = a + i - 1
    <3>1. \A k \in a .. b : k - a + 1 = i <=> k = a + i - 1
      OBVIOUS
    <3> QED BY <2>1, <3>1
  <2>3. a + i - 1 \in a .. b
    OBVIOUS
  <2> QED BY <2>2, <2>3
<1>3. Cardinality(a .. b) = b - a + 1
  BY <1>1
<1>4. Entries(q, a .. b)
        = [i \in 1 .. b - a + 1 |->
             q[CHOOSE k \in a .. b : Cardinality({j \in a .. b : j <= k}) = i]]
  BY <1>3 DEF Entries
<1>5. SubSeq(q, a, b) = [i \in 1 .. b - a + 1 |-> q[a + i - 1]]
  OBVIOUS
<1> QED BY <1>2, <1>4, <1>5

-----------------------------------------------------------------------------
\* Nothing that leaves the host's tables alone disturbs what is said of them.
LEMMA HostStays ==
  ASSUME HostInv, UNCHANGED host
  PROVE  HostInv' /\ Host' = Host /\ hostCount' = hostCount /\ cppCount' = cppCount
BY DEF HostInv, host, Host, hostCount, cppCount

\* Clear_notSystem gives the compiler back exactly what the host has registered.
LEMMA ClearedTable ==
  ASSUME HostInv, TableInv(types, enums)
  PROVE  Clear_notSystem(types) = register.types /\ ClearEnums(enums) = register.enums
<1>1. /\ IsTable(types) /\ Placed(types) /\ IsTable(Host) /\ Placed(Host)
      /\ hostCount \in Nat /\ Len(types.list) \in Nat /\ hostCount <= Len(types.list)
  BY DEF HostInv, TableInv, IsTable, hostCount, ownEnd
<1>2. {i \in 1 .. Len(types.list) : TagAt(types, i).system} = 1 .. hostCount
  <2>1. \A i \in 1 .. hostCount : TagAt(types, i).system
    BY DEF HostInv, TableInv
  <2>2. \A i \in hostCount + 1 .. Len(types.list) : ~TagAt(types, i).system
    BY DEF TableInv
  <2> QED BY <1>1, <2>1, <2>2
<1>3. Entries(types.list, 1 .. hostCount) = Host.list
  <2>1. Entries(types.list, 1 .. hostCount) = SubSeq(types.list, 1, hostCount)
    <3>1. hostCount \in Nat
      BY <1>1
    <3> QED BY <3>1, EntriesAre
  <2>2. \A i \in 1 .. hostCount : types.list[i] = Host.list[i]
    BY DEF TableInv
  <2>3. types.list \in Seq(Names) /\ Host.list \in Seq(Names)
    BY <1>1 DEF IsTable
  <2>4. SubSeq(types.list, 1, hostCount) = Host.list
    BY <1>1, <2>2, <2>3 DEF hostCount
  <2> QED BY <2>1, <2>4
<1>5. {m \in DOMAIN types.tags : types.tags[m].system} = DOMAIN Host.tags
  <2>1. ASSUME NEW m \in DOMAIN types.tags, types.tags[m].system
        PROVE  m \in DOMAIN Host.tags
    <3> DEFINE i == types.tags[m].index + 1
    <3>1. i \in 1 .. Len(types.list) /\ types.list[i] = m
      BY <1>1 DEF Placed
    <3>2. TagAt(types, i) = types.tags[m]
      BY <3>1 DEF TagAt
    <3>3. i \in 1 .. hostCount
      BY <2>1, <3>1, <3>2, <1>1 DEF TableInv
    <3>4. m = Host.list[i]
      BY <3>1, <3>3 DEF TableInv
    <3> QED BY <3>3, <3>4, <1>1 DEF Placed, hostCount
  <2>2. ASSUME NEW m \in DOMAIN Host.tags
        PROVE  m \in DOMAIN types.tags /\ types.tags[m].system /\ types.tags[m] = Host.tags[m]
    <3> DEFINE i == Host.tags[m].index + 1
    <3>1. i \in 1 .. hostCount /\ Host.list[i] = m
      BY <1>1 DEF Placed, hostCount
    <3>2. types.list[i] = m /\ TagAt(types, i) = TagAt(Host, i) /\ i \in 1 .. Len(types.list)
      BY <3>1, <1>1 DEF TableInv
    <3>3. TagAt(Host, i).system
      BY <3>1 DEF HostInv
    <3> QED BY <3>1, <3>2, <3>3, <1>1 DEF TagAt, Placed
  <2> QED BY <2>1, <2>2
<1>6. \A m \in DOMAIN Host.tags : types.tags[m] = Host.tags[m]
  <2> SUFFICES ASSUME NEW m \in DOMAIN Host.tags
               PROVE  types.tags[m] = Host.tags[m]
    OBVIOUS
  <2> DEFINE i == Host.tags[m].index + 1
  <2>1. i \in 1 .. hostCount /\ Host.list[i] = m
    BY <1>1 DEF Placed, hostCount
  <2>2. types.list[i] = m /\ TagAt(types, i) = TagAt(Host, i)
    BY <2>1 DEF TableInv
  <2> QED BY <2>1, <2>2 DEF TagAt
<1>7. [m \in {o \in DOMAIN types.tags : types.tags[o].system} |-> types.tags[m]] = Host.tags
  BY <1>5, <1>6, <1>1 DEF IsTable
<1>8. Clear_notSystem(types) = [list |-> Host.list, tags |-> Host.tags,
                                systemTypeCount |-> hostCount, functionTypeCount |-> 0]
  <2>1. Clear_notSystem(types) =
          [types EXCEPT !.list = Host.list, !.tags = Host.tags, !.functionTypeCount = 0]
    BY <1>2, <1>3, <1>7 DEF Clear_notSystem
  <2> QED BY <2>1, TableExcept, <1>1 DEF IsTable, TableInv
<1>9. register.types = [list |-> Host.list, tags |-> Host.tags,
                        systemTypeCount |-> hostCount, functionTypeCount |-> 0]
  BY <1>1 DEF IsTable, Host, HostInv
<1>10. ClearEnums(enums) = EnumsOf(Host)
  <2>1. enums = EnumsOf(types)
    BY DEF TableInv
  <2> QED BY <1>5, <1>6, <2>1 DEF ClearEnums, EnumsOf
<1>11. register.enums = EnumsOf(Host)
  BY DEF HostInv
<1> QED BY <1>8, <1>9, <1>10, <1>11

\* The host's table is one the compiler may start from.
LEMMA TableOfHost ==
  ASSUME HostInv
  PROVE  /\ TableInv(register.types, register.enums) /\ MembersInv(register.types)
         /\ ClassesInv(register.types, <<>>, 0) /\ CodeInv(register.types, {})
         /\ register.types.functionTypeCount = 0
<1>1. /\ IsTable(Host) /\ Placed(Host) /\ hostCount \in Nat
      /\ Host.systemTypeCount = hostCount /\ Host.functionTypeCount = 0
      /\ register.enums = EnumsOf(Host)
  BY DEF HostInv, IsTable, hostCount
<1>2. TableInv(Host, register.enums)
  BY <1>1 DEF TableInv, hostCount, ownEnd
<1>3. ASSUME NEW x \in DOMAIN Host.tags
      PROVE  Host.tags[x].members = <<>>
  <2> DEFINE i == Host.tags[x].index + 1
  <2>1. i \in 1 .. hostCount /\ Host.list[i] = x
    BY <1>1 DEF Placed, hostCount
  <2>2. TagAt(Host, i).members = <<>>
    BY <2>1 DEF HostInv
  <2> QED BY <2>1, <2>2 DEF TagAt
<1>4. MembersInv(Host)
  <2>1. DOMAIN <<>> = {} /\ IsFiniteSet({})
    BY FS_EmptySet
  <2> QED BY <1>3, <2>1 DEF MembersInv
<1>5. ClassesInv(Host, <<>>, 0)
  BY DEF ClassesInv
<1> QED BY <1>1, <1>2, <1>4, <1>5 DEF Host, CodeInv

\* A type of the script at the end keeps everything the compiler relies on, also what has been
\* generated before: types are registered while instructions are.
LEMMA Grows ==
  ASSUME HostInv, NEW t, NEW e, TableInv(t, e), MembersInv(t),
         NEW tag, IsTag(tag), ~tag.system, tag.members = <<>>, tag.name \notin DOMAIN t.tags,
         NEW u, Grown(t, tag, u),
         \/ tag.kind \in {"enum", "class"} /\ t.functionTypeCount = 0 /\ u.functionTypeCount = 0
         \/ tag.kind = "function" /\ u.functionTypeCount = t.functionTypeCount + 1
  PROVE  /\ TableInv(u, EnumsOf(u)) /\ MembersInv(u)
         /\ \A cs, n : ClassesInv(t, cs, n) => ClassesInv(u, cs, n)
         /\ \A generated : CodeInv(t, generated) => CodeInv(u, generated)
<1>1. /\ IsTable(t) /\ Placed(t) /\ hostCount \in Nat /\ Len(t.list) \in Nat
      /\ t.functionTypeCount \in Nat /\ hostCount <= ownEnd(t) /\ hostCount <= Len(t.list)
      /\ t.systemTypeCount = hostCount
  BY DEF HostInv, IsTable, hostCount, TableInv, ownEnd
<1>2. /\ IsTable(u) /\ Placed(u) /\ Len(u.list) = Len(t.list) + 1
      /\ u.systemTypeCount = hostCount /\ hostCount <= ownEnd(u)
      /\ ownEnd(u) = IF tag.kind = "function" THEN ownEnd(t) ELSE Len(u.list)
  BY <1>1 DEF Grown, ownEnd
<1>3. \A i \in 1 .. hostCount : u.list[i] = Host.list[i] /\ TagAt(u, i) = TagAt(Host, i)
  BY <1>1 DEF Grown, TableInv
<1>4. ASSUME NEW i \in hostCount + 1 .. Len(u.list)
      PROVE  LET own == TagAt(u, i) IN
             ~own.system /\ (IF i > ownEnd(u) THEN own.kind = "function" ELSE own.kind \in {"enum", "class"})
  <2>1. CASE i = Len(t.list) + 1
    <3>1. TagAt(u, i) = tag
      BY <2>1 DEF Grown
    <3> QED BY <2>1, <3>1, <1>1, <1>2 DEF ownEnd
  <2>2. CASE i \in hostCount + 1 .. Len(t.list)
    <3>1. TagAt(u, i) = TagAt(t, i)
      BY <2>2, <1>1 DEF Grown
    <3>2. /\ ~TagAt(t, i).system
          /\ IF i > ownEnd(t) THEN TagAt(t, i).kind = "function" ELSE TagAt(t, i).kind \in {"enum", "class"}
      BY <2>2 DEF TableInv
    <3>3. i > ownEnd(u) <=> i > ownEnd(t)
      BY <2>2, <1>1, <1>2 DEF ownEnd
    <3> QED BY <3>1, <3>2, <3>3
  <2> QED BY <2>1, <2>2, <1>1, <1>2
<1>5. TableInv(u, EnumsOf(u))
  BY <1>2, <1>3, <1>4 DEF TableInv
<1>6. \A x \in DOMAIN t.tags : x \in DOMAIN u.tags /\ u.tags[x] = t.tags[x]
  BY DEF Grown
<1>7. MembersInv(u)
  <2> SUFFICES ASSUME NEW x \in DOMAIN u.tags
               PROVE  LET ms == u.tags[x].members IN
                      /\ IsFiniteSet(DOMAIN ms) /\ DOMAIN ms \subseteq Nat
                      /\ \A m \in DOMAIN ms : ms[m].type = Unknown \/ HasType(u, ms[m].type.index)
                      /\ \A m, o \in DOMAIN ms : ms[m].index = ms[o].index => m = o
    BY DEF MembersInv
  <2>1. CASE x = tag.name
    <3>1. u.tags[x].members = <<>> /\ DOMAIN <<>> = {} /\ IsFiniteSet({})
      BY <2>1, FS_EmptySet DEF Grown
    <3> QED BY <3>1
  <2>2. CASE x \in DOMAIN t.tags
    <3>1. \A i : HasType(t, i) => HasType(u, i)
      BY <1>1, <1>2 DEF HasType
    <3> QED BY <2>2, <3>1, <1>6 DEF MembersInv
  <2> QED BY <2>1, <2>2 DEF Grown
<1>8. ASSUME NEW cs, NEW n, ClassesInv(t, cs, n)
      PROVE  ClassesInv(u, cs, n)
  <2>1. cs \in Seq(DOMAIN t.tags) /\ n \in 0 .. Len(cs) /\ \A k \in 1 .. Len(cs) : cs[k] \in DOMAIN t.tags
    BY <1>8 DEF ClassesInv
  <2>2. cs \in Seq(DOMAIN u.tags)
    BY <2>1, <1>6
  <2> QED BY <2>1, <2>2, <1>6, <1>8 DEF ClassesInv
<1>9. ASSUME NEW generated, CodeInv(t, generated)
      PROVE  CodeInv(u, generated)
  <2> SUFFICES ASSUME NEW a \in generated
               PROVE  /\ a.type \in [index : 0 .. Len(u.list) - 1, ref : BOOLEAN]
                      /\ a.local \in BOOLEAN
                      /\ a.do = Allocation(u, a.type, a.local)
    BY DEF CodeInv
  <2>1. /\ a.type \in [index : 0 .. Len(t.list) - 1, ref : BOOLEAN]
        /\ a.local \in BOOLEAN
        /\ a.do = Allocation(t, a.type, a.local)
    BY <1>9 DEF CodeInv
  <2>2. GetType(u, a.type.index) = GetType(t, a.type.index)
    BY <2>1, <1>1 DEF GetType, Grown
  <2> QED BY <2>1, <2>2, <1>1, <1>2 DEF Allocation
<1> QED BY <1>5, <1>7, <1>8, <1>9

\* A new tag of a script.
LEMMA NewTag ==
  ASSUME NEW t, IsTable(t), NEW name \in Names, NEW kind \in Kinds
  PROVE  LET tag == Tag(name, kind, Len(t.list), FALSE) IN
         /\ IsTag(tag) /\ tag.index = Len(t.list) /\ tag.name = name /\ tag.kind = kind
         /\ tag.system = FALSE /\ tag.members = <<>>
<1> DEFINE tag == Tag(name, kind, Len(t.list), FALSE)
<1>1. tag = [name |-> name, kind |-> kind, index |-> Len(t.list), system |-> FALSE, members |-> <<>>]
  BY DEF Tag
<1>2. Len(t.list) \in Int /\ <<>> \in [DOMAIN <<>> -> [index : Nat, type : Number]]
  BY DEF IsTable
<1> HIDE DEF tag
<1>3. /\ IsTag(tag) /\ tag.index = Len(t.list) /\ tag.name = name /\ tag.kind = kind
      /\ tag.system = FALSE /\ tag.members = <<>>
  BY <1>1, <1>2 DEF IsTag
<1> QED BY <1>3 DEF tag

-----------------------------------------------------------------------------
\* The number RegistSystemType takes, the size of a map, is the number of functions, and while
\* there is no enum it is the length of the list.
LEMMA HostCounted ==
  ASSUME HostInv
  PROVE  /\ cppCount \in Nat /\ hostCount \in Nat
         /\ Cardinality(DOMAIN typeIndexMap) = cppCount
         /\ DOMAIN register.enums = {} => cppCount = hostCount
<1>1. cppCount \in Nat /\ hostCount \in Nat /\ cppCount <= hostCount
  BY DEF HostInv, IsTable, cppCount, hostCount
<1>2. Cardinality(DOMAIN typeIndexMap) = cppCount
  <2> DEFINE S == 1 .. cppCount
             f == [i \in S |-> calls[i]]
  <2>1. f \in Surjection(S, DOMAIN typeIndexMap)
    <3>1. f \in [S -> DOMAIN typeIndexMap]
      BY DEF HostInv
    <3>2. \A T \in DOMAIN typeIndexMap : \E i \in S : f[i] = T
      BY DEF HostInv
    <3> QED BY <3>1, <3>2, Fun_IsSurj
  <2>2. f \in Injection(S, DOMAIN typeIndexMap)
    <3>1. f \in [S -> DOMAIN typeIndexMap]
      BY DEF HostInv
    <3>2. \A i, j \in S : f[i] = f[j] => i = j
      <4>1. \A i \in S : typeIndexMap[f[i]] = i - 1
        BY DEF HostInv
      <4> QED BY <4>1, <1>1
    <3> QED BY <3>1, <3>2, Fun_IsInj
  <2>3. ExistsBijection(S, DOMAIN typeIndexMap)
    BY <2>1, <2>2 DEF ExistsBijection, Bijection
  <2>4. IsFiniteSet(S) /\ Cardinality(S) = cppCount
    BY <1>1, FS_Interval
  <2> QED BY <2>3, <2>4, FS_Bijection
<1>3. ASSUME DOMAIN register.enums = {}, cppCount # hostCount
      PROVE  FALSE
  <2>1. hostCount \in 1 .. hostCount /\ ~(hostCount <= cppCount)
    BY <1>1, <1>3
  <2>2. TagAt(Host, hostCount).kind = "enum"
    BY <2>1 DEF HostInv
  <2>3. Host.list[hostCount] \in DOMAIN Host.tags
    BY <2>1 DEF HostInv, Placed, hostCount
  <2>4. Host.list[hostCount] \in DOMAIN EnumsOf(Host)
    BY <2>2, <2>3 DEF EnumsOf, TagAt
  <2> QED BY <2>4, <1>3 DEF HostInv
<1> QED BY <1>1, <1>2, <1>3

\* Registering a C++ type keeps the host's tables in step.
LEMMA RegistSystemTypeStep ==
  ASSUME Numbered, NEW name \in HostTypes, RegistSystemType(name), orderly'
  PROVE  Numbered'
<1> DEFINE T == CppType[name]
           tag == Tag(name, "cpp", cppCount, TRUE)
<1>1. /\ HostInv /\ phase = "host" /\ types = EmptyTable
      /\ phase' = phase /\ UNCHANGED <<types, classes, analyzed, code>>
      /\ name \notin DOMAIN Host.tags /\ T \notin DOMAIN typeIndexMap
      /\ DOMAIN register.enums = {}
  BY DEF Numbered, RegistSystemType, Host
<1>2. /\ cppCount \in Nat /\ hostCount = cppCount
      /\ Cardinality(DOMAIN typeIndexMap) = cppCount
  BY <1>1, HostCounted
<1>3. /\ register' = [register EXCEPT !.types = RegistType(@, tag)]
      /\ typeIndexMap' = Emplace(typeIndexMap, T, cppCount)
      /\ calls' = Append(calls, T)
      /\ allocIndex' = Emplace(allocIndex, cppCount, cppCount)
  BY <1>2 DEF RegistSystemType, Registered, cppCount
<1>4. /\ IsTable(Host) /\ Placed(Host) /\ Host.functionTypeCount = 0
      /\ Host.systemTypeCount = hostCount
      /\ register = [types |-> Host, enums |-> EnumsOf(Host)]
      /\ calls \in Seq(CppTypes)
  BY <1>1 DEF HostInv
<1>5. /\ IsTag(tag) /\ tag.index = Len(Host.list) /\ tag.name = name /\ tag.kind = "cpp"
      /\ tag.system /\ tag.members = <<>>
  <2>1. name \in Names
    BY DEF Names
  <2>2. tag = [name |-> name, kind |-> "cpp", index |-> cppCount, system |-> TRUE, members |-> <<>>]
    BY DEF Tag
  <2>3. <<>> \in [DOMAIN <<>> -> [index : Nat, type : Number]]
    OBVIOUS
  <2> HIDE DEF tag
  <2> QED BY <1>2, <2>1, <2>2, <2>3 DEF IsTag, Kinds, hostCount
<1> HIDE DEF tag
<1>6. Host' = RegistType(Host, tag) /\ register' = [types |-> Host', enums |-> EnumsOf(Host)]
  BY <1>3, <1>4 DEF Host
<1>7. Grown(Host, tag, Host') /\ Host'.functionTypeCount = 0
  BY <1>1, <1>4, <1>5, <1>6, RegisteredGrows
<1>8. EnumsOf(Host') = EnumsOf(Host)
  BY <1>1, <1>5, <1>7, EnumsGrow
<1>9. /\ IsTable(Host') /\ Placed(Host') /\ hostCount' = hostCount + 1
      /\ Host'.systemTypeCount = hostCount'
  BY <1>4, <1>5, <1>7 DEF Grown, hostCount
<1>10. /\ cppCount' = cppCount + 1 /\ calls' \in Seq(CppTypes)
       /\ calls'[cppCount + 1] = T
       /\ \A i \in 1 .. cppCount : calls'[i] = calls[i]
  <2>1. T \in CppTypes
    BY DEF CppTypes
  <2> QED BY <2>1, <1>3, <1>4 DEF cppCount
<1>11. /\ DOMAIN typeIndexMap' = {calls'[i] : i \in 1 .. cppCount'}
       /\ \A i \in 1 .. cppCount' : typeIndexMap'[calls'[i]] = i - 1
  <2>1. /\ DOMAIN typeIndexMap' = DOMAIN typeIndexMap \cup {T}
        /\ typeIndexMap'[T] = cppCount
        /\ \A x \in DOMAIN typeIndexMap : typeIndexMap'[x] = typeIndexMap[x]
    BY <1>1, <1>3 DEF Emplace
  <2>2. /\ DOMAIN typeIndexMap = {calls[i] : i \in 1 .. cppCount}
        /\ \A i \in 1 .. cppCount : typeIndexMap[calls[i]] = i - 1
    BY <1>1 DEF HostInv
  <2>3. 1 .. cppCount' = 1 .. cppCount \cup {cppCount + 1}
    BY <1>2, <1>10
  <2>4. {calls'[i] : i \in 1 .. cppCount'} = {calls[i] : i \in 1 .. cppCount} \cup {T}
    BY <2>3, <1>10
  <2>5. \A i \in 1 .. cppCount : typeIndexMap'[calls'[i]] = i - 1
    BY <2>1, <2>2, <1>10
  <2>6. typeIndexMap'[calls'[cppCount + 1]] = (cppCount + 1) - 1
    BY <2>1, <1>2, <1>10
  <2> QED BY <2>1, <2>2, <2>3, <2>4, <2>5, <2>6
<1>12. allocIndex' = [i \in 0 .. cppCount' - 1 |-> i]
  <2>1. allocIndex = [i \in 0 .. cppCount - 1 |-> i]
    BY <1>1 DEF HostInv
  <2> QED BY <2>1, <1>2, <1>3, <1>10 DEF Emplace
<1>13. ASSUME NEW i \in 1 .. hostCount'
       PROVE  LET own == TagAt(Host', i) IN
              own.system /\ own.members = <<>> /\ own.kind = IF i <= cppCount' THEN "cpp" ELSE "enum"
  <2>1. CASE i = hostCount + 1
    <3>1. TagAt(Host', i) = tag
      BY <2>1, <1>7 DEF Grown, hostCount
    <3> QED BY <2>1, <3>1, <1>2, <1>5, <1>10
  <2>2. CASE i \in 1 .. hostCount
    <3>1. TagAt(Host', i) = TagAt(Host, i)
      BY <2>2, <1>7 DEF Grown, hostCount
    <3>2. /\ TagAt(Host, i).system /\ TagAt(Host, i).members = <<>>
          /\ TagAt(Host, i).kind = IF i <= cppCount THEN "cpp" ELSE "enum"
      BY <2>2, <1>1 DEF HostInv
    <3> QED BY <2>2, <3>1, <3>2, <1>2, <1>10
  <2> QED BY <2>1, <2>2, <1>2, <1>9
<1>14. HostInv'
  BY <1>2, <1>6, <1>7, <1>8, <1>9, <1>10, <1>11, <1>12, <1>13 DEF HostInv
<1> QED BY <1>1, <1>14 DEF Numbered

\* Registering an enum puts it behind the C++ types.
LEMMA RegistSystemEnumTypeStep ==
  ASSUME Numbered, NEW name \in HostEnums, RegistSystemEnumType(name), orderly'
  PROVE  Numbered'
<1> DEFINE tag == Tag(name, "enum", hostCount, TRUE)
<1>1. /\ HostInv /\ phase = "host" /\ types = EmptyTable
      /\ phase' = phase /\ UNCHANGED <<types, classes, analyzed, code>> /\ name \notin DOMAIN Host.tags
      /\ UNCHANGED <<calls, typeIndexMap, allocIndex>>
  BY DEF Numbered, RegistSystemEnumType, Host
<1>2. cppCount \in Nat /\ hostCount \in Nat /\ cppCount <= hostCount
  BY <1>1, HostCounted DEF HostInv
<1>3. /\ IsTable(Host) /\ Placed(Host) /\ Host.functionTypeCount = 0
      /\ Host.systemTypeCount = hostCount
      /\ register = [types |-> Host, enums |-> EnumsOf(Host)]
  BY <1>1 DEF HostInv
<1>4. register' = [types |-> RegistType(Host, tag), enums |-> Renumbered(EnumsOf(Host), name, hostCount, TRUE)]
  <2>1. register' = [types |-> RegistType(register.types, Tag(name, "enum", Len(register.types.list), TRUE)),
                     enums |-> Renumbered(register.enums, name, Len(register.types.list), TRUE)]
    BY Zenon DEF RegistSystemEnumType
  <2>2. register.enums = EnumsOf(Host)
    BY <1>3
  <2> QED BY <2>1, <2>2, Zenon DEF Host, hostCount
<1>5. /\ IsTag(tag) /\ tag.index = Len(Host.list) /\ tag.name = name /\ tag.kind = "enum"
      /\ tag.system /\ tag.members = <<>>
  <2>1. name \in Names
    BY DEF Names
  <2>2. tag = [name |-> name, kind |-> "enum", index |-> hostCount, system |-> TRUE, members |-> <<>>]
    BY DEF Tag
  <2>3. <<>> \in [DOMAIN <<>> -> [index : Nat, type : Number]]
    OBVIOUS
  <2> HIDE DEF tag
  <2> QED BY <1>2, <2>1, <2>2, <2>3 DEF IsTag, Kinds, hostCount
<1> HIDE DEF tag
<1>6. Host' = RegistType(Host, tag)
  BY <1>4 DEF Host
<1>7. Grown(Host, tag, Host') /\ Host'.functionTypeCount = 0
  BY <1>1, <1>3, <1>5, <1>6, RegisteredGrows
<1>8. register' = [types |-> Host', enums |-> EnumsOf(Host')]
  <2>1. EnumsOf(Host') = Renumbered(EnumsOf(Host), name, hostCount, TRUE)
    <3>1. tag.index = hostCount /\ tag.system = TRUE
      BY DEF tag, Tag
    <3>2. EnumsOf(Host') = Renumbered(EnumsOf(Host), tag.name, tag.index, tag.system)
      <4>1. tag.name \notin DOMAIN Host.tags
        BY <1>1, <1>5
      <4> QED BY <4>1, <1>5, <1>7, EnumsGrow
    <3> QED BY <3>1, <3>2, <1>5, Zenon
  <2> QED BY <2>1, <1>4, <1>6
<1>9. /\ IsTable(Host') /\ Placed(Host') /\ hostCount' = hostCount + 1
      /\ Host'.systemTypeCount = hostCount'
  BY <1>3, <1>5, <1>7 DEF Grown, hostCount
<1>10. ASSUME NEW i \in 1 .. hostCount'
       PROVE  LET own == TagAt(Host', i) IN
              own.system /\ own.members = <<>> /\ own.kind = IF i <= cppCount THEN "cpp" ELSE "enum"
  <2>1. CASE i = hostCount + 1
    <3>1. TagAt(Host', i) = tag
      BY <2>1, <1>7 DEF Grown, hostCount
    <3> QED BY <2>1, <3>1, <1>2, <1>5
  <2>2. CASE i \in 1 .. hostCount
    <3>1. TagAt(Host', i) = TagAt(Host, i)
      BY <2>2, <1>7 DEF Grown, hostCount
    <3>2. /\ TagAt(Host, i).system /\ TagAt(Host, i).members = <<>>
          /\ TagAt(Host, i).kind = IF i <= cppCount THEN "cpp" ELSE "enum"
      BY <2>2, <1>1 DEF HostInv
    <3> QED BY <3>1, <3>2
  <2> QED BY <2>1, <2>2, <1>2, <1>9
<1>11. cppCount' = cppCount
  BY <1>1 DEF cppCount
<1>12. HostInv'
  BY <1>1, <1>2, <1>7, <1>8, <1>9, <1>10, <1>11 DEF HostInv
<1> QED BY <1>1, <1>12 DEF Numbered

\* The next state of the compiler, while the host's tables stay.
LEMMA CompilerNext ==
  ASSUME UNCHANGED host,
         TableInv(types', enums'), MembersInv(types'),
         ClassesInv(types', classes', analyzed'), CodeInv(types', code'),
         phase' \in Between => types' = register.types,
         phase' \in Between \cup {"parsing"} => classes' = <<>>,
         phase' \in Between \cup {"parsing", "classes"} =>
           types'.functionTypeCount = 0 /\ code' = {} /\ analyzed' = 0
  PROVE  CompilerInv'
<1>1. Host' = Host /\ hostCount' = hostCount
  BY DEF host, Host, hostCount
<1>2. TableInv(types, enums)'
  BY <1>1 DEF TableInv
<1>3. MembersInv(types)' /\ ClassesInv(types, classes, analyzed)' /\ CodeInv(types, code)'
  BY DEF MembersInv, ClassesInv, CodeInv
<1> QED BY <1>2, <1>3 DEF CompilerInv, Between, host

\* The compiler with the host's tables and nothing else.
LEMMA BackAtHost ==
  ASSUME HostInv, UNCHANGED host, types' = register.types, enums' = register.enums,
         classes' = <<>>, analyzed' = 0, code' = {}
  PROVE  CompilerInv'
BY TableOfHost, CompilerNext

\* Clear leaves nothing of a script.
LEMMA ClearStep ==
  ASSUME HostInv, CompilerInv, UNCHANGED host, Clear
  PROVE  CompilerInv' /\ types' = register.types /\ enums' = register.enums
<1>1. /\ types' = register.types /\ enums' = register.enums
      /\ classes' = <<>> /\ analyzed' = 0 /\ code' = {}
  BY ClearedTable DEF CompilerInv, Clear
<1> QED BY <1>1, BackAtHost

\* The steps that start from, or go back to, the host's tables.
LEMMA HostSteps ==
  ASSUME Numbered, RegistDefaultSystems \/ Compile \/ ParseError
  PROVE  Numbered'
<1>1. HostInv' /\ UNCHANGED host
  BY HostStays DEF Numbered, RegistDefaultSystems, Compile, ParseError
<1>2. phase' \in {"idle", "parsing"}
  BY DEF RegistDefaultSystems, Compile, ParseError
<1>3. CompilerInv'
  <2>1. CASE RegistDefaultSystems
    BY <2>1, BackAtHost, <1>1 DEF RegistDefaultSystems, Numbered
  <2>2. CASE Compile \/ ParseError
    BY <2>2, ClearStep, <1>1 DEF Compile, ParseError, Numbered
  <2> QED BY <2>1, <2>2
<1> QED BY <1>1, <1>2, <1>3 DEF Numbered

\* From one pass of the compiler to the next.
LEMMA Passes ==
  ASSUME Numbered, Parsed \/ NoGlobals \/ MembersKnown
  PROVE  Numbered'
<1>1. HostInv' /\ UNCHANGED host
  BY HostStays DEF Numbered, Parsed, NoGlobals, MembersKnown
<1>2. /\ phase \in {"parsing", "classes", "members"} /\ phase' \in {"classes", "members", "functions"}
      /\ phase' = "classes" => phase = "parsing"
      /\ UNCHANGED <<types, enums, classes, analyzed, code>>
  BY DEF Parsed, NoGlobals, MembersKnown
<1>3. CompilerInv
  BY <1>2 DEF Numbered
<1>4. CompilerInv'
  <2>1. /\ phase' \notin Between \cup {"parsing"}
        /\ phase' = "classes" => types.functionTypeCount = 0 /\ code = {} /\ analyzed = 0
    BY <1>2, <1>3 DEF CompilerInv, Between
  <2>2. /\ TableInv(types', enums') /\ MembersInv(types')
        /\ ClassesInv(types', classes', analyzed') /\ CodeInv(types', code')
    BY <1>2, <1>3 DEF CompilerInv
  <2> QED BY <1>1, <1>2, <2>1, <2>2, CompilerNext
<1> QED BY <1>1, <1>2, <1>4 DEF Numbered

\* Compiled data do not depend on the compiler.
LEMMA DataStays ==
  ASSUME UNCHANGED host, UNCHANGED data, DataInv(data)
  PROVE  DataInv(data)'
BY DEF DataInv, host, Host, hostCount, cppCount

\* Nor does their file.
LEMMA FileStays ==
  ASSUME UNCHANGED host, UNCHANGED data
  PROVE  FileOf(data)' = FileOf(data)
BY DEF FileOf, host, cppCount

\* Nothing happens.
LEMMA NothingNew ==
  ASSUME Numbered, UNCHANGED vars
  PROVE  Numbered'
<1>1. HostInv' /\ UNCHANGED host /\ UNCHANGED data /\ phase' = phase
  BY HostStays DEF Numbered, vars, host
<1>2. phase # "host" => CompilerInv'
  <2>1. UNCHANGED <<Host, hostCount, types, enums, classes, analyzed, code, phase, register>>
    BY DEF vars, Host, hostCount
  <2> QED BY <2>1 DEF Numbered, CompilerInv, TableInv, MembersInv, ClassesInv, CodeInv
<1>3. Loaded(file)' = Loaded(file)
  BY DEF vars, Loaded, Read
<1> QED BY <1>1, <1>2, <1>3, DataStays, FileStays DEF Numbered, vars

\* An enum of the script.
LEMMA RegistEnumTypeStep ==
  ASSUME Numbered, NEW name \in ScriptEnums, RegistEnumType(name), orderly'
  PROVE  Numbered'
<1>1. /\ HostInv /\ CompilerInv /\ HostInv' /\ UNCHANGED host /\ phase = "parsing" /\ phase' = "parsing"
      /\ UNCHANGED <<classes, analyzed, code>>
  BY HostStays DEF Numbered, RegistEnumType
<1> DEFINE tag == Tag(name, "enum", Len(types.list), FALSE)
<1>2. /\ types' = RegistType(types, tag)
      /\ enums' = Renumbered(enums, name, Len(types.list), FALSE)
      /\ name \notin DOMAIN types.tags
  <2>1. PICK system \in IF name \in DOMAIN enums THEN {enums[name].system} ELSE BOOLEAN :
          /\ types' = RegistType(types, Tag(name, "enum", Len(types.list), system))
          /\ enums' = Renumbered(enums, name, Len(types.list), system)
          /\ orderly' = (orderly /\ ~system /\ name \notin DOMAIN types.tags)
    BY DEF RegistEnumType
  <2>2. system \in BOOLEAN
    BY <1>1 DEF CompilerInv, TableInv, IsTable, IsTag, EnumsOf
  <2>3. system = FALSE /\ name \notin DOMAIN types.tags
    BY <2>1, <2>2
  <2> QED BY <2>1, <2>3
<1>3. /\ IsTag(tag) /\ tag.index = Len(types.list) /\ tag.name = name /\ tag.kind = "enum"
      /\ tag.system = FALSE /\ tag.members = <<>>
  <2>1. IsTable(types) /\ name \in Names
    BY <1>1 DEF CompilerInv, TableInv, Names
  <2>2. "enum" \in Kinds
    BY DEF Kinds
  <2> QED BY <2>1, <2>2, NewTag
<1> HIDE DEF tag
<1>4. Grown(types, tag, types') /\ types'.functionTypeCount = 0
  BY <1>1, <1>2, <1>3, RegisteredGrows DEF CompilerInv, TableInv
<1>5. enums' = EnumsOf(types')
  <2>1. enums = EnumsOf(types)
    BY <1>1 DEF CompilerInv, TableInv
  <2>2. EnumsOf(types') = Renumbered(EnumsOf(types), tag.name, tag.index, tag.system)
    <3>1. tag.name \notin DOMAIN types.tags
      BY <1>2, <1>3
    <3> QED BY <3>1, <1>3, <1>4, EnumsGrow
  <2> QED BY <2>1, <2>2, <1>2, <1>3
<1>6. CompilerInv'
  <2>1. /\ TableInv(types', enums') /\ MembersInv(types')
        /\ ClassesInv(types', classes, analyzed) /\ CodeInv(types', code)
    <3>1. /\ tag.name \notin DOMAIN types.tags /\ ~tag.system
          /\ types.functionTypeCount = 0 /\ TableInv(types, enums) /\ MembersInv(types)
          /\ ClassesInv(types, classes, analyzed) /\ CodeInv(types, code)
      BY <1>1, <1>2, <1>3 DEF CompilerInv
    <3> QED BY <1>1, <1>3, <1>4, <1>5, <3>1, Grows
  <2> QED BY <1>1, <1>4, <2>1, CompilerNext DEF CompilerInv, Between
<1> QED BY <1>1, <1>6 DEF Numbered

\* A class of the script.
LEMMA RegistScriptTypeStep ==
  ASSUME Numbered, NEW name \in ScriptClasses, RegistScriptType(name), orderly'
  PROVE  Numbered'
<1>1. /\ HostInv /\ CompilerInv /\ HostInv' /\ UNCHANGED host /\ phase = "classes" /\ phase' = "classes"
      /\ UNCHANGED <<enums, analyzed, code>> /\ classes' = Append(classes, name)
      /\ name \notin DOMAIN types.tags
  BY HostStays DEF Numbered, RegistScriptType
<1> DEFINE tag == Tag(name, "class", Len(types.list), FALSE)
<1>2. types' = RegistType(types, tag)
  BY DEF RegistScriptType
<1>3. /\ IsTag(tag) /\ tag.index = Len(types.list) /\ tag.name = name /\ tag.kind = "class"
      /\ tag.system = FALSE /\ tag.members = <<>>
  <2>1. IsTable(types) /\ name \in Names
    BY <1>1 DEF CompilerInv, TableInv, Names
  <2>2. "class" \in Kinds
    BY DEF Kinds
  <2> QED BY <2>1, <2>2, NewTag
<1> HIDE DEF tag
<1>4. Grown(types, tag, types') /\ types'.functionTypeCount = 0
  BY <1>1, <1>2, <1>3, RegisteredGrows DEF CompilerInv, TableInv
<1>5. enums' = EnumsOf(types')
  <2>1. enums = EnumsOf(types)
    BY <1>1 DEF CompilerInv, TableInv
  <2>2. EnumsOf(types') = EnumsOf(types)
    BY <1>1, <1>3, <1>4, EnumsGrow
  <2> QED BY <2>1, <2>2, <1>1
<1>6. /\ TableInv(types', enums') /\ MembersInv(types')
      /\ ClassesInv(types', classes, 0) /\ CodeInv(types', code) /\ analyzed = 0
  BY <1>1, <1>3, <1>4, <1>5, Grows DEF CompilerInv
<1>7. ClassesInv(types', classes', analyzed')
  <2>1. /\ classes \in Seq(DOMAIN types.tags) /\ classes \in Seq(DOMAIN types'.tags)
    BY <1>1, <1>6 DEF CompilerInv, ClassesInv
  <2>2. /\ name \in DOMAIN types'.tags /\ types'.tags[name].kind = "class"
        /\ types'.tags[name].members = <<>>
    BY <1>3, <1>4 DEF Grown
  <2>3. /\ classes' \in Seq(DOMAIN types'.tags) /\ Len(classes') = Len(classes) + 1
        /\ classes'[Len(classes) + 1] = name
        /\ \A k \in 1 .. Len(classes) : classes'[k] = classes[k] /\ classes[k] # name
    BY <1>1, <2>1, <2>2
  <2>4. ASSUME NEW k \in 1 .. Len(classes')
        PROVE  types'.tags[classes'[k]].kind = "class" /\ types'.tags[classes'[k]].members = <<>>
    <3>1. CASE k = Len(classes) + 1
      BY <3>1, <2>2, <2>3
    <3>2. CASE k \in 1 .. Len(classes)
      BY <3>2, <2>3, <1>6 DEF ClassesInv
    <3> QED BY <3>1, <3>2, <2>1, <2>3
  <2>5. ASSUME NEW j \in 1 .. Len(classes'), NEW k \in 1 .. Len(classes'), classes'[j] = classes'[k]
        PROVE  j = k
    <3>1. CASE j \in 1 .. Len(classes) /\ k \in 1 .. Len(classes)
      BY <3>1, <2>3, <2>5, <1>6 DEF ClassesInv
    <3>2. CASE j = Len(classes) + 1 \/ k = Len(classes) + 1
      BY <3>2, <2>1, <2>3, <2>5
    <3> QED BY <3>1, <3>2, <2>1, <2>3
  <2>6. analyzed' = 0 /\ Len(classes') \in Nat
    BY <1>1, <1>6, <2>3
  <2> QED BY <2>3, <2>4, <2>5, <2>6 DEF ClassesInv
<1>8. CompilerInv'
  BY <1>1, <1>4, <1>6, <1>7, CompilerNext DEF CompilerInv, Between
<1> QED BY <1>1, <1>8 DEF Numbered

\* A function type, in the middle of the generation of code.
LEMMA CreateFunctionTypeStep ==
  ASSUME Numbered, NEW name \in FunctionTypes, CreateFunctionType(name), orderly'
  PROVE  Numbered'
<1>1. /\ phase \in {"members", "functions"} /\ phase' = phase
      /\ UNCHANGED <<enums, classes, analyzed, code>>
      /\ name \notin DOMAIN types.tags
  BY DEF CreateFunctionType, InFunctions
<1>2. HostInv /\ CompilerInv /\ HostInv' /\ UNCHANGED host
  BY <1>1, HostStays DEF Numbered, CreateFunctionType
<1> DEFINE tag == Tag(name, "function", Len(types.list), FALSE)
           u == RegistType(types, tag)
<1>3. types' = [u EXCEPT !.functionTypeCount = @ + 1]
  BY DEF CreateFunctionType
<1>4. /\ IsTag(tag) /\ tag.index = Len(types.list) /\ tag.name = name /\ tag.kind = "function"
      /\ tag.system = FALSE /\ tag.members = <<>>
  <2>1. IsTable(types) /\ name \in Names
    BY <1>2 DEF CompilerInv, TableInv, Names
  <2>2. "function" \in Kinds
    BY DEF Kinds
  <2> QED BY <2>1, <2>2, NewTag
<1> HIDE DEF tag
<1>5. Grown(types, tag, u) /\ u.functionTypeCount = types.functionTypeCount
  BY <1>1, <1>2, <1>4, RegisteredGrows DEF CompilerInv, TableInv
<1> HIDE DEF u
<1>6. Grown(types, tag, types') /\ types'.functionTypeCount = types.functionTypeCount + 1
  <2>1. IsTable(u) /\ u \in [list : Seq(Names), tags : {u.tags}, systemTypeCount : Nat, functionTypeCount : Nat]
    BY <1>5 DEF Grown, IsTable
  <2>2. /\ types'.list = u.list /\ types'.tags = u.tags /\ types'.systemTypeCount = u.systemTypeCount
        /\ types'.functionTypeCount = u.functionTypeCount + 1
        /\ types' \in [list : Seq(Names), tags : {types'.tags}, systemTypeCount : Nat, functionTypeCount : Nat]
    BY <1>3, <2>1
  <2>3. IsTable(types')
    BY <2>1, <2>2 DEF IsTable
  <2>4. \A i : TagAt(types', i) = TagAt(u, i)
    BY <2>2 DEF TagAt
  <2>5. Placed(types')
    <3>1. Placed(u)
      BY <1>5 DEF Grown
    <3> QED BY <2>2, <3>1, Zenon DEF Placed, TagAt
  <2> QED BY <1>5, <2>2, <2>3, <2>4, <2>5 DEF Grown
<1>7. enums' = EnumsOf(types')
  <2>1. enums = EnumsOf(types)
    BY <1>2 DEF CompilerInv, TableInv
  <2>2. EnumsOf(types') = EnumsOf(types)
    BY <1>1, <1>4, <1>6, EnumsGrow
  <2> QED BY <2>1, <2>2, <1>1
<1>8. CompilerInv'
  <2>1. /\ TableInv(types', enums') /\ MembersInv(types')
        /\ ClassesInv(types', classes, analyzed) /\ CodeInv(types', code)
    BY <1>1, <1>2, <1>4, <1>6, <1>7, Grows DEF CompilerInv
  <2> QED BY <1>1, <1>2, <2>1, CompilerNext DEF Between
<1> QED BY <1>1, <1>2, <1>8 DEF Numbered

\* A variable: its instruction is computed from the table as it is.
LEMMA DeclareValueStep ==
  ASSUME Numbered, NEW name \in Names, NEW ref \in BOOLEAN, NEW local \in BOOLEAN,
         DeclareValue(name, ref, local)
  PROVE  Numbered'
<1> DEFINE v == GetTypeIndex(types, name, ref)
           Generated == /\ HasType(types, v.index)
                        /\ code' = {[type |-> v, local |-> local, do |-> Allocation(types, v, local)]}
<1>1. /\ phase \in {"classes", "members", "functions"} /\ phase' \in {"crashed", "members", "functions"}
      /\ UNCHANGED <<types, enums, classes, analyzed>> /\ UNCHANGED host
      /\ code' = code \/ Generated
  <2>1. /\ IF local THEN InFunctions ELSE phase = "classes"
        /\ ~HasType(types, v.index) => phase' = "crashed" /\ code' = code
        /\ HasType(types, v.index) =>
             /\ code' = {[type |-> v, local |-> local, do |-> Allocation(types, v, local)]}
             /\ phase' = IF local THEN phase ELSE "members"
        /\ UNCHANGED <<types, enums, classes, analyzed>> /\ UNCHANGED host
    BY Zenon DEF DeclareValue
  <2>2. phase \in {"classes", "members", "functions"}
    BY <2>1 DEF InFunctions
  <2> HIDE DEF v
  <2>3. phase' \in {"crashed", "members", "functions"}
    BY <2>1, <2>2 DEF InFunctions
  <2>4. code' = code \/ Generated
    BY <2>1, Zenon
  <2> QED BY <2>1, <2>2, <2>3, <2>4, Zenon
<1>2. HostInv /\ CompilerInv /\ HostInv'
  BY <1>1, HostStays DEF Numbered
<1>3. CodeInv(types', code')
  <2>1. CASE code' = code
    BY <2>1, <1>1, <1>2 DEF CompilerInv
  <2>2. CASE Generated
    <3>1. v \in [index : 0 .. Len(types.list) - 1, ref : BOOLEAN]
      BY <2>2 DEF GetTypeIndex, Index, Unknown, HasType
    <3> QED BY <2>2, <3>1, <1>1 DEF CodeInv
  <2> QED BY <2>1, <2>2, <1>1
<1>4. CompilerInv'
  <2>1. /\ TableInv(types', enums') /\ MembersInv(types') /\ ClassesInv(types', classes', analyzed')
    BY <1>1, <1>2 DEF CompilerInv
  <2> QED BY <1>1, <1>2, <1>3, <2>1, CompilerNext DEF Between
<1> QED BY <1>1, <1>2, <1>4 DEF Numbered

\* The members of a class are numbered apart and have known types, or the unknown one.
LEMMA MembersFound ==
  ASSUME NEW t, IsTable(t), Placed(t), NEW body \in Bodies, NEW ms, ms = MemberInfo(t, body)
  PROVE  /\ IsFiniteSet(DOMAIN ms) /\ DOMAIN ms \subseteq Nat
         /\ ms \in [DOMAIN ms -> [index : Nat, type : Number]]
         /\ \A m \in DOMAIN ms : ms[m].type = Unknown \/ HasType(t, ms[m].type.index)
         /\ \A m, o \in DOMAIN ms : ms[m].index = ms[o].index => m = o
<1> DEFINE Before(m) == {o \in DOMAIN body : o < m}
<1>1. /\ IsFiniteSet(DOMAIN body) /\ DOMAIN body \subseteq Nat
      /\ \A m \in DOMAIN body : body[m].ref \in BOOLEAN
  BY TypesAssumption
<1>2. /\ DOMAIN ms = DOMAIN body
      /\ \A m \in DOMAIN body :
           ms[m] = [index |-> Cardinality(Before(m)),
                    type |-> GetTypeIndex(t, body[m].type, body[m].ref)]
      /\ ms = [m \in DOMAIN ms |-> ms[m]]
  BY DEF MemberInfo
<1>3. \A m \in DOMAIN body : IsFiniteSet(Before(m)) /\ Cardinality(Before(m)) \in Nat
  <2> SUFFICES ASSUME NEW m \in DOMAIN body
               PROVE  IsFiniteSet(Before(m)) /\ Cardinality(Before(m)) \in Nat
    OBVIOUS
  <2>1. Before(m) \in SUBSET DOMAIN body
    OBVIOUS
  <2>2. IsFiniteSet(Before(m))
    BY <2>1, <1>1, FS_Subset
  <2> QED BY <2>2, FS_CardinalityType
<1>4. ASSUME NEW m \in DOMAIN body, NEW o \in DOMAIN body, m < o
      PROVE  Cardinality(Before(m)) # Cardinality(Before(o))
  <2>1. Before(m) \in SUBSET Before(o) /\ m \in Before(o) /\ m \notin Before(m)
    BY <1>1, <1>4
  <2> HIDE DEF Before
  <2>2. Cardinality(Before(o)) = Cardinality(Before(m)) => Before(o) = Before(m)
    BY <2>1, <1>3, FS_Subset
  <2> QED BY <2>1, <2>2
<1>5. ASSUME NEW n, NEW ref \in BOOLEAN
      PROVE  LET v == GetTypeIndex(t, n, ref) IN
             v \in Number /\ (v = Unknown \/ HasType(t, v.index))
  <2>1. CASE n \in DOMAIN t.tags
    <3>1. t.tags[n].index \in 0 .. Len(t.list) - 1 /\ Len(t.list) \in Nat
      BY <2>1 DEF Placed, IsTable
    <3> QED BY <2>1, <3>1 DEF GetTypeIndex, Index, Number, HasType
  <2>2. CASE n \notin DOMAIN t.tags
    BY <2>2 DEF GetTypeIndex, Unknown, Index, Number
  <2> QED BY <2>1, <2>2
<1> HIDE DEF Before
<1>6. ASSUME NEW m \in DOMAIN ms
      PROVE  ms[m] \in [index : Nat, type : Number] /\ (ms[m].type = Unknown \/ HasType(t, ms[m].type.index))
  <2>1. ms[m].index = Cardinality(Before(m)) /\ ms[m].type = GetTypeIndex(t, body[m].type, body[m].ref)
    BY <1>2
  <2>2. ms[m].type \in Number /\ (ms[m].type = Unknown \/ HasType(t, ms[m].type.index))
    BY <2>1, <1>1, <1>2, <1>5
  <2> QED BY <2>1, <2>2, <1>2, <1>3
<1>7. ASSUME NEW m \in DOMAIN ms, NEW o \in DOMAIN ms, ms[m].index = ms[o].index
      PROVE  m = o
  <2>1. Cardinality(Before(m)) = Cardinality(Before(o))
    BY <1>2, <1>7
  <2>2. ~(m < o) /\ ~(o < m)
    BY <2>1, <1>2, <1>4
  <2> QED BY <2>2, <1>1, <1>2
<1>8. ms \in [DOMAIN ms -> [index : Nat, type : Number]]
  BY <1>2, <1>6
<1> QED BY <1>1, <1>2, <1>6, <1>7, <1>8

\* The members of a class change nothing but its tag's members.
LEMMA AnalyzeScriptTypeStep ==
  ASSUME Numbered, NEW body \in Bodies, AnalyzeScriptType(body)
  PROVE  Numbered'
<1> DEFINE name == classes[analyzed + 1]
           ms == MemberInfo(types, body)
           old == types.tags[name]
           new == [old EXCEPT !.members = ms]
<1>1. /\ phase = "members" /\ phase' = phase /\ analyzed < Len(classes) /\ analyzed' = analyzed + 1
      /\ UNCHANGED <<enums, classes, code>> /\ UNCHANGED host
  BY DEF AnalyzeScriptType
<1>2. HostInv /\ CompilerInv /\ HostInv'
  BY <1>1, HostStays DEF Numbered
<1>3. /\ IsTable(types) /\ Placed(types) /\ MembersInv(types) /\ TableInv(types, enums)
      /\ ClassesInv(types, classes, analyzed) /\ CodeInv(types, code)
      /\ hostCount \in Nat /\ Len(types.list) \in Nat
      /\ types.functionTypeCount \in Nat /\ hostCount <= ownEnd(types)
  BY <1>2 DEF CompilerInv, TableInv, IsTable, HostInv, hostCount
<1>4. /\ name \in DOMAIN types.tags /\ old.kind = "class" /\ old.members = <<>>
      /\ \A k \in analyzed + 2 .. Len(classes) : classes[k] # name
      /\ analyzed' \in 0 .. Len(classes)
  <2>1. analyzed \in Nat /\ Len(classes) \in Nat /\ analyzed + 1 \in 1 .. Len(classes)
    BY <1>1, <1>3 DEF ClassesInv
  <2>2. analyzed + 1 \in analyzed + 1 .. Len(classes)
    BY <2>1
  <2>3. name \in DOMAIN types.tags
    BY <2>1, <1>3 DEF ClassesInv
  <2>4. old.kind = "class" /\ old.members = <<>>
    BY <2>1, <2>2, <1>3 DEF ClassesInv
  <2>5. \A k \in analyzed + 2 .. Len(classes) : classes[k] # name
    BY <2>1, <1>3 DEF ClassesInv
  <2> QED BY <2>1, <2>3, <2>4, <2>5, <1>1
<1>5. /\ IsFiniteSet(DOMAIN ms) /\ DOMAIN ms \subseteq Nat
      /\ ms \in [DOMAIN ms -> [index : Nat, type : Number]]
      /\ \A m \in DOMAIN ms : ms[m].type = Unknown \/ HasType(types, ms[m].type.index)
      /\ \A m, o \in DOMAIN ms : ms[m].index = ms[o].index => m = o
  BY <1>3, MembersFound
<1>6. types' = [types EXCEPT !.tags = [types.tags EXCEPT ![name] = new]]
  <2> DEFINE kept == [m \in DOMAIN old.members \cup DOMAIN ms |->
                        IF m \in DOMAIN old.members THEN old.members[m] ELSE ms[m]]
  <2>1. types' = [types EXCEPT !.tags[name].members = kept]
    BY Zenon DEF AnalyzeScriptType
  <2>2. kept = ms
    <3>1. DOMAIN old.members = {}
      BY <1>4
    <3> HIDE DEF ms
    <3> QED BY <3>1, <1>5
  <2> HIDE DEF ms, name, kept
  <2>3. [types EXCEPT !.tags[name].members = kept]
          = [types EXCEPT !.tags = [types.tags EXCEPT ![name] = [types.tags[name] EXCEPT !.members = kept]]]
    BY Zenon
  <2> QED BY <2>1, <2>2, <2>3
<1> HIDE DEF name, ms
<1>7. /\ IsTag(new) /\ new.members = ms /\ new.kind = old.kind /\ new.name = old.name
      /\ new.index = old.index /\ new.system = old.system
  BY <1>3, <1>4, <1>5 DEF IsTable, IsTag
<1> HIDE DEF new
<1>8. /\ types'.list = types.list /\ types'.systemTypeCount = types.systemTypeCount
      /\ types'.functionTypeCount = types.functionTypeCount
      /\ DOMAIN types'.tags = DOMAIN types.tags /\ types'.tags[name] = new
      /\ \A x \in DOMAIN types.tags : x # name => types'.tags[x] = types.tags[x]
      /\ IsTable(types')
  BY <1>3, <1>4, <1>6, <1>7 DEF IsTable
<1>9. /\ Placed(types')
      /\ \A x \in DOMAIN types.tags :
           types'.tags[x].kind = types.tags[x].kind /\ types'.tags[x].system = types.tags[x].system
             /\ types'.tags[x].index = types.tags[x].index
      /\ \A i \in 1 .. Len(types.list) :
           TagAt(types', i).kind = TagAt(types, i).kind /\ TagAt(types', i).system = TagAt(types, i).system
  <2>1. \A x \in DOMAIN types.tags :
          /\ types'.tags[x].kind = types.tags[x].kind /\ types'.tags[x].system = types.tags[x].system
          /\ types'.tags[x].index = types.tags[x].index /\ types'.tags[x].name = types.tags[x].name
    BY <1>4, <1>7, <1>8
  <2>2. \A i \in 1 .. Len(types.list) : types.list[i] \in DOMAIN types.tags
    BY <1>3 DEF Placed
  <2>3. \A i \in 1 .. Len(types.list) :
          /\ TagAt(types', i).kind = TagAt(types, i).kind /\ TagAt(types', i).system = TagAt(types, i).system
          /\ TagAt(types', i).index = TagAt(types, i).index
    BY <2>1, <2>2, <1>8 DEF TagAt
  <2>4. Placed(types')
    BY <2>1, <2>3, <1>3, <1>8 DEF Placed
  <2> QED BY <2>1, <2>3, <2>4
<1>10. TableInv(types', enums')
  <2>1. ASSUME NEW i \in 1 .. hostCount
        PROVE  TagAt(types', i) = TagAt(types, i)
    <3>1. TagAt(types, i).kind # "class"
      BY <1>2, <1>3 DEF HostInv, TableInv
    <3>2. i \in 1 .. Len(types.list)
      BY <1>3 DEF ownEnd
    <3>3. types.list[i] # name /\ types.list[i] \in DOMAIN types.tags
      BY <3>1, <3>2, <1>3, <1>4 DEF TagAt, Placed
    <3> QED BY <3>3, <1>8 DEF TagAt
  <2>2. enums' = EnumsOf(types')
    <3>1. enums = EnumsOf(types)
      BY <1>3 DEF TableInv
    <3> QED BY <3>1, <1>1, <1>8, <1>9 DEF EnumsOf
  <2>3. \A i \in 1 .. hostCount : types'.list[i] = Host.list[i] /\ TagAt(types', i) = TagAt(Host, i)
    BY <2>1, <1>3, <1>8 DEF TableInv
  <2>4. ASSUME NEW i \in hostCount + 1 .. Len(types'.list)
        PROVE  LET tag == TagAt(types', i) IN
               ~tag.system /\ (IF i > ownEnd(types') THEN tag.kind = "function" ELSE tag.kind \in {"enum", "class"})
    <3>1. /\ TagAt(types', i).kind = TagAt(types, i).kind /\ TagAt(types', i).system = TagAt(types, i).system
          /\ ownEnd(types') = ownEnd(types) /\ i \in hostCount + 1 .. Len(types.list)
      BY <1>3, <1>8, <1>9 DEF ownEnd
    <3>2. /\ ~TagAt(types, i).system
          /\ IF i > ownEnd(types) THEN TagAt(types, i).kind = "function"
             ELSE TagAt(types, i).kind \in {"enum", "class"}
      BY <3>1, <1>3 DEF TableInv
    <3> QED BY <3>1, <3>2
  <2> QED BY <2>2, <2>3, <2>4, <1>3, <1>8, <1>9 DEF TableInv, ownEnd
<1>11. MembersInv(types')
  <2> SUFFICES ASSUME NEW x \in DOMAIN types'.tags
               PROVE  LET m1 == types'.tags[x].members IN
                      /\ IsFiniteSet(DOMAIN m1) /\ DOMAIN m1 \subseteq Nat
                      /\ \A m \in DOMAIN m1 : m1[m].type = Unknown \/ HasType(types', m1[m].type.index)
                      /\ \A m, o \in DOMAIN m1 : m1[m].index = m1[o].index => m = o
    BY DEF MembersInv
  <2>1. \A i : HasType(types', i) <=> HasType(types, i)
    BY <1>8 DEF HasType
  <2>2. CASE x = name
    BY <2>1, <2>2, <1>5, <1>7, <1>8
  <2>3. CASE x # name
    BY <2>1, <2>3, <1>3, <1>8 DEF MembersInv
  <2> QED BY <2>2, <2>3
<1>12. ClassesInv(types', classes', analyzed')
  <2>1. \A k \in 1 .. Len(classes) : classes[k] \in DOMAIN types.tags
    BY <1>3 DEF ClassesInv
  <2>2. ASSUME NEW k \in analyzed' + 1 .. Len(classes)
        PROVE  types'.tags[classes[k]].members = <<>>
    <3>1. k \in analyzed + 2 .. Len(classes) /\ k \in analyzed + 1 .. Len(classes) /\ k \in 1 .. Len(classes)
      BY <1>1, <1>3 DEF ClassesInv
    <3>2. types.tags[classes[k]].members = <<>>
      BY <3>1, <1>3 DEF ClassesInv
    <3> QED BY <3>1, <3>2, <2>1, <1>4, <1>8
  <2> QED BY <2>1, <2>2, <1>1, <1>3, <1>4, <1>8, <1>9 DEF ClassesInv
<1>13. CodeInv(types', code')
  <2> SUFFICES ASSUME NEW a \in code
               PROVE  /\ a.type \in [index : 0 .. Len(types'.list) - 1, ref : BOOLEAN]
                      /\ a.local \in BOOLEAN
                      /\ a.do = Allocation(types', a.type, a.local)
    BY <1>1 DEF CodeInv
  <2>1. /\ a.type \in [index : 0 .. Len(types.list) - 1, ref : BOOLEAN]
        /\ a.local \in BOOLEAN
        /\ a.do = Allocation(types, a.type, a.local)
    BY <1>3 DEF CodeInv
  <2>2. /\ GetType(types', a.type.index).kind = GetType(types, a.type.index).kind
        /\ GetType(types', a.type.index).system = GetType(types, a.type.index).system
    <3>1. a.type.index + 1 \in 1 .. Len(types.list)
      BY <2>1, <1>3
    <3> QED BY <3>1, <1>9 DEF GetType
  <2>3. Allocation(types', a.type, a.local) = Allocation(types, a.type, a.local)
    BY <2>2, <1>8, Zenon DEF Allocation, AllocationOf
  <2> QED BY <2>1, <2>3, <1>8
<1>14. CompilerInv'
  BY <1>1, <1>10, <1>11, <1>12, <1>13, CompilerNext DEF Between
<1> QED BY <1>1, <1>2, <1>14 DEF Numbered

\* GetScriptClassInfo finds each member's type.
LEMMA ClassMembers ==
  ASSUME NEW t, IsTable(t), MembersInv(t), NEW x \in DOMAIN t.tags, NEW own, own = t.tags[x]
  PROVE  /\ ClassInfo(own).typeIndex = own.index
         /\ \A j \in DOMAIN ClassInfo(own).members : ClassInfo(own).members[j] \in Number
         /\ \A j \in DOMAIN ClassInfo(own).members :
              \/ ClassInfo(own).members[j] = Unknown
              \/ ClassInfo(own).members[j] = Index(0, FALSE)
              \/ HasType(t, ClassInfo(own).members[j].index)
<1> DEFINE ms == own.members
           Named(j) == {m \in DOMAIN ms : ms[m].index = j - 1}
<1>1. /\ DOMAIN ms \subseteq Nat
      /\ \A m \in DOMAIN ms : ms[m].type = Unknown \/ HasType(t, ms[m].type.index)
      /\ \A m, o \in DOMAIN ms : ms[m].index = ms[o].index => m = o
      /\ \A m \in DOMAIN ms : ms[m].type \in Number
  BY DEF MembersInv, IsTable, IsTag
<1>2. /\ ClassInfo(own).typeIndex = own.index
      /\ DOMAIN ClassInfo(own).members = 1 .. Cardinality(DOMAIN ms)
      /\ \A j \in 1 .. Cardinality(DOMAIN ms) : ClassInfo(own).members[j] =
            IF Named(j) = {} THEN Index(0, FALSE)
            ELSE ms[CHOOSE m \in Named(j) : \A o \in Named(j) : o <= m].type
  BY DEF ClassInfo
<1>3. ASSUME NEW j \in 1 .. Cardinality(DOMAIN ms), Named(j) # {}
      PROVE  (CHOOSE m \in Named(j) : \A o \in Named(j) : o <= m) \in DOMAIN ms
  <2>1. PICK m \in Named(j) : TRUE
    BY <1>3
  <2>2. \A o \in Named(j) : o = m /\ o \in Nat
    BY <2>1, <1>1
  <2>3. \A o \in Named(j) : o <= m
    BY <2>2
  <2> QED BY <2>1, <2>3
<1> HIDE DEF Named
<1>4. ASSUME NEW j \in 1 .. Cardinality(DOMAIN ms)
      PROVE  /\ ClassInfo(own).members[j] \in Number
             /\ \/ ClassInfo(own).members[j] = Unknown
                \/ ClassInfo(own).members[j] = Index(0, FALSE)
                \/ HasType(t, ClassInfo(own).members[j].index)
  <2>1. CASE Named(j) = {}
    <3>1. ClassInfo(own).members[j] = Index(0, FALSE)
      BY <2>1, <1>2
    <3>2. Index(0, FALSE) \in Number
      BY DEF Index, Number
    <3> QED BY <3>1, <3>2
  <2>2. CASE Named(j) # {}
    <3> DEFINE c == CHOOSE m \in Named(j) : \A o \in Named(j) : o <= m
    <3>1. c \in DOMAIN ms
      BY <2>2, <1>3
    <3>2. ClassInfo(own).members[j] = ms[c].type
      BY <2>2, <1>2
    <3> HIDE DEF c
    <3> QED BY <3>1, <3>2, <1>1
  <2> QED BY <2>1, <2>2
<1> QED BY <1>2, <1>4

\* Compiled data in the next state.
LEMMA DataNext ==
  ASSUME UNCHANGED host, DataInv(data')
  PROVE  DataInv(data)'
BY DEF DataInv, host, Host, hostCount, cppCount

\* CreateData cuts the classes and enums out of the list before Clear empties the compiler.
LEMMA CreateDataStep ==
  ASSUME Numbered, CreateData
  PROVE  Numbered'
<1> DEFINE count == Len(types.list)
           own == ownEnd(types)
           K == {i \in 1 .. count : ~TagAt(types, i).system /\ TagAt(types, i).kind # "function"}
           q == Entries(types.list, K)
<1>1. /\ phase = "functions" /\ phase' = "compiled" /\ Clear /\ UNCHANGED host
  BY DEF CreateData
<1>2. HostInv /\ CompilerInv /\ HostInv' /\ CompilerInv'
  BY <1>1, HostStays, ClearStep DEF Numbered
<1>3. PICK byIndex \in [{enums[n].index : n \in DOMAIN enums} -> DOMAIN enums] :
        /\ \A i \in DOMAIN byIndex : enums[byIndex[i]].index = i
        /\ data' = [types |-> [i \in 1 .. Len(types.list) |-> TagAt(types, i)],
                    infos |-> GetScriptClassInfo(types),
                    functionTypeCount |-> types.functionTypeCount,
                    enums |-> byIndex,
                    code |-> code,
                    failed |-> failed]
  BY Zenon DEF CreateData
<1>4. /\ IsTable(types) /\ Placed(types) /\ MembersInv(types) /\ TableInv(types, enums)
      /\ CodeInv(types, code)
      /\ cppCount \in Nat /\ hostCount \in Nat /\ count \in Nat /\ own \in Nat
      /\ own = count - types.functionTypeCount
      /\ types.functionTypeCount \in Nat /\ cppCount <= hostCount /\ hostCount <= own /\ own <= count
      /\ types.systemTypeCount = hostCount
  BY <1>2, HostCounted DEF CompilerInv, TableInv, IsTable, HostInv, ownEnd
<1>5. /\ data'.types = [i \in 1 .. count |-> TagAt(types, i)]
      /\ data'.infos = GetScriptClassInfo(types)
      /\ data'.functionTypeCount = types.functionTypeCount
      /\ data'.enums = byIndex /\ data'.code = code
  BY <1>3
<1>6. /\ Len(data'.types) = count /\ DOMAIN data'.types = 1 .. count
      /\ \A i \in 1 .. count : data'.types[i] = TagAt(types, i)
  BY <1>4, <1>5
<1>7. ASSUME NEW i \in 1 .. count
      PROVE  LET tag == TagAt(types, i) IN
             /\ tag.index = i - 1
             /\ tag.system <=> i <= hostCount
             /\ i <= cppCount => tag.kind = "cpp"
             /\ cppCount < i /\ i <= hostCount => tag.kind = "enum"
             /\ hostCount < i /\ i <= own => tag.kind \in {"enum", "class"}
             /\ own < i => tag.kind = "function"
  <2>1. CASE i \in 1 .. hostCount
    <3>1. TagAt(types, i) = TagAt(Host, i)
      BY <2>1, <1>4 DEF TableInv
    <3>2. /\ TagAt(Host, i).system
          /\ TagAt(Host, i).kind = IF i <= cppCount THEN "cpp" ELSE "enum"
      BY <2>1, <1>2 DEF HostInv
    <3>3. TagAt(types, i).index = i - 1
      BY <1>4 DEF Placed
    <3> QED BY <2>1, <3>1, <3>2, <3>3, <1>4
  <2>2. CASE i \in hostCount + 1 .. count
    <3>1. /\ ~TagAt(types, i).system
          /\ IF i > own THEN TagAt(types, i).kind = "function" ELSE TagAt(types, i).kind \in {"enum", "class"}
      BY <2>2, <1>4 DEF TableInv
    <3>2. TagAt(types, i).index = i - 1
      BY <1>4 DEF Placed
    <3> QED BY <2>2, <3>1, <3>2, <1>4
  <2> QED BY <2>1, <2>2, <1>4
<1>8. K = hostCount + 1 .. own
  <2>1. \A i \in 1 .. count : i \in K <=> i \in hostCount + 1 .. own
    <3> SUFFICES ASSUME NEW i \in 1 .. count
                 PROVE  i \in K <=> i \in hostCount + 1 .. own
      OBVIOUS
    <3>1. CASE i <= hostCount
      BY <3>1, <1>4, <1>7
    <3>2. CASE hostCount < i /\ i <= own
      BY <3>2, <1>4, <1>7
    <3>3. CASE own < i
      BY <3>3, <1>4, <1>7
    <3> QED BY <3>1, <3>2, <3>3, <1>4
  <2>2. hostCount + 1 .. own \subseteq 1 .. count
    BY <1>4
  <2> QED BY <2>1, <2>2
<1> HIDE DEF K, own, count
<1>9. /\ q = SubSeq(types.list, hostCount + 1, own) /\ Len(q) = own - hostCount
      /\ \A i \in 1 .. own - hostCount : q[i] = types.list[hostCount + i]
  <2>1. q = SubSeq(types.list, hostCount + 1, own)
    <3>1. hostCount + 1 \in Nat /\ own \in Nat /\ hostCount + 1 <= own + 1
      BY <1>4
    <3> QED BY <3>1, <1>8, EntriesAre
  <2> HIDE DEF q
  <2> QED BY <2>1, <1>4 DEF IsTable, count
<1>10. /\ DOMAIN data'.infos = 1 .. own - hostCount /\ Len(data'.infos) = own - hostCount
       /\ \A i \in 1 .. own - hostCount : data'.infos[i] = ClassInfo(types.tags[types.list[hostCount + i]])
  <2>1. GetScriptClassInfo(types) = [i \in 1 .. Len(q) |-> ClassInfo(types.tags[q[i]])]
    BY DEF GetScriptClassInfo, K, count
  <2> HIDE DEF q
  <2>2. data'.infos = [i \in 1 .. own - hostCount |-> ClassInfo(types.tags[q[i]])]
    BY <2>1, <1>5, <1>9
  <2>3. ASSUME NEW i \in 1 .. own - hostCount
        PROVE  data'.infos[i] = ClassInfo(types.tags[types.list[hostCount + i]])
    BY <2>2, <1>9
  <2>4. own - hostCount \in Nat
    BY <1>4
  <2> QED BY <2>2, <2>3, <2>4
<1>11. ASSUME NEW i \in DOMAIN data'.infos
       PROVE  /\ data'.infos[i].typeIndex = hostCount + i - 1
              /\ \A j \in DOMAIN data'.infos[i].members : data'.infos[i].members[j] \in Number
              /\ \A j \in DOMAIN data'.infos[i].members :
                   \/ data'.infos[i].members[j] = Unknown
                   \/ data'.infos[i].members[j].index \in 0 .. count - 1
  <2> DEFINE x == types.list[hostCount + i]
             info == ClassInfo(types.tags[x])
  <2>1. i \in 1 .. own - hostCount /\ hostCount + i \in 1 .. count /\ data'.infos[i] = info
    <3>1. i \in 1 .. own - hostCount
      BY <1>10
    <3>2. data'.infos[i] = info
      BY <3>1, <1>10
    <3>3. hostCount + i \in 1 .. count
      BY <3>1, <1>4
    <3> QED BY <3>1, <3>2, <3>3
  <2>2. x \in DOMAIN types.tags /\ types.tags[x] = TagAt(types, hostCount + i)
    BY <2>1, <1>4 DEF Placed, TagAt, count
  <2>3. types.tags[x].index = hostCount + i - 1
    BY <2>1, <2>2, <1>4, <1>7
  <2> HIDE DEF x
  <2>4. /\ info.typeIndex = types.tags[x].index
        /\ \A j \in DOMAIN info.members : info.members[j] \in Number
        /\ \A j \in DOMAIN info.members :
             info.members[j] = Unknown \/ info.members[j] = Index(0, FALSE) \/ HasType(types, info.members[j].index)
    BY <2>2, <1>4, ClassMembers
  <2> HIDE DEF info
  <2>5. \A j \in DOMAIN info.members : info.members[j] = Unknown \/ info.members[j].index \in 0 .. count - 1
    BY <2>1, <2>4, <1>4 DEF HasType, Index, count
  <2> QED BY <2>1, <2>3, <2>4, <2>5
<1>12. /\ DOMAIN data'.enums = {i \in 0 .. count - 1 : data'.types[i + 1].kind = "enum"}
       /\ \A i \in DOMAIN data'.enums : data'.enums[i] = data'.types[i + 1].name
  <2>1. /\ DOMAIN byIndex = {enums[n].index : n \in DOMAIN enums}
        /\ \A i \in DOMAIN byIndex : byIndex[i] \in DOMAIN enums /\ enums[byIndex[i]].index = i
    BY <1>3
  <2>2. /\ DOMAIN enums = {n \in DOMAIN types.tags : types.tags[n].kind = "enum"}
        /\ \A n \in DOMAIN enums : enums[n].index = types.tags[n].index
    BY <1>4 DEF TableInv, EnumsOf
  <2>3. ASSUME NEW n \in DOMAIN enums
        PROVE  /\ enums[n].index \in 0 .. count - 1
               /\ data'.types[enums[n].index + 1] = types.tags[n]
               /\ types.tags[n].name = n
    <3>1. /\ n \in DOMAIN types.tags /\ types.tags[n].name = n
          /\ enums[n].index = types.tags[n].index /\ enums[n].index \in 0 .. count - 1
          /\ types.list[enums[n].index + 1] = n
      BY <2>2, <1>4 DEF Placed, count
    <3>2. enums[n].index + 1 \in 1 .. count
      BY <3>1, <1>4
    <3> QED BY <3>1, <3>2, <1>6 DEF TagAt
  <2>4. ASSUME NEW i \in 0 .. count - 1, data'.types[i + 1].kind = "enum"
        PROVE  i \in DOMAIN byIndex
    <3> DEFINE n == types.list[i + 1]
    <3>1. i + 1 \in 1 .. count
      BY <1>4
    <3>2. /\ n \in DOMAIN types.tags /\ types.tags[n].kind = "enum" /\ types.tags[n].index = i
      <4>1. n \in DOMAIN types.tags /\ types.tags[n] = TagAt(types, i + 1)
        BY <3>1, <1>4 DEF TagAt, Placed, count
      <4>2. data'.types[i + 1] = TagAt(types, i + 1)
        BY <3>1, <1>6
      <4>3. TagAt(types, i + 1).index = (i + 1) - 1
        BY <3>1, <1>7
      <4> QED BY <2>4, <4>1, <4>2, <4>3
    <3>3. n \in DOMAIN enums /\ enums[n].index = i
      BY <3>2, <2>2
    <3> QED BY <3>3, <2>1
  <2>5. ASSUME NEW i \in DOMAIN byIndex
        PROVE  /\ i \in 0 .. count - 1 /\ data'.types[i + 1].kind = "enum"
               /\ byIndex[i] = data'.types[i + 1].name
    BY <2>1, <2>2, <2>3
  <2> QED BY <2>4, <2>5, <1>5
<1>13. ASSUME NEW a \in data'.code
       PROVE  /\ a.type \in [index : 0 .. count - 1, ref : BOOLEAN] /\ a.local \in BOOLEAN
              /\ a.do = AllocationOf(data'.types[a.type.index + 1], a.type, a.type.index - hostCount, a.local)
  <2>1. /\ a.type \in [index : 0 .. count - 1, ref : BOOLEAN] /\ a.local \in BOOLEAN
        /\ a.do = Allocation(types, a.type, a.local)
    BY <1>4, <1>5 DEF CodeInv, count
  <2>2. data'.types[a.type.index + 1] = GetType(types, a.type.index)
    <3>1. a.type.index + 1 \in 1 .. count
      BY <2>1, <1>4
    <3> QED BY <3>1, <1>6 DEF GetType
  <2> QED BY <2>1, <2>2, <1>4, Zenon DEF Allocation
<1>14. DataInv(data')
  <2>1. /\ Len(data'.types) = count /\ DOMAIN data'.types = 1 .. count /\ count \in Nat
        /\ data'.functionTypeCount \in Nat /\ count - data'.functionTypeCount = own /\ hostCount <= own
    BY <1>4, <1>5, <1>6
  <2>2. \A i \in 1 .. count : LET tag == data'.types[i] IN
             /\ tag.index = i - 1
             /\ tag.system <=> i <= hostCount
             /\ i <= cppCount => tag.kind = "cpp"
             /\ cppCount < i /\ i <= hostCount => tag.kind = "enum"
             /\ hostCount < i /\ i <= own => tag.kind \in {"enum", "class"}
             /\ own < i => tag.kind = "function"
    BY <1>6, <1>7
  <2> QED BY <2>1, <2>2, <1>10, <1>11, <1>12, <1>13 DEF DataInv
<1>15. DataInv(data)'
  BY <1>1, <1>14, DataNext
<1> QED BY <1>1, <1>2, <1>15 DEF Numbered

\* After CreateData the compiler is left alone.
LEMMA Onward ==
  ASSUME Numbered, phase \in {"compiled", "saved", "loaded"},
         phase' \in {"idle", "crashed", "saved", "loaded"},
         UNCHANGED host, UNCHANGED <<types, enums, classes, analyzed, code, data>>
  PROVE  /\ HostInv' /\ CompilerInv' /\ DataInv(data)'
         /\ FileOf(data)' = FileOf(data)
<1>1. HostInv /\ CompilerInv /\ DataInv(data)
  BY DEF Numbered
<1>2. CompilerInv'
  <2>1. /\ TableInv(types', enums') /\ MembersInv(types')
        /\ ClassesInv(types', classes', analyzed') /\ CodeInv(types', code')
        /\ types' = register.types /\ classes' = <<>>
        /\ types'.functionTypeCount = 0 /\ code' = {} /\ analyzed' = 0
    BY <1>1 DEF CompilerInv, Between
  <2> QED BY <2>1, CompilerNext
<1> QED BY <1>1, <1>2, HostStays, DataStays, FileStays

\* Of the host's types the file says by which function values are made.
LEMMA OutputCompiledDataStep ==
  ASSUME Numbered, OutputCompiledData
  PROVE  Numbered'
<1> DEFINE cpp == {i \in DOMAIN data.types : data.types[i].system /\ data.types[i].kind # "enum"}
           listed == [i \in DOMAIN data.types |->
                        [name |-> data.types[i].name, index |-> data.types[i].index,
                         alloc |-> IF i \in cpp THEN allocIndex[data.types[i].index] ELSE -1]]
<1>1. /\ phase = "compiled" /\ phase' \in {"saved", "crashed"}
      /\ UNCHANGED host /\ UNCHANGED <<types, enums, classes, analyzed, code, data>>
      /\ phase' = "saved" =>
           file' = [types |-> listed, infos |-> data.infos, functionTypeCount |-> data.functionTypeCount,
                    enums |-> data.enums, code |-> data.code]
  BY DEF OutputCompiledData
<1>2. HostInv /\ DataInv(data) /\ cppCount \in Nat
  BY <1>1, HostCounted DEF Numbered
<1>3. HostInv' /\ CompilerInv' /\ DataInv(data)' /\ FileOf(data)' = FileOf(data)
  BY <1>1, Onward
<1>4. listed = [i \in DOMAIN data.types |->
                  [name |-> data.types[i].name, index |-> i - 1,
                   alloc |-> IF i <= cppCount THEN i - 1 ELSE -1]]
  <2> SUFFICES ASSUME NEW i \in DOMAIN data.types
               PROVE  /\ data.types[i].index = i - 1
                      /\ (IF i \in cpp THEN allocIndex[data.types[i].index] ELSE -1)
                           = (IF i <= cppCount THEN i - 1 ELSE -1)
    BY Zenon
  <2>1. i \in 1 .. Len(data.types) /\ Len(data.types) \in Nat /\ hostCount \in Nat
        /\ cppCount <= hostCount
    BY <1>2, HostCounted DEF DataInv, HostInv
  <2>2. /\ data.types[i].index = i - 1
        /\ data.types[i].system <=> i <= hostCount
        /\ i <= cppCount => data.types[i].kind = "cpp"
        /\ cppCount < i /\ i <= hostCount => data.types[i].kind = "enum"
    BY <2>1, <1>2 DEF DataInv
  <2>3. i \in cpp <=> i <= cppCount
    BY <2>1, <2>2, <1>2
  <2>4. i <= cppCount => allocIndex[i - 1] = i - 1
    <3>1. allocIndex = [j \in 0 .. cppCount - 1 |-> j]
      BY <1>2 DEF HostInv
    <3> QED BY <3>1, <2>1, <1>2
  <2> QED BY <2>2, <2>3, <2>4
<1>5. phase' = "saved" => file' = FileOf(data)
  <2> HIDE DEF listed
  <2> QED BY <1>1, <1>4 DEF FileOf
<1> QED BY <1>1, <1>3, <1>5 DEF Numbered

\* The file is read, or the host goes on.
LEMMA LastSteps ==
  ASSUME Numbered, InputCompiledData \/ NextScript
  PROVE  Numbered'
<1>1. CASE NextScript
  <2>1. /\ phase \in {"compiled", "saved", "loaded"} /\ phase' = "idle"
        /\ UNCHANGED host /\ UNCHANGED <<types, enums, classes, analyzed, code, data>>
    BY <1>1 DEF NextScript, products
  <2> QED BY <2>1, Onward DEF Numbered
<1>2. CASE InputCompiledData
  <2>1. /\ phase = "saved" /\ phase' \in {"loaded", "idle"}
        /\ UNCHANGED host /\ UNCHANGED <<types, enums, classes, analyzed, code, data, file>>
        /\ phase' = "loaded" => machine' = Loaded(file)
    BY <1>2 DEF InputCompiledData
  <2>2. HostInv' /\ CompilerInv' /\ DataInv(data)' /\ FileOf(data)' = FileOf(data)
    BY <2>1, Onward
  <2>3. Loaded(file)' = Loaded(file) /\ file = FileOf(data)
    BY <2>1 DEF Loaded, Read, host, Numbered
  <2> QED BY <2>1, <2>2, <2>3 DEF Numbered
<1> QED BY <1>1, <1>2

\* SetDefaultSystemType makes the host's tables what they have to be.
LEMMA AtFirst ==
  ASSUME Init
  PROVE  IInv
<1> DEFINE n == Len(Defaults)
<1>1. /\ Defaults \in Seq(BuiltIn) /\ n \in Nat /\ BuiltIn = {Defaults[i] : i \in 1 .. n}
      /\ \A i, j \in 1 .. n : CppType[Defaults[i]] = CppType[Defaults[j]] => i = j
      /\ BuiltIn \subseteq Names
      /\ \A i \in 1 .. n : CppType[Defaults[i]] \in CppTypes /\ Defaults[i] \in BuiltIn
  BY TypesAssumption DEF BuiltIn, Names, CppTypes
<1>2. /\ calls = [i \in 1 .. n |-> CppType[Defaults[i]]]
      /\ typeIndexMap = [T \in {CppType[x] : x \in BuiltIn} |->
                           (CHOOSE i \in 1 .. n : CppType[Defaults[i]] = T) - 1]
      /\ allocIndex = [i \in 0 .. n - 1 |-> i]
      /\ Host = [list |-> Defaults,
                 tags |-> [x \in BuiltIn |->
                             Tag(x, "cpp", (CHOOSE i \in 1 .. n : Defaults[i] = x) - 1, TRUE)],
                 systemTypeCount |-> n, functionTypeCount |-> 0]
      /\ register = [types |-> Host, enums |-> <<>>]
      /\ phase = "host" /\ types = EmptyTable /\ classes = <<>> /\ analyzed = 0 /\ code = {}
  BY DEF Init, Host
<1>3. /\ calls \in Seq(CppTypes) /\ cppCount = n /\ hostCount = n
      /\ \A i \in 1 .. n : calls[i] = CppType[Defaults[i]]
  BY <1>1, <1>2 DEF cppCount, hostCount
<1> HIDE DEF n
<1>4. /\ DOMAIN typeIndexMap = {calls[i] : i \in 1 .. n}
      /\ \A i \in 1 .. n : typeIndexMap[calls[i]] = i - 1
  <2>1. DOMAIN typeIndexMap = {calls[i] : i \in 1 .. n}
    <3>1. DOMAIN typeIndexMap = {CppType[x] : x \in BuiltIn}
      BY <1>2
    <3>2. \A T \in DOMAIN typeIndexMap : \E i \in 1 .. n : T = calls[i]
      BY <3>1, <1>1, <1>3
    <3>3. \A i \in 1 .. n : calls[i] \in DOMAIN typeIndexMap
      BY <3>1, <1>1, <1>3
    <3> QED BY <3>2, <3>3
  <2>2. ASSUME NEW i \in 1 .. n
        PROVE  typeIndexMap[calls[i]] = i - 1
    <3>1. (CHOOSE j \in 1 .. n : CppType[Defaults[j]] = CppType[Defaults[i]]) = i
      BY <1>1
    <3>2. calls[i] = CppType[Defaults[i]] /\ calls[i] \in DOMAIN typeIndexMap
      BY <2>1, <1>3
    <3> QED BY <3>1, <3>2, <1>2
  <2> QED BY <2>1, <2>2
<1>5. /\ Host.list = Defaults /\ DOMAIN Host.tags = BuiltIn
      /\ Host.systemTypeCount = n /\ Host.functionTypeCount = 0
      /\ Host.tags = [x \in BuiltIn |-> Host.tags[x]]
      /\ Host \in [list : Seq(Names), tags : {Host.tags}, systemTypeCount : Nat, functionTypeCount : Nat]
      /\ \A x \in BuiltIn :
           Host.tags[x] = Tag(x, "cpp", (CHOOSE i \in 1 .. n : Defaults[i] = x) - 1, TRUE)
  <2>1. Defaults \in Seq(Names)
    BY <1>1
  <2> DEFINE tags == [x \in BuiltIn |-> Tag(x, "cpp", (CHOOSE i \in 1 .. n : Defaults[i] = x) - 1, TRUE)]
  <2>2. Host = [list |-> Defaults, tags |-> tags, systemTypeCount |-> n, functionTypeCount |-> 0]
    BY <1>2
  <2>3. /\ DOMAIN tags = BuiltIn /\ tags = [x \in BuiltIn |-> tags[x]]
        /\ \A x \in BuiltIn : tags[x] = Tag(x, "cpp", (CHOOSE i \in 1 .. n : Defaults[i] = x) - 1, TRUE)
    OBVIOUS
  <2> HIDE DEF tags
  <2> QED BY <2>1, <2>2, <2>3, <1>1
<1>6. ASSUME NEW i \in 1 .. n
      PROVE  LET tag == Host.tags[Defaults[i]] IN
             /\ IsTag(tag) /\ tag.name = Defaults[i] /\ tag.kind = "cpp" /\ tag.index = i - 1
             /\ tag.system /\ tag.members = <<>>
  <2> DEFINE tag == Host.tags[Defaults[i]]
  <2>1. (CHOOSE j \in 1 .. n : Defaults[j] = Defaults[i]) = i
    BY <1>1
  <2>2. Defaults[i] \in BuiltIn /\ Defaults[i] \in Names
    BY <1>1
  <2>3. tag = Tag(Defaults[i], "cpp", i - 1, TRUE)
    BY <2>1, <2>2, <1>5
  <2>4. tag = [name |-> Defaults[i], kind |-> "cpp", index |-> i - 1, system |-> TRUE, members |-> <<>>]
    BY <2>3 DEF Tag
  <2> HIDE DEF tag
  <2>5. <<>> \in [DOMAIN <<>> -> [index : Nat, type : Number]]
    OBVIOUS
  <2>6. IsTag(tag) /\ tag.name = Defaults[i] /\ tag.kind = "cpp" /\ tag.index = i - 1
        /\ tag.system /\ tag.members = <<>>
    BY <2>2, <2>4, <2>5 DEF IsTag, Kinds
  <2> QED BY <2>6 DEF tag
<1>7. \A x \in BuiltIn : \E i \in 1 .. n : x = Defaults[i]
  BY <1>1
<1>8. IsTable(Host)
  <2>1. \A i \in 1 .. n : IsTag(Host.tags[Defaults[i]])
    BY <1>6
  <2>2. \A x \in BuiltIn : IsTag(Host.tags[x])
    BY <2>1, <1>7
  <2> QED BY <2>2, <1>5 DEF IsTable
<1>9. Placed(Host)
  <2>1. ASSUME NEW i \in 1 .. Len(Host.list)
        PROVE  Host.list[i] \in DOMAIN Host.tags /\ TagAt(Host, i).index = i - 1
    BY <1>1, <1>5, <1>6 DEF TagAt, n
  <2>2. ASSUME NEW x \in DOMAIN Host.tags
        PROVE  /\ Host.tags[x].name = x
               /\ Host.tags[x].index \in 0 .. Len(Host.list) - 1
               /\ Host.list[Host.tags[x].index + 1] = x
    <3>1. PICK i \in 1 .. n : x = Defaults[i]
      BY <1>5, <1>7
    <3>2. Host.tags[x].name = x /\ Host.tags[x].index = i - 1
      BY <3>1, <1>6
    <3>3. Len(Host.list) = n /\ Host.list[i] = x /\ (i - 1) + 1 = i
      BY <3>1, <1>1, <1>5 DEF n
    <3> QED BY <3>1, <3>2, <3>3, <1>1
  <2> QED BY <2>1, <2>2 DEF Placed
<1>10. EnumsOf(Host) = <<>>
  <2>1. {y \in DOMAIN Host.tags : Host.tags[y].kind = "enum"} = {}
    <3>1. \A i \in 1 .. n : Host.tags[Defaults[i]].kind = "cpp"
      BY <1>6
    <3> QED BY <3>1, <1>5, <1>7
  <2>2. EnumsOf(Host) = [x \in {} |-> [index |-> Host.tags[x].index, system |-> Host.tags[x].system]]
    BY <2>1 DEF EnumsOf
  <2> QED BY <2>2
<1>11. ASSUME NEW i \in 1 .. n
       PROVE  LET tag == TagAt(Host, i) IN
              tag.system /\ tag.members = <<>> /\ tag.kind = IF i <= cppCount THEN "cpp" ELSE "enum"
  <2>1. TagAt(Host, i) = Host.tags[Defaults[i]]
    BY <1>5 DEF TagAt
  <2> QED BY <2>1, <1>1, <1>3, <1>6
<1>12. HostInv
  <2>1. calls \in Seq(CppTypes) /\ cppCount <= hostCount
    BY <1>1, <1>3 DEF n
  <2>2. /\ DOMAIN typeIndexMap = {calls[i] : i \in 1 .. cppCount}
        /\ \A i \in 1 .. cppCount : typeIndexMap[calls[i]] = i - 1
        /\ allocIndex = [i \in 0 .. cppCount - 1 |-> i]
    BY <1>2, <1>3, <1>4 DEF n
  <2>3. register = [types |-> Host, enums |-> EnumsOf(Host)]
    BY <1>2, <1>10
  <2>4. Host.systemTypeCount = hostCount /\ Host.functionTypeCount = 0
    BY <1>3, <1>5
  <2>5. \A i \in 1 .. hostCount : LET tag == TagAt(Host, i) IN
          tag.system /\ tag.members = <<>> /\ tag.kind = IF i <= cppCount THEN "cpp" ELSE "enum"
    BY <1>3, <1>11
  <2> QED BY <2>1, <2>2, <2>3, <2>4, <2>5, <1>8, <1>9 DEF HostInv
<1> QED BY <1>2, <1>12 DEF IInv, Numbered

\* What has been registered twice stays so.
LEMMA OnceOrderly ==
  ASSUME [Next]_vars, orderly'
  PROVE  orderly
BY DEF Next, vars, RegistSystemType, RegistSystemEnumType, RegistDefaultSystems, Compile, RegistEnumType,
       ParseError, Parsed, RegistScriptType, DeclareValue, NoGlobals, AnalyzeScriptType, MembersKnown,
       CreateFunctionType, CreateData, OutputCompiledData, InputCompiledData, NextScript

\* The tables are in these four parts, in the compiler, its data, the file and the machine.
THEOREM Inductive == Spec => []IInv
<1>1. Init => IInv
  BY AtFirst
<1>2. IInv /\ [Next]_vars => IInv'
  <2> SUFFICES ASSUME IInv, [Next]_vars, orderly'
               PROVE  Numbered'
    BY DEF IInv
  <2>1. Numbered
    BY OnceOrderly DEF IInv
  <2>2. CASE \E n \in HostTypes : RegistSystemType(n)
    BY <2>1, <2>2, RegistSystemTypeStep
  <2>3. CASE \E n \in HostEnums : RegistSystemEnumType(n)
    BY <2>1, <2>3, RegistSystemEnumTypeStep
  <2>4. CASE RegistDefaultSystems \/ Compile \/ ParseError
    BY <2>1, <2>4, HostSteps
  <2>5. CASE \E n \in ScriptEnums : RegistEnumType(n)
    BY <2>1, <2>5, RegistEnumTypeStep
  <2>6. CASE Parsed \/ NoGlobals \/ MembersKnown
    BY <2>1, <2>6, Passes
  <2>7. CASE \E n \in ScriptClasses : RegistScriptType(n)
    BY <2>1, <2>7, RegistScriptTypeStep
  <2>8. CASE \E n \in Names, ref, local \in BOOLEAN : DeclareValue(n, ref, local)
    BY <2>1, <2>8, DeclareValueStep
  <2>9. CASE \E b \in Bodies : AnalyzeScriptType(b)
    BY <2>1, <2>9, AnalyzeScriptTypeStep
  <2>10. CASE \E n \in FunctionTypes : CreateFunctionType(n)
    BY <2>1, <2>10, CreateFunctionTypeStep
  <2>11. CASE CreateData
    BY <2>1, <2>11, CreateDataStep
  <2>12. CASE OutputCompiledData
    BY <2>1, <2>12, OutputCompiledDataStep
  <2>13. CASE InputCompiledData \/ NextScript
    BY <2>1, <2>13, LastSteps
  <2>14. CASE UNCHANGED vars
    BY <2>1, <2>14, NothingNew
  <2> QED BY <2>2, <2>3, <2>4, <2>5, <2>6, <2>7, <2>8, <2>9, <2>10, <2>11, <2>12, <2>13, <2>14 DEF Next
<1> QED BY <1>1, <1>2, PTL DEF Spec

-----------------------------------------------------------------------------
\* What the machine's tables are, in terms of the data they come from.
LEMMA MachineIs ==
  ASSUME Numbered, phase = "loaded"
  PROVE  /\ machine.infos = data.infos /\ machine.enums = data.enums /\ machine.code = data.code
         /\ machine.systemTypeCount = hostCount
         /\ DOMAIN machine.types = DOMAIN data.types
         /\ \A i \in DOMAIN data.types :
              /\ machine.types[i].index = i - 1
              /\ machine.types[i].alloc = IF i <= cppCount THEN calls[i] ELSE "null"
              /\ machine.types[i].system <=> i - 1 \notin {data.infos[k].typeIndex : k \in DOMAIN data.infos}
              /\ machine.types[i].enum <=> i - 1 \in DOMAIN data.enums
<1>1. machine = Loaded(file) /\ file = FileOf(data) /\ DataInv(data)
  BY DEF Numbered
<1>2. /\ file.infos = data.infos /\ file.enums = data.enums /\ file.code = data.code
      /\ file.functionTypeCount = data.functionTypeCount
      /\ file.types = [i \in DOMAIN data.types |->
           [name |-> data.types[i].name, index |-> i - 1, alloc |-> IF i <= cppCount THEN i - 1 ELSE -1]]
  BY <1>1 DEF FileOf
<1>3. /\ Len(data.types) \in Nat /\ DOMAIN data.types = 1 .. Len(data.types)
      /\ Len(data.infos) = Len(data.types) - data.functionTypeCount - hostCount
      /\ data.functionTypeCount \in Nat
  BY <1>1 DEF DataInv
<1>4. hostCount \in Nat /\ cppCount \in Nat
  BY HostCounted DEF Numbered
<1>5. /\ DOMAIN file.types = DOMAIN data.types /\ Len(file.types) = Len(data.types)
      /\ \A i \in DOMAIN data.types :
           file.types[i].index = i - 1 /\ file.types[i].alloc = IF i <= cppCount THEN i - 1 ELSE -1
  BY <1>2, <1>3
<1> DEFINE classed == {file.infos[k].typeIndex : k \in DOMAIN file.infos}
           listed == [i \in DOMAIN file.types |->
                        [name |-> file.types[i].name, index |-> file.types[i].index,
                         alloc |-> IF file.types[i].alloc \in 0 .. Len(calls) - 1
                                   THEN calls[file.types[i].alloc + 1] ELSE "null",
                         system |-> i - 1 \notin classed,
                         enum |-> i - 1 \in DOMAIN file.enums]]
<1>6. machine = [types |-> listed, infos |-> file.infos, enums |-> file.enums,
                 systemTypeCount |-> Len(file.types) - Len(file.infos) - file.functionTypeCount,
                 code |-> file.code]
  BY <1>1 DEF Loaded, Read
<1>7. /\ DOMAIN listed = DOMAIN file.types
      /\ \A i \in DOMAIN file.types :
           /\ listed[i].index = file.types[i].index
           /\ listed[i].alloc = IF file.types[i].alloc \in 0 .. Len(calls) - 1
                                THEN calls[file.types[i].alloc + 1] ELSE "null"
           /\ listed[i].system = (i - 1 \notin classed)
           /\ listed[i].enum = (i - 1 \in DOMAIN file.enums)
  BY Zenon
<1> HIDE DEF listed
<1>8. ASSUME NEW i \in DOMAIN data.types
      PROVE  /\ listed[i].index = i - 1
             /\ listed[i].alloc = IF i <= cppCount THEN calls[i] ELSE "null"
  <2>1. /\ listed[i].index = file.types[i].index
        /\ listed[i].alloc = IF file.types[i].alloc \in 0 .. cppCount - 1
                             THEN calls[file.types[i].alloc + 1] ELSE "null"
    BY <1>5, <1>7 DEF cppCount
  <2>2. file.types[i].index = i - 1 /\ file.types[i].alloc = IF i <= cppCount THEN i - 1 ELSE -1
    BY <1>5
  <2>3. i \in 1 .. Len(data.types)
    BY <1>3
  <2> QED BY <2>1, <2>2, <2>3, <1>3, <1>4
<1>9. ASSUME NEW i \in DOMAIN data.types
      PROVE  /\ listed[i].system <=> i - 1 \notin {data.infos[k].typeIndex : k \in DOMAIN data.infos}
             /\ listed[i].enum <=> i - 1 \in DOMAIN data.enums
  <2>1. listed[i].system = (i - 1 \notin classed) /\ listed[i].enum = (i - 1 \in DOMAIN file.enums)
    BY <1>5, <1>7
  <2>2. classed = {data.infos[k].typeIndex : k \in DOMAIN data.infos}
    BY <1>2
  <2> QED BY <2>1, <2>2, <1>2, Zenon
<1>10. machine.types = listed
  BY <1>6
<1>11. machine.systemTypeCount = hostCount
  <2>1. machine.systemTypeCount = Len(file.types) - Len(file.infos) - file.functionTypeCount
    BY <1>6
  <2>2. Len(file.infos) = Len(data.infos)
    BY <1>2
  <2> QED BY <2>1, <2>2, <1>2, <1>3, <1>4, <1>5
<1> QED BY <1>2, <1>5, <1>6, <1>7, <1>8, <1>9, <1>10, <1>11

\* The kind of a type is decided by its place.
LEMMA Kinded ==
  ASSUME Numbered, phase = "loaded", NEW i \in DOMAIN data.types
  PROVE  /\ i \in Nat /\ i >= 1 /\ i <= Len(data.types) /\ data.types[i].index = i - 1
         /\ data.types[i].kind = "cpp" <=> i <= cppCount
         /\ data.types[i].kind = "enum" <=> i - 1 \in DOMAIN data.enums
         /\ data.types[i].kind = "function" <=> Len(data.types) - data.functionTypeCount < i
         /\ data.types[i].system <=> i <= hostCount
         /\ data.types[i].kind = "class" =>
              /\ ~data.types[i].system /\ i - hostCount \in DOMAIN data.infos
              /\ data.infos[i - hostCount].typeIndex = i - 1
         /\ data.types[i].kind \in Kinds
         /\ i <= cppCount => calls[i] # "null" /\ typeIndexMap[calls[i]] = i - 1
<1> DEFINE count == Len(data.types)
           own == count - data.functionTypeCount
           tag == data.types[i]
<1>1. HostInv /\ DataInv(data)
  BY DEF Numbered
<1>2. /\ count \in Nat /\ own \in Int /\ hostCount <= own /\ own <= count /\ i \in 1 .. count
      /\ cppCount \in Nat /\ hostCount \in Nat /\ cppCount <= hostCount
  BY <1>1, HostCounted DEF DataInv, HostInv
<1>3. /\ tag.index = i - 1
      /\ tag.system <=> i <= hostCount
      /\ i <= cppCount => tag.kind = "cpp"
      /\ cppCount < i /\ i <= hostCount => tag.kind = "enum"
      /\ hostCount < i /\ i <= own => tag.kind \in {"enum", "class"}
      /\ own < i => tag.kind = "function"
  BY <1>1, <1>2 DEF DataInv
<1>4. /\ DOMAIN data.infos = 1 .. own - hostCount
      /\ \A k \in DOMAIN data.infos : data.infos[k].typeIndex = hostCount + k - 1
      /\ DOMAIN data.enums = {k \in 0 .. count - 1 : data.types[k + 1].kind = "enum"}
  BY <1>1 DEF DataInv
<1>5. tag.kind = "enum" <=> i - 1 \in DOMAIN data.enums
  <2>1. i - 1 \in 0 .. count - 1 /\ (i - 1) + 1 = i
    BY <1>2
  <2> QED BY <2>1, <1>4
<1>6. i <= cppCount => calls[i] # "null" /\ typeIndexMap[calls[i]] = i - 1
  <2>1. i <= cppCount => i \in 1 .. cppCount
    BY <1>2
  <2>2. i <= cppCount => calls[i] \in CppTypes
    BY <2>1, <1>1 DEF HostInv, cppCount
  <2> QED BY <2>1, <2>2, <1>1, TypesAssumption DEF HostInv
<1>7. tag.kind = "class" => hostCount < i /\ i <= own
  BY <1>2, <1>3
<1>8. tag.kind = "class" => /\ ~tag.system /\ i - hostCount \in DOMAIN data.infos
                           /\ data.infos[i - hostCount].typeIndex = i - 1
  <2> SUFFICES ASSUME tag.kind = "class"
               PROVE  /\ ~tag.system /\ i - hostCount \in DOMAIN data.infos
                      /\ data.infos[i - hostCount].typeIndex = i - 1
    OBVIOUS
  <2>1. i - hostCount \in 1 .. own - hostCount /\ ~tag.system
    BY <1>2, <1>3, <1>7
  <2>2. data.infos[i - hostCount].typeIndex = hostCount + (i - hostCount) - 1
    BY <2>1, <1>4
  <2> QED BY <2>1, <2>2, <1>2, <1>4
<1>9. /\ tag.kind \in Kinds
      /\ tag.kind = "cpp" <=> i <= cppCount
      /\ tag.kind = "function" <=> own < i
  BY <1>2, <1>3 DEF Kinds
<1> QED BY <1>2, <1>3, <1>5, <1>6, <1>8, <1>9

\* There is only one type of a number.
LEMMA LookedUp ==
  ASSUME Numbered, phase = "loaded", NEW index, index + 1 \in DOMAIN data.types, index \in Nat
  PROVE  PushFunction(machine, index) = machine.types[index + 1].alloc
<1>1. {i \in DOMAIN machine.types : machine.types[i].index = index} = {index + 1}
  <2>1. ASSUME NEW i \in DOMAIN machine.types
        PROVE  machine.types[i].index = index <=> i = index + 1
    <3>1. i \in DOMAIN data.types /\ machine.types[i].index = i - 1
      BY MachineIs
    <3>2. i \in Nat
      BY <3>1, Kinded
    <3> QED BY <3>1, <3>2
  <2> QED BY <2>1, MachineIs
<1>2. (CHOOSE i \in {index + 1} : \A j \in {index + 1} : j <= i) = index + 1
  OBVIOUS
<1> QED BY <1>1, <1>2, Zenon DEF PushFunction

\* A table in four parts has its types in their places.
LEMMA NumbersArePlaces ==
  ASSUME IInv
  PROVE  NumberIsPlace
<1> SUFFICES ASSUME Numbered, NEW t \in {register.types, types}
             PROVE  /\ \A i \in DOMAIN t.list : TagAt(t, i).index = i - 1
                    /\ \A n \in DOMAIN t.tags : \E i \in DOMAIN t.list : t.list[i] = n
  BY DEF IInv, NumberIsPlace
<1>1. CASE t = EmptyTable
  BY <1>1 DEF EmptyTable
<1>2. CASE t # EmptyTable
  <2>1. IsTable(t) /\ Placed(t)
    <3>1. CASE t = register.types
      BY <3>1 DEF Numbered, HostInv, Host
    <3>2. CASE t = types
      BY <3>2, <1>2 DEF Numbered, CompilerInv, TableInv
    <3> QED BY <3>1, <3>2
  <2>2. DOMAIN t.list = 1 .. Len(t.list) /\ Len(t.list) \in Nat
    BY <2>1 DEF IsTable
  <2>3. \A n \in DOMAIN t.tags : t.tags[n].index + 1 \in DOMAIN t.list /\ t.list[t.tags[n].index + 1] = n
    BY <2>1, <2>2 DEF Placed
  <2> QED BY <2>1, <2>2, <2>3 DEF Placed
<1> QED BY <1>1, <1>2

\* Whatever the host registers, and whatever scripts are compiled or fail to be parsed, the number
\* of a type is its place in list_types, in the host's register and in the compiler.
THEOREM Numbers == Spec => []NumberIsPlace
BY Inductive, NumbersArePlaces, PTL

\* Between two scripts the enum table follows from the type table.
LEMMA AllOfTheHost ==
  ASSUME IInv
  PROVE  NothingOfScriptsLeft
<1> SUFFICES ASSUME Numbered, phase \in {"idle", "compiled", "saved", "loaded"}
             PROVE  types = register.types /\ enums = register.enums
  BY DEF IInv, NothingOfScriptsLeft
<1>1. types = register.types /\ enums = EnumsOf(types)
  BY DEF Numbered, CompilerInv, Between, TableInv
<1>2. register.enums = EnumsOf(register.types)
  BY DEF Numbered, HostInv, Host
<1> QED BY <1>1, <1>2

\* After Compile, however it ended, the compiler knows exactly the types and enums of the host.
THEOREM Forgets == Spec => []NothingOfScriptsLeft
BY Inductive, AllOfTheHost, PTL

\* One allocation instruction, by the kind of its type.
LEMMA OneAllocated ==
  ASSUME Numbered, phase = "loaded", NEW a \in machine.code, Referable(a)
  PROVE  Pushed(machine, a.do) = Declared(a.type)
<1> DEFINE v == a.type
           i == v.index + 1
           tag == data.types[i]
           do == AllocationOf(tag, v, v.index - hostCount, a.local)
<1>1. /\ v \in [index : 0 .. Len(data.types) - 1, ref : BOOLEAN] /\ a.local \in BOOLEAN
      /\ a.do = do /\ DOMAIN data.types = 1 .. Len(data.types) /\ Len(data.types) \in Nat
  BY MachineIs DEF Numbered, DataInv
<1>2. /\ i \in DOMAIN data.types /\ v.index \in Nat /\ i - 1 = v.index
      /\ v = Index(v.index, v.ref) /\ v.ref \in BOOLEAN
  BY <1>1 DEF Index
<1>3. hostCount \in Nat /\ cppCount \in Nat /\ cppCount <= hostCount
  BY HostCounted DEF Numbered, HostInv
<1>4. Declared(v) = [type |-> v, as |-> IF v.ref /\ tag.kind # "class" THEN "cpp" ELSE tag.kind]
  BY DEF Declared
<1>5. tag.kind \in Kinds /\ (v.ref => tag.kind = "cpp" \/ (tag.kind = "class" /\ ~a.local))
  BY <1>2, Kinded DEF Referable
<1>6. CASE tag.kind = "cpp"
  <2>1. i <= cppCount /\ tag.system /\ calls[i] # "null" /\ typeIndexMap[calls[i]] = v.index
    BY <1>2, <1>3, <1>6, Kinded
  <2>2. PushFunction(machine, v.index) = calls[i]
    <3>1. machine.types[i].alloc = calls[i]
      BY <1>2, <2>1, MachineIs
    <3> QED BY <3>1, <1>2, LookedUp
  <2>3. do.arg = v /\ do.op = IF v.ref THEN "ref" ELSE "value"
    BY <1>2, <1>6, <2>1 DEF AllocationOf
  <2> HIDE DEF do
  <2>4. Pushed(machine, do) = [type |-> Index(typeIndexMap[calls[i]], do.op # "value"), as |-> "cpp"]
    BY <2>1, <2>2, <2>3 DEF Pushed
  <2>5. (do.op # "value") = v.ref
    BY <2>3, <1>2
  <2> QED BY <2>1, <2>4, <2>5, <1>1, <1>2, <1>4, <1>6
<1>7. CASE tag.kind = "class"
  <2>1. ~tag.system /\ i - hostCount \in DOMAIN data.infos /\ data.infos[i - hostCount].typeIndex = v.index
    BY <1>2, <1>7, Kinded
  <2>2. do.arg = Index(v.index - hostCount, FALSE) /\ do.op = IF v.ref THEN "refClass" ELSE "class"
    <3>1. CASE v.ref
      <4>1. a.local = FALSE
        BY <3>1, <1>1, <1>5, <1>7
      <4> QED BY <3>1, <4>1, <1>7, <2>1 DEF AllocationOf
    <3>2. CASE ~v.ref
      BY <3>2, <1>7, <2>1 DEF AllocationOf
    <3> QED BY <3>1, <3>2
  <2> HIDE DEF do
  <2>3. do.arg.index = v.index - hostCount /\ do.arg.ref = FALSE /\ do.arg.index + 1 = i - hostCount
    BY <2>2, <1>2, <1>3 DEF Index
  <2>4. machine.infos = data.infos
    BY MachineIs
  <2>5. {k \in DOMAIN machine.infos : do.arg.index + 1 = k /\ ~do.arg.ref} # {}
    BY <2>1, <2>3, <2>4
  <2>6. Pushed(machine, do) = [type |-> Index(machine.infos[do.arg.index + 1].typeIndex, do.op = "refClass"),
                               as |-> "class"]
    BY <2>2, <2>5 DEF Pushed
  <2>7. (do.op = "refClass") = v.ref
    BY <2>2, <1>2
  <2> QED BY <2>1, <2>3, <2>4, <2>6, <2>7, <1>1, <1>2, <1>4, <1>7
<1>8. CASE tag.kind = "enum"
  <2>1. v.index \in DOMAIN data.enums /\ ~v.ref
    BY <1>2, <1>5, <1>8, Kinded
  <2>2. do.arg = v /\ do.op = "enum"
    BY <1>8, <2>1 DEF AllocationOf
  <2> HIDE DEF do
  <2>3. machine.enums = data.enums
    BY MachineIs
  <2>4. Pushed(machine, do) = [type |-> v, as |-> "enum"]
    BY <2>1, <2>2, <2>3 DEF Pushed
  <2> QED BY <2>1, <2>4, <1>1, <1>4, <1>8
<1>9. CASE tag.kind = "function"
  <2>1. ~tag.system /\ ~v.ref
    <3>1. /\ Len(data.types) - data.functionTypeCount < i
          /\ tag.system <=> i <= hostCount
      BY <1>2, <1>9, Kinded
    <3>2. hostCount <= Len(data.types) - data.functionTypeCount /\ data.functionTypeCount \in Nat
      BY DEF Numbered, DataInv
    <3> QED BY <3>1, <3>2, <1>1, <1>2, <1>3, <1>5, <1>9
  <2>2. do.arg = v /\ do.op = "function"
    BY <1>9, <2>1 DEF AllocationOf
  <2> HIDE DEF do
  <2>3. Pushed(machine, do) = [type |-> v, as |-> "function"]
    BY <2>2 DEF Pushed
  <2> QED BY <2>1, <2>3, <1>1, <1>4, <1>9
<1> QED BY <1>5, <1>6, <1>7, <1>8, <1>9 DEF Kinds

\* An allocation instruction makes, in the machine that has loaded the file, a value of the type
\* the script has declared, whatever types stand in between.
THEOREM Allocates == Spec => []AllocatedAsDeclared
<1>1. IInv => AllocatedAsDeclared
  BY OneAllocated DEF IInv, AllocatedAsDeclared
<1> QED BY <1>1, Inductive, PTL

\* What the file does not say of a type follows from which part its number lies in.
LEMMA TypesFoundOut ==
  ASSUME Numbered, phase = "loaded", NEW i \in DOMAIN data.types
  PROVE  LET old == data.types[i]
             new == machine.types[i]
         IN  /\ new.system <=> old.system \/ old.kind = "function"
             /\ new.enum <=> old.kind = "enum"
             /\ new.alloc # "null" <=> old.kind = "cpp"
             /\ old.kind = "cpp" => typeIndexMap[new.alloc] = old.index
<1> DEFINE old == data.types[i]
           new == machine.types[i]
           own == Len(data.types) - data.functionTypeCount
<1>1. /\ new.alloc = IF i <= cppCount THEN calls[i] ELSE "null"
      /\ new.system <=> i - 1 \notin {data.infos[k].typeIndex : k \in DOMAIN data.infos}
      /\ new.enum <=> i - 1 \in DOMAIN data.enums
  BY MachineIs
<1>2. /\ i \in Nat /\ i >= 1 /\ i <= Len(data.types) /\ old.index = i - 1
      /\ old.kind = "cpp" <=> i <= cppCount
      /\ old.kind = "enum" <=> i - 1 \in DOMAIN data.enums
      /\ old.kind = "function" <=> own < i
      /\ old.system <=> i <= hostCount
      /\ i <= cppCount => calls[i] # "null" /\ typeIndexMap[calls[i]] = i - 1
  BY Kinded
<1>3. /\ hostCount \in Nat /\ own \in Int
      /\ DOMAIN data.infos = 1 .. own - hostCount
      /\ \A k \in DOMAIN data.infos : data.infos[k].typeIndex = hostCount + k - 1
  BY HostCounted DEF Numbered, DataInv
<1> HIDE DEF own, old, new
<1>4. i - 1 \in {data.infos[k].typeIndex : k \in DOMAIN data.infos} <=> hostCount < i /\ i <= own
  <2>1. ASSUME NEW k \in DOMAIN data.infos, data.infos[k].typeIndex = i - 1
        PROVE  hostCount < i /\ i <= own
    BY <2>1, <1>2, <1>3
  <2>2. ASSUME hostCount < i, i <= own
        PROVE  i - hostCount \in DOMAIN data.infos /\ data.infos[i - hostCount].typeIndex = i - 1
    <3>1. i - hostCount \in DOMAIN data.infos
      BY <2>2, <1>2, <1>3
    <3>2. data.infos[i - hostCount].typeIndex = hostCount + (i - hostCount) - 1
      BY <3>1, <1>3
    <3> QED BY <3>1, <3>2, <1>2, <1>3
  <2> QED BY <2>1, <2>2
<1>5. new.system <=> old.system \/ old.kind = "function"
  BY <1>1, <1>2, <1>3, <1>4
<1>6. /\ new.alloc # "null" <=> old.kind = "cpp"
      /\ old.kind = "cpp" => typeIndexMap[new.alloc] = old.index
  BY <1>1, <1>2
<1>7. new.enum <=> old.kind = "enum"
  BY <1>1, <1>2
<1> QED BY <1>5, <1>6, <1>7 DEF old, new

\* And so do the enums, and how many types are the host's.
LEMMA FoundOut ==
  ASSUME IInv
  PROVE  LoadedAsCompiled
<1> SUFFICES ASSUME Numbered, phase = "loaded"
             PROVE  /\ machine.systemTypeCount = register.types.systemTypeCount
                    /\ \A i \in DOMAIN machine.enums : data.types[i + 1].name = machine.enums[i]
  BY TypesFoundOut DEF IInv, LoadedAsCompiled
<1>1. machine.systemTypeCount = register.types.systemTypeCount
  BY MachineIs DEF Numbered, HostInv, Host
<1>2. \A i \in DOMAIN machine.enums : data.types[i + 1].name = machine.enums[i]
  BY MachineIs DEF Numbered, DataInv
<1> QED BY <1>1, <1>2

\* InputCompiledData finds out of every type whether it is the host's, whether it is an enum and
\* how its values are made, and how many types are the host's.
THEOREM Reads == Spec => []LoadedAsCompiled
BY Inductive, FoundOut, PTL

\* One member of a class value.
LEMMA OneMade ==
  ASSUME Numbered, phase = "loaded", DOMAIN register.enums = {}, NEW v \in MembersOf({"cpp", "class"})
  PROVE  Member(machine, v.index) = Declared(v)
<1>1. machine.infos = data.infos
  BY MachineIs
<1>2. PICK k \in DOMAIN data.infos : \E j \in DOMAIN data.infos[k].members :
        /\ v = data.infos[k].members[j] /\ ~v.ref
        /\ data.types[v.index + 1].kind \in {"cpp", "class"}
  BY <1>1 DEF MembersOf
<1>3. /\ v \in Number /\ v.index \in 0 .. Len(data.types) - 1
      /\ DOMAIN data.types = 1 .. Len(data.types) /\ Len(data.types) \in Nat
  BY <1>2 DEF Numbered, DataInv, Unknown, Index
<1> DEFINE i == v.index + 1
           tag == data.types[i]
<1>4. /\ i \in DOMAIN data.types /\ v.index \in Nat /\ i - 1 = v.index
      /\ v = Index(v.index, FALSE) /\ v.ref = FALSE
  <2>1. v.ref = FALSE /\ v.index \in Nat /\ v.index + 1 \in 1 .. Len(data.types) /\ (v.index + 1) - 1 = v.index
    <3>1. ~v.ref
      BY <1>2
    <3>2. v.ref \in BOOLEAN
      BY <1>3 DEF Number
    <3>3. v.ref = FALSE
      BY <3>1, <3>2
    <3>4. v.index \in Nat /\ v.index + 1 \in 1 .. Len(data.types) /\ (v.index + 1) - 1 = v.index
      BY <1>3
    <3> QED BY <3>3, <3>4
  <2>2. v = [index |-> v.index, ref |-> FALSE]
    BY <2>1, <1>3 DEF Number
  <2> QED BY <2>1, <2>2, <1>3 DEF Index
<1>5. hostCount \in Nat /\ cppCount = hostCount
  BY HostCounted DEF Numbered
<1>6. Declared(v) = [type |-> v, as |-> tag.kind]
  BY <1>4 DEF Declared
<1>7. CASE tag.kind = "cpp"
  <2>1. i <= cppCount /\ typeIndexMap[calls[i]] = v.index
    BY <1>4, <1>7, Kinded
  <2>2. v.index < Len(calls)
    BY <2>1, <1>4, <1>5 DEF cppCount
  <2>3. Member(machine, v.index) = [type |-> Index(typeIndexMap[calls[i]], FALSE), as |-> "cpp"]
    BY <2>2 DEF Member
  <2> QED BY <2>1, <2>3, <1>4, <1>6, <1>7
<1>8. CASE tag.kind = "class"
  <2>1. i - hostCount \in DOMAIN data.infos /\ data.infos[i - hostCount].typeIndex = v.index
    BY <1>4, <1>8, Kinded
  <2>2. i - hostCount >= 1
    BY <2>1, <1>4, <1>5 DEF Numbered, DataInv
  <2>3. /\ ~(v.index < Len(calls)) /\ v.index - Len(calls) + 1 = i - hostCount
    BY <2>2, <1>4, <1>5 DEF cppCount
  <2>4. Member(machine, v.index) = [type |-> Index(machine.infos[i - hostCount].typeIndex, FALSE), as |-> "class"]
    BY <2>1, <2>3, <1>1 DEF Member
  <2> QED BY <2>1, <2>4, <1>1, <1>4, <1>6, <1>8
<1> QED BY <1>2, <1>7, <1>8

\* When the host has registered no enum, CreateScriptValueData makes each member of a class value
\* of the type the class declares.
THEOREM Makes == Spec => []MembersAsDeclared
<1>1. IInv => MembersAsDeclared
  BY OneMade DEF IInv, MembersAsDeclared
<1> QED BY <1>1, Inductive, PTL

-----------------------------------------------------------------------------
(* What is left of the tables when a host or a script is disorderly: names *)
(* that are registered twice, numbers that are nobody's place.             *)

IsSized(t) ==
  /\ t \in [list : Seq(DOMAIN t.tags), tags : {t.tags}, systemTypeCount : 0 .. MaxTypes,
            functionTypeCount : Nat]
  /\ t.tags = [x \in DOMAIN t.tags |-> t.tags[x]]
  /\ DOMAIN t.tags \subseteq Names
  /\ Len(t.list) <= MaxTypes
  /\ \A x \in DOMAIN t.tags :
       /\ t.tags[x] \in [name : {x}, kind : Kinds, index : 0 .. MaxTypes, system : BOOLEAN,
                         members : {t.tags[x].members}]

\* No C++ type is counted that has no function, nor one that is not in the list.
Counted ==
  /\ calls \in Seq(CppTypes) /\ Len(calls) <= MaxTypes
  /\ IsFiniteSet(DOMAIN typeIndexMap)
  /\ Cardinality(DOMAIN typeIndexMap) <= Len(calls)
  /\ Cardinality(DOMAIN typeIndexMap) <= Len(register.types.list)

Phases == {"host", "idle", "parsing", "classes", "members", "functions",
           "compiled", "saved", "loaded", "crashed"}

Sized ==
  /\ phase \in Phases
  /\ IsSized(register.types) /\ IsSized(types)
  /\ register = [types |-> register.types, enums |-> register.enums]
  /\ enums = [x \in DOMAIN enums |-> enums[x]]
  /\ register.enums = [x \in DOMAIN register.enums |-> register.enums[x]]
  /\ \A e \in {enums, register.enums} : \A x \in DOMAIN e : e[x].system \in BOOLEAN
  /\ classes \in Seq(Names) /\ analyzed \in 0 .. Len(classes)
  /\ Counted

\* Every place of a set has one number among them.
LEMMA Ranks ==
  ASSUME NEW n \in Nat, NEW K \in SUBSET (1 .. n)
  PROVE  /\ IsFiniteSet(K) /\ Cardinality(K) \in 0 .. n
         /\ \A i \in 1 .. Cardinality(K) : \E k \in K : Cardinality({j \in K : j <= k}) = i
<1>1. IsFiniteSet(1 .. n) /\ Cardinality(1 .. n) = n
  BY FS_Interval
<1>2. IsFiniteSet(K) /\ Cardinality(K) \in Nat /\ Cardinality(K) <= n
  BY <1>1, FS_Subset, FS_CardinalityType
<1> DEFINE Below(k) == {j \in K : j <= k}
           rank == [k \in K |-> Cardinality(Below(k))]
           c == Cardinality(K)
<1>3. ASSUME NEW k \in K
      PROVE  /\ IsFiniteSet(Below(k)) /\ Cardinality(Below(k)) \in 1 .. c
  <2>1. Below(k) \subseteq K /\ k \in Below(k)
    OBVIOUS
  <2>2. IsFiniteSet(Below(k)) /\ Cardinality(Below(k)) \in Nat /\ Cardinality(Below(k)) <= c
    BY <1>2, <2>1, FS_Subset, FS_CardinalityType
  <2>3. Cardinality(Below(k)) # 0
    BY <2>1, <2>2, FS_EmptySet
  <2> QED
    BY <1>2, <2>2, <2>3
<1>4. ASSUME NEW k \in K, NEW l \in K, k < l
      PROVE  Cardinality(Below(k)) < Cardinality(Below(l))
  <2>1. Below(k) \subseteq Below(l) /\ l \in Below(l) /\ l \notin Below(k)
    <3>1. K \subseteq Int /\ k \in Int /\ l \in Int
      OBVIOUS
    <3>2. ASSUME NEW j \in K, j <= k PROVE j <= l
      BY <1>4, <3>1, <3>2
    <3>3. ~(l <= k)
      BY <1>4, <3>1
    <3>4. k <= k /\ l <= l
      BY <3>1
    <3> QED
      BY <3>2, <3>3, <3>4
  <2>2. Cardinality(Below(k)) # Cardinality(Below(l))
    BY <1>3, <2>1, FS_Subset
  <2> QED
    BY <1>3, <2>1, <2>2, FS_Subset
<1>5. ASSUME NEW i \in 1 .. c, \A k \in K : Cardinality(Below(k)) # i
      PROVE  FALSE
  <2> DEFINE Others == (1 .. c) \ {i}
  <2>1. IsFiniteSet(Others) /\ Cardinality(Others) = c - 1
    <3>1. IsFiniteSet(1 .. c) /\ Cardinality(1 .. c) = c
      BY <1>2, FS_Interval
    <3> QED
      BY <1>2, <3>1, FS_RemoveElement
  <2>2. rank \in [K -> Others]
    BY <1>3, <1>5
  <2>3. Cardinality(Others) < Cardinality(K)
    BY <1>2, <2>1
  <2>4. \E k, l \in K : k # l /\ rank[k] = rank[l]
    <3> HIDE DEF rank, Others
    <3> QED
      BY <1>2, <2>1, <2>2, <2>3, FS_PigeonHole
  <2>5. PICK k, l \in K : k # l /\ rank[k] = rank[l]
    BY <2>4
  <2>6. k < l \/ l < k
    <3>1. k \in Int /\ l \in Int
      OBVIOUS
    <3> QED
      BY <2>5, <3>1
  <2>7. Cardinality(Below(k)) = Cardinality(Below(l))
    BY <2>5
  <2>8. Cardinality(Below(k)) \in Int
    BY <1>3
  <2> QED
    BY <1>4, <2>6, <2>7, <2>8
<1>6. \A i \in 1 .. c : \E k \in K : Cardinality(Below(k)) = i
  BY <1>5
<1> QED
  BY <1>2, <1>6

\* What is kept of a list is of the list.
LEMMA EntriesOf ==
  ASSUME NEW S, NEW s \in Seq(S), NEW K \in SUBSET (1 .. Len(s))
  PROVE  /\ Entries(s, K) \in Seq({s[k] : k \in K})
         /\ Len(Entries(s, K)) <= Len(s)
<1>1. /\ Len(s) \in Nat /\ Cardinality(K) \in 0 .. Len(s)
      /\ \A i \in 1 .. Cardinality(K) : \E k \in K : Cardinality({j \in K : j <= k}) = i
  <2>1. Len(s) \in Nat
    OBVIOUS
  <2> QED
    BY <2>1, Ranks
<1>2. ASSUME NEW i \in 1 .. Cardinality(K)
      PROVE  s[CHOOSE k \in K : Cardinality({j \in K : j <= k}) = i] \in {s[k] : k \in K}
  BY <1>1
<1> QED
  <2>1. /\ DOMAIN Entries(s, K) = 1 .. Cardinality(K)
        /\ \A i \in 1 .. Cardinality(K) : Entries(s, K)[i] \in {s[k] : k \in K}
    BY <1>2 DEF Entries
  <2>2. Entries(s, K) = [i \in 1 .. Cardinality(K) |-> Entries(s, K)[i]]
    BY DEF Entries
  <2> HIDE DEF Entries
  <2> QED
    BY <1>1, <2>1, <2>2

IsRecord(t) == t = [list |-> t.list, tags |-> t.tags, systemTypeCount |-> t.systemTypeCount,
                    functionTypeCount |-> t.functionTypeCount]

\* A table with three fields replaced, whatever they hold.
LEMMA FieldsReplaced ==
  ASSUME NEW t, IsRecord(t),
         NEW a, NEW b, NEW c
  PROVE  /\ [t EXCEPT !.list = a, !.tags = b, !.systemTypeCount = c]
              = [list |-> a, tags |-> b, systemTypeCount |-> c, functionTypeCount |-> t.functionTypeCount]
         /\ [t EXCEPT !.list = a, !.tags = b, !.functionTypeCount = c]
              = [list |-> a, tags |-> b, systemTypeCount |-> t.systemTypeCount, functionTypeCount |-> c]
<1> DEFINE g == t.tags
           n == t.systemTypeCount
           f == t.functionTypeCount
<1>1. [t EXCEPT !.list = a]
        = [list |-> a, tags |-> g, systemTypeCount |-> n, functionTypeCount |-> f]
  BY DEF IsRecord
<1>2. [[list |-> a, tags |-> g, systemTypeCount |-> n, functionTypeCount |-> f] EXCEPT !.tags = b]
        = [list |-> a, tags |-> b, systemTypeCount |-> n, functionTypeCount |-> f]
  OBVIOUS
<1>3. /\ [[list |-> a, tags |-> b, systemTypeCount |-> n, functionTypeCount |-> f]
            EXCEPT !.systemTypeCount = c]
           = [list |-> a, tags |-> b, systemTypeCount |-> c, functionTypeCount |-> f]
      /\ [[list |-> a, tags |-> b, systemTypeCount |-> n, functionTypeCount |-> f]
            EXCEPT !.functionTypeCount = c]
           = [list |-> a, tags |-> b, systemTypeCount |-> n, functionTypeCount |-> c]
  OBVIOUS
<1>4. /\ [t EXCEPT !.list = a, !.tags = b, !.systemTypeCount = c]
            = [[[t EXCEPT !.list = a] EXCEPT !.tags = b] EXCEPT !.systemTypeCount = c]
      /\ [t EXCEPT !.list = a, !.tags = b, !.functionTypeCount = c]
            = [[[t EXCEPT !.list = a] EXCEPT !.tags = b] EXCEPT !.functionTypeCount = c]
  BY Zenon
<1> HIDE DEF g, n, f
<1> QED BY <1>1, <1>2, <1>3, <1>4 DEF g, n, f

LEMMA SizedIsTyped ==
  ASSUME NEW t, IsSized(t)
  PROVE  IsRecord(t)
  BY DEF IsSized, IsRecord

LEMMA ClearSized ==
  ASSUME NEW t, IsSized(t)
  PROVE  IsSized(Clear_notSystem(t))
<1> DEFINE K == {i \in 1 .. Len(t.list) : TagAt(t, i).system}
           tags == [n \in {m \in DOMAIN t.tags : t.tags[m].system} |-> t.tags[n]]
           u == [list |-> Entries(t.list, K), tags |-> tags, systemTypeCount |-> t.systemTypeCount,
                 functionTypeCount |-> 0]
<1>1. Clear_notSystem(t) = u
  <2>1. IsRecord(t)
    BY SizedIsTyped
  <2> HIDE DEF K, tags
  <2>2. [t EXCEPT !.list = Entries(t.list, K), !.tags = tags, !.functionTypeCount = 0]
          = [list |-> Entries(t.list, K), tags |-> tags, systemTypeCount |-> t.systemTypeCount, functionTypeCount |-> 0]
    <3> SUFFICES ASSUME NEW v, v = [t EXCEPT !.list = Entries(t.list, K), !.tags = tags, !.functionTypeCount = 0]
                 PROVE  v = [list |-> Entries(t.list, K), tags |-> tags, systemTypeCount |-> t.systemTypeCount,
                             functionTypeCount |-> 0]
      OBVIOUS
    <3> QED
      BY <2>1, FieldsReplaced
  <2> QED
    BY <2>1, <2>2 DEF Clear_notSystem, K, tags
<1>2. t.list \in Seq(DOMAIN t.tags) /\ Len(t.list) \in Nat /\ Len(t.list) <= MaxTypes
  BY DEF IsSized
<1>3. Entries(t.list, K) \in Seq({t.list[k] : k \in K}) /\ Len(Entries(t.list, K)) <= Len(t.list)
  BY <1>2, EntriesOf
<1>4. {t.list[k] : k \in K} \subseteq DOMAIN tags
  BY <1>2 DEF TagAt
<1>5. DOMAIN tags \subseteq DOMAIN t.tags /\ tags = [x \in DOMAIN tags |-> tags[x]]
      /\ \A x \in DOMAIN tags : tags[x] = t.tags[x]
  OBVIOUS
<1> DEFINE list == Entries(t.list, K)
<1>6. list \in Seq(DOMAIN tags) /\ Len(list) \in Nat /\ Len(list) <= MaxTypes
  <2> HIDE DEF tags
  <2>1. list \in Seq(DOMAIN tags)
    BY <1>3, <1>4
  <2> QED
    BY <1>2, <1>3, <2>1, TypesAssumption
<1>7. u = [list |-> list, tags |-> tags, systemTypeCount |-> t.systemTypeCount, functionTypeCount |-> 0]
  OBVIOUS
<1> HIDE DEF tags, list, u
<1> QED
  BY <1>1, <1>5, <1>6, <1>7 DEF IsSized

LEMMA RegistSized ==
  ASSUME NEW t, IsSized(t), NEW name \in Names, NEW kind \in Kinds, NEW system \in BOOLEAN,
         NEW index \in 0 .. Len(t.list), index < MaxTypes,
         system => t.systemTypeCount < MaxTypes
  PROVE  /\ IsSized(RegistType(t, Tag(name, kind, index, system)))
         /\ Len(RegistType(t, Tag(name, kind, index, system)).list)
              = IF index = Len(t.list) THEN index + 1 ELSE Len(t.list)
<1> DEFINE tag == Tag(name, kind, index, system)
           list == Place(t.list, index, name)
           tags == Emplace(t.tags, name, tag)
           count == IF system THEN t.systemTypeCount + 1 ELSE t.systemTypeCount
           u == [list |-> list, tags |-> tags, systemTypeCount |-> count,
                 functionTypeCount |-> t.functionTypeCount]
<1>1. RegistType(t, tag) = u
  <2>1. tag.name = name /\ tag.index = index /\ tag.system = system
    BY DEF Tag
  <2>2. IsRecord(t)
    BY SizedIsTyped
  <2> HIDE DEF list, tags, count
  <2>3. [t EXCEPT !.list = list, !.tags = tags, !.systemTypeCount = count]
          = [list |-> list, tags |-> tags, systemTypeCount |-> count, functionTypeCount |-> t.functionTypeCount]
    <3> SUFFICES ASSUME NEW v, v = [t EXCEPT !.list = list, !.tags = tags, !.systemTypeCount = count]
                 PROVE  v = [list |-> list, tags |-> tags, systemTypeCount |-> count,
                             functionTypeCount |-> t.functionTypeCount]
      OBVIOUS
    <3> QED
      BY <2>2, FieldsReplaced
  <2> QED
    BY <2>1, <2>2, <2>3 DEF RegistType, list, tags, count
<1>2. t.list \in Seq(DOMAIN t.tags) /\ Len(t.list) \in Nat /\ Len(t.list) <= MaxTypes /\ MaxTypes \in Nat
  BY TypesAssumption DEF IsSized
<1>3. DOMAIN tags = DOMAIN t.tags \cup {name}
  BY DEF Emplace
<1>4. list \in Seq(DOMAIN tags) /\ Len(list) = IF index = Len(t.list) THEN index + 1 ELSE Len(t.list)
  <2>1. CASE index = Len(t.list)
    BY <2>1, <1>2, <1>3 DEF Place
  <2>2. CASE index # Len(t.list)
    <3>1. index + 1 \in 1 .. Len(t.list) /\ list = [t.list EXCEPT ![index + 1] = name]
      BY <2>2, <1>2 DEF Place
    <3> QED
      BY <2>2, <3>1, <1>2, <1>3
  <2> QED
    BY <2>1, <2>2
<1>5. /\ tags = [x \in DOMAIN tags |-> tags[x]]
      /\ \A x \in DOMAIN tags : tags[x] = IF x \in DOMAIN t.tags THEN t.tags[x] ELSE tag
  BY DEF Emplace
<1>6. tag \in [name : {name}, kind : Kinds, index : 0 .. MaxTypes, system : BOOLEAN, members : {tag.members}]
  BY <1>2 DEF Tag
<1>7. count \in 0 .. MaxTypes
  BY <1>2 DEF IsSized
<1> HIDE DEF tags, list, count, tag
<1>8. IsSized(u)
  <2>1. \A x \in DOMAIN tags :
          tags[x] \in [name : {x}, kind : Kinds, index : 0 .. MaxTypes, system : BOOLEAN, members : {tags[x].members}]
    BY <1>3, <1>5, <1>6 DEF IsSized
  <2>2. Len(list) <= MaxTypes
    BY <1>2, <1>4
  <2>3. DOMAIN tags \subseteq Names
    BY <1>3 DEF IsSized
  <2> QED
    BY <1>4, <1>5, <1>7, <2>1, <2>2, <2>3 DEF IsSized
<1> QED
  BY <1>1, <1>4, <1>8 DEF tag

\* The next place of the list is a place.
LEMMA RegistNextSized ==
  ASSUME NEW t, IsSized(t), NEW name \in Names, NEW kind \in Kinds, NEW system \in BOOLEAN,
         Len(t.list) < MaxTypes, system => t.systemTypeCount < MaxTypes
  PROVE  /\ IsSized(RegistType(t, Tag(name, kind, Len(t.list), system)))
         /\ Len(RegistType(t, Tag(name, kind, Len(t.list), system)).list) = Len(t.list) + 1
<1>1. Len(t.list) \in Nat
  BY DEF IsSized
<1>2. PICK index \in 0 .. Len(t.list) : index = Len(t.list) /\ index < MaxTypes
  BY <1>1
<1>3. /\ IsSized(RegistType(t, Tag(name, kind, index, system)))
      /\ Len(RegistType(t, Tag(name, kind, index, system)).list)
           = IF index = Len(t.list) THEN index + 1 ELSE Len(t.list)
  BY <1>2, RegistSized
<1> QED
  BY <1>2, <1>3

\* Compiler::Clear.
LEMMA ClearStays ==
  ASSUME Sized, Clear, UNCHANGED host, phase' \in Phases
  PROVE  Sized'
<1>1. IsSized(types')
  BY ClearSized DEF Sized, Clear
<1>2. /\ enums' = [x \in DOMAIN enums' |-> enums'[x]]
      /\ \A x \in DOMAIN enums' : x \in DOMAIN enums /\ enums'[x] = enums[x]
  BY DEF Clear, ClearEnums
<1>3. classes' \in Seq(Names) /\ analyzed' \in 0 .. Len(classes')
  BY DEF Clear
<1>4. Counted' /\ register' = register
  BY DEF Sized, Counted, host
<1>5. \A x \in DOMAIN enums' : enums'[x].system \in BOOLEAN
  BY <1>2 DEF Sized
<1> QED
  BY <1>1, <1>2, <1>3, <1>4, <1>5 DEF Sized

\* What a step does to the compiler's table alone.
LEMMA TypesSized ==
  ASSUME Sized, UNCHANGED host, phase' \in Phases, IsSized(types'),
         enums' = [x \in DOMAIN enums' |-> enums'[x]],
         \A x \in DOMAIN enums' : enums'[x].system \in BOOLEAN,
         classes' \in Seq(Names), analyzed' \in 0 .. Len(classes')
  PROVE  Sized'
<1>1. Counted' /\ register' = register
  BY DEF Sized, Counted, host
<1> QED
  BY <1>1 DEF Sized

LEMMA RegistSystemTypeSized ==
  ASSUME Sized, NEW name \in HostTypes, RegistSystemType(name)
  PROVE  Sized'
<1> DEFINE T == CppType[name]
           index == Cardinality(DOMAIN typeIndexMap)
           tag == Tag(name, "cpp", index, TRUE)
           new == RegistType(register.types, tag)
<1>1. /\ register' = [register EXCEPT !.types = new]
      /\ typeIndexMap' = Emplace(typeIndexMap, T, index)
      /\ calls' = Append(calls, T)
      /\ Len(calls) < MaxTypes /\ register.types.systemTypeCount < MaxTypes
      /\ UNCHANGED <<phase, types, enums, classes, analyzed>>
  BY DEF RegistSystemType, Registered
<1>2. /\ index \in Nat /\ index <= Len(calls) /\ index <= Len(register.types.list) /\ IsFiniteSet(DOMAIN typeIndexMap)
      /\ calls \in Seq(CppTypes) /\ Len(calls) \in Nat /\ MaxTypes \in Nat
      /\ register.types.list \in Seq(DOMAIN register.types.tags) /\ Len(register.types.list) \in Nat
  BY TypesAssumption, FS_CardinalityType DEF Sized, Counted, IsSized
<1>3. name \in Names /\ T \in CppTypes
  BY DEF Names, CppTypes
<1>4. IsSized(new) /\ Len(new.list) = IF index = Len(register.types.list) THEN index + 1 ELSE Len(register.types.list)
  <2>1. IsSized(register.types) /\ "cpp" \in Kinds /\ index \in 0 .. Len(register.types.list) /\ index < MaxTypes
    BY <1>1, <1>2 DEF Sized, Kinds
  <2> QED
    BY <1>1, <1>3, <2>1, RegistSized
<1>5. register' = [types |-> new, enums |-> register.enums]
  <2> HIDE DEF new
  <2>1. register = [types |-> register.types, enums |-> register.enums]
    BY DEF Sized
  <2> QED
    BY <1>1, <2>1
<1>6. DOMAIN typeIndexMap' = DOMAIN typeIndexMap \cup {T}
  BY <1>1 DEF Emplace
<1>7. IsFiniteSet(DOMAIN typeIndexMap') /\ Cardinality(DOMAIN typeIndexMap') \in Nat
      /\ Cardinality(DOMAIN typeIndexMap') <= index + 1
  <2>1. CASE T \in DOMAIN typeIndexMap
    <3>1. DOMAIN typeIndexMap' = DOMAIN typeIndexMap
      BY <1>6, <2>1
    <3> QED
      BY <1>2, <3>1
  <2>2. CASE T \notin DOMAIN typeIndexMap
    <3>1. Cardinality(DOMAIN typeIndexMap \cup {T}) = index + 1 /\ IsFiniteSet(DOMAIN typeIndexMap \cup {T})
      BY <1>2, <2>2, FS_AddElement
    <3>2. index + 1 \in Nat
      BY <1>2
    <3> HIDE DEF index
    <3> QED
      BY <1>6, <3>1, <3>2
  <2> QED
    BY <2>1, <2>2
<1>8. calls' \in Seq(CppTypes) /\ Len(calls') = Len(calls) + 1
  BY <1>1, <1>2, <1>3
<1> HIDE DEF new, index
<1>9. Cardinality(DOMAIN typeIndexMap') <= Len(new.list)
  <2>1. CASE index = Len(register.types.list)
    BY <2>1, <1>4, <1>7, <1>2
  <2>2. CASE index # Len(register.types.list)
    BY <2>2, <1>4, <1>7, <1>2
  <2> QED
    BY <2>1, <2>2
<1>10. Counted'
  <2>1. Len(calls') <= MaxTypes
    BY <1>1, <1>2, <1>8
  <2>2. Cardinality(DOMAIN typeIndexMap') <= Len(calls')
    BY <1>2, <1>7, <1>8
  <2> QED
    BY <1>5, <1>7, <1>8, <1>9, <2>1, <2>2 DEF Counted
<1> QED
  BY <1>1, <1>4, <1>5, <1>10 DEF Sized

LEMMA RegistSystemEnumTypeSized ==
  ASSUME Sized, NEW name \in HostEnums, RegistSystemEnumType(name)
  PROVE  Sized'
<1> DEFINE index == Len(register.types.list)
           tag == Tag(name, "enum", index, TRUE)
           new == RegistType(register.types, tag)
           renumbered == Renumbered(register.enums, name, index, TRUE)
<1>1. /\ register' = [types |-> new, enums |-> renumbered]
      /\ index < MaxTypes /\ register.types.systemTypeCount < MaxTypes
      /\ UNCHANGED <<phase, typeIndexMap, calls, types, enums, classes, analyzed>>
  BY DEF RegistSystemEnumType
<1>2. index \in Nat
  BY DEF Sized, IsSized
<1>3. name \in Names
  BY DEF Names
<1>4. IsSized(new) /\ Len(new.list) = index + 1
  <2>1. IsSized(register.types) /\ "enum" \in Kinds /\ TRUE \in BOOLEAN
    BY DEF Sized, Kinds
  <2> QED
    BY <1>1, <1>3, <2>1, RegistNextSized
<1>5. /\ renumbered = [x \in DOMAIN renumbered |-> renumbered[x]]
      /\ \A x \in DOMAIN renumbered : renumbered[x].system \in BOOLEAN
  BY DEF Renumbered, Sized
<1> HIDE DEF new, renumbered
<1>6. Counted'
  <2>1. Cardinality(DOMAIN typeIndexMap) \in Nat
    BY FS_CardinalityType DEF Sized, Counted
  <2>2. Cardinality(DOMAIN typeIndexMap) <= index
    BY DEF Sized, Counted
  <2>3. register'.types = new
    BY <1>1
  <2> QED
    BY <1>1, <1>2, <1>4, <2>1, <2>2, <2>3 DEF Sized, Counted
<1> QED
  BY <1>1, <1>4, <1>5, <1>6 DEF Sized

\* The compiler registers a type of the script.
LEMMA RegistOwnSized ==
  ASSUME Sized, UNCHANGED host, phase' \in Phases, NEW name \in Names, NEW kind \in Kinds, NEW system \in BOOLEAN,
         Len(types.list) < MaxTypes, system => types.systemTypeCount < MaxTypes,
         NEW count \in Nat,
         types' = [RegistType(types, Tag(name, kind, Len(types.list), system)) EXCEPT !.functionTypeCount = count],
         enums' = [x \in DOMAIN enums' |-> enums'[x]],
         \A x \in DOMAIN enums' : enums'[x].system \in BOOLEAN,
         classes' \in Seq(Names), analyzed' \in 0 .. Len(classes')
  PROVE  Sized'
<1> DEFINE new == RegistType(types, Tag(name, kind, Len(types.list), system))
<1>1. IsSized(types) /\ Len(types.list) \in Nat
  BY DEF Sized, IsSized
<1>2. IsSized(new)
  BY <1>1, RegistNextSized
<1> HIDE DEF new
<1>3. IsSized(types')
  <2>1. /\ types' \in [list : {new.list}, tags : {new.tags}, systemTypeCount : {new.systemTypeCount},
                      functionTypeCount : Nat]
    BY <1>2 DEF IsSized, new
  <2>2. types'.list = new.list /\ types'.tags = new.tags /\ types'.systemTypeCount = new.systemTypeCount
    BY <2>1
  <2> QED
    BY <1>2, <2>1, <2>2 DEF IsSized
<1> QED
  BY <1>3, TypesSized

LEMMA SizedInitially == Init => Sized
<1> SUFFICES ASSUME Init PROVE Sized
  OBVIOUS
<1> DEFINE place(n) == CHOOSE i \in 1 .. Len(Defaults) : Defaults[i] = n
<1>1. /\ Defaults \in Seq(BuiltIn) /\ Len(Defaults) \in Nat /\ Len(Defaults) <= MaxTypes /\ MaxTypes \in Nat
  BY TypesAssumption
<1>2. \A n \in BuiltIn : place(n) \in 1 .. Len(Defaults)
  BY DEF BuiltIn
<1>3. /\ phase = "host" /\ types = EmptyTable /\ enums = <<>> /\ classes = <<>> /\ analyzed = 0
      /\ calls = [i \in 1 .. Len(Defaults) |-> CppType[Defaults[i]]]
      /\ DOMAIN typeIndexMap = {CppType[n] : n \in BuiltIn}
      /\ register.enums = <<>> /\ register = [types |-> register.types, enums |-> register.enums]
      /\ register.types = [list |-> Defaults,
                           tags |-> [n \in BuiltIn |-> Tag(n, "cpp", place(n) - 1, TRUE)],
                           systemTypeCount |-> Len(Defaults), functionTypeCount |-> 0]
  BY DEF Init
<1> HIDE DEF place
<1>4. IsSized(register.types)
  <2> DEFINE tags == [n \in BuiltIn |-> Tag(n, "cpp", place(n) - 1, TRUE)]
  <2>1. \A n \in BuiltIn : tags[n] \in [name : {n}, kind : Kinds, index : 0 .. MaxTypes, system : BOOLEAN,
                                        members : {tags[n].members}]
    BY <1>1, <1>2 DEF Tag, Kinds
  <2>2. DOMAIN tags = BuiltIn /\ BuiltIn \subseteq Names /\ tags = [x \in DOMAIN tags |-> tags[x]]
    BY DEF Names
  <2>3. register.types = [list |-> Defaults, tags |-> tags, systemTypeCount |-> Len(Defaults), functionTypeCount |-> 0]
    BY <1>3
  <2> HIDE DEF tags
  <2> QED
    BY <1>1, <2>1, <2>2, <2>3 DEF IsSized
<1>5. IsSized(types)
  BY <1>1, <1>3 DEF IsSized, EmptyTable
<1>6. Counted
  <2>1. DOMAIN typeIndexMap = {calls[i] : i \in 1 .. Len(Defaults)}
    BY <1>3 DEF BuiltIn
  <2>2. calls \in [1 .. Len(Defaults) -> DOMAIN typeIndexMap]
    BY <1>3, <2>1
  <2>3. calls \in Surjection(1 .. Len(Defaults), DOMAIN typeIndexMap)
    BY <2>1, <2>2 DEF Surjection
  <2>4. IsFiniteSet(1 .. Len(Defaults)) /\ Cardinality(1 .. Len(Defaults)) = Len(Defaults)
    <3>1. PICK n \in Nat : n = Len(Defaults)
      BY <1>1
    <3>2. IsFiniteSet(1 .. n) /\ Cardinality(1 .. n) = IF 1 > n THEN 0 ELSE n - 1 + 1
      BY FS_Interval
    <3> QED
      BY <3>1, <3>2
  <2>5. IsFiniteSet(DOMAIN typeIndexMap) /\ Cardinality(DOMAIN typeIndexMap) <= Len(Defaults)
    BY <2>3, <2>4, FS_Surjection
  <2>6. \A i \in 1 .. Len(Defaults) : Defaults[i] \in BuiltIn
    BY DEF BuiltIn
  <2>7. calls \in Seq(CppTypes) /\ Len(calls) = Len(Defaults)
    BY <1>1, <1>3, <2>6 DEF CppTypes
  <2> QED
    BY <1>1, <1>3, <2>5, <2>7 DEF Counted
<1> QED
  <2>1. /\ enums = [x \in DOMAIN enums |-> enums[x]]
        /\ register.enums = [x \in DOMAIN register.enums |-> register.enums[x]]
        /\ DOMAIN enums = {} /\ DOMAIN register.enums = {}
    BY <1>3
  <2>2. classes \in Seq(Names) /\ analyzed \in 0 .. Len(classes)
    BY <1>3
  <2>3. \A e \in {enums, register.enums} : \A x \in DOMAIN e : e[x].system \in BOOLEAN
    BY <2>1
  <2> QED
    BY <1>3, <1>4, <1>5, <1>6, <2>1, <2>2, <2>3 DEF Sized, Phases

\* An enum table keeps its form.
LEMMA RenumberedStays ==
  ASSUME NEW e, \A x \in DOMAIN e : e[x].system \in BOOLEAN, NEW name, NEW index, NEW system \in BOOLEAN,
         NEW f, f = Renumbered(e, name, index, system)
  PROVE  f = [x \in DOMAIN f |-> f[x]] /\ \A x \in DOMAIN f : f[x].system \in BOOLEAN
BY DEF Renumbered

\* The compiler's steps over a script.
LEMMA ScriptSized ==
  ASSUME Sized,
         \/ \E n \in ScriptEnums : RegistEnumType(n)
         \/ \E n \in ScriptClasses : RegistScriptType(n)
         \/ \E n \in FunctionTypes : CreateFunctionType(n)
         \/ \E b \in Bodies : AnalyzeScriptType(b)
  PROVE  Sized'
<1>1. /\ IsSized(types) /\ types.functionTypeCount \in Nat /\ phase \in Phases
      /\ enums = [x \in DOMAIN enums |-> enums[x]] /\ \A x \in DOMAIN enums : enums[x].system \in BOOLEAN
      /\ classes \in Seq(Names) /\ analyzed \in 0 .. Len(classes) /\ Len(types.list) \in Nat
  BY DEF Sized, IsSized
<1>2. CASE \E n \in ScriptEnums : RegistEnumType(n)
  <2>1. PICK name \in ScriptEnums : RegistEnumType(name)
    BY <1>2
  <2>2. PICK system \in BOOLEAN :
          /\ types' = RegistType(types, Tag(name, "enum", Len(types.list), system))
          /\ enums' = Renumbered(enums, name, Len(types.list), system)
    BY <2>1, <1>1 DEF RegistEnumType
  <2>3. /\ Len(types.list) < MaxTypes /\ types.systemTypeCount < MaxTypes
        /\ UNCHANGED <<phase, classes, analyzed>> /\ UNCHANGED host
    BY <2>1 DEF RegistEnumType
  <2>4. name \in Names /\ "enum" \in Kinds
    BY DEF Names, Kinds
  <2>5. IsSized(types')
    BY <1>1, <2>2, <2>3, <2>4, RegistNextSized
  <2>6. enums' = [x \in DOMAIN enums' |-> enums'[x]] /\ \A x \in DOMAIN enums' : enums'[x].system \in BOOLEAN
    BY <1>1, <2>2, RenumberedStays
  <2> QED
    BY <1>1, <2>3, <2>5, <2>6, TypesSized
<1>3. CASE \E n \in ScriptClasses : RegistScriptType(n)
  <2>1. PICK name \in ScriptClasses : RegistScriptType(name)
    BY <1>3
  <2>2. /\ types' = RegistType(types, Tag(name, "class", Len(types.list), FALSE))
        /\ classes' = Append(classes, name) /\ Len(types.list) < MaxTypes
        /\ UNCHANGED <<phase, enums, analyzed>> /\ UNCHANGED host
    BY <2>1 DEF RegistScriptType
  <2>3. name \in Names /\ "class" \in Kinds
    BY DEF Names, Kinds
  <2>4. IsSized(types')
    <3>1. FALSE \in BOOLEAN
      OBVIOUS
    <3> QED
      BY <1>1, <2>2, <2>3, <3>1, RegistNextSized
  <2>5. classes' \in Seq(Names) /\ analyzed' \in 0 .. Len(classes')
    BY <1>1, <2>2, <2>3
  <2> QED
    BY <1>1, <2>2, <2>4, <2>5, TypesSized
<1>4. CASE \E n \in FunctionTypes : CreateFunctionType(n)
  <2>1. PICK name \in FunctionTypes : CreateFunctionType(name)
    BY <1>4
  <2> DEFINE new == RegistType(types, Tag(name, "function", Len(types.list), FALSE))
  <2>2. /\ types' = [new EXCEPT !.functionTypeCount = @ + 1] /\ Len(types.list) < MaxTypes
        /\ UNCHANGED <<phase, enums, classes, analyzed>> /\ UNCHANGED host
    BY <2>1 DEF CreateFunctionType
  <2>3. name \in Names /\ "function" \in Kinds
    BY DEF Names, Kinds
  <2>4. IsSized(new)
    <3>1. FALSE \in BOOLEAN
      OBVIOUS
    <3> QED
      BY <1>1, <2>2, <2>3, <3>1, RegistNextSized
  <2>5. new.functionTypeCount \in Nat
    BY <2>4 DEF IsSized
  <2>6. types' = [new EXCEPT !.functionTypeCount = new.functionTypeCount + 1] /\ new.functionTypeCount + 1 \in Nat
    <3> HIDE DEF new
    <3> QED
      BY <2>2, <2>4, <2>5 DEF IsSized
  <2>7. /\ FALSE \in BOOLEAN /\ phase' \in Phases
        /\ enums' = [x \in DOMAIN enums' |-> enums'[x]] /\ \A x \in DOMAIN enums' : enums'[x].system \in BOOLEAN
        /\ classes' \in Seq(Names) /\ analyzed' \in 0 .. Len(classes')
    BY <1>1, <2>2
  <2>8. PICK count \in Nat : types' = [new EXCEPT !.functionTypeCount = count]
    BY <2>6
  <2> QED
    BY <2>2, <2>3, <2>7, <2>8, RegistOwnSized
<1>5. CASE \E b \in Bodies : AnalyzeScriptType(b)
  <2>1. PICK body \in Bodies : AnalyzeScriptType(body)
    BY <1>5
  <2> DEFINE name == classes[analyzed + 1]
             members == MemberInfo(types, body)
             both(old) == [m \in DOMAIN old \cup DOMAIN members |-> IF m \in DOMAIN old THEN old[m] ELSE members[m]]
  <2>2. /\ analyzed' = analyzed + 1 /\ analyzed < Len(classes)
        /\ types' = [types EXCEPT !.tags[name].members = both(@)]
        /\ UNCHANGED <<phase, enums, classes>> /\ UNCHANGED host
    BY <2>1 DEF AnalyzeScriptType
  <2> HIDE DEF members
  <2>3. IsSized(types')
    <3> DEFINE tags == [types.tags EXCEPT ![name].members = both(@)]
    <3>1. types' = [list |-> types.list, tags |-> tags, systemTypeCount |-> types.systemTypeCount,
                    functionTypeCount |-> types.functionTypeCount]
      BY <1>1, <2>2 DEF IsSized
    <3>2. tags = [x \in DOMAIN types.tags |->
                    IF x = name THEN [types.tags[name] EXCEPT !.members = both(types.tags[name].members)]
                    ELSE types.tags[x]]
      BY <1>1 DEF IsSized
    <3>3. ASSUME NEW x \in DOMAIN types.tags
          PROVE  tags[x] \in [name : {x}, kind : Kinds, index : 0 .. MaxTypes, system : BOOLEAN,
                              members : {tags[x].members}]
      <4>1. types.tags[x] \in [name : {x}, kind : Kinds, index : 0 .. MaxTypes, system : BOOLEAN,
                               members : {types.tags[x].members}]
        BY <1>1 DEF IsSized
      <4> HIDE DEF tags
      <4> QED
        BY <3>2, <4>1
    <3>4. DOMAIN tags = DOMAIN types.tags /\ tags = [x \in DOMAIN tags |-> tags[x]]
      BY <3>2
    <3> HIDE DEF tags
    <3> QED
      BY <1>1, <3>1, <3>3, <3>4 DEF IsSized
  <2>4. analyzed' \in 0 .. Len(classes')
    BY <1>1, <2>2
  <2> QED
    BY <1>1, <2>2, <2>3, <2>4, TypesSized
<1> QED
  BY <1>2, <1>3, <1>4, <1>5

LEMMA SizedStays ==
  ASSUME Sized, [Next]_vars
  PROVE  Sized'
<1>1. /\ IsSized(types) /\ IsSized(register.types)
      /\ enums = [x \in DOMAIN enums |-> enums[x]] /\ \A x \in DOMAIN enums : enums[x].system \in BOOLEAN
      /\ register.enums = [x \in DOMAIN register.enums |-> register.enums[x]]
      /\ \A x \in DOMAIN register.enums : register.enums[x].system \in BOOLEAN
      /\ classes \in Seq(Names) /\ analyzed \in 0 .. Len(classes) /\ phase \in Phases
  BY DEF Sized
<1>2. CASE \E n \in HostTypes : RegistSystemType(n)
  BY <1>2, RegistSystemTypeSized
<1>3. CASE \E n \in HostEnums : RegistSystemEnumType(n)
  BY <1>3, RegistSystemEnumTypeSized
<1>4. CASE RegistDefaultSystems
  BY <1>1, <1>4, TypesSized DEF RegistDefaultSystems, Phases
<1>5. CASE Compile \/ ParseError \/ CreateData
  BY <1>5, ClearStays DEF Compile, ParseError, CreateData, Phases
<1>6. CASE Parsed \/ NoGlobals \/ MembersKnown \/ OutputCompiledData \/ InputCompiledData \/ NextScript
  BY <1>1, <1>6, TypesSized DEF Parsed, NoGlobals, MembersKnown, OutputCompiledData, InputCompiledData,
                                NextScript, Phases
<1>7. CASE \E n \in Names, ref, local \in BOOLEAN : DeclareValue(n, ref, local)
  <2>1. UNCHANGED <<types, enums, classes, analyzed>> /\ UNCHANGED host /\ phase' \in Phases
    BY <1>1, <1>7 DEF DeclareValue, Phases
  <2> QED
    BY <1>1, <2>1, TypesSized
<1>8. CASE \/ \E n \in ScriptEnums : RegistEnumType(n)
           \/ \E n \in ScriptClasses : RegistScriptType(n)
           \/ \E n \in FunctionTypes : CreateFunctionType(n)
           \/ \E b \in Bodies : AnalyzeScriptType(b)
  BY <1>8, ScriptSized
<1>9. CASE UNCHANGED vars
  BY <1>1, <1>9, TypesSized DEF vars, host
<1> QED
  BY <1>2, <1>3, <1>4, <1>5, <1>6, <1>7, <1>8, <1>9 DEF Next

\* The tables keep their form and their sizes, however disorderly the host and its
\* scripts are: what is in a list has a tag, and the numbers stay below the bound
\* (SystemTypeRegister, RegistType, Clear_notSystem).
THEOREM TypeCorrect == Spec => []TypeOK
<1>1. Sized => TypeOK
  <2> SUFFICES ASSUME Sized PROVE TypeOK
    OBVIOUS
  <2>1. ASSUME NEW t, IsSized(t)
        PROVE  /\ t.list \in Seq(DOMAIN t.tags)
               /\ DOMAIN t.tags \subseteq Names
               /\ Len(t.list) <= MaxTypes /\ t.systemTypeCount \in 0 .. MaxTypes
               /\ \A n \in DOMAIN t.tags :
                    /\ t.tags[n].name = n
                    /\ t.tags[n].kind \in {"cpp", "enum", "class", "function"}
                    /\ t.tags[n].index \in 0 .. MaxTypes
    BY <2>1 DEF IsSized, Kinds
  <2> QED
    BY <2>1 DEF Sized, TypeOK, Phases
<1> QED
  BY <1>1, SizedInitially, SizedStays, PTL DEF Spec
=============================================================================
