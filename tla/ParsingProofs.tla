--------------------------- MODULE ParsingProofs ---------------------------
(***************************************************************************)
(* What holds of every text, and of the passes over it.                    *)
(***************************************************************************)
EXTENDS Parsing, FiniteSetTheorems, TLAPS

-----------------------------------------------------------------------------
(***************************************************************************)
(* The inductive invariant, for every text.                                *)
(***************************************************************************)
Makers == {"namespace", "class"} \cup Functions
Kinds == Makers \cup {"value", "enum"}
Refs == [path : Seq(Names), index : Nat]
Entries == [path : Seq(Names), parent : Refs, functions : Seq(Nat), classes : Seq(Nat), values : Seq(Nat)]
Declared == [is : Kinds, name : Names, within : Seq(Names), own : Refs, as : Seq(Names),
             subs : SUBSET Nat, analyzed : SUBSET Refs]
Constructs == [kind : Makers, name : Names, item : Nat]
Calls == Nat \X Nat \X Nat \X Nat \X Nat

Typed ==
  /\ phase \in {"idle", "parsing", "analyzing", "crashed"}
  /\ list_namespaces \in Seq(Entries)
  /\ currentNameSpace \in Refs
  /\ list_parentFunction \in Seq(Nat)
  /\ nameSpaceBuffer \in Refs
  /\ calls \in SUBSET Calls
  /\ entered \in Nat \X Nat
  /\ open \in Seq(Constructs)
  /\ items \in Seq(Declared)
  /\ errors \in BOOLEAN
  /\ unclean \in SUBSET {"cut", "prototype"}

Written == [p \in DOMAIN open |-> open[p].name]

\* A reference is to a namespace in the list, or to one that was in it.
Refers(ref) ==
  /\ ref.index \in 0 .. Len(list_namespaces)
  /\ ref.index # 0 => list_namespaces[ref.index].path = ref.path
  /\ ref.index = 0 => ref.path # <<>>

\* Every namespace but the global one lies in one before it.
Nested ==
  /\ Len(list_namespaces) >= 1
  /\ list_namespaces[1].path = <<>> /\ list_namespaces[1].parent = Nowhere
  /\ \A n \in 2 .. Len(list_namespaces) :
       LET s == list_namespaces[n] IN
       /\ s.path # <<>>
       /\ Refers(s.parent)
       /\ s.parent.path = Front(s.path)
       /\ s.parent.index < n

\* Between two scripts there is the global namespace, and only stale parents.
Idle ==
  /\ phase = "idle" =>
       /\ list_namespaces = <<Entry(<<>>, Nowhere)>>
       /\ items = <<>> /\ open = <<>>
       /\ \A p \in DOMAIN list_parentFunction : list_parentFunction[p] = 0
  /\ phase \in {"idle", "parsing"} => calls = {} /\ entered = <<0, 0>>

Current ==
  /\ currentNameSpace.index <= Len(list_namespaces)
  /\ \A i \in DOMAIN items : items[i].own.index <= Len(list_namespaces)
  /\ phase \in {"idle", "parsing"} =>
       Refers(currentNameSpace) /\ Len(open) <= Len(currentNameSpace.path)
  /\ phase = "analyzing" => Refers(nameSpaceBuffer)

Started ==
  /\ Len(items) <= MaxItems
  /\ Len(open) <= Len(items)
  /\ Len(list_namespaces) <= Len(items) + 1
  /\ \A i \in DOMAIN items : Len(items[i].within) < i

\* What can be in what, and which items stand for what is open.
Text ==
  phase = "parsing" => \A p \in DOMAIN open :
    LET o == open[p] IN
    /\ o.kind \in Declarations \cup {"class", "function"} =>
         \A q \in DOMAIN open : q < p => open[q].kind = "namespace"
    /\ o.kind = "method" => p > 1 /\ open[p - 1].kind = "class"
    /\ o.kind = "sub" => p > 1 /\ open[p - 1].kind \in Functions
    /\ o.kind # "namespace" =>
         /\ o.item \in DOMAIN items
         /\ items[o.item].is = o.kind
         /\ items[o.item].name = o.name
         /\ items[o.item].within = [q \in 1 .. p - 1 |-> open[q].name]
         /\ items[o.item].as = <<>>
         /\ \A i \in DOMAIN items : i > o.item => p <= Len(items[i].within)
         /\ \A q \in DOMAIN open : q > p => open[q].item > o.item
         /\ \A i \in DOMAIN items : o.item \notin items[i].subs

\* The functions around are the last of the parents.
Parents ==
  phase = "parsing" => \A p \in DOMAIN open :
    LET above == Len(open) - p IN
    open[p].kind \in Functions =>
      /\ above < Len(list_parentFunction)
      /\ list_parentFunction[Len(list_parentFunction) - above] = open[p].item

Buffers ==
  /\ \A n \in DOMAIN list_namespaces :
       /\ \A e \in DOMAIN list_namespaces[n].functions :
            /\ list_namespaces[n].functions[e] \in DOMAIN items
            /\ items[list_namespaces[n].functions[e]].is = "function"
       /\ \A e \in DOMAIN list_namespaces[n].classes :
            /\ list_namespaces[n].classes[e] \in DOMAIN items
            /\ items[list_namespaces[n].classes[e]].is = "class"
       /\ \A e \in DOMAIN list_namespaces[n].values :
            /\ list_namespaces[n].values[e] \in DOMAIN items
            /\ items[list_namespaces[n].values[e]].is = "value"
  /\ \A p \in DOMAIN list_parentFunction : list_parentFunction[p] <= Len(items)

\* A class has methods, a function has functions.
Owned ==
  \A i \in DOMAIN items : \A j \in items[i].subs :
    /\ j \in i + 1 .. Len(items)
    /\ items[i].is = "class" => items[j].is = "method"
    /\ items[i].is # "class" => items[i].is \in Functions /\ items[j].is = "sub" /\ items[j].as # <<>>
    /\ \A k \in DOMAIN items : j \in items[k].subs => k = i

\* What is called.
Callable ==
  \A c \in calls :
    /\ c[2] \in DOMAIN list_namespaces
    /\ c[5] \in DOMAIN items
    /\ c[1] = 1 => items[c[5]].is = "class"
    /\ c[1] = 2 => items[c[5]].is = "value"
    /\ c[1] = 3 => items[c[5]].is = "function"
    /\ c[1] = 4 => items[c[5]].is \in Functions \ {"function"}
    /\ c[1] = 4 /\ c[4] = 0 => items[c[5]].is = "method"
    /\ c[1] = 5 => items[c[5]].is \in Functions \ {"method"}

TextInv == Typed /\ Nested /\ Idle /\ Current /\ Started /\ Text /\ Parents /\ Buffers /\ Owned
             /\ Callable /\ AttachedToEnclosing

-----------------------------------------------------------------------------
(***************************************************************************)
(* Sequences.                                                              *)
(***************************************************************************)
\* Appending adds one element.
LEMMA Appended ==
  ASSUME NEW S, NEW s \in Seq(S), NEW x \in S
  PROVE  /\ Append(s, x) \in Seq(S)
         /\ Len(Append(s, x)) = Len(s) + 1
         /\ DOMAIN Append(s, x) = 1 .. Len(s) + 1
         /\ \A i \in DOMAIN s : Append(s, x)[i] = s[i]
         /\ Append(s, x)[Len(s) + 1] = x
         /\ Append(s, x) # <<>>
  OBVIOUS

\* Front takes the last element off.
LEMMA FrontOf ==
  ASSUME NEW S, NEW s \in Seq(S), s # <<>>
  PROVE  /\ Len(s) \in Nat \ {0}
         /\ Front(s) \in Seq(S)
         /\ Len(Front(s)) = Len(s) - 1
         /\ DOMAIN Front(s) = 1 .. Len(s) - 1
         /\ \A i \in 1 .. Len(s) - 1 : Front(s)[i] = s[i]
         /\ Last(s) \in S
         /\ Last(s) = s[Len(s)]
  <1>1. Len(s) \in Nat \ {0} OBVIOUS
  <1>2. Front(s) \in Seq(S) /\ Len(Front(s)) = Len(s) - 1
    <2> DEFINE n == Len(s) - 1
    <2>1. n \in Nat /\ n <= Len(s) BY <1>1
    <2> HIDE DEF n
    <2>2. SubSeq(s, 1, n) \in Seq(S) /\ Len(SubSeq(s, 1, n)) = n BY <2>1
    <2> QED BY <2>2 DEF Front, n
  <1>3. \A i \in 1 .. Len(s) - 1 : Front(s)[i] = s[i]
    BY <1>1 DEF Front
  <1>4. DOMAIN Front(s) = 1 .. Len(s) - 1 BY <1>2
  <1>5. Last(s) = s[Len(s)] BY DEF Last
  <1>6. Last(s) \in S BY <1>1, <1>5
  <1> QED BY <1>1, <1>2, <1>3, <1>4, <1>5, <1>6

\* Nothing is left of a sequence of one.
LEMMA FrontOfOne ==
  ASSUME NEW S, NEW s \in Seq(S), s # <<>>, Len(s) <= 1
  PROVE  Front(s) = <<>>
  <1> DEFINE n == Len(s)
  <1>0. n \in Nat \ {0} BY FrontOf
  <1>a. n <= 1 OBVIOUS
  <1> HIDE DEF n
  <1>1. n - 1 = 0 BY <1>0, <1>a
  <1>2. Front(s) \in Seq(S) /\ Len(Front(s)) = 0 BY <1>1, FrontOf DEF n
  <1> QED BY <1>2

\* Front takes off what was appended.
LEMMA FrontAppended ==
  ASSUME NEW S, NEW s \in Seq(S), NEW x \in S
  PROVE  Front(Append(s, x)) = s
  BY DEF Front

\* Replacing one element changes that element.
LEMMA Replaced ==
  ASSUME NEW S, NEW s \in Seq(S), NEW i \in DOMAIN s, NEW x \in S
  PROVE  /\ [s EXCEPT ![i] = x] \in Seq(S) /\ Len([s EXCEPT ![i] = x]) = Len(s)
         /\ DOMAIN [s EXCEPT ![i] = x] = DOMAIN s
         /\ [s EXCEPT ![i] = x][i] = x
         /\ \A k \in DOMAIN s : k # i => [s EXCEPT ![i] = x][k] = s[k]
  OBVIOUS

\* A sequence is the function of its elements.
LEMMA AsFunction ==
  ASSUME NEW S, NEW s \in Seq(S), NEW n, n = Len(s)
  PROVE  s = [i \in 1 .. n |-> s[i]]
  OBVIOUS

\* Equal sequences stay of equal length without their last elements.
LEMMA SameLength ==
  ASSUME NEW S, NEW s \in Seq(S), NEW x \in S, NEW t \in Seq(S), NEW y \in S, Append(s, x) = Append(t, y)
  PROVE  Len(s) = Len(t)
  BY FrontAppended

\* The sequence without places is the empty one.
LEMMA NoElement ==
  ASSUME NEW S, NEW s \in Seq(S), DOMAIN s = {}
  PROVE  s = <<>>
  <1>1. Len(s) \in Nat /\ DOMAIN s = 1 .. Len(s) OBVIOUS
  <1>2. Len(s) = 0
    <2>1. 1 \notin 1 .. Len(s) BY <1>1
    <2> QED BY <1>1, <2>1
  <1> QED BY <1>2

\* A sequence is one of whatever its elements are.
LEMMA Narrower ==
  ASSUME NEW S, NEW T, NEW s \in Seq(S), \A e \in DOMAIN s : s[e] \in T
  PROVE  s \in Seq(T)
  OBVIOUS

\* Sequences of one length with the same elements are the same.
LEMMA SameSequence ==
  ASSUME NEW S, NEW T, NEW s \in Seq(S), NEW t \in Seq(T), Len(s) = Len(t),
         \A i \in 1 .. Len(s) : s[i] = t[i]
  PROVE  s = t
  OBVIOUS

-----------------------------------------------------------------------------
(***************************************************************************)
(* The types.                                                              *)
(***************************************************************************)
\* The global namespace and the null pointer.
LEMMA Consts ==
  /\ Nowhere \in Refs /\ Global \in Refs
  /\ Nowhere.path = <<>> /\ Nowhere.index = 0
  /\ Global.path = <<>> /\ Global.index = 1
  BY DEF Nowhere, Global, Ref, Refs

\* The fields of a reference to a namespace.
LEMMA RefType ==
  ASSUME NEW path \in Seq(Names), NEW index \in Nat
  PROVE  /\ Ref(path, index) \in Refs
         /\ Ref(path, index).path = path /\ Ref(path, index).index = index
  BY DEF Ref, Refs

\* The fields of a new namespace: its buffers are empty.
LEMMA EntryType ==
  ASSUME NEW path \in Seq(Names), NEW parent \in Refs
  PROVE  /\ Entry(path, parent) \in Entries
         /\ Entry(path, parent).path = path /\ Entry(path, parent).parent = parent
         /\ Entry(path, parent).functions = <<>> /\ Entry(path, parent).classes = <<>>
         /\ Entry(path, parent).values = <<>>
  BY DEF Entry, Entries

\* The names of the constructs around, one for each.
LEMMA WrittenType ==
  ASSUME Typed
  PROVE  /\ Written \in Seq(Names)
         /\ Len(Written) = Len(open)
  <1>1. open \in Seq(Constructs) BY DEF Typed
  <1>2. \A p \in 1 .. Len(open) : open[p].name \in Names
    <2> TAKE p \in 1 .. Len(open)
    <2>1. open[p] \in Constructs BY <1>1
    <2> QED BY <2>1 DEF Constructs
  <1>3. Written = [p \in 1 .. Len(open) |-> open[p].name] BY <1>1 DEF Written
  <1> QED BY <1>1, <1>2, <1>3

\* The fields of a declaration that has just been read.
LEMMA ItemType ==
  ASSUME Typed, NEW is \in Kinds, NEW name \in Names
  PROVE  /\ Item(is, name) \in Declared
         /\ Item(is, name).is = is /\ Item(is, name).name = name /\ Item(is, name).within = Written
         /\ Item(is, name).own = Nowhere /\ Item(is, name).as = <<>> /\ Item(is, name).subs = {}
         /\ Item(is, name).analyzed = {}
  <1>1. Written \in Seq(Names) BY WrittenType
  <1>2. Nowhere \in Refs BY Consts
  <1>3. <<>> \in Seq(Names) OBVIOUS
  <1> QED BY <1>1, <1>2, <1>3 DEF Item, Written, Declared

\* Registering sets a function's namespace and name, and nothing else.
LEMMA RegisteredType ==
  ASSUME Typed, NEW i \in DOMAIN items, NEW own \in Refs, NEW as \in Seq(Names)
  PROVE  /\ Registered(i, own, as) \in Declared
         /\ Registered(i, own, as).is = items[i].is /\ Registered(i, own, as).name = items[i].name
         /\ Registered(i, own, as).within = items[i].within
         /\ Registered(i, own, as).subs = items[i].subs
         /\ Registered(i, own, as).analyzed = items[i].analyzed
         /\ Registered(i, own, as).own = own /\ Registered(i, own, as).as = as
  <1>1. items[i] \in Declared BY DEF Typed
  <1> DEFINE r == [items[i] EXCEPT !.own = own]
  <1>2. /\ r \in Declared /\ r.is = items[i].is /\ r.name = items[i].name
        /\ r.within = items[i].within /\ r.subs = items[i].subs /\ r.analyzed = items[i].analyzed
        /\ r.own = own
    BY <1>1 DEF Declared
  <1>3. Registered(i, own, as) = [r EXCEPT !.as = as] BY DEF Registered
  <1> HIDE DEF r
  <1> QED BY <1>2, <1>3 DEF Declared

-----------------------------------------------------------------------------
(***************************************************************************)
(* Leaving a namespace.                                                    *)
(***************************************************************************)
\* Leaving a namespace gives a reference of the list.
LEMMA PopType ==
  ASSUME Typed, Nested, NEW ref \in Refs, ref.index <= Len(list_namespaces)
  PROVE  /\ PopNameSpace(ref) \in Refs
         /\ PopNameSpace(ref).index <= Len(list_namespaces)
  <1>1. ref.path \in Seq(Names) /\ ref.index \in Nat BY DEF Refs
  <1>2. Nowhere \in Refs /\ Nowhere.index = 0 /\ Global \in Refs /\ Global.index = 1 BY Consts
  <1>3. Len(list_namespaces) \in Nat /\ Len(list_namespaces) >= 1 BY DEF Typed, Nested
  <1>4. CASE ref = Nowhere BY <1>2, <1>3, <1>4 DEF PopNameSpace
  <1>5. CASE ref # Nowhere /\ ref.index # 0
    <2>1. PopNameSpace(ref) = list_namespaces[ref.index].parent BY <1>5 DEF PopNameSpace, GetParent
    <2>2. list_namespaces[ref.index] \in Entries BY <1>1, <1>5 DEF Typed
    <2>3. list_namespaces[ref.index].parent \in Refs BY <2>2 DEF Entries
    <2>4. CASE ref.index = 1 BY <1>2, <1>3, <2>1, <2>4 DEF Nested
    <2>5. CASE ref.index \in 2 .. Len(list_namespaces)
      <3>1. Refers(list_namespaces[ref.index].parent) BY <2>5 DEF Nested
      <3> QED BY <2>1, <2>3, <3>1 DEF Refers
    <2> QED BY <1>1, <1>3, <1>5, <2>4, <2>5
  <1>6. CASE ref # Nowhere /\ ref.index = 0 /\ Len(ref.path) <= 1
    <2>1. PopNameSpace(ref) = Global BY <1>6 DEF PopNameSpace, GetParent
    <2> QED BY <1>2, <1>3, <2>1
  <1>7. CASE ref # Nowhere /\ ref.index = 0 /\ ~(Len(ref.path) <= 1)
    <2>1. PopNameSpace(ref) = Ref(Front(ref.path), 0) BY <1>7 DEF PopNameSpace, GetParent
    <2>2. ref.path # <<>> BY <1>7
    <2>3. Front(ref.path) \in Seq(Names) BY <1>1, <2>2, FrontOf
    <2>4. Ref(Front(ref.path), 0) \in Refs /\ Ref(Front(ref.path), 0).index = 0 BY <2>3, RefType
    <2> QED BY <1>3, <2>1, <2>4
  <1> QED BY <1>4, <1>5, <1>6, <1>7

\* Leaving a namespace that is there leads to one that is, or was, there: its parent.
LEMMA PopRefers ==
  ASSUME Typed, Nested, NEW ref \in Refs, Refers(ref), ref.path # <<>>
  PROVE  /\ PopNameSpace(ref) \in Refs
         /\ Refers(PopNameSpace(ref))
         /\ PopNameSpace(ref).path = Front(ref.path)
         /\ ref.index # 0 => /\ ref.index \in 2 .. Len(list_namespaces)
                             /\ PopNameSpace(ref) = list_namespaces[ref.index].parent
  <1>1. ref.path \in Seq(Names) /\ ref.index \in Nat BY DEF Refs
  <1>2. Nowhere.path = <<>> /\ Global.path = <<>> /\ Global.index = 1 BY Consts
  <1>3. ref # Nowhere BY <1>2
  <1>4. PopNameSpace(ref) \in Refs BY PopType DEF Refers
  <1>5. CASE ref.index # 0
    <2>1. PopNameSpace(ref) = list_namespaces[ref.index].parent BY <1>3, <1>5 DEF PopNameSpace, GetParent
    <2>2. ref.index \in 2 .. Len(list_namespaces) BY <1>1, <1>5 DEF Refers, Nested
    <2> QED BY <1>4, <1>5, <2>1, <2>2 DEF Nested, Refers
  <1>6. CASE ref.index = 0 /\ Len(ref.path) <= 1
    <2>1. PopNameSpace(ref) = Global BY <1>3, <1>6 DEF PopNameSpace, GetParent
    <2>4. Front(ref.path) = <<>> BY <1>1, <1>6, FrontOfOne
    <2>5. Refers(Global) BY <1>2 DEF Refers, Nested, Typed
    <2> QED BY <1>2, <1>4, <1>6, <2>1, <2>4, <2>5
  <1>7. CASE ref.index = 0 /\ ~(Len(ref.path) <= 1)
    <2>1. PopNameSpace(ref) = Ref(Front(ref.path), 0) BY <1>3, <1>7 DEF PopNameSpace, GetParent
    <2>2. Front(ref.path) \in Seq(Names) /\ Len(Front(ref.path)) = Len(ref.path) - 1 BY <1>1, FrontOf
    <2>3. /\ PopNameSpace(ref).index = 0 /\ PopNameSpace(ref).path = Front(ref.path) BY <2>1, <2>2, RefType
    <2>4. Front(ref.path) # <<>> BY <1>1, <1>7, <2>2
    <2>5. Len(list_namespaces) \in Nat BY DEF Typed
    <2> QED BY <1>4, <1>7, <2>3, <2>4, <2>5 DEF Refers
  <1> QED BY <1>5, <1>6, <1>7

-----------------------------------------------------------------------------
(***************************************************************************)
(* What the actions do.                                                    *)
(***************************************************************************)
Reads ==
  /\ phase = "parsing" /\ phase' = "parsing"
  /\ UNCHANGED <<nameSpaceBuffer, calls, entered, errors>>

\* A namespace is made, and an item.
Makes(kind, name, space) ==
  /\ Reads
  /\ kind \in Makers /\ name \in Names /\ space \in Entries
  /\ Declares
  /\ items' = Append(items, Item(kind, name))
  /\ list_namespaces' = Append(list_namespaces, space)
  /\ space.path = Append(currentNameSpace.path, name) /\ space.parent = currentNameSpace
  /\ space.functions = <<>> /\ space.values = <<>>
  /\ kind = "class" => space.classes = <<New>>
  /\ kind # "class" => space.classes = <<>>
  /\ currentNameSpace' = Ref(space.path, Len(list_namespaces) + 1)
  /\ kind \in Functions => list_parentFunction' = Append(list_parentFunction, New)
  /\ kind \notin Functions => list_parentFunction' = list_parentFunction

Fits(kind) ==
  /\ kind \in Declarations \cup {"class", "function"} => open = <<>> \/ Last(open).kind = "namespace"
  /\ kind = "method" => open # <<>> /\ Last(open).kind = "class"
  /\ kind = "sub" => open # <<>> /\ Last(open).kind \in Functions

Begins(kind, name, space, o) ==
  /\ Makes(kind, name, space)
  /\ o \in Constructs /\ o.kind = kind /\ o.name = name
  /\ kind # "namespace" => o.item = New
  /\ open' = Append(open, o)
  /\ Fits(kind)
  /\ unclean' = unclean

Foretells(kind, name, space) ==
  /\ Makes(kind, name, space)
  /\ kind \in {"class", "function"}
  /\ Fits(kind)
  /\ open' = open
  /\ unclean' = unclean \cup {"prototype"}

\* A construct ends.
Ends ==
  /\ Reads
  /\ open # <<>> /\ open' = Front(open)
  /\ currentNameSpace' = PopNameSpace(currentNameSpace)
  /\ unclean' = unclean

EndsBlock ==
  /\ Ends /\ Last(open).kind \in {"namespace", "class"}
  /\ UNCHANGED <<list_namespaces, items, list_parentFunction>>

EndsFunction ==
  /\ Ends /\ Last(open).kind = "function"
  /\ PushFunction(Last(open).item)
  /\ UNCHANGED <<items, list_parentFunction>>

EndsMethod ==
  /\ Ends /\ Last(open).kind = "method"
  /\ items' = [items EXCEPT ![open[Len(open) - 1].item].subs = @ \cup {Last(open).item}]
  /\ UNCHANGED <<list_namespaces, list_parentFunction>>

EndsSub ==
  LET i == Last(open).item
      j == open[Len(open) - 1].item
  IN  /\ Ends /\ Last(open).kind = "sub"
      /\ list_parentFunction' = Front(list_parentFunction)
      /\ items' = [[items EXCEPT
           ![i] = Registered(i, currentNameSpace, Append(Front(currentNameSpace.path), items[i].name))]
           EXCEPT ![j].subs = @ \cup {i}]
      /\ UNCHANGED list_namespaces

\* A variable or an enum.
Adds(item) ==
  /\ Reads
  /\ Declares
  /\ item \in Declared /\ item.within = Written /\ item.subs = {} /\ item.own = Nowhere
  /\ item.analyzed = {}
  /\ items' = Append(items, item)
  /\ UNCHANGED <<currentNameSpace, list_parentFunction, open, unclean>>

DeclaresValue(item) ==
  /\ Adds(item)
  /\ item.is = "value" /\ item.as = <<>>
  /\ PushValue(New)

DeclaresEnum(item) ==
  /\ Adds(item)
  /\ item.is = "enum"
  /\ UNCHANGED list_namespaces

Crashes ==
  /\ phase' = "crashed"
  /\ UNCHANGED <<list_namespaces, currentNameSpace, list_parentFunction, passes, open, items, errors, unclean>>

StartsAnalyze ==
  /\ phase = "parsing"
  /\ Analyze
  /\ unclean' = unclean \cup {c \in {"cut"} : open # <<>>}
  /\ UNCHANGED <<list_namespaces, currentNameSpace, list_parentFunction, entered, open, items, errors>>

-----------------------------------------------------------------------------
(***************************************************************************)
(* Every action is one of these.                                           *)
(***************************************************************************)
\* What the text is in the middle of is the last of what is open.
LEMMA InsideOf ==
  ASSUME Typed, NEW kinds, Reading(kinds)
  PROVE  /\ phase = "parsing"
         /\ "input" \notin kinds => open # <<>>
         /\ open = <<>> => "input" \in kinds
         /\ open # <<>> => /\ Last(open).kind \in kinds \cap Makers /\ Inside = Last(open).kind
                           /\ Last(open) = open[Len(open)] /\ Len(open) \in DOMAIN open
  <1>1. open \in Seq(Constructs) BY DEF Typed
  <1>2. open # <<>> => /\ Last(open) \in Constructs /\ Last(open) = open[Len(open)]
                       /\ Len(open) \in DOMAIN open
    BY <1>1, FrontOf
  <1>3. open # <<>> => Last(open).kind \in Makers BY <1>2 DEF Constructs
  <1> QED BY <1>2, <1>3 DEF Reading, Inside

\* The next declaration gets the next place.
LEMMA NewItem ==
  ASSUME Typed
  PROVE  New = Len(items) + 1 /\ New \in Nat /\ items \in Seq(Declared)
  BY DEF New, Typed

\* The fields of a construct that is opened.
LEMMA OpenedType ==
  ASSUME NEW kind \in Makers, NEW name \in Names, NEW item \in Nat
  PROVE  /\ Opened(kind, name, item) \in Constructs
         /\ Opened(kind, name, item).kind = kind /\ Opened(kind, name, item).name = name
         /\ Opened(kind, name, item).item = item
  BY DEF Opened, Constructs

\* The types of a namespace that is opened in the current one.
LEMMA PushedSpace ==
  ASSUME Typed, NEW name \in Names
  PROVE  LET path == Append(currentNameSpace.path, name) IN
         /\ path \in Seq(Names)
         /\ currentNameSpace \in Refs
         /\ Entry(path, currentNameSpace) \in Entries
  <1>1. currentNameSpace \in Refs /\ currentNameSpace.path \in Seq(Names) BY DEF Typed, Refs
  <1>2. Append(currentNameSpace.path, name) \in Seq(Names) BY <1>1, Appended
  <1> QED BY <1>1, <1>2, EntryType

\* The head of a namespace begins one.
LEMMA OpenNameSpaceIs ==
  ASSUME Typed, NEW name \in Names, OpenNameSpace(name)
  PROVE  \E space, o : Begins("namespace", name, space, o)
  <1> DEFINE way == Append(currentNameSpace.path, name)
             space == Entry(way, currentNameSpace)
             o == Opened("namespace", name, 0)
  <1>1. /\ Reading(Declarations) /\ Declares /\ PushNameSpace(name)
        /\ open' = Append(open, o) /\ items' = Append(items, Item("namespace", name))
        /\ UNCHANGED <<phase, list_parentFunction, passes, enums, failed, errors, scripts, unclean>>
    BY DEF OpenNameSpace
  <1>2. way \in Seq(Names) /\ currentNameSpace \in Refs /\ space \in Entries BY PushedSpace
  <1>3. /\ space.path = way /\ space.parent = currentNameSpace
        /\ space.functions = <<>> /\ space.classes = <<>> /\ space.values = <<>>
    BY <1>2, EntryType
  <1>4. list_namespaces' = Append(list_namespaces, space) /\ currentNameSpace' = Ref(way, Len(list_namespaces) + 1)
    BY <1>1 DEF PushNameSpace
  <1>5. /\ "namespace" \in Makers /\ "namespace" \notin Functions /\ "namespace" \in Declarations
        /\ "namespace" \notin {"class", "method", "sub"}
    BY DEF Makers, Functions, Declarations
  <1>6. o \in Constructs /\ o.kind = "namespace" /\ o.name = name BY <1>5, OpenedType
  <1>7. phase = "parsing" /\ (open = <<>> \/ Last(open).kind = "namespace")
    BY <1>1, InsideOf DEF Declarations, Makers, Functions
  <1> HIDE DEF space, o, way
  <1>r. Reads BY <1>1, <1>7 DEF Reads, passes
  <1>k. "namespace" # "class" OBVIOUS
  <1>l. space.path = Append(currentNameSpace.path, name) BY <1>3 DEF way
  <1>m. currentNameSpace' = Ref(space.path, Len(list_namespaces) + 1) BY <1>3, <1>4
  <1>8. Makes("namespace", name, space)
    BY <1>1, <1>2, <1>3, <1>4, <1>5, <1>k, <1>l, <1>m, <1>r DEF Makes
  <1>9. Fits("namespace") BY <1>5, <1>7 DEF Fits
  <1>10. Begins("namespace", name, space, o)
    BY <1>1, <1>6, <1>8, <1>9 DEF Begins
  <1> QED BY <1>10

\* make_class makes a namespace with the class in it.
LEMMA MakesClass ==
  ASSUME Typed, NEW name \in Names, phase = "parsing", Declares,
         UNCHANGED <<phase, list_parentFunction, passes, errors>>,
         list_namespaces' = Append(list_namespaces,
           [Entry(Append(currentNameSpace.path, name), currentNameSpace) EXCEPT !.classes = <<New>>]),
         currentNameSpace' = Ref(Append(currentNameSpace.path, name), Len(list_namespaces) + 1),
         items' = Append(items, Item("class", name))
  PROVE  \E space : Makes("class", name, space)
  <1> DEFINE way == Append(currentNameSpace.path, name)
             space == [Entry(way, currentNameSpace) EXCEPT !.classes = <<New>>]
  <1>1. way \in Seq(Names) /\ currentNameSpace \in Refs BY PushedSpace
  <1>2. New \in Nat BY NewItem
  <1>3. /\ space \in Entries
        /\ space.path = way /\ space.parent = currentNameSpace
        /\ space.functions = <<>> /\ space.classes = <<New>> /\ space.values = <<>>
    <2> HIDE DEF way
    <2>1. <<New>> \in Seq(Nat) /\ <<>> \in Seq(Nat) BY <1>2
    <2>2. space = [path |-> way, parent |-> currentNameSpace, functions |-> <<>>,
                   classes |-> <<New>>, values |-> <<>>]
      BY DEF Entry
    <2> HIDE DEF space
    <2> QED BY <1>1, <2>1, <2>2 DEF Entries
  <1>4. "class" \in Makers /\ "class" \notin Functions BY DEF Makers, Functions
  <1>5. list_namespaces' = Append(list_namespaces, space) OBVIOUS
  <1>6. currentNameSpace' = Ref(way, Len(list_namespaces) + 1) OBVIOUS
  <1>7. way = Append(currentNameSpace.path, name) OBVIOUS
  <1> HIDE DEF space, way
  <1>8. currentNameSpace' = Ref(space.path, Len(list_namespaces) + 1) /\ space.path = Append(currentNameSpace.path, name)
    BY <1>3, <1>6, <1>7
  <1>9. Reads BY DEF Reads, passes
  <1>10. Makes("class", name, space)
    BY <1>3, <1>4, <1>5, <1>8, <1>9 DEF Makes
  <1> QED BY <1>10

\* PushAnalyzeFunction makes a namespace and a parent.
LEMMA MakesFunction ==
  ASSUME Typed, NEW kind \in Functions, NEW name \in Names, phase = "parsing", Declares,
         UNCHANGED <<phase, passes, errors>>,
         PushAnalyzeFunction(kind, name)
  PROVE  \E space : Makes(kind, name, space)
  <1> DEFINE way == Append(currentNameSpace.path, name)
             space == Entry(way, currentNameSpace)
  <1>1. way \in Seq(Names) /\ currentNameSpace \in Refs BY PushedSpace
  <1>3. /\ space \in Entries
        /\ space.path = way /\ space.parent = currentNameSpace
        /\ space.functions = <<>> /\ space.classes = <<>> /\ space.values = <<>>
    BY <1>1, EntryType
  <1>4. kind \in Makers /\ kind # "class" BY DEF Makers, Functions
  <1>5. /\ list_namespaces' = Append(list_namespaces, space)
        /\ currentNameSpace' = Ref(way, Len(list_namespaces) + 1)
        /\ list_parentFunction' = Append(list_parentFunction, New)
        /\ items' = Append(items, Item(kind, name))
    BY DEF PushAnalyzeFunction, PushNameSpace
  <1>7. way = Append(currentNameSpace.path, name) OBVIOUS
  <1> HIDE DEF space, way
  <1>8. currentNameSpace' = Ref(space.path, Len(list_namespaces) + 1) /\ space.path = Append(currentNameSpace.path, name)
    BY <1>3, <1>5, <1>7
  <1>9. Reads BY DEF Reads, passes
  <1>10. Makes(kind, name, space)
    BY <1>3, <1>4, <1>5, <1>8, <1>9 DEF Makes
  <1> QED BY <1>10

\* The head of a class begins one.
LEMMA OpenClassIs ==
  ASSUME Typed, NEW name \in Names, OpenClass(name)
  PROVE  \E space, o : Begins("class", name, space, o)
  <1> DEFINE o == Opened("class", name, New)
  <1>1. /\ Reading(Declarations) /\ Declares
        /\ open' = Append(open, o) /\ unclean' = unclean
    BY DEF OpenClass
  <1>2. phase = "parsing" /\ (open = <<>> \/ Last(open).kind = "namespace")
    BY <1>1, InsideOf DEF Declarations, Makers, Functions
  <1>3. PICK space : Makes("class", name, space)
    BY <1>1, <1>2, MakesClass DEF OpenClass
  <1>4. "class" \in Makers /\ "class" \notin {"method", "sub", "namespace"} BY DEF Makers
  <1>5. New \in Nat BY NewItem
  <1>6. o \in Constructs /\ o.kind = "class" /\ o.name = name /\ o.item = New BY <1>4, <1>5, OpenedType
  <1> HIDE DEF o
  <1>7. Fits("class") BY <1>2, <1>4 DEF Fits
  <1>8. Begins("class", name, space, o) BY <1>1, <1>3, <1>6, <1>7 DEF Begins
  <1> QED BY <1>8

\* The head of a function begins one of the kind that can be where it is.
LEMMA OpenFunctionIs ==
  ASSUME Typed, NEW name \in Names, OpenFunction(name)
  PROVE  \E kind \in Functions : \E space, o : Begins(kind, name, space, o)
  <1>1. /\ Reading(Declarations \cup {"class"} \cup Functions) /\ Declares
        /\ UNCHANGED <<phase, passes, enums, failed, errors, scripts, unclean>>
    BY DEF OpenFunction
  <1>2. phase = "parsing" BY <1>1, InsideOf
  <1>3. \E kind \in Functions : /\ PushAnalyzeFunction(kind, name)
                                /\ open' = Append(open, Opened(kind, name, New))
                                /\ Fits(kind)
    <2>1. CASE Inside \in Declarations
      <3>1. open = <<>> \/ Last(open).kind = "namespace" BY <1>1, <2>1, InsideOf DEF Declarations, Makers, Functions
      <3>2. Fits("function") BY <3>1 DEF Fits
      <3>3. PushAnalyzeFunction("function", name) /\ open' = Append(open, Opened("function", name, New))
        BY <2>1 DEF OpenFunction, Declarations, Functions
      <3> QED BY <3>2, <3>3 DEF Functions
    <2>2. CASE Inside = "class"
      <3>1. open # <<>> /\ Last(open).kind = "class" BY <2>2 DEF Inside
      <3>2. Fits("method") BY <3>1 DEF Fits, Declarations
      <3>3. PushAnalyzeFunction("method", name) /\ open' = Append(open, Opened("method", name, New))
        BY <2>2 DEF OpenFunction, Declarations, Functions
      <3> QED BY <3>2, <3>3 DEF Functions
    <2>3. CASE Inside \in Functions
      <3>1. open # <<>> /\ Last(open).kind \in Functions BY <2>3 DEF Inside, Functions
      <3>2. Fits("sub") BY <3>1 DEF Fits, Declarations
      <3>3. PushAnalyzeFunction("sub", name) /\ open' = Append(open, Opened("sub", name, New))
        BY <2>3 DEF OpenFunction, Declarations, Functions
      <3> QED BY <3>2, <3>3 DEF Functions
    <2> QED BY <1>1, <2>1, <2>2, <2>3 DEF Reading
  <1>4. PICK kind \in Functions : /\ PushAnalyzeFunction(kind, name)
                                  /\ open' = Append(open, Opened(kind, name, New))
                                  /\ Fits(kind)
    BY <1>3
  <1>5. PICK space : Makes(kind, name, space) BY <1>1, <1>2, <1>4, MakesFunction
  <1> DEFINE o == Opened(kind, name, New)
  <1>6. kind \in Makers BY DEF Makers
  <1>7. New \in Nat BY NewItem
  <1>8. o \in Constructs /\ o.kind = kind /\ o.name = name /\ o.item = New BY <1>6, <1>7, OpenedType
  <1>9. open' = Append(open, o) BY <1>4
  <1> HIDE DEF o
  <1>10. Begins(kind, name, space, o) BY <1>1, <1>4, <1>5, <1>8, <1>9 DEF Begins
  <1> QED BY <1>10

\* A prototype makes what its name looks like, and opens nothing.
LEMMA PrototypeIs ==
  ASSUME Typed, NEW name \in Names, NEW like \in {"class", "function"}, Prototype(like, name)
  PROVE  \E space : Foretells(like, name, space)
  <1>1. /\ Reading(Declarations) /\ Declares
        /\ unclean' = unclean \cup {"prototype"}
        /\ UNCHANGED <<phase, open, passes, enums, failed, errors, scripts>>
    BY DEF Prototype
  <1>2. phase = "parsing" /\ (open = <<>> \/ Last(open).kind = "namespace")
    BY <1>1, InsideOf DEF Declarations, Makers, Functions
  <1>5. Fits(like) BY <1>2 DEF Fits
  <1>3. CASE like = "class"
    <2>1. \E space : Makes("class", name, space)
      BY <1>1, <1>2, <1>3, MakesClass DEF Prototype
    <2> QED BY <1>1, <1>3, <1>5, <2>1 DEF Foretells
  <1>4. CASE like = "function"
    <2>1. PushAnalyzeFunction("function", name) BY <1>4 DEF Prototype
    <2>2. \E space : Makes("function", name, space)
      BY <1>1, <1>2, <2>1, MakesFunction DEF Functions
    <2> QED BY <1>1, <1>4, <1>5, <2>2 DEF Foretells
  <1> QED BY <1>3, <1>4

\* The end of a namespace or class leaves it, and does nothing else.
LEMMA CloseBlockIs ==
  ASSUME Typed, CloseNameSpace \/ CloseClass
  PROVE  EndsBlock
  <1>1. Reading({"namespace", "class"}) BY DEF CloseNameSpace, CloseClass, Reading
  <1>2. /\ currentNameSpace' = PopNameSpace(currentNameSpace) /\ open' = Front(open)
        /\ UNCHANGED <<phase, list_namespaces, list_parentFunction, items, passes, errors, unclean>>
    BY DEF CloseNameSpace, CloseClass
  <1>3. phase = "parsing" /\ open # <<>> /\ Last(open).kind \in {"namespace", "class"}
    BY <1>1, InsideOf
  <1> QED BY <1>2, <1>3 DEF EndsBlock, Ends, Reads, passes

\* The end of a function puts it in the namespace it leaves.
LEMMA AddFunctionIs ==
  ASSUME Typed, AddFunction
  PROVE  EndsFunction
  <1>1. Reading({"function"}) /\ PushFunction(Last(open).item) BY DEF AddFunction
  <1>2. /\ currentNameSpace' = PopNameSpace(currentNameSpace) /\ open' = Front(open)
        /\ UNCHANGED <<phase, list_parentFunction, items, passes, errors, unclean>>
    BY DEF AddFunction
  <1>3. phase = "parsing" /\ open # <<>> /\ Last(open).kind = "function"
    BY <1>1, InsideOf
  <1> QED BY <1>1, <1>2, <1>3 DEF EndsFunction, Ends, Reads, passes

\* The end of a method gives it to the class around it.
LEMMA RegistMethodIs ==
  ASSUME Typed, RegistMethod
  PROVE  EndsMethod
  <1>1. Reading({"method"}) BY DEF RegistMethod
  <1>2. /\ currentNameSpace' = PopNameSpace(currentNameSpace) /\ open' = Front(open)
        /\ items' = [items EXCEPT ![open[Len(open) - 1].item].subs = @ \cup {Last(open).item}]
        /\ UNCHANGED <<phase, list_namespaces, list_parentFunction, passes, errors, unclean>>
    BY DEF RegistMethod
  <1>3. phase = "parsing" /\ open # <<>> /\ Last(open).kind = "method"
    BY <1>1, InsideOf
  <1> QED BY <1>2, <1>3, Zenon DEF EndsMethod, Ends, Reads, passes

\* The two functions in the middle of which the text is are the last of the parents.
LEMMA SubInside ==
  ASSUME Typed, Text, Parents, phase = "parsing", open # <<>>, Last(open).kind = "sub"
  PROVE  LET n == Len(open)
             m == Len(list_parentFunction)
         IN  /\ n \in Nat /\ n > 1 /\ m \in Nat /\ m > 1
             /\ n \in DOMAIN open /\ n - 1 \in DOMAIN open
             /\ open[n].kind = "sub" /\ open[n - 1].kind \in Functions
             /\ Last(open) = open[n]
             /\ Last(list_parentFunction) = open[n].item
             /\ Front(list_parentFunction) \in Seq(Nat) /\ Len(Front(list_parentFunction)) = m - 1
             /\ Last(Front(list_parentFunction)) = open[n - 1].item
             /\ list_parentFunction # <<>>
  <1> DEFINE n == Len(open)
             m == Len(list_parentFunction)
  <1>1. open \in Seq(Constructs) /\ list_parentFunction \in Seq(Nat) BY DEF Typed
  <1>2. n \in Nat \ {0} /\ n \in DOMAIN open /\ m \in Nat /\ Last(open) = open[n]
    <2>1. n \in Nat \ {0} /\ Last(open) = open[n] BY <1>1, FrontOf
    <2>2. m \in Nat /\ DOMAIN open = 1 .. n BY <1>1
    <2> QED BY <2>1, <2>2
  <1>3. n > 1 /\ open[n - 1].kind \in Functions BY <1>2 DEF Text
  <1>4. n - 1 \in DOMAIN open BY <1>1, <1>2, <1>3
  <1>5. "sub" \in Functions BY DEF Functions
  <1>6. 0 < m /\ list_parentFunction[m - 0] = open[n].item BY <1>2, <1>5 DEF Parents
  <1>7. 1 < m /\ list_parentFunction[m - 1] = open[n - 1].item
    <2>1. n - (n - 1) = 1 BY <1>2
    <2> QED BY <1>3, <1>4, <2>1 DEF Parents
  <1>8. list_parentFunction # <<>> BY <1>1, <1>6
  <1>9. /\ Front(list_parentFunction) \in Seq(Nat) /\ Len(Front(list_parentFunction)) = m - 1
        /\ \A i \in 1 .. m - 1 : Front(list_parentFunction)[i] = list_parentFunction[i]
        /\ Last(list_parentFunction) = list_parentFunction[m]
    BY <1>1, <1>8, FrontOf
  <1>10. Front(list_parentFunction) # <<>> BY <1>2, <1>7, <1>9
  <1>11. Last(Front(list_parentFunction)) = Front(list_parentFunction)[m - 1] BY <1>9 DEF Last
  <1>12. Last(Front(list_parentFunction)) = open[n - 1].item BY <1>2, <1>7, <1>9, <1>11
  <1>13. Last(list_parentFunction) = open[n].item BY <1>2, <1>6, <1>9
  <1> QED BY <1>2, <1>3, <1>4, <1>7, <1>8, <1>9, <1>12, <1>13

\* In the middle of a text there is a namespace to leave.
LEMMA Leaving ==
  ASSUME Typed, Nested, Current, phase = "parsing", open # <<>>
  PROVE  /\ currentNameSpace \in Refs /\ Refers(currentNameSpace)
         /\ currentNameSpace.path \in Seq(Names) /\ currentNameSpace.path # <<>>
         /\ PopNameSpace(currentNameSpace) \in Refs
         /\ Refers(PopNameSpace(currentNameSpace))
         /\ PopNameSpace(currentNameSpace).path = Front(currentNameSpace.path)
         /\ currentNameSpace.index # 0 =>
              /\ currentNameSpace.index \in 2 .. Len(list_namespaces)
              /\ PopNameSpace(currentNameSpace) = list_namespaces[currentNameSpace.index].parent
  <1>1. currentNameSpace \in Refs /\ currentNameSpace.path \in Seq(Names) BY DEF Typed, Refs
  <1>2. Refers(currentNameSpace) /\ Len(open) <= Len(currentNameSpace.path) BY DEF Current
  <1>3. open \in Seq(Constructs) BY DEF Typed
  <1>4. Len(open) \in Nat \ {0} BY <1>3, FrontOf
  <1>5. currentNameSpace.path # <<>> BY <1>1, <1>2, <1>4
  <1> QED BY <1>1, <1>2, <1>5, PopRefers

\* The end of a function in a function: list_parentFunction is not empty, so the function
\* itself is taken off, and the one around it is the last.
LEMMA SubIs ==
  ASSUME Typed, Nested, Current, Text, Parents, PushCompiler_sub
  PROVE  EndsSub
  <1> DEFINE i == Last(open).item
             j == open[Len(open) - 1].item
  <1>1. /\ Reading({"sub"}) /\ PopAnalyzeFunction(currentNameSpace)
        /\ items' = [[items EXCEPT
             ![i] = Registered(i, currentNameSpace, Append(currentNameSpace'.path, @.name))] EXCEPT
             ![Last(list_parentFunction')].subs = @ \cup {i}]
        /\ open' = Front(open)
        /\ UNCHANGED <<phase, list_namespaces, passes, errors, unclean>>
    BY DEF PushCompiler_sub
  <1>2. phase = "parsing" /\ open # <<>> /\ Last(open).kind = "sub" BY <1>1, InsideOf
  <1>3. list_parentFunction # <<>> /\ Last(Front(list_parentFunction)) = j BY <1>2, SubInside
  <1>4. /\ list_parentFunction' = Front(list_parentFunction)
        /\ currentNameSpace' = PopNameSpace(currentNameSpace)
    BY <1>1, <1>3 DEF PopAnalyzeFunction
  <1>5. currentNameSpace'.path = Front(currentNameSpace.path) BY <1>2, <1>4, Leaving
  <1>6. Last(list_parentFunction') = j BY <1>3, <1>4
  <1>7. items' = [[items EXCEPT
             ![i] = Registered(i, currentNameSpace, Append(Front(currentNameSpace.path), items[i].name))] EXCEPT
             ![j].subs = @ \cup {i}]
    BY <1>1, <1>5, <1>6
  <1>8. Reads BY <1>1, <1>2 DEF Reads, passes
  <1> QED BY <1>1, <1>2, <1>4, <1>7, <1>8 DEF EndsSub, Ends

\* A variable is a declaration that opens nothing.
LEMMA AddValueIs ==
  ASSUME Typed, NEW name \in Names, AddValue(name)
  PROVE  \E item : DeclaresValue(item)
  <1> DEFINE item == Item("value", name)
  <1>1. /\ Reading(Declarations) /\ Declares /\ PushValue(New) /\ items' = Append(items, item)
        /\ UNCHANGED <<phase, currentNameSpace, list_parentFunction, open, passes, errors, unclean>>
    BY DEF AddValue
  <1>2. phase = "parsing" BY <1>1, InsideOf
  <1>3. /\ item \in Declared /\ item.is = "value" /\ item.within = Written /\ item.own = Nowhere
        /\ item.as = <<>> /\ item.subs = {} /\ item.analyzed = {}
    <2>1. "value" \in Kinds BY DEF Kinds
    <2> QED BY <2>1, ItemType
  <1> HIDE DEF item
  <1>4. DeclaresValue(item) BY <1>1, <1>2, <1>3 DEF DeclaresValue, Adds, Reads, passes
  <1> QED BY <1>4

\* An enum is one too, or the compiler runs into the null pointer.
LEMMA EnumIs ==
  ASSUME Typed, NEW name \in Names, RegistEnumType(name)
  PROVE  Crashes \/ \E item : DeclaresEnum(item)
  <1> DEFINE way == Append(currentNameSpace.path, name)
             item == [Item("enum", name) EXCEPT !.as = way]
  <1>1. /\ Reading(Declarations) /\ Declares
        /\ UNCHANGED <<list_namespaces, currentNameSpace, list_parentFunction, passes, open, errors, unclean>>
        /\ \/ items' = Append(items, item) /\ UNCHANGED phase
           \/ phase' = "crashed" /\ UNCHANGED items
    BY DEF RegistEnumType
  <1>2. phase = "parsing" BY <1>1, InsideOf
  <1>3. way \in Seq(Names) BY PushedSpace
  <1>4. /\ Item("enum", name) \in Declared /\ Item("enum", name).is = "enum"
        /\ Item("enum", name).within = Written /\ Item("enum", name).own = Nowhere
        /\ Item("enum", name).subs = {} /\ Item("enum", name).analyzed = {}
    BY ItemType DEF Kinds
  <1>5. /\ item \in Declared /\ item.is = "enum" /\ item.within = Written /\ item.own = Nowhere
        /\ item.subs = {} /\ item.analyzed = {}
    <2> HIDE DEF way
    <2> DEFINE plain == Item("enum", name)
    <2>1. /\ plain \in Declared /\ plain.is = "enum" /\ plain.within = Written /\ plain.own = Nowhere
          /\ plain.subs = {} /\ plain.analyzed = {}
      BY <1>4
    <2> HIDE DEF plain
    <2>2. [plain EXCEPT !.as = way] \in Declared BY <1>3, <2>1 DEF Declared
    <2>3. LET e == [plain EXCEPT !.as = way]
          IN  e.is = plain.is /\ e.within = plain.within /\ e.own = plain.own /\ e.subs = plain.subs
              /\ e.analyzed = plain.analyzed
      BY <2>1 DEF Declared
    <2>4. item = [plain EXCEPT !.as = way] BY DEF plain
    <2> HIDE DEF item
    <2> QED BY <2>1, <2>2, <2>3, <2>4
  <1> HIDE DEF item, way
  <1>6. CASE items' = Append(items, item) /\ UNCHANGED phase
    <2>1. DeclaresEnum(item) BY <1>1, <1>2, <1>5, <1>6 DEF DeclaresEnum, Adds, Reads, passes
    <2> QED BY <2>1
  <1>7. CASE phase' = "crashed" /\ UNCHANGED items
    BY <1>1, <1>7 DEF Crashes
  <1> QED BY <1>1, <1>6, <1>7

\* The passes start at the end of the text, and where it goes wrong.
LEMMA StartIs ==
  ASSUME Typed, EndOfFile \/ SyntaxError
  PROVE  StartsAnalyze
  <1>1. CASE EndOfFile
    <2>1. Reading({"input"}) /\ Analyze
          /\ UNCHANGED <<list_namespaces, currentNameSpace, list_parentFunction, entered, open, items, errors, unclean>>
      BY <1>1 DEF EndOfFile
    <2>2. phase = "parsing" BY <2>1, InsideOf
    <2>3. open = <<>>
      <3>1. SUFFICES ASSUME open # <<>> PROVE FALSE OBVIOUS
      <3>2. Last(open).kind \in {"input"} \cap Makers BY <2>1, <3>1, InsideOf
      <3> QED BY <3>2 DEF Makers, Functions
    <2> QED BY <2>1, <2>2, <2>3 DEF StartsAnalyze
  <1>2. CASE SyntaxError BY <1>2 DEF SyntaxError, StartsAnalyze
  <1> QED BY <1>1, <1>2

-----------------------------------------------------------------------------
(***************************************************************************)
(* The passes change what becomes of the items, and nothing else.          *)
(***************************************************************************)
SameItems ==
  /\ DOMAIN items' = DOMAIN items /\ Len(items') = Len(items)
  /\ \A i \in DOMAIN items :
       /\ items'[i].is = items[i].is
       /\ items'[i].name = items[i].name
       /\ items'[i].within = items[i].within
       /\ items'[i].subs = items[i].subs
       /\ items[i].is = "sub" => items'[i].as = items[i].as
       /\ items[i].as # <<>> => items'[i].as # <<>>

Passes ==
  /\ phase = "analyzing" /\ phase' \in {"analyzing", "crashed"}
  /\ SameItems
  /\ UNCHANGED <<list_namespaces, nameSpaceBuffer, open, unclean>>
  /\ \/ list_parentFunction' = list_parentFunction
     \/ list_parentFunction # <<>> /\ list_parentFunction' = Front(list_parentFunction)

\* What is called: of which loop, at which namespace, on which item.
LEMMA CallType ==
  ASSUME Typed, Callable, NEW c \in calls
  PROVE  /\ c \in Calls /\ c[1] \in Nat /\ c[2] \in DOMAIN list_namespaces /\ c[3] \in Nat /\ c[4] \in Nat
         /\ c[5] \in DOMAIN items /\ c[2] \in Nat /\ c[5] \in Nat
         /\ items[c[5]] \in Declared
         /\ items[c[5]].name \in Names
  <1>1. c \in Calls BY DEF Typed
  <1>2. c[1] \in Nat /\ c[2] \in Nat /\ c[3] \in Nat /\ c[4] \in Nat /\ c[5] \in Nat BY <1>1 DEF Calls
  <1>3. c[2] \in DOMAIN list_namespaces /\ c[5] \in DOMAIN items BY DEF Callable
  <1>4. items[c[5]] \in Declared BY <1>3 DEF Typed
  <1>5. items[c[5]].name \in Names BY <1>4 DEF Declared
  <1> QED BY <1>1, <1>2, <1>3, <1>4, <1>5

\* A call starts in the loop's namespace, or where the one before it has ended.
LEMMA WithinType ==
  ASSUME Typed, Current, Callable, NEW c \in calls
  PROVE  /\ Within(c) \in Refs /\ Within(c).index <= Len(list_namespaces)
         /\ Within(c).path \in Seq(Names)
         /\ entered # <<c[1], c[2]>> => Within(c) = Ref(list_namespaces[c[2]].path, c[2])
         /\ entered = <<c[1], c[2]>> => Within(c) = currentNameSpace
  <1>1. c[2] \in DOMAIN list_namespaces /\ c[2] \in Nat BY CallType
  <1>2. list_namespaces[c[2]] \in Entries /\ c[2] <= Len(list_namespaces) BY <1>1 DEF Typed
  <1>3. list_namespaces[c[2]].path \in Seq(Names) BY <1>2 DEF Entries
  <1>4. /\ Ref(list_namespaces[c[2]].path, c[2]) \in Refs
        /\ Ref(list_namespaces[c[2]].path, c[2]).index = c[2]
    BY <1>1, <1>3, RefType
  <1>5. currentNameSpace \in Refs /\ currentNameSpace.index <= Len(list_namespaces) BY DEF Typed, Current
  <1>6. Within(c) = currentNameSpace \/ Within(c) = Ref(list_namespaces[c[2]].path, c[2]) BY DEF Within
  <1>7. Within(c) \in Refs /\ Within(c).index <= Len(list_namespaces) BY <1>2, <1>4, <1>5, <1>6
  <1>8. Within(c).path \in Seq(Names) BY <1>7 DEF Refs
  <1> QED BY <1>7, <1>8 DEF Within

\* One item with another name, namespace or result.
LEMMA AsType ==
  ASSUME NEW r \in Declared, NEW as \in Seq(Names)
  PROVE  /\ [r EXCEPT !.as = as] \in Declared
         /\ [r EXCEPT !.as = as].is = r.is /\ [r EXCEPT !.as = as].name = r.name
         /\ [r EXCEPT !.as = as].within = r.within /\ [r EXCEPT !.as = as].subs = r.subs
         /\ [r EXCEPT !.as = as].own = r.own /\ [r EXCEPT !.as = as].analyzed = r.analyzed
         /\ [r EXCEPT !.as = as].as = as
  BY DEF Declared

\* Analyzing sets the namespace a function was analyzed in, and nothing else.
LEMMA AnalyzedType ==
  ASSUME NEW r \in Declared, NEW ref \in Refs
  PROVE  /\ [r EXCEPT !.analyzed = {ref}] \in Declared
         /\ [r EXCEPT !.analyzed = {ref}].is = r.is /\ [r EXCEPT !.analyzed = {ref}].name = r.name
         /\ [r EXCEPT !.analyzed = {ref}].within = r.within
         /\ [r EXCEPT !.analyzed = {ref}].subs = r.subs
         /\ [r EXCEPT !.analyzed = {ref}].own = r.own
         /\ [r EXCEPT !.analyzed = {ref}].analyzed = {ref}
         /\ [r EXCEPT !.analyzed = {ref}].as = r.as
  BY DEF Declared

\* A pass that changes the name or the namespace of one item keeps the rest of them.
LEMMA Changes ==
  ASSUME Typed, NEW i \in DOMAIN items, NEW r \in Declared,
         r.is = items[i].is, r.name = items[i].name, r.within = items[i].within, r.subs = items[i].subs,
         items[i].is = "sub" => r.as = items[i].as, items[i].as # <<>> => r.as # <<>>,
         items' = [items EXCEPT ![i] = r]
  PROVE  /\ SameItems /\ items' \in Seq(Declared)
         /\ items'[i] = r
         /\ \A k \in DOMAIN items : k # i => items'[k] = items[k]
  <1>1. items \in Seq(Declared) BY DEF Typed
  <1> DEFINE t == [items EXCEPT ![i] = r]
  <1>2. /\ t \in Seq(Declared) /\ DOMAIN t = DOMAIN items /\ Len(t) = Len(items)
        /\ t[i] = r /\ \A k \in DOMAIN items : k # i => t[k] = items[k]
    BY <1>1, Replaced
  <1>3. items' = t OBVIOUS
  <1> HIDE DEF t
  <1>4. \A k \in DOMAIN items : k # i => items'[k] = items[k] BY <1>2, <1>3
  <1>5. items'[i] = r BY <1>2, <1>3
  <1>6. SameItems
    <2>1. DOMAIN items' = DOMAIN items /\ Len(items') = Len(items) BY <1>2, <1>3
    <2> SUFFICES ASSUME NEW k \in DOMAIN items
                 PROVE  /\ items'[k].is = items[k].is /\ items'[k].name = items[k].name
                        /\ items'[k].within = items[k].within /\ items'[k].subs = items[k].subs
                        /\ items[k].is = "sub" => items'[k].as = items[k].as
                        /\ items[k].as # <<>> => items'[k].as # <<>>
      BY <2>1 DEF SameItems
    <2> QED BY <1>4, <1>5
  <1> QED BY <1>2, <1>3, <1>4, <1>5, <1>6

Others(i) == \A k \in DOMAIN items : k # i => items'[k] = items[k]

\* The parts of a call.
LEMMA CalledIs ==
  ASSUME NEW c \in calls, NEW inside, Called(c, inside)
  PROVE  /\ phase = "analyzing"
         /\ calls' = (calls \ {c}) \cup inside /\ entered' = <<c[1], c[2]>>
         /\ \A d \in calls : ~Before(d, c)
         /\ UNCHANGED <<list_namespaces, nameSpaceBuffer, open, unclean>>
  BY DEF Called

\* Class::Regist, as a step of a pass.
LEMMA DeclareClassIs ==
  ASSUME Typed, Current, Callable, NEW c \in calls, DeclareClass(c)
  PROVE  /\ Passes /\ Called(c, {}) /\ phase' = phase
         /\ items' \in Seq(Declared) /\ Others(c[5])
         /\ items[c[5]].is = "class"
         /\ items'[c[5]] = [items[c[5]] EXCEPT !.as = <<items[c[5]].name>>]
         /\ currentNameSpace' = Within(c)
         /\ UNCHANGED <<list_parentFunction, errors>>
  <1> DEFINE i == c[5]
             as == <<items[i].name>>
             r == [items[i] EXCEPT !.as = as]
  <1>1. /\ c[1] = 1 /\ Called(c, {}) /\ currentNameSpace' = Within(c)
        /\ items' = [items EXCEPT ![i].as = as]
        /\ UNCHANGED <<phase, list_parentFunction, errors>>
    BY DEF DeclareClass
  <1>2. i \in DOMAIN items /\ items[i] \in Declared /\ items[i].name \in Names BY CallType
  <1>3. items[i].is = "class" BY <1>1 DEF Callable
  <1>4. as \in Seq(Names) /\ as # <<>> BY <1>2
  <1>5. items' = [items EXCEPT ![i] = r] BY <1>1, Zenon
  <1> HIDE DEF as
  <1>6. /\ r \in Declared /\ r.is = items[i].is /\ r.name = items[i].name /\ r.within = items[i].within
        /\ r.subs = items[i].subs /\ r.as = as
    BY <1>2, <1>4, AsType
  <1> HIDE DEF r
  <1>7. /\ SameItems /\ items' \in Seq(Declared) /\ items'[i] = r
        /\ \A k \in DOMAIN items : k # i => items'[k] = items[k]
    <2> HIDE DEF i
    <2> QED BY <1>2, <1>3, <1>4, <1>5, <1>6, Changes
  <1>8. Passes BY <1>1, <1>7, CalledIs DEF Passes
  <1> QED BY <1>1, <1>3, <1>7, <1>8 DEF r, as, Others

\* Declaration::Analyze, as a step of a pass: a name or an error.
LEMMA DeclareValueIs ==
  ASSUME Typed, Current, Callable, NEW c \in calls, DeclareValue(c)
  PROVE  /\ Passes /\ Called(c, {}) /\ phase' = phase
         /\ c[1] = 2 /\ items[c[5]].is = "value"
         /\ \/ items' = items /\ errors'
            \/ /\ items' \in Seq(Declared) /\ Others(c[5])
               /\ items'[c[5]] = [items[c[5]] EXCEPT !.as = Append(Within(c).path, items[c[5]].name)]
               /\ errors' = errors
         /\ currentNameSpace' = Within(c)
         /\ UNCHANGED list_parentFunction
         /\ errors => errors'
  <1> DEFINE i == c[5]
             as == Append(Within(c).path, items[i].name)
             taken == \E j \in DOMAIN items : items[j].is = "value" /\ items[j].as = as
             r == [items[i] EXCEPT !.as = as]
  <1>1. /\ c[1] = 2 /\ Called(c, {}) /\ currentNameSpace' = Within(c)
        /\ items' = IF taken THEN items ELSE [items EXCEPT ![i].as = as]
        /\ errors' = (errors \/ taken)
        /\ UNCHANGED <<phase, list_parentFunction>>
    BY DEF DeclareValue
  <1>2. i \in DOMAIN items /\ items[i] \in Declared /\ items[i].name \in Names BY CallType
  <1>3. items[i].is = "value" BY <1>1 DEF Callable
  <1>4. as \in Seq(Names) /\ as # <<>>
    <2>1. Within(c).path \in Seq(Names) BY WithinType
    <2> QED BY <1>2, <2>1, Appended
  <1>a. errors \in BOOLEAN BY DEF Typed
  <1>5. CASE taken
    <2>1. items' = items /\ errors' BY <1>1, <1>5
    <2>2. SameItems BY <2>1 DEF SameItems
    <2>3. Passes BY <1>1, <2>2, CalledIs DEF Passes
    <2> QED BY <1>1, <1>3, <2>1, <2>3
  <1>6. CASE ~taken
    <2>1. items' = [items EXCEPT ![i].as = as] /\ errors' = errors BY <1>1, <1>6, <1>a
    <2>5. items' = [items EXCEPT ![i] = r] BY <2>1, Zenon
    <2> HIDE DEF as
    <2>6. /\ r \in Declared /\ r.is = items[i].is /\ r.name = items[i].name /\ r.within = items[i].within
          /\ r.subs = items[i].subs /\ r.as = as
      BY <1>2, <1>4, AsType
    <2> HIDE DEF r
    <2>7. /\ SameItems /\ items' \in Seq(Declared) /\ items'[i] = r
          /\ \A k \in DOMAIN items : k # i => items'[k] = items[k]
      <3> HIDE DEF i
      <3> QED BY <1>2, <1>3, <1>4, <2>5, <2>6, Changes
    <2>8. Passes BY <1>1, <2>7, CalledIs DEF Passes
    <2> HIDE DEF taken
    <2> QED BY <1>1, <1>3, <2>1, <2>7, <2>8 DEF r, as, Others
  <1> QED BY <1>5, <1>6

\* Function::PushCompiler, as a step of a pass.
LEMMA PushCompilerIs ==
  ASSUME Typed, Nested, Current, Callable, NEW c \in calls, PushCompiler(c)
  PROVE  \E as \in Seq(Names) :
         /\ Passes /\ Called(c, {}) /\ phase' = phase
         /\ Registers(c) /\ items[c[5]].is \in {"function", "method"}
         /\ items' \in Seq(Declared) /\ Others(c[5])
         /\ items'[c[5]] = Registered(c[5], Within(c), as)
         /\ as # <<>>
         /\ c[1] = 4 => as = <<items[c[5]].name>>
         /\ c[1] # 4 => as = Append(currentNameSpace'.path, items[c[5]].name)
         /\ PopAnalyzeFunction(Within(c))
         /\ currentNameSpace' \in Refs /\ currentNameSpace'.index <= Len(list_namespaces)
         /\ UNCHANGED errors
  <1> DEFINE i == c[5]
             as == IF c[1] = 4 THEN <<items[i].name>> ELSE Append(currentNameSpace'.path, items[i].name)
             r == Registered(i, Within(c), as)
  <1>1. /\ Registers(c) /\ Called(c, {}) /\ PopAnalyzeFunction(Within(c))
        /\ items' = [items EXCEPT ![i] = Registered(i, Within(c),
             IF c[1] = 4 THEN <<@.name>> ELSE Append(currentNameSpace'.path, @.name))]
        /\ UNCHANGED <<phase, errors>>
    BY DEF PushCompiler
  <1>2. i \in DOMAIN items /\ items[i] \in Declared /\ items[i].name \in Names BY CallType
  <1>3. items[i].is \in {"function", "method"} BY <1>1 DEF Callable, Registers
  <1>4. Within(c) \in Refs /\ Within(c).index <= Len(list_namespaces) BY WithinType
  <1>5. currentNameSpace' \in Refs /\ currentNameSpace'.index <= Len(list_namespaces)
    BY <1>1, <1>4, PopType DEF PopAnalyzeFunction
  <1>6. as \in Seq(Names) /\ as # <<>>
    <2>1. currentNameSpace'.path \in Seq(Names) BY <1>5 DEF Refs
    <2>2. <<items[i].name>> \in Seq(Names) /\ <<items[i].name>> # <<>> BY <1>2
    <2>3. Append(currentNameSpace'.path, items[i].name) \in Seq(Names)
          /\ Append(currentNameSpace'.path, items[i].name) # <<>>
      BY <1>2, <2>1, Appended
    <2> QED BY <2>2, <2>3
  <1>7. items' = [items EXCEPT ![i] = r] BY <1>1, Zenon
  <1> HIDE DEF as
  <1>8. /\ r \in Declared /\ r.is = items[i].is /\ r.name = items[i].name /\ r.within = items[i].within
        /\ r.subs = items[i].subs /\ r.as = as
    <2> HIDE DEF i
    <2> DEFINE w == Within(c)
    <2>1. w \in Refs BY <1>4
    <2> HIDE DEF w
    <2>2. Registered(i, w, as) \in Declared BY <1>2, <1>6, <2>1, RegisteredType
    <2>3. Registered(i, w, as).is = items[i].is /\ Registered(i, w, as).name = items[i].name BY <1>2, <1>6, <2>1, RegisteredType
    <2>4. Registered(i, w, as).within = items[i].within /\ Registered(i, w, as).subs = items[i].subs BY <1>2, <1>6, <2>1, RegisteredType
    <2>5. Registered(i, w, as).as = as BY <1>2, <1>6, <2>1, RegisteredType
    <2> QED BY <2>2, <2>3, <2>4, <2>5 DEF w
  <1> HIDE DEF r
  <1>9. /\ SameItems /\ items' \in Seq(Declared) /\ items'[i] = r
        /\ \A k \in DOMAIN items : k # i => items'[k] = items[k]
    <2> HIDE DEF i
    <2> QED BY <1>2, <1>3, <1>6, <1>7, <1>8, Changes
  <1>10. \/ list_parentFunction' = list_parentFunction
         \/ list_parentFunction # <<>> /\ list_parentFunction' = Front(list_parentFunction)
    BY <1>1 DEF PopAnalyzeFunction
  <1>11. Passes BY <1>1, <1>9, <1>10, CalledIs DEF Passes
  <1>12. c[1] = 4 => as = <<items[i].name>> BY DEF as
  <1>13. c[1] # 4 => as = Append(currentNameSpace'.path, items[i].name) BY DEF as
  <1>14. items'[i] = Registered(i, Within(c), as) BY <1>9 DEF r
  <1>15. Others(i) BY <1>9 DEF Others
  <1> HIDE DEF i
  <1> QED BY <1>1, <1>3, <1>5, <1>6, <1>9, <1>11, <1>12, <1>13, <1>14, <1>15 DEF i

\* Function::Analyze, as a step of a pass.
LEMMA AnalyzeFunctionIs ==
  ASSUME Typed, Current, Callable, NEW c \in calls, AnalyzeFunction(c)
  PROVE  /\ Passes /\ Called(c, {<<c[1], c[2], c[3], c[4], j>> : j \in items[c[5]].subs})
         /\ Analyzes(c)
         /\ items' \in Seq(Declared) /\ Others(c[5])
         /\ OwnNameSpace(c) \in Refs
         /\ items'[c[5]] = [items[c[5]] EXCEPT !.analyzed = {OwnNameSpace(c)}]
         /\ currentNameSpace' = Within(c)
         /\ UNCHANGED <<list_parentFunction, errors>>
  <1> DEFINE i == c[5]
             r == [items[i] EXCEPT !.analyzed = {OwnNameSpace(c)}]
             inside == {<<c[1], c[2], c[3], c[4], j>> : j \in items[i].subs}
  <1>1. /\ Analyzes(c) /\ Called(c, inside) /\ currentNameSpace' = Within(c)
        /\ items' = [items EXCEPT ![i].analyzed = {OwnNameSpace(c)}]
        /\ phase' \in {phase} \cup {p \in {"crashed"} : OwnNameSpace(c) = Nowhere}
        /\ UNCHANGED <<list_parentFunction, errors>>
    BY DEF AnalyzeFunction
  <1>2. i \in DOMAIN items /\ items[i] \in Declared BY CallType
  <1>3. OwnNameSpace(c) \in Refs
    <2>1. Within(c) \in Refs BY WithinType
    <2>2. items[i].own \in Refs BY <1>2 DEF Declared
    <2> QED BY <2>1, <2>2 DEF OwnNameSpace
  <1>5. items' = [items EXCEPT ![i] = r] BY <1>1, Zenon
  <1>6. /\ r \in Declared /\ r.is = items[i].is /\ r.name = items[i].name /\ r.within = items[i].within
        /\ r.subs = items[i].subs /\ r.as = items[i].as
    <2> HIDE DEF i
    <2> QED BY <1>2, <1>3, AnalyzedType
  <1> HIDE DEF r
  <1>7. /\ SameItems /\ items' \in Seq(Declared) /\ items'[i] = r
        /\ \A k \in DOMAIN items : k # i => items'[k] = items[k]
    <2> HIDE DEF i
    <2> QED BY <1>2, <1>5, <1>6, Changes
  <1> HIDE DEF inside
  <1>8. Passes
    <2>1. phase = "analyzing" /\ UNCHANGED <<list_namespaces, nameSpaceBuffer, open, unclean>> BY <1>1, CalledIs
    <2>2. phase' \in {"analyzing", "crashed"} BY <1>1, <2>1
    <2> QED BY <1>1, <1>7, <2>1, <2>2 DEF Passes
  <1> QED BY <1>1, <1>3, <1>7, <1>8 DEF r, Others, inside

\* The early return of Function::Analyze, as a step of a pass.
LEMMA DefinedTwiceIs ==
  ASSUME Typed, Current, Callable, NEW c \in calls, DefinedTwice(c)
  PROVE  /\ Passes /\ Called(c, {}) /\ phase' = phase
         /\ errors' = TRUE
         /\ currentNameSpace' \in Refs /\ currentNameSpace'.index <= Len(list_namespaces)
         /\ Analyzes(c)
         /\ UNCHANGED <<items, list_parentFunction>>
  <1>1. /\ Analyzes(c) /\ Called(c, {}) /\ errors' = TRUE
        /\ currentNameSpace' \in {Within(c), OwnNameSpace(c)}
        /\ UNCHANGED <<phase, items, list_parentFunction>>
    BY DEF DefinedTwice
  <1>2. c[5] \in DOMAIN items /\ items[c[5]] \in Declared BY CallType
  <1>3. items[c[5]].own \in Refs /\ items[c[5]].own.index <= Len(list_namespaces) BY <1>2 DEF Declared, Current
  <1>4. Within(c) \in Refs /\ Within(c).index <= Len(list_namespaces) BY WithinType
  <1>5. SameItems BY <1>1 DEF SameItems
  <1>6. Passes BY <1>1, <1>5, CalledIs DEF Passes
  <1> QED BY <1>1, <1>3, <1>4, <1>6 DEF OwnNameSpace

-----------------------------------------------------------------------------
(***************************************************************************)
(* The state after a step, piece by piece.                                 *)
(***************************************************************************)
\* What the list and the items are after a construct has begun.
LEMMA MakesFacts ==
  ASSUME Typed, NEW kind, NEW name, NEW space, Makes(kind, name, space)
  PROVE  /\ items' \in Seq(Declared) /\ Len(items') = Len(items) + 1 /\ Len(items) \in Nat
         /\ DOMAIN items = 1 .. Len(items) /\ DOMAIN items' = 1 .. Len(items) + 1
         /\ \A i \in DOMAIN items : items'[i] = items[i]
         /\ LET new == items'[Len(items) + 1] IN
            /\ new.is = kind /\ new.name = name /\ new.within = Written
            /\ new.own = Nowhere /\ new.as = <<>> /\ new.subs = {} /\ new.analyzed = {}
         /\ list_namespaces' \in Seq(Entries) /\ Len(list_namespaces') = Len(list_namespaces) + 1
         /\ Len(list_namespaces) \in Nat
         /\ DOMAIN list_namespaces = 1 .. Len(list_namespaces)
         /\ DOMAIN list_namespaces' = 1 .. Len(list_namespaces) + 1
         /\ \A n \in DOMAIN list_namespaces : list_namespaces'[n] = list_namespaces[n]
         /\ list_namespaces'[Len(list_namespaces) + 1] = space
         /\ currentNameSpace' \in Refs
         /\ currentNameSpace'.path = space.path /\ currentNameSpace'.index = Len(list_namespaces) + 1
         /\ list_parentFunction' \in Seq(Nat)
         /\ New = Len(items) + 1
  <1>1. /\ kind \in Makers /\ name \in Names /\ space \in Entries
        /\ items' = Append(items, Item(kind, name))
        /\ list_namespaces' = Append(list_namespaces, space)
        /\ currentNameSpace' = Ref(space.path, Len(list_namespaces) + 1)
        /\ kind \in Functions => list_parentFunction' = Append(list_parentFunction, New)
        /\ kind \notin Functions => list_parentFunction' = list_parentFunction
    BY DEF Makes
  <1>2. items \in Seq(Declared) /\ list_namespaces \in Seq(Entries) /\ list_parentFunction \in Seq(Nat)
    BY DEF Typed
  <1>3. /\ Item(kind, name) \in Declared
        /\ Item(kind, name).is = kind /\ Item(kind, name).name = name /\ Item(kind, name).within = Written
        /\ Item(kind, name).own = Nowhere /\ Item(kind, name).as = <<>> /\ Item(kind, name).subs = {}
        /\ Item(kind, name).analyzed = {}
    BY <1>1, ItemType DEF Kinds
  <1>4. /\ items' \in Seq(Declared) /\ Len(items') = Len(items) + 1
        /\ DOMAIN items' = 1 .. Len(items) + 1
        /\ \A i \in DOMAIN items : items'[i] = items[i]
        /\ items'[Len(items) + 1] = Item(kind, name)
    BY <1>1, <1>2, <1>3, Appended
  <1>5. /\ list_namespaces' \in Seq(Entries) /\ Len(list_namespaces') = Len(list_namespaces) + 1
        /\ DOMAIN list_namespaces' = 1 .. Len(list_namespaces) + 1
        /\ \A n \in DOMAIN list_namespaces : list_namespaces'[n] = list_namespaces[n]
        /\ list_namespaces'[Len(list_namespaces) + 1] = space
    BY <1>1, <1>2, Appended
  <1>6. /\ Len(items) \in Nat /\ DOMAIN items = 1 .. Len(items)
        /\ Len(list_namespaces) \in Nat /\ DOMAIN list_namespaces = 1 .. Len(list_namespaces)
    BY <1>2
  <1>7. space.path \in Seq(Names) BY <1>1 DEF Entries
  <1>8. /\ currentNameSpace' \in Refs
        /\ currentNameSpace'.path = space.path /\ currentNameSpace'.index = Len(list_namespaces) + 1
    BY <1>1, <1>6, <1>7, RefType
  <1>9. list_parentFunction' \in Seq(Nat)
    <2>1. New \in Nat BY NewItem
    <2>2. Append(list_parentFunction, New) \in Seq(Nat) BY <1>2, <2>1, Appended
    <2> QED BY <1>1, <1>2, <2>2
  <1>10. New = Len(items) + 1 BY NewItem
  <1> QED BY <1>3, <1>4, <1>5, <1>6, <1>8, <1>9, <1>10

\* What is open, and where the compiler is, after a head has been read.
LEMMA BeginsFacts ==
  ASSUME Typed, NEW kind, NEW name, NEW space, NEW o, Begins(kind, name, space, o)
  PROVE  /\ Makes(kind, name, space) /\ Fits(kind) /\ unclean' = unclean
         /\ o.kind = kind /\ o.name = name
         /\ kind # "namespace" => o.item = Len(items) + 1
         /\ open' \in Seq(Constructs) /\ Len(open') = Len(open) + 1 /\ Len(open) \in Nat
         /\ DOMAIN open = 1 .. Len(open) /\ DOMAIN open' = 1 .. Len(open) + 1
         /\ \A p \in DOMAIN open : open'[p] = open[p]
         /\ open'[Len(open) + 1] = o
         /\ Written' = Append(Written, name)
  <1>1. /\ Makes(kind, name, space) /\ Fits(kind) /\ unclean' = unclean
        /\ o \in Constructs /\ o.kind = kind /\ o.name = name
        /\ kind # "namespace" => o.item = New
        /\ open' = Append(open, o)
    BY DEF Begins
  <1>2. open \in Seq(Constructs) BY DEF Typed
  <1>3. New = Len(items) + 1 BY NewItem
  <1>4. /\ open' \in Seq(Constructs) /\ Len(open') = Len(open) + 1
        /\ DOMAIN open' = 1 .. Len(open) + 1
        /\ \A p \in DOMAIN open : open'[p] = open[p]
        /\ open'[Len(open) + 1] = o
    <2>1. open' = Append(open, o) /\ o \in Constructs BY <1>1
    <2> QED BY <1>2, <2>1, Appended
  <1>5. Len(open) \in Nat /\ DOMAIN open = 1 .. Len(open) BY <1>2
  <1>6. Written' = Append(Written, name)
    <2>1. name \in Names BY <1>1 DEF Makes
    <2>2. Written \in Seq(Names) /\ Len(Written) = Len(open) BY WrittenType
    <2>3. /\ Append(Written, name) \in Seq(Names) /\ Len(Append(Written, name)) = Len(open) + 1
          /\ \A p \in 1 .. Len(open) : Append(Written, name)[p] = Written[p]
          /\ Append(Written, name)[Len(open) + 1] = name
      <3>1. DOMAIN Written = 1 .. Len(open) BY <2>2
      <3> QED BY <2>1, <2>2, <3>1, Appended
    <2>4. Written' = [p \in 1 .. Len(open) + 1 |-> open'[p].name] BY <1>4 DEF Written
    <2>5. \A p \in 1 .. Len(open) : Written[p] = open[p].name BY <1>5 DEF Written
    <2>6. \A p \in 1 .. Len(open) : Append(Written, name)[p] = open'[p].name BY <1>4, <1>5, <2>3, <2>5
    <2>7. Append(Written, name)[Len(open) + 1] = open'[Len(open) + 1].name BY <1>1, <1>4, <2>3
    <2>8. \A p \in 1 .. Len(open) + 1 : Append(Written, name)[p] = open'[p].name
      <3> TAKE p \in 1 .. Len(open) + 1
      <3>1. p \in 1 .. Len(open) \/ p = Len(open) + 1 BY <1>5
      <3> QED BY <2>6, <2>7, <3>1
    <2>9. Append(Written, name) = [p \in 1 .. Len(open) + 1 |-> Append(Written, name)[p]]
      BY <2>3, AsFunction
    <2> QED BY <2>4, <2>8, <2>9
  <1> QED BY <1>1, <1>3, <1>4, <1>5, <1>6

\* What is open, and where the compiler is, after an end has been read.
LEMMA EndsFacts ==
  ASSUME Typed, Nested, Current, Ends
  PROVE  /\ open' \in Seq(Constructs) /\ Len(open') = Len(open) - 1 /\ Len(open) \in Nat \ {0}
         /\ DOMAIN open = 1 .. Len(open) /\ DOMAIN open' = 1 .. Len(open) - 1
         /\ \A p \in DOMAIN open' : open'[p] = open[p]
         /\ Last(open) = open[Len(open)] /\ Last(open) \in Constructs
         /\ open[Len(open)].item \in Nat
         /\ currentNameSpace' \in Refs /\ Refers(currentNameSpace')
         /\ currentNameSpace' = PopNameSpace(currentNameSpace)
         /\ currentNameSpace'.path = Front(currentNameSpace.path)
         /\ Written' = Front(Written)
         /\ phase = "parsing" /\ phase' = "parsing" /\ unclean' = unclean
  <1>1. /\ phase = "parsing" /\ phase' = "parsing" /\ unclean' = unclean
        /\ open # <<>> /\ open' = Front(open) /\ currentNameSpace' = PopNameSpace(currentNameSpace)
    BY DEF Ends, Reads
  <1>2. open \in Seq(Constructs) BY DEF Typed
  <1>3. /\ open' \in Seq(Constructs) /\ Len(open') = Len(open) - 1 /\ Len(open) \in Nat \ {0}
        /\ DOMAIN open' = 1 .. Len(open) - 1
        /\ \A p \in 1 .. Len(open) - 1 : open'[p] = open[p]
        /\ Last(open) = open[Len(open)] /\ Last(open) \in Constructs
    BY <1>1, <1>2, FrontOf
  <1>4. DOMAIN open = 1 .. Len(open) BY <1>2
  <1>5. open[Len(open)].item \in Nat BY <1>3 DEF Constructs
  <1>6. /\ currentNameSpace' \in Refs /\ Refers(currentNameSpace')
        /\ currentNameSpace'.path = Front(currentNameSpace.path)
    BY <1>1, Leaving
  <1>7. Written' = Front(Written)
    <2>1. Written \in Seq(Names) /\ Len(Written) = Len(open) BY WrittenType
    <2>2. Written # <<>> BY <1>3, <2>1
    <2>3. /\ Front(Written) \in Seq(Names) /\ DOMAIN Front(Written) = 1 .. Len(open) - 1
          /\ \A p \in 1 .. Len(open) - 1 : Front(Written)[p] = Written[p]
      BY <2>1, <2>2, FrontOf
    <2>4. Written' = [p \in 1 .. Len(open) - 1 |-> open'[p].name] BY <1>3 DEF Written
    <2>5. \A p \in 1 .. Len(open) - 1 : Written[p] = open[p].name BY <1>3, <1>4 DEF Written
    <2>6. Front(Written) = [p \in 1 .. Len(open) - 1 |-> Front(Written)[p]] BY <2>3
    <2> QED BY <1>3, <2>3, <2>4, <2>5, <2>6
  <1> QED BY <1>1, <1>3, <1>4, <1>5, <1>6, <1>7

-----------------------------------------------------------------------------
(***************************************************************************)
(* What a step keeps of the list of namespaces.                            *)
(***************************************************************************)
\* The namespaces are still there, under the same paths and in the same ones.
SpacesStay ==
  /\ list_namespaces' \in Seq(Entries)
  /\ DOMAIN list_namespaces \subseteq DOMAIN list_namespaces'
  /\ Len(list_namespaces) <= Len(list_namespaces')
  /\ \A n \in DOMAIN list_namespaces :
       /\ list_namespaces'[n].path = list_namespaces[n].path
       /\ list_namespaces'[n].parent = list_namespaces[n].parent

RefersAfter(ref) ==
  /\ ref.index \in 0 .. Len(list_namespaces')
  /\ ref.index # 0 => list_namespaces'[ref.index].path = ref.path
  /\ ref.index = 0 => ref.path # <<>>

\* A namespace that could be referred to still can, if the list only grows.
LEMMA StillRefers ==
  ASSUME Typed, SpacesStay, NEW ref \in Refs, Refers(ref)
  PROVE  RefersAfter(ref)
  <1>1. list_namespaces \in Seq(Entries) /\ list_namespaces' \in Seq(Entries) BY DEF Typed, SpacesStay
  <1>2. /\ Len(list_namespaces) \in Nat /\ Len(list_namespaces') \in Nat
        /\ Len(list_namespaces) <= Len(list_namespaces')
        /\ DOMAIN list_namespaces = 1 .. Len(list_namespaces)
    BY <1>1 DEF SpacesStay
  <1>3. ref.index \in 0 .. Len(list_namespaces') BY <1>2 DEF Refers
  <1>4. ref.index # 0 => list_namespaces'[ref.index].path = ref.path
    <2>1. ref.index # 0 => ref.index \in DOMAIN list_namespaces BY <1>2 DEF Refers
    <2> QED BY <2>1 DEF Refers, SpacesStay
  <1> QED BY <1>3, <1>4 DEF Refers, RefersAfter

\* Namespaces stay nested, if only their buffers change.
LEMMA StillNested ==
  ASSUME Typed, Nested, SpacesStay, Len(list_namespaces') = Len(list_namespaces)
  PROVE  Nested'
  <1>1. list_namespaces \in Seq(Entries) BY DEF Typed
  <1>2. Len(list_namespaces) \in Nat /\ Len(list_namespaces) >= 1 /\ DOMAIN list_namespaces = 1 .. Len(list_namespaces)
    BY <1>1 DEF Nested
  <1>3. list_namespaces'[1].path = <<>> /\ list_namespaces'[1].parent = Nowhere
    BY <1>2 DEF Nested, SpacesStay
  <1>4. ASSUME NEW n \in 2 .. Len(list_namespaces)
        PROVE  LET s == list_namespaces'[n] IN
               /\ s.path # <<>>
               /\ RefersAfter(s.parent)
               /\ s.parent.path = Front(s.path)
               /\ s.parent.index < n
    <2>1. n \in DOMAIN list_namespaces BY <1>2
    <2>2. /\ list_namespaces'[n].path = list_namespaces[n].path
          /\ list_namespaces'[n].parent = list_namespaces[n].parent
      BY <2>1 DEF SpacesStay
    <2>3. list_namespaces[n] \in Entries BY <1>1, <2>1
    <2>4. list_namespaces[n].parent \in Refs BY <2>3 DEF Entries
    <2>5. /\ list_namespaces[n].path # <<>> /\ Refers(list_namespaces[n].parent)
          /\ list_namespaces[n].parent.path = Front(list_namespaces[n].path)
          /\ list_namespaces[n].parent.index < n
      BY DEF Nested
    <2>6. RefersAfter(list_namespaces[n].parent) BY <2>4, <2>5, StillRefers
    <2> QED BY <2>2, <2>5, <2>6
  <1> QED BY <1>2, <1>3, <1>4 DEF Nested, Refers, RefersAfter

-----------------------------------------------------------------------------
(***************************************************************************)
(* What a step keeps of the items.                                         *)
(***************************************************************************)
ItemsStay ==
  /\ items' \in Seq(Declared)
  /\ DOMAIN items \subseteq DOMAIN items' /\ Len(items) <= Len(items')
  /\ \A i \in DOMAIN items :
       /\ items'[i].is = items[i].is
       /\ items'[i].name = items[i].name
       /\ items'[i].within = items[i].within
       /\ items[i].as # <<>> => items'[i].as # <<>>

Attached(j) ==
  \E i \in DOMAIN items :
    /\ items[i].is \in Functions
    /\ {k \in DOMAIN items : j \in items[k].subs} = {i}
    /\ items[j].within = Here(i)
    /\ \A k \in DOMAIN items : items[k].is \in Functions /\ k < j /\ Here(k) = Here(i) => k <= i

\* AttachedToEnclosing, function by function.
LEMMA AllAttached ==
  AttachedToEnclosing <=> \A j \in DOMAIN items : items[j].is = "sub" /\ items[j].as # <<>> => Attached(j)
  BY DEF AttachedToEnclosing, Attached, Of

\* A function stays attached, if nothing else is attached or taken away.
LEMMA StaysAttached ==
  ASSUME Typed, ItemsStay, NEW j \in DOMAIN items, Attached(j),
         \A k \in DOMAIN items' : j \in items'[k].subs <=> k \in DOMAIN items /\ j \in items[k].subs
  PROVE  Attached(j)'
  <1>1. PICK i \in DOMAIN items :
          /\ items[i].is \in Functions
          /\ {k \in DOMAIN items : j \in items[k].subs} = {i}
          /\ items[j].within = Here(i)
          /\ \A k \in DOMAIN items : items[k].is \in Functions /\ k < j /\ Here(k) = Here(i) => k <= i
    BY DEF Attached
  <1>2. DOMAIN items = 1 .. Len(items) /\ Len(items) \in Nat BY DEF Typed
  <1>a. DOMAIN items' = 1 .. Len(items') /\ Len(items') \in Nat BY DEF ItemsStay
  <1>3. i \in DOMAIN items' /\ items'[i].is \in Functions BY <1>1 DEF ItemsStay
  <1>4. {k \in DOMAIN items' : j \in items'[k].subs} = {i}
    <2>1. {k \in DOMAIN items' : j \in items'[k].subs} = {k \in DOMAIN items : j \in items[k].subs} BY DEF ItemsStay
    <2> QED BY <1>1, <2>1
  <1>5. \A k \in DOMAIN items : Append(items'[k].within, items'[k].name) = Append(items[k].within, items[k].name)
    BY DEF ItemsStay
  <1>6. items'[j].within = Append(items'[i].within, items'[i].name)
    BY <1>1, <1>5 DEF Here, ItemsStay
  <1>7. ASSUME NEW k \in DOMAIN items', items'[k].is \in Functions, k < j,
               Append(items'[k].within, items'[k].name) = Append(items'[i].within, items'[i].name)
        PROVE  k <= i
    <2>1. k \in DOMAIN items BY <1>2, <1>a, <1>7
    <2>2. items[k].is \in Functions BY <1>7, <2>1 DEF ItemsStay
    <2>3. Here(k) = Here(i) BY <1>5, <1>7, <2>1 DEF Here
    <2> QED BY <1>1, <1>7, <2>1, <2>2, <2>3
  <1> QED BY <1>3, <1>4, <1>6, <1>7 DEF Attached, Here

\* One item is new.
Grows ==
  /\ ItemsStay
  /\ Len(items') = Len(items) + 1
  /\ \A i \in DOMAIN items : items'[i] = items[i]
  /\ items'[Len(items) + 1].subs = {}
  /\ items'[Len(items) + 1].within = Written
  /\ items'[Len(items) + 1].own = Nowhere
  /\ items'[Len(items) + 1].analyzed = {}
  /\ items'[Len(items) + 1].is = "sub" => items'[Len(items) + 1].as = <<>>

\* A new declaration is not owned and owns nothing.
LEMMA GrownOwned ==
  ASSUME Typed, Grows, Owned
  PROVE  Owned'
  <1> DEFINE m == Len(items)
  <1>1. m \in Nat /\ DOMAIN items = 1 .. m BY DEF Typed
  <1>2. items' \in Seq(Declared) /\ Len(items') = m + 1 BY DEF Grows, ItemsStay
  <1>3. DOMAIN items' = 1 .. m + 1 BY <1>2
  <1>4. /\ \A i \in 1 .. m : items'[i] = items[i]
        /\ items'[m + 1].subs = {}
    BY <1>1 DEF Grows
  <1>5. ASSUME NEW i \in 1 .. m + 1, NEW j \in items'[i].subs
        PROVE  /\ i \in 1 .. m /\ j \in items[i].subs
    BY <1>1, <1>4
  <1> SUFFICES ASSUME NEW i \in DOMAIN items', NEW j \in items'[i].subs
               PROVE  /\ j \in i + 1 .. Len(items')
                      /\ items'[i].is = "class" => items'[j].is = "method"
                      /\ items'[i].is # "class" =>
                           items'[i].is \in Functions /\ items'[j].is = "sub" /\ items'[j].as # <<>>
                      /\ \A k \in DOMAIN items' : j \in items'[k].subs => k = i
    BY DEF Owned
  <1>6. i \in 1 .. m /\ j \in items[i].subs BY <1>3, <1>5
  <1>7. /\ j \in i + 1 .. m
        /\ items[i].is = "class" => items[j].is = "method"
        /\ items[i].is # "class" => items[i].is \in Functions /\ items[j].is = "sub" /\ items[j].as # <<>>
        /\ \A k \in 1 .. m : j \in items[k].subs => k = i
    BY <1>1, <1>6 DEF Owned
  <1>8. j \in 1 .. m /\ j \in i + 1 .. m + 1 BY <1>1, <1>6, <1>7
  <1>9. items'[i] = items[i] /\ items'[j] = items[j] BY <1>4, <1>6, <1>8
  <1>10. \A k \in DOMAIN items' : j \in items'[k].subs => k = i BY <1>3, <1>4, <1>5, <1>7
  <1> HIDE DEF m
  <1> QED BY <1>2, <1>7, <1>8, <1>9, <1>10

\* A new declaration does not change what is attached to what: it comes after
\* all the others.
LEMMA GrownAttached ==
  ASSUME Typed, Grows, AttachedToEnclosing
  PROVE  AttachedToEnclosing'
  <1> DEFINE m == Len(items)
  <1>1. m \in Nat /\ DOMAIN items = 1 .. m BY DEF Typed
  <1>2. items' \in Seq(Declared) /\ Len(items') = m + 1 BY DEF Grows, ItemsStay
  <1>3. DOMAIN items' = 1 .. m + 1 BY <1>2
  <1>4. /\ \A i \in 1 .. m : items'[i] = items[i]
        /\ items'[m + 1].subs = {}
        /\ items'[m + 1].is = "sub" => items'[m + 1].as = <<>>
    BY <1>1 DEF Grows
  <1>5. ASSUME NEW j \in DOMAIN items', items'[j].is = "sub", items'[j].as # <<>>
        PROVE  Attached(j)'
    <2>1. j \in DOMAIN items BY <1>1, <1>3, <1>4, <1>5
    <2>2. Attached(j) BY <1>1, <1>4, <1>5, <2>1, AllAttached
    <2>3. \A k \in DOMAIN items' : j \in items'[k].subs <=> k \in DOMAIN items /\ j \in items[k].subs
      BY <1>1, <1>3, <1>4
    <2> QED BY <2>1, <2>2, <2>3, StaysAttached DEF Grows
  <1>6. (\A j \in DOMAIN items : items[j].is = "sub" /\ items[j].as # <<>> => Attached(j))'
    BY <1>5
  <1> QED BY <1>6, AllAttached, PTL

-----------------------------------------------------------------------------
(***************************************************************************)
(* What is in the buffers.                                                 *)
(***************************************************************************)
BuffersFit(s) ==
  /\ \A e \in DOMAIN s.functions : s.functions[e] \in DOMAIN items' /\ items'[s.functions[e]].is = "function"
  /\ \A e \in DOMAIN s.classes : s.classes[e] \in DOMAIN items' /\ items'[s.classes[e]].is = "class"
  /\ \A e \in DOMAIN s.values : s.values[e] \in DOMAIN items' /\ items'[s.values[e]].is = "value"

\* What is in the buffers stays what it is.
LEMMA StillFit ==
  ASSUME Typed, Buffers, ItemsStay, NEW n \in DOMAIN list_namespaces
  PROVE  BuffersFit(list_namespaces[n])
  BY DEF Buffers, BuffersFit, ItemsStay

\* The buffers are right, if the ones that change are.
LEMMA FitBuffers ==
  ASSUME Typed, Buffers, ItemsStay,
         \A n \in DOMAIN list_namespaces' :
           \/ n \in DOMAIN list_namespaces /\ list_namespaces'[n] = list_namespaces[n]
           \/ BuffersFit(list_namespaces'[n]),
         \A p \in DOMAIN list_parentFunction' :
           \/ p \in DOMAIN list_parentFunction /\ list_parentFunction'[p] = list_parentFunction[p]
           \/ list_parentFunction'[p] <= Len(items')
  PROVE  Buffers'
  <1>1. \A n \in DOMAIN list_namespaces' : BuffersFit(list_namespaces'[n]) BY StillFit
  <1>2. ASSUME NEW p \in DOMAIN list_parentFunction' PROVE list_parentFunction'[p] <= Len(items')
    <2>1. CASE p \in DOMAIN list_parentFunction /\ list_parentFunction'[p] = list_parentFunction[p]
      <3>1. list_parentFunction[p] <= Len(items) BY <2>1 DEF Buffers
      <3>2. list_parentFunction[p] \in Nat BY <2>1 DEF Typed
      <3>3. Len(items) \in Nat /\ Len(items') \in Nat /\ Len(items) <= Len(items') BY DEF Typed, ItemsStay
      <3> QED BY <2>1, <3>1, <3>2, <3>3
    <2> QED BY <2>1
  <1> QED BY <1>1, <1>2 DEF Buffers, BuffersFit

-----------------------------------------------------------------------------
(***************************************************************************)
(* A construct begins.                                                     *)
(***************************************************************************)
\* What every head of a construct keeps.
LEMMA MakesKeeps ==
  ASSUME Typed, Nested, Current, Started, Buffers, Owned, AttachedToEnclosing,
         NEW kind, NEW name, NEW space, Makes(kind, name, space)
  PROVE  /\ Grows /\ SpacesStay
         /\ Nested' /\ Buffers' /\ Owned' /\ AttachedToEnclosing'
         /\ Len(items') <= MaxItems
         /\ Len(list_namespaces') <= Len(items') + 1
         /\ \A i \in DOMAIN items' : Len(items'[i].within) < i
         /\ \A i \in DOMAIN items' : items'[i].own.index <= Len(list_namespaces')
         /\ Refers(currentNameSpace)
         /\ RefersAfter(currentNameSpace')
         /\ currentNameSpace'.index <= Len(list_namespaces')
         /\ Len(currentNameSpace'.path) = Len(currentNameSpace.path) + 1
         /\ Len(currentNameSpace.path) \in Nat
         /\ Len(open) <= Len(currentNameSpace.path)
  <1> DEFINE m == Len(items)
             l == Len(list_namespaces)
  <1>1. /\ phase = "parsing"
        /\ kind \in Makers /\ name \in Names /\ space \in Entries
        /\ Declares
        /\ space.path = Append(currentNameSpace.path, name) /\ space.parent = currentNameSpace
        /\ space.functions = <<>> /\ space.values = <<>>
        /\ kind = "class" => space.classes = <<New>>
        /\ kind # "class" => space.classes = <<>>
        /\ kind \in Functions => list_parentFunction' = Append(list_parentFunction, New)
        /\ kind \notin Functions => list_parentFunction' = list_parentFunction
    BY DEF Makes, Reads
  <1>2. /\ items' \in Seq(Declared) /\ Len(items') = m + 1 /\ m \in Nat
        /\ DOMAIN items = 1 .. m /\ DOMAIN items' = 1 .. m + 1
        /\ \A i \in DOMAIN items : items'[i] = items[i]
        /\ New = m + 1
    BY MakesFacts
  <1>3. LET new == items'[m + 1] IN
            /\ new.is = kind /\ new.name = name /\ new.within = Written
            /\ new.own = Nowhere /\ new.as = <<>> /\ new.subs = {} /\ new.analyzed = {}
    BY MakesFacts
  <1>4. /\ list_namespaces' \in Seq(Entries) /\ Len(list_namespaces') = l + 1 /\ l \in Nat
        /\ DOMAIN list_namespaces = 1 .. l /\ DOMAIN list_namespaces' = 1 .. l + 1
        /\ \A n \in DOMAIN list_namespaces : list_namespaces'[n] = list_namespaces[n]
        /\ list_namespaces'[l + 1] = space
    BY MakesFacts
  <1>5. /\ currentNameSpace' \in Refs
        /\ currentNameSpace'.path = space.path /\ currentNameSpace'.index = l + 1
    BY MakesFacts
  <1>6. /\ list_namespaces \in Seq(Entries) /\ currentNameSpace \in Refs /\ items \in Seq(Declared)
        /\ list_parentFunction \in Seq(Nat)
    BY DEF Typed
  <1>7. currentNameSpace.path \in Seq(Names) /\ currentNameSpace.index \in Nat BY <1>6 DEF Refs
  <1>8. Refers(currentNameSpace) /\ Len(open) <= Len(currentNameSpace.path) BY <1>1 DEF Current
  <1>9. /\ space.path \in Seq(Names) /\ space.path # <<>>
        /\ Len(space.path) = Len(currentNameSpace.path) + 1
        /\ Front(space.path) = currentNameSpace.path
    BY <1>1, <1>7, Appended, FrontAppended
  <1>10. SpacesStay BY <1>4 DEF SpacesStay
  <1>11. Grows
    <2>1. ItemsStay BY <1>2 DEF ItemsStay
    <2> QED BY <1>2, <1>3, <2>1 DEF Grows
  <1>12. Nested'
    <2>1. l >= 1 /\ list_namespaces'[1] = list_namespaces[1] /\ list_namespaces[1].path = <<>>
          /\ list_namespaces[1].parent = Nowhere
      BY <1>4 DEF Nested
    <2>2. RefersAfter(currentNameSpace) BY <1>6, <1>8, <1>10, StillRefers
    <2>3. currentNameSpace.index < l + 1 BY <1>4, <1>7, <1>8 DEF Refers
    <2>4. ASSUME NEW n \in 2 .. l + 1
          PROVE  LET s == list_namespaces'[n] IN
                 /\ s.path # <<>>
                 /\ RefersAfter(s.parent)
                 /\ s.parent.path = Front(s.path)
                 /\ s.parent.index < n
      <3>1. CASE n = l + 1 BY <1>1, <1>4, <1>9, <2>2, <2>3, <3>1
      <3>2. CASE n # l + 1
        <4>1. n \in 2 .. l /\ n \in DOMAIN list_namespaces BY <1>4, <3>2
        <4>2. list_namespaces'[n] = list_namespaces[n] BY <1>4, <4>1
        <4>3. list_namespaces[n] \in Entries BY <1>6, <4>1
        <4>4. list_namespaces[n].parent \in Refs BY <4>3 DEF Entries
        <4>5. /\ list_namespaces[n].path # <<>> /\ Refers(list_namespaces[n].parent)
              /\ list_namespaces[n].parent.path = Front(list_namespaces[n].path)
              /\ list_namespaces[n].parent.index < n
          BY <4>1 DEF Nested
        <4>6. RefersAfter(list_namespaces[n].parent) BY <1>10, <4>4, <4>5, StillRefers
        <4> QED BY <4>2, <4>5, <4>6
      <3> QED BY <3>1, <3>2
    <2>5. Len(list_namespaces') >= 1 BY <1>4
    <2> HIDE DEF l
    <2> QED BY <1>4, <2>1, <2>4, <2>5 DEF Nested, Refers, RefersAfter
  <1>13. Owned' /\ AttachedToEnclosing' BY <1>11, GrownOwned, GrownAttached
  <1>14. Buffers'
    <2>1. ItemsStay BY <1>11 DEF Grows
    <2>2. BuffersFit(space)
      <3>1. CASE kind = "class"
        <4>1. space.classes = <<m + 1>> /\ space.functions = <<>> /\ space.values = <<>> BY <1>1, <1>2, <3>1
        <4>2. m + 1 \in DOMAIN items' /\ items'[m + 1].is = "class" BY <1>2, <1>3, <3>1
        <4> HIDE DEF m
        <4> QED BY <4>1, <4>2 DEF BuffersFit
      <3>2. CASE kind # "class" BY <1>1, <3>2 DEF BuffersFit
      <3> QED BY <3>1, <3>2
    <2>3. \A n \in DOMAIN list_namespaces' :
           \/ n \in DOMAIN list_namespaces /\ list_namespaces'[n] = list_namespaces[n]
           \/ BuffersFit(list_namespaces'[n])
      <3> TAKE n \in DOMAIN list_namespaces'
      <3>1. n \in DOMAIN list_namespaces \/ n = l + 1 BY <1>4
      <3> QED BY <1>4, <2>2, <3>1
    <2>4. \A p \in DOMAIN list_parentFunction' :
           \/ p \in DOMAIN list_parentFunction /\ list_parentFunction'[p] = list_parentFunction[p]
           \/ list_parentFunction'[p] <= Len(items')
      <3>1. CASE kind \in Functions
        <4>1. m + 1 \in Nat BY <1>2
        <4>2. list_parentFunction' = Append(list_parentFunction, m + 1) BY <1>1, <1>2, <3>1
        <4> HIDE DEF m
        <4> QED BY <1>2, <1>6, <4>1, <4>2
      <3>2. CASE kind \notin Functions BY <1>1, <3>2
      <3> QED BY <3>1, <3>2
    <2> QED BY <2>1, <2>3, <2>4, FitBuffers
  <1>15. Len(items') <= MaxItems
    BY <1>1, <1>2, ParsingAssumption DEF Declares
  <1>16. Len(list_namespaces') <= Len(items') + 1 BY <1>2, <1>4 DEF Started
  <1>17. \A i \in DOMAIN items' : Len(items'[i].within) < i
    <2>1. Len(Written) = Len(open) /\ Len(open) \in Nat BY WrittenType DEF Typed
    <2>2. Len(open) <= m BY DEF Started
    <2>3. Len(items'[m + 1].within) < m + 1 BY <1>2, <1>3, <2>1, <2>2
    <2>4. \A i \in DOMAIN items : Len(items'[i].within) < i BY <1>2 DEF Started
    <2> QED BY <1>2, <2>3, <2>4
  <1>18. \A i \in DOMAIN items' : items'[i].own.index <= Len(list_namespaces')
    <2>1. Nowhere.index = 0 BY Consts
    <2>2. items'[m + 1].own.index <= l + 1 BY <1>3, <1>4, <2>1
    <2>3. ASSUME NEW i \in DOMAIN items PROVE items'[i].own.index <= l + 1
      <3>1. items[i].own.index <= l BY DEF Current
      <3>2. items[i] \in Declared BY <1>6
      <3>3. items[i].own \in Refs BY <3>2 DEF Declared
      <3>4. items[i].own.index \in Nat BY <3>3 DEF Refs
      <3> QED BY <1>2, <1>4, <3>1, <3>4
    <2> QED BY <1>2, <1>4, <2>2, <2>3
  <1>19. RefersAfter(currentNameSpace') /\ currentNameSpace'.index <= Len(list_namespaces')
    BY <1>4, <1>5 DEF RefersAfter
  <1>20. Len(currentNameSpace'.path) = Len(currentNameSpace.path) + 1 /\ Len(currentNameSpace.path) \in Nat
    BY <1>5, <1>7, <1>9
  <1> QED BY <1>8, <1>10, <1>11, <1>12, <1>13, <1>14, <1>15, <1>16, <1>17, <1>18, <1>19, <1>20

\* Declarations are in nothing but namespaces.
LEMMA OnlyNameSpaces ==
  ASSUME Typed, Text, phase = "parsing", open = <<>> \/ Last(open).kind = "namespace"
  PROVE  \A q \in DOMAIN open : open[q].kind = "namespace"
  <1>1. open \in Seq(Constructs) BY DEF Typed
  <1>2. CASE open = <<>> BY <1>2
  <1>3. CASE open # <<>>
    <2>1. Len(open) \in Nat \ {0} /\ Last(open) = open[Len(open)] BY <1>1, <1>3, FrontOf
    <2>2. DOMAIN open = 1 .. Len(open) BY <1>1
    <2>3. open[Len(open)].kind = "namespace" BY <1>3, <2>1
    <2>4. \A q \in DOMAIN open : q < Len(open) => open[q].kind = "namespace"
      <3>1. Len(open) \in DOMAIN open BY <2>1, <2>2
      <3>2. open[Len(open)].kind \in Declarations \cup {"class", "function"} BY <2>3 DEF Declarations
      <3> QED BY <3>1, <3>2 DEF Text
    <2> QED BY <2>1, <2>2, <2>3, <2>4
  <1> QED BY <1>2, <1>3

\* What is open stays as it is while items are added inside of it.
LEMMA GrownText ==
  ASSUME Typed, Text, Owned, Grows, phase = "parsing",
         NEW p \in DOMAIN open, open[p].kind # "namespace"
  PROVE  LET o == open[p] IN
         /\ o.item \in DOMAIN items'
         /\ items'[o.item].is = o.kind
         /\ items'[o.item].name = o.name
         /\ items'[o.item].within = [q \in 1 .. p - 1 |-> open[q].name]
         /\ items'[o.item].as = <<>>
         /\ \A i \in DOMAIN items' : i > o.item => p <= Len(items'[i].within)
         /\ \A i \in DOMAIN items' : o.item \notin items'[i].subs
  <1> DEFINE m == Len(items)
             o == open[p]
  <1>1. m \in Nat /\ DOMAIN items = 1 .. m BY DEF Typed
  <1>2. DOMAIN items' = 1 .. m + 1 BY DEF Grows, ItemsStay
  <1>3. /\ \A i \in DOMAIN items : items'[i] = items[i]
        /\ items'[m + 1].subs = {} /\ items'[m + 1].within = Written
    BY DEF Grows
  <1>4. /\ o.item \in DOMAIN items
        /\ items[o.item].is = o.kind
        /\ items[o.item].name = o.name
        /\ items[o.item].within = [q \in 1 .. p - 1 |-> open[q].name]
        /\ items[o.item].as = <<>>
        /\ \A i \in DOMAIN items : i > o.item => p <= Len(items[i].within)
        /\ \A i \in DOMAIN items : o.item \notin items[i].subs
    BY DEF Text
  <1>5. Len(Written) = Len(open) /\ p <= Len(open) BY WrittenType DEF Typed
  <1>6. \A i \in DOMAIN items' : i \in DOMAIN items \/ i = m + 1 BY <1>1, <1>2
  <1>7. o.item \in DOMAIN items' BY <1>1, <1>2, <1>4
  <1>8. items'[o.item] = items[o.item] BY <1>3, <1>4
  <1>9. \A i \in DOMAIN items' : i > o.item => p <= Len(items'[i].within) BY <1>3, <1>4, <1>5, <1>6
  <1>10. \A i \in DOMAIN items' : o.item \notin items'[i].subs BY <1>3, <1>4, <1>6
  <1> QED BY <1>4, <1>7, <1>8, <1>9, <1>10

\* A prototype keeps the invariant.
LEMMA ForetellsKeeps ==
  ASSUME TextInv, NEW kind, NEW name, NEW space, Foretells(kind, name, space)
  PROVE  TextInv'
  <1> USE DEF TextInv
  <1>1. /\ Makes(kind, name, space) /\ kind \in {"class", "function"} /\ Fits(kind) /\ open' = open
        /\ unclean' = unclean \cup {"prototype"}
    BY DEF Foretells
  <1>2. phase = "parsing" /\ phase' = "parsing" /\ UNCHANGED <<nameSpaceBuffer, calls, entered, errors>>
    BY <1>1 DEF Makes, Reads
  <1>3. /\ items' \in Seq(Declared) /\ Len(items') = Len(items) + 1 /\ Len(items) \in Nat
        /\ list_namespaces' \in Seq(Entries)
        /\ currentNameSpace' \in Refs
        /\ list_parentFunction' \in Seq(Nat)
    BY <1>1, MakesFacts
  <1>4. /\ Grows /\ SpacesStay
        /\ Nested' /\ Buffers' /\ Owned' /\ AttachedToEnclosing'
        /\ Len(items') <= MaxItems
        /\ Len(list_namespaces') <= Len(items') + 1
        /\ \A i \in DOMAIN items' : Len(items'[i].within) < i
        /\ \A i \in DOMAIN items' : items'[i].own.index <= Len(list_namespaces')
    BY <1>1, MakesKeeps
  <1>5. /\ RefersAfter(currentNameSpace')
        /\ currentNameSpace'.index <= Len(list_namespaces')
        /\ Len(currentNameSpace'.path) = Len(currentNameSpace.path) + 1
        /\ Len(currentNameSpace.path) \in Nat
        /\ Len(open) <= Len(currentNameSpace.path)
    BY <1>1, MakesKeeps
  <1>6. open \in Seq(Constructs) BY DEF Typed
  <1>7. \A q \in DOMAIN open : open[q].kind = "namespace"
    <2>1. open = <<>> \/ Last(open).kind = "namespace" BY <1>1 DEF Fits
    <2> QED BY <1>2, <2>1, OnlyNameSpaces
  <1>8. Typed' BY <1>1, <1>2, <1>3 DEF Typed
  <1>9. Idle' BY <1>2 DEF Idle
  <1>10. Current'
    <2>1. Len(open) \in Nat BY <1>6
    <2>2. Len(open') <= Len(currentNameSpace'.path) BY <1>1, <1>5, <2>1
    <2> QED BY <1>2, <1>4, <1>5, <2>2 DEF Current, Refers, RefersAfter
  <1>11. Started'
    <2>1. Len(open) <= Len(items) /\ Len(open) \in Nat BY <1>6 DEF Started
    <2>2. Len(open') <= Len(items') BY <1>1, <1>3, <2>1
    <2> QED BY <1>4, <2>2 DEF Started
  <1>12. Text' BY <1>1, <1>7 DEF Text, Functions
  <1>13. Parents' BY <1>1, <1>7 DEF Parents, Functions
  <1>14. Callable' BY <1>2 DEF Idle, Callable
  <1> QED BY <1>4, <1>8, <1>9, <1>10, <1>11, <1>12, <1>13, <1>14

\* The head of a construct keeps the invariant.
LEMMA BeginsKeeps ==
  ASSUME TextInv, NEW kind, NEW name, NEW space, NEW o, Begins(kind, name, space, o)
  PROVE  TextInv'
  <1> USE DEF TextInv
  <1> DEFINE n == Len(open)
             m == Len(items)
             l == Len(list_parentFunction)
  <1>1. /\ Makes(kind, name, space) /\ Fits(kind) /\ unclean' = unclean
        /\ o.kind = kind /\ o.name = name
    BY BeginsFacts
  <1>2. kind # "namespace" => o.item = m + 1 BY BeginsFacts
  <1>3. /\ phase = "parsing" /\ phase' = "parsing" /\ UNCHANGED <<nameSpaceBuffer, calls, entered, errors>>
        /\ kind \in Makers
        /\ kind \in Functions => list_parentFunction' = Append(list_parentFunction, New)
        /\ kind \notin Functions => list_parentFunction' = list_parentFunction
    BY <1>1 DEF Makes, Reads
  <1>4. /\ items' \in Seq(Declared) /\ Len(items') = m + 1 /\ m \in Nat
        /\ DOMAIN items = 1 .. m /\ DOMAIN items' = 1 .. m + 1
        /\ list_namespaces' \in Seq(Entries)
        /\ currentNameSpace' \in Refs
        /\ list_parentFunction' \in Seq(Nat)
        /\ New = m + 1
    BY <1>1, MakesFacts
  <1>5. LET new == items'[m + 1] IN
            /\ new.is = kind /\ new.name = name /\ new.within = Written
            /\ new.own = Nowhere /\ new.as = <<>> /\ new.subs = {} /\ new.analyzed = {}
    BY <1>1, MakesFacts
  <1>6. /\ open' \in Seq(Constructs) /\ Len(open') = n + 1 /\ n \in Nat
        /\ DOMAIN open = 1 .. n /\ DOMAIN open' = 1 .. n + 1
        /\ \A p \in DOMAIN open : open'[p] = open[p]
        /\ open'[n + 1] = o
    BY BeginsFacts
  <1>7. /\ Grows /\ SpacesStay
        /\ Nested' /\ Buffers' /\ Owned' /\ AttachedToEnclosing'
        /\ Len(items') <= MaxItems
        /\ Len(list_namespaces') <= Len(items') + 1
        /\ \A i \in DOMAIN items' : Len(items'[i].within) < i
        /\ \A i \in DOMAIN items' : items'[i].own.index <= Len(list_namespaces')
    BY <1>1, MakesKeeps
  <1>8. /\ RefersAfter(currentNameSpace')
        /\ currentNameSpace'.index <= Len(list_namespaces')
        /\ Len(currentNameSpace'.path) = Len(currentNameSpace.path) + 1
        /\ Len(currentNameSpace.path) \in Nat
        /\ n <= Len(currentNameSpace.path)
    BY <1>1, MakesKeeps
  <1>9. Typed'
    <2>1. phase' \in {"idle", "parsing", "analyzing", "crashed"} BY <1>3
    <2>2. /\ nameSpaceBuffer' \in Refs /\ calls' \in SUBSET Calls /\ entered' \in Nat \X Nat
          /\ errors' \in BOOLEAN /\ unclean' \in SUBSET {"cut", "prototype"}
      BY <1>1, <1>3 DEF Typed
    <2> QED BY <1>4, <1>6, <2>1, <2>2 DEF Typed
  <1>10. Idle' BY <1>3 DEF Idle
  <1>11. Current'
    <2>1. Len(open') <= Len(currentNameSpace'.path) BY <1>6, <1>8
    <2> QED BY <1>3, <1>7, <1>8, <2>1 DEF Current, Refers, RefersAfter
  <1>12. Started'
    <2>1. Len(open') <= Len(items') BY <1>4, <1>6 DEF Started
    <2> QED BY <1>7, <2>1 DEF Started
  <1>13. kind \in Declarations \cup {"class", "function"} => \A q \in DOMAIN open : open[q].kind = "namespace"
    <2>1. kind \in Declarations \cup {"class", "function"} => open = <<>> \/ Last(open).kind = "namespace"
      BY <1>1 DEF Fits
    <2> QED BY <1>3, <2>1, OnlyNameSpaces
  <1>14. \A p \in 1 .. n : p \in DOMAIN open /\ open'[p] = open[p] BY <1>6
  <1>15. Text'
    <2> SUFFICES ASSUME NEW p \in DOMAIN open'
                 PROVE  LET c == open'[p] IN
                        /\ c.kind \in Declarations \cup {"class", "function"} =>
                             \A q \in DOMAIN open' : q < p => open'[q].kind = "namespace"
                        /\ c.kind = "method" => p > 1 /\ open'[p - 1].kind = "class"
                        /\ c.kind = "sub" => p > 1 /\ open'[p - 1].kind \in Functions
                        /\ c.kind # "namespace" =>
                             /\ c.item \in DOMAIN items'
                             /\ items'[c.item].is = c.kind
                             /\ items'[c.item].name = c.name
                             /\ items'[c.item].within = [q \in 1 .. p - 1 |-> open'[q].name]
                             /\ items'[c.item].as = <<>>
                             /\ \A i \in DOMAIN items' : i > c.item => p <= Len(items'[i].within)
                             /\ \A q \in DOMAIN open' : q > p => open'[q].item > c.item
                             /\ \A i \in DOMAIN items' : c.item \notin items'[i].subs
      BY DEF Text
    <2>1. CASE p \in 1 .. n
      <3>1. p \in DOMAIN open /\ open'[p] = open[p] BY <1>14, <2>1
      <3>2. /\ open[p].kind \in Declarations \cup {"class", "function"} =>
                 \A q \in DOMAIN open : q < p => open[q].kind = "namespace"
            /\ open[p].kind = "method" => p > 1 /\ open[p - 1].kind = "class"
            /\ open[p].kind = "sub" => p > 1 /\ open[p - 1].kind \in Functions
        BY <1>3, <3>1 DEF Text
      <3>3. p > 1 => open'[p - 1] = open[p - 1] BY <1>6, <1>14, <2>1
      <3>4. \A q \in DOMAIN open' : q < p => q \in DOMAIN open /\ open'[q] = open[q] BY <1>6, <2>1
      <3>5. CASE open[p].kind = "namespace" BY <3>1, <3>2, <3>3, <3>4, <3>5
      <3>6. CASE open[p].kind # "namespace"
        <4>1. LET c == open[p] IN
              /\ c.item \in DOMAIN items'
              /\ items'[c.item].is = c.kind
              /\ items'[c.item].name = c.name
              /\ items'[c.item].within = [q \in 1 .. p - 1 |-> open[q].name]
              /\ items'[c.item].as = <<>>
              /\ \A i \in DOMAIN items' : i > c.item => p <= Len(items'[i].within)
              /\ \A i \in DOMAIN items' : c.item \notin items'[i].subs
          BY <1>3, <1>7, <3>1, <3>6, GrownText
        <4>2. \A q \in 1 .. p - 1 : open'[q] = open[q] BY <1>6, <2>1, <3>4
        <4>3. [q \in 1 .. p - 1 |-> open[q].name] = [q \in 1 .. p - 1 |-> open'[q].name] BY <4>2
        <4>4. \A q \in DOMAIN open' : q > p => open'[q].item > open[p].item
          <5>1. kind # "namespace" BY <1>13, <3>1, <3>6 DEF Declarations
          <5>2. open[p].item \in DOMAIN items /\ \A q \in DOMAIN open : q > p => open[q].item > open[p].item
            BY <1>3, <3>1, <3>6 DEF Text
          <5>3. open'[n + 1].item > open[p].item BY <1>2, <1>4, <1>6, <5>1, <5>2
          <5> QED BY <1>6, <5>2, <5>3
        <4> HIDE DEF n, m, l
        <4> QED BY <3>1, <3>2, <3>3, <3>4, <4>1, <4>3, <4>4
      <3> QED BY <3>5, <3>6
    <2>2. CASE p = n + 1
      <3>1. open'[p] = o BY <1>6, <2>2
      <3>2. o.kind \in Declarations \cup {"class", "function"} =>
              \A q \in DOMAIN open' : q < p => open'[q].kind = "namespace"
        BY <1>1, <1>6, <1>13, <2>2
      <3>3. open # <<>> => n \in 1 .. n /\ Last(open) = open[n] /\ open'[n] = open[n]
        BY <1>6 DEF Last
      <3>4. o.kind = "method" => p > 1 /\ open'[p - 1].kind = "class"
        BY <1>1, <1>6, <2>2, <3>3 DEF Fits
      <3>5. o.kind = "sub" => p > 1 /\ open'[p - 1].kind \in Functions
        BY <1>1, <1>6, <2>2, <3>3 DEF Fits
      <3>6. ASSUME o.kind # "namespace"
            PROVE  /\ o.item \in DOMAIN items'
                   /\ items'[o.item].is = o.kind
                   /\ items'[o.item].name = o.name
                   /\ items'[o.item].within = [q \in 1 .. p - 1 |-> open'[q].name]
                   /\ items'[o.item].as = <<>>
                   /\ \A i \in DOMAIN items' : i > o.item => p <= Len(items'[i].within)
                   /\ \A q \in DOMAIN open' : q > p => open'[q].item > o.item
                   /\ \A i \in DOMAIN items' : o.item \notin items'[i].subs
        <4>1. o.item = m + 1 BY <1>1, <1>2, <3>6
        <4>2. Written = [q \in 1 .. p - 1 |-> open'[q].name]
          <5>1. p - 1 = n BY <1>6, <2>2
          <5>2. \A q \in 1 .. n : open[q].name = open'[q].name BY <1>14
          <5>3. Written = [q \in 1 .. n |-> open[q].name] BY <1>6 DEF Written
          <5> QED BY <5>1, <5>2, <5>3
        <4>3. \A i \in DOMAIN items' : i > o.item => FALSE BY <1>4, <4>1
        <4>4. \A q \in DOMAIN open' : q > p => FALSE BY <1>6, <2>2
        <4>5. \A i \in DOMAIN items' : o.item \notin items'[i].subs
          <5> TAKE i \in DOMAIN items'
          <5>1. items'[i].subs \subseteq i + 1 .. m + 1 BY <1>4, <1>7 DEF Owned
          <5>2. items'[m + 1].subs = {} BY <1>5
          <5>3. CASE i = m + 1 BY <5>2, <5>3
          <5>4. CASE i \in 1 .. m
            <6>1. items'[i] = items[i] BY <1>4, <1>7, <5>4 DEF Grows
            <6>2. \A j \in items[i].subs : j \in i + 1 .. m BY <1>4, <5>4 DEF Owned
            <6> QED BY <1>4, <4>1, <6>1, <6>2
          <5> QED BY <1>4, <5>3, <5>4
        <4>6. o.item \in DOMAIN items' BY <1>4, <4>1
        <4> HIDE DEF m
        <4> QED BY <1>1, <1>5, <4>1, <4>2, <4>3, <4>4, <4>5, <4>6
      <3> HIDE DEF n, m, l
      <3> QED BY <3>1, <3>2, <3>4, <3>5, <3>6
    <2> QED BY <1>6, <2>1, <2>2
  <1>16. Parents'
    <2> SUFFICES ASSUME NEW p \in DOMAIN open', open'[p].kind \in Functions
                 PROVE  LET above == Len(open') - p IN
                        /\ above < Len(list_parentFunction')
                        /\ list_parentFunction'[Len(list_parentFunction') - above] = open'[p].item
      BY DEF Parents
    <2>1. CASE kind \in Functions
      <3>1. list_parentFunction \in Seq(Nat) /\ m + 1 \in Nat BY <1>4 DEF Typed
      <3>2. list_parentFunction' = Append(list_parentFunction, m + 1) BY <1>3, <1>4, <2>1
      <3>3. /\ Len(list_parentFunction') = l + 1 /\ l \in Nat /\ DOMAIN list_parentFunction = 1 .. l
            /\ \A i \in DOMAIN list_parentFunction : list_parentFunction'[i] = list_parentFunction[i]
            /\ list_parentFunction'[l + 1] = m + 1
        <4> HIDE DEF m
        <4> QED BY <3>1, <3>2, Appended
      <3>4. CASE p = n + 1
        <4>1. open'[p].item = m + 1
          <5>1. kind # "namespace" BY <2>1 DEF Functions
          <5> QED BY <1>2, <1>6, <3>4, <5>1
        <4>2. Len(open') - p = 0 BY <1>6, <3>4
        <4> QED BY <3>3, <4>1, <4>2
      <3>5. CASE p \in 1 .. n
        <4>1. p \in DOMAIN open /\ open'[p] = open[p] BY <1>14, <3>5
        <4>2. n - p < l /\ list_parentFunction[l - (n - p)] = open[p].item BY <1>3, <4>1 DEF Parents
        <4>3. l - (n - p) \in 1 .. l /\ Len(open') - p = n - p + 1 /\ l + 1 - (n - p + 1) = l - (n - p)
          BY <1>6, <3>3, <3>5, <4>2
        <4>4. list_parentFunction'[l - (n - p)] = open[p].item BY <3>3, <4>2, <4>3
        <4>5. n - p + 1 < l + 1 BY <1>6, <3>3, <3>5, <4>2
        <4>6. Len(list_parentFunction') - (Len(open') - p) = l - (n - p) BY <3>3, <4>3
        <4>7. Len(open') - p < Len(list_parentFunction') BY <3>3, <4>3, <4>5
        <4> QED BY <4>1, <4>4, <4>6, <4>7
      <3> QED BY <1>6, <3>4, <3>5
    <2>2. CASE kind \notin Functions
      <3>1. kind \in Declarations \cup {"class", "function"} BY <1>3, <2>2 DEF Makers, Declarations
      <3>2. \A q \in DOMAIN open' : open'[q].kind \notin Functions
        <4>1. open'[n + 1].kind \notin Functions BY <1>1, <1>6, <2>2
        <4>2. \A q \in 1 .. n : open'[q].kind = "namespace" BY <1>6, <1>13, <3>1
        <4>3. "namespace" \notin Functions BY DEF Functions
        <4> QED BY <1>6, <4>1, <4>2, <4>3
      <3> QED BY <3>2
    <2> QED BY <2>1, <2>2
  <1>17. Callable' BY <1>3 DEF Idle, Callable
  <1> QED BY <1>7, <1>9, <1>10, <1>11, <1>12, <1>15, <1>16, <1>17

-----------------------------------------------------------------------------
(***************************************************************************)
(* A construct ends.                                                       *)
(***************************************************************************)
\* The constructs around, and what stands for them.
LEMMA Around ==
  ASSUME Text, phase = "parsing", NEW p \in DOMAIN open
  PROVE  /\ open[p].kind \in Declarations \cup {"class", "function"} =>
              \A q \in DOMAIN open : q < p => open[q].kind = "namespace"
         /\ open[p].kind = "method" => p > 1 /\ open[p - 1].kind = "class"
         /\ open[p].kind = "sub" => p > 1 /\ open[p - 1].kind \in Functions
  BY DEF Text

\* An item that is open.
LEMMA OpenItem ==
  ASSUME Text, phase = "parsing", NEW p \in DOMAIN open, open[p].kind # "namespace"
  PROVE  LET o == open[p] IN
         /\ o.item \in DOMAIN items
         /\ items[o.item].is = o.kind
         /\ items[o.item].name = o.name
         /\ items[o.item].within = [q \in 1 .. p - 1 |-> open[q].name]
         /\ items[o.item].as = <<>>
         /\ \A i \in DOMAIN items : i > o.item => p <= Len(items[i].within)
         /\ \A q \in DOMAIN open : q > p => open[q].item > o.item
         /\ \A i \in DOMAIN items : o.item \notin items[i].subs
  BY DEF Text

\* What every end of a construct keeps.
LEMMA EndsKeeps ==
  ASSUME TextInv, Ends, SpacesStay, Len(list_namespaces') = Len(list_namespaces),
         ItemsStay, Len(items') = Len(items),
         \A i \in DOMAIN items : items'[i].own.index <= Len(list_namespaces),
         list_parentFunction' \in Seq(Nat)
  PROVE  /\ Typed' /\ Nested' /\ Idle' /\ Current' /\ Started' /\ Callable'
         /\ DOMAIN items' = DOMAIN items
  <1> USE DEF TextInv
  <1> DEFINE n == Len(open)
  <1>1. /\ open' \in Seq(Constructs) /\ Len(open') = n - 1 /\ n \in Nat \ {0}
        /\ currentNameSpace' \in Refs /\ Refers(currentNameSpace')
        /\ currentNameSpace'.path = Front(currentNameSpace.path)
        /\ phase = "parsing" /\ phase' = "parsing" /\ unclean' = unclean
    BY EndsFacts
  <1>2. UNCHANGED <<nameSpaceBuffer, calls, entered, errors>> BY DEF Ends, Reads
  <1>3. items' \in Seq(Declared) /\ list_namespaces' \in Seq(Entries) BY DEF ItemsStay, SpacesStay
  <1>4. Typed' BY <1>1, <1>2, <1>3 DEF Typed
  <1>5. Nested' BY StillNested
  <1>6. Idle' BY <1>1, <1>2 DEF Idle
  <1>a. DOMAIN items' = DOMAIN items BY <1>3 DEF Typed
  <1>7. Current'
    <2>1. currentNameSpace \in Refs BY DEF Typed
    <2>2. currentNameSpace.path \in Seq(Names) BY <2>1 DEF Refs
    <2>3. n <= Len(currentNameSpace.path) BY <1>1 DEF Current
    <2>4. currentNameSpace.path # <<>> BY <1>1, <2>2, <2>3
    <2>5. Len(Front(currentNameSpace.path)) = Len(currentNameSpace.path) - 1 /\ Len(currentNameSpace.path) \in Nat
      BY <2>2, <2>4, FrontOf
    <2>6. Len(open') <= Len(currentNameSpace'.path) BY <1>1, <2>3, <2>5
    <2>7. RefersAfter(currentNameSpace') BY <1>1, StillRefers
    <2> QED BY <1>1, <1>a, <2>6, <2>7 DEF Current, Refers, RefersAfter
  <1>8. Started'
    <2>1. n <= Len(items) /\ Len(items) \in Nat BY DEF Started, Typed
    <2>2. Len(open') <= Len(items') BY <1>1, <2>1
    <2>3. \A i \in DOMAIN items' : Len(items'[i].within) < i BY <1>a DEF Started, ItemsStay
    <2>4. Len(items') <= MaxItems /\ Len(list_namespaces') <= Len(items') + 1 BY DEF Started
    <2> QED BY <2>2, <2>3, <2>4 DEF Started
  <1>9. Callable' BY <1>1, <1>2 DEF Idle, Callable
  <1> QED BY <1>4, <1>5, <1>6, <1>7, <1>8, <1>9, <1>a

\* The constructs around are still being read, if none of them is what has ended.
LEMMA EndsText ==
  ASSUME TextInv, Ends, ItemsStay, Len(items') = Len(items),
         \A p \in DOMAIN open' : open[p].kind # "namespace" =>
           /\ items'[open[p].item].as = <<>>
           /\ \A i \in DOMAIN items : open[p].item \notin items'[i].subs
  PROVE  Text'
  <1> USE DEF TextInv
  <1> DEFINE n == Len(open)
  <1>1. /\ open' \in Seq(Constructs) /\ n \in Nat \ {0} /\ phase = "parsing"
        /\ DOMAIN open = 1 .. n /\ DOMAIN open' = 1 .. n - 1
        /\ \A p \in DOMAIN open' : open'[p] = open[p]
    BY EndsFacts
  <1>2. DOMAIN items' = DOMAIN items BY DEF Typed, ItemsStay
  <1> SUFFICES ASSUME NEW p \in DOMAIN open'
               PROVE  LET c == open'[p] IN
                      /\ c.kind \in Declarations \cup {"class", "function"} =>
                           \A q \in DOMAIN open' : q < p => open'[q].kind = "namespace"
                      /\ c.kind = "method" => p > 1 /\ open'[p - 1].kind = "class"
                      /\ c.kind = "sub" => p > 1 /\ open'[p - 1].kind \in Functions
                      /\ c.kind # "namespace" =>
                           /\ c.item \in DOMAIN items'
                           /\ items'[c.item].is = c.kind
                           /\ items'[c.item].name = c.name
                           /\ items'[c.item].within = [q \in 1 .. p - 1 |-> open'[q].name]
                           /\ items'[c.item].as = <<>>
                           /\ \A i \in DOMAIN items' : i > c.item => p <= Len(items'[i].within)
                           /\ \A q \in DOMAIN open' : q > p => open'[q].item > c.item
                           /\ \A i \in DOMAIN items' : c.item \notin items'[i].subs
    BY DEF Text
  <1>3. p \in DOMAIN open /\ open'[p] = open[p] /\ p \in 1 .. n - 1 BY <1>1
  <1>4. \A q \in DOMAIN open' : q \in DOMAIN open /\ open'[q] = open[q] BY <1>1
  <1>5. \A q \in 1 .. p - 1 : q \in DOMAIN open' BY <1>1
  <1>6. /\ open[p].kind \in Declarations \cup {"class", "function"} =>
             \A q \in DOMAIN open : q < p => open[q].kind = "namespace"
        /\ open[p].kind = "method" => p > 1 /\ open[p - 1].kind = "class"
        /\ open[p].kind = "sub" => p > 1 /\ open[p - 1].kind \in Functions
    BY <1>1, <1>3 DEF Text
  <1>7. p > 1 => open'[p - 1] = open[p - 1] BY <1>1, <1>3
  <1>8. CASE open[p].kind = "namespace" BY <1>3, <1>4, <1>6, <1>7, <1>8
  <1>9. CASE open[p].kind # "namespace"
    <2> DEFINE c == open[p]
    <2>1. /\ c.item \in DOMAIN items
          /\ items[c.item].is = c.kind
          /\ items[c.item].name = c.name
          /\ items[c.item].within = [q \in 1 .. p - 1 |-> open[q].name]
          /\ \A i \in DOMAIN items : i > c.item => p <= Len(items[i].within)
          /\ \A q \in DOMAIN open : q > p => open[q].item > c.item
      BY <1>1, <1>3, <1>9 DEF Text
    <2>2. /\ items'[c.item].is = c.kind
          /\ items'[c.item].name = c.name
          /\ items'[c.item].within = [q \in 1 .. p - 1 |-> open[q].name]
      BY <2>1 DEF ItemsStay
    <2>3. [q \in 1 .. p - 1 |-> open[q].name] = [q \in 1 .. p - 1 |-> open'[q].name] BY <1>4, <1>5
    <2>4. \A i \in DOMAIN items' : i > c.item => p <= Len(items'[i].within) BY <1>2, <2>1 DEF ItemsStay
    <2>5. \A q \in DOMAIN open' : q > p => open'[q].item > c.item BY <1>4, <2>1
    <2>6. items'[c.item].as = <<>> /\ \A i \in DOMAIN items' : c.item \notin items'[i].subs BY <1>2, <1>3, <1>9
    <2> HIDE DEF n
    <2> QED BY <1>2, <1>3, <1>4, <1>6, <1>7, <2>1, <2>2, <2>3, <2>4, <2>5, <2>6
  <1> QED BY <1>8, <1>9

\* Outside of functions there are no parents to keep track of.
LEMMA EndsOutermost ==
  ASSUME TextInv, Ends, Last(open).kind # "sub"
  PROVE  Parents'
  <1> USE DEF TextInv
  <1> DEFINE n == Len(open)
  <1>1. /\ open \in Seq(Constructs) /\ n \in Nat \ {0} /\ phase = "parsing" /\ open # <<>>
        /\ DOMAIN open = 1 .. n /\ DOMAIN open' = 1 .. n - 1
        /\ \A p \in DOMAIN open' : open'[p] = open[p]
        /\ Last(open) = open[n] /\ Last(open) \in Constructs
    BY EndsFacts DEF Typed, Ends
  <1>2. open[n].kind \in {"namespace", "class", "function", "method"} BY <1>1 DEF Constructs, Makers, Functions
  <1>3. n \in DOMAIN open BY <1>1
  <1>4. \A q \in DOMAIN open : q < n => open[q].kind \in {"namespace", "class"}
    <2>1. CASE open[n].kind \in {"namespace", "class", "function"}
      <3>1. open[n].kind \in Declarations \cup {"class", "function"} BY <2>1 DEF Declarations
      <3>2. open[n].kind \in Declarations \cup {"class", "function"} =>
              \A q \in DOMAIN open : q < n => open[q].kind = "namespace"
        BY <1>1, <1>3, Around
      <3> QED BY <3>1, <3>2
    <2>2. CASE open[n].kind = "method"
      <3>1. n > 1 /\ open[n - 1].kind = "class" BY <1>1, <1>3, <2>2 DEF Text
      <3>2. n - 1 \in DOMAIN open BY <1>1, <3>1
      <3>3. \A q \in DOMAIN open : q < n - 1 => open[q].kind = "namespace" BY <1>1, <3>1, <3>2 DEF Text
      <3> QED BY <1>1, <3>1, <3>3
    <2> QED BY <1>2, <2>1, <2>2
  <1>5. \A p \in DOMAIN open' : open'[p].kind \notin Functions BY <1>1, <1>4 DEF Functions
  <1> QED BY <1>5 DEF Parents

\* The end of a namespace or class keeps the invariant.
LEMMA EndsBlockKeeps ==
  ASSUME TextInv, EndsBlock
  PROVE  TextInv'
  <1> USE DEF TextInv
  <1>1. /\ Ends /\ Last(open).kind # "sub"
        /\ list_namespaces' = list_namespaces /\ items' = items /\ list_parentFunction' = list_parentFunction
    BY DEF EndsBlock
  <1>2. ItemsStay /\ Len(items') = Len(items) BY <1>1 DEF ItemsStay, Typed
  <1>3. SpacesStay /\ Len(list_namespaces') = Len(list_namespaces) BY <1>1 DEF SpacesStay, Typed
  <1>4. Typed' /\ Nested' /\ Idle' /\ Current' /\ Started' /\ Callable'
    <2>1. \A i \in DOMAIN items : items'[i].own.index <= Len(list_namespaces) BY <1>1 DEF Current
    <2>2. list_parentFunction' \in Seq(Nat) BY <1>1 DEF Typed
    <2> QED BY <1>1, <1>2, <1>3, <2>1, <2>2, EndsKeeps
  <1>5. Text'
    <2>1. /\ DOMAIN open = 1 .. Len(open) /\ Len(open) \in Nat /\ DOMAIN open' = 1 .. Len(open) - 1
          /\ phase = "parsing"
      BY <1>1, EndsFacts
    <2>2. \A p \in DOMAIN open' : open[p].kind # "namespace" =>
            /\ items'[open[p].item].as = <<>>
            /\ \A i \in DOMAIN items : open[p].item \notin items'[i].subs
      <3> TAKE p \in DOMAIN open'
      <3>1. p \in DOMAIN open BY <2>1
      <3> QED BY <1>1, <2>1, <3>1, OpenItem
    <2> QED BY <1>1, <1>2, <2>2, EndsText
  <1>6. Parents' BY <1>1, EndsOutermost
  <1>7. Buffers' BY <1>1 DEF Buffers
  <1>8. Owned' BY <1>1 DEF Owned
  <1>9. AttachedToEnclosing' BY <1>1 DEF AttachedToEnclosing, Of, Here
  <1> QED BY <1>4, <1>5, <1>6, <1>7, <1>8, <1>9

\* A buffer gets one more.
LEMMA PushFunctionFacts ==
  ASSUME Typed, currentNameSpace.index <= Len(list_namespaces), NEW item \in Nat, PushFunction(item)
  PROVE  /\ SpacesStay /\ Len(list_namespaces') = Len(list_namespaces)
         /\ \A n \in DOMAIN list_namespaces' :
              /\ list_namespaces'[n].classes = list_namespaces[n].classes
              /\ list_namespaces'[n].values = list_namespaces[n].values
              /\ n # currentNameSpace.index => list_namespaces'[n] = list_namespaces[n]
              /\ n = currentNameSpace.index =>
                   list_namespaces'[n].functions = Append(list_namespaces[n].functions, item)
  <1> DEFINE k == currentNameSpace.index
             s == list_namespaces[k]
             r == [s EXCEPT !.functions = Append(@, item)]
  <1>1. list_namespaces \in Seq(Entries) /\ currentNameSpace \in Refs BY DEF Typed
  <1>2. k \in Nat BY <1>1 DEF Refs
  <1>3. CASE k = 0
    <2>1. list_namespaces' = list_namespaces BY <1>3 DEF PushFunction
    <2>2. 0 \notin DOMAIN list_namespaces BY <1>1
    <2> QED BY <1>1, <1>3, <2>1, <2>2 DEF SpacesStay
  <1>4. CASE k # 0
    <2>1. k \in DOMAIN list_namespaces BY <1>1, <1>2, <1>4
    <2>2. s \in Entries BY <1>1, <2>1
    <2>3. list_namespaces' = [list_namespaces EXCEPT ![k].functions = Append(@, item)] BY <1>4 DEF PushFunction
    <2>4. list_namespaces' = [list_namespaces EXCEPT ![k] = r] BY <2>3, Zenon
    <2> DEFINE fs == Append(s.functions, item)
    <2>a. r = [s EXCEPT !.functions = fs] BY Zenon
    <2>b. fs \in Seq(Nat)
      <3>1. s.functions \in Seq(Nat) BY <2>2 DEF Entries
      <3> QED BY <3>1, Appended
    <2>5. /\ r \in Entries /\ r.path = s.path /\ r.parent = s.parent /\ r.classes = s.classes
          /\ r.values = s.values /\ r.functions = fs
      <3> HIDE DEF s, fs, r
      <3> QED BY <2>2, <2>a, <2>b DEF Entries
    <2> HIDE DEF r
    <2> DEFINE t == [list_namespaces EXCEPT ![k] = r]
    <2>6. /\ t \in Seq(Entries) /\ Len(t) = Len(list_namespaces) /\ DOMAIN t = DOMAIN list_namespaces
          /\ t[k] = r /\ \A n \in DOMAIN list_namespaces : n # k => t[n] = list_namespaces[n]
      <3> HIDE DEF k
      <3> QED BY <1>1, <2>1, <2>5, Replaced
    <2>7. list_namespaces' = t BY <2>4
    <2> HIDE DEF t
    <2>8. SpacesStay BY <1>1, <2>1, <2>5, <2>6, <2>7 DEF SpacesStay
    <2>9. Len(list_namespaces') = Len(list_namespaces) BY <2>6, <2>7
    <2> QED BY <2>5, <2>6, <2>7, <2>8, <2>9
  <1> QED BY <1>3, <1>4

\* A variable goes into one buffer of one namespace.
LEMMA PushValueFacts ==
  ASSUME Typed, currentNameSpace.index <= Len(list_namespaces), NEW item \in Nat, PushValue(item)
  PROVE  /\ SpacesStay /\ Len(list_namespaces') = Len(list_namespaces)
         /\ \A n \in DOMAIN list_namespaces' :
              /\ list_namespaces'[n].classes = list_namespaces[n].classes
              /\ list_namespaces'[n].functions = list_namespaces[n].functions
              /\ n # currentNameSpace.index => list_namespaces'[n] = list_namespaces[n]
              /\ n = currentNameSpace.index =>
                   list_namespaces'[n].values = Append(list_namespaces[n].values, item)
  <1> DEFINE k == currentNameSpace.index
             s == list_namespaces[k]
             r == [s EXCEPT !.values = Append(@, item)]
  <1>1. list_namespaces \in Seq(Entries) /\ currentNameSpace \in Refs BY DEF Typed
  <1>2. k \in Nat BY <1>1 DEF Refs
  <1>3. CASE k = 0
    <2>1. list_namespaces' = list_namespaces BY <1>3 DEF PushValue
    <2>2. 0 \notin DOMAIN list_namespaces BY <1>1
    <2> QED BY <1>1, <1>3, <2>1, <2>2 DEF SpacesStay
  <1>4. CASE k # 0
    <2>1. k \in DOMAIN list_namespaces BY <1>1, <1>2, <1>4
    <2>2. s \in Entries BY <1>1, <2>1
    <2>3. list_namespaces' = [list_namespaces EXCEPT ![k].values = Append(@, item)] BY <1>4 DEF PushValue
    <2>4. list_namespaces' = [list_namespaces EXCEPT ![k] = r] BY <2>3, Zenon
    <2> DEFINE vs == Append(s.values, item)
    <2>a. r = [s EXCEPT !.values = vs] BY Zenon
    <2>b. vs \in Seq(Nat)
      <3>1. s.values \in Seq(Nat) BY <2>2 DEF Entries
      <3> QED BY <3>1, Appended
    <2>5. /\ r \in Entries /\ r.path = s.path /\ r.parent = s.parent /\ r.classes = s.classes
          /\ r.functions = s.functions /\ r.values = vs
      <3> HIDE DEF s, vs, r
      <3> QED BY <2>2, <2>a, <2>b DEF Entries
    <2> HIDE DEF r
    <2> DEFINE t == [list_namespaces EXCEPT ![k] = r]
    <2>6. /\ t \in Seq(Entries) /\ Len(t) = Len(list_namespaces) /\ DOMAIN t = DOMAIN list_namespaces
          /\ t[k] = r /\ \A n \in DOMAIN list_namespaces : n # k => t[n] = list_namespaces[n]
      <3> HIDE DEF k
      <3> QED BY <1>1, <2>1, <2>5, Replaced
    <2>7. list_namespaces' = t BY <2>4
    <2> HIDE DEF t
    <2>8. SpacesStay BY <1>1, <2>1, <2>5, <2>6, <2>7 DEF SpacesStay
    <2>9. Len(list_namespaces') = Len(list_namespaces) BY <2>6, <2>7
    <2> QED BY <2>5, <2>6, <2>7, <2>8, <2>9
  <1> QED BY <1>3, <1>4

\* The end of a function keeps the invariant.
LEMMA EndsFunctionKeeps ==
  ASSUME TextInv, EndsFunction
  PROVE  TextInv'
  <1> USE DEF TextInv
  <1> DEFINE i == Last(open).item
  <1>1. /\ Ends /\ Last(open).kind = "function" /\ PushFunction(i)
        /\ items' = items /\ list_parentFunction' = list_parentFunction
    BY DEF EndsFunction
  <1>2. ItemsStay /\ Len(items') = Len(items) BY <1>1 DEF ItemsStay, Typed
  <1>3. /\ DOMAIN open = 1 .. Len(open) /\ Len(open) \in Nat \ {0} /\ DOMAIN open' = 1 .. Len(open) - 1
        /\ phase = "parsing" /\ Last(open) = open[Len(open)] /\ Last(open) \in Constructs
    BY <1>1, EndsFacts
  <1>4. i \in Nat BY <1>3 DEF Constructs
  <1>5. i \in DOMAIN items /\ items[i].is = "function"
    <2>1. Len(open) \in DOMAIN open /\ open[Len(open)].kind # "namespace" BY <1>1, <1>3
    <2>2. open[Len(open)].item \in DOMAIN items /\ items[open[Len(open)].item].is = open[Len(open)].kind
      BY <1>3, <2>1, OpenItem
    <2> QED BY <1>1, <1>3, <2>2
  <1>6. currentNameSpace.index <= Len(list_namespaces) BY DEF Current
  <1> HIDE DEF i
  <1>7. SpacesStay /\ Len(list_namespaces') = Len(list_namespaces) BY <1>1, <1>4, <1>6, PushFunctionFacts
  <1>8. Typed' /\ Nested' /\ Idle' /\ Current' /\ Started' /\ Callable'
    <2>1. \A x \in DOMAIN items : items'[x].own.index <= Len(list_namespaces) BY <1>1 DEF Current
    <2>2. list_parentFunction' \in Seq(Nat) BY <1>1 DEF Typed
    <2> QED BY <1>1, <1>2, <1>7, <2>1, <2>2, EndsKeeps
  <1>9. Text'
    <2>1. \A p \in DOMAIN open' : open[p].kind # "namespace" =>
            /\ items'[open[p].item].as = <<>>
            /\ \A x \in DOMAIN items : open[p].item \notin items'[x].subs
      <3> TAKE p \in DOMAIN open'
      <3>1. p \in DOMAIN open BY <1>3
      <3> QED BY <1>1, <1>3, <3>1, OpenItem
    <2> QED BY <1>1, <1>2, <2>1, EndsText
  <1>10. Parents'
    <2>1. Last(open).kind # "sub" BY <1>1
    <2> QED BY <1>1, <2>1, EndsOutermost
  <1>11. Buffers'
    <2>1. DOMAIN list_namespaces' = DOMAIN list_namespaces BY <1>7 DEF SpacesStay, Typed
    <2>2. ASSUME NEW n \in DOMAIN list_namespaces'
          PROVE  \/ n \in DOMAIN list_namespaces /\ list_namespaces'[n] = list_namespaces[n]
                 \/ BuffersFit(list_namespaces'[n])
      <3>1. CASE n # currentNameSpace.index BY <1>1, <1>4, <1>6, <2>1, <3>1, PushFunctionFacts
      <3>2. CASE n = currentNameSpace.index
        <4>1. /\ list_namespaces'[n].functions = Append(list_namespaces[n].functions, i)
              /\ list_namespaces'[n].classes = list_namespaces[n].classes
              /\ list_namespaces'[n].values = list_namespaces[n].values
          BY <1>1, <1>4, <1>6, <3>2, PushFunctionFacts
        <4>2. BuffersFit(list_namespaces[n]) BY <1>2, <2>1, StillFit
        <4>3. list_namespaces[n] \in Entries BY <2>1 DEF Typed
        <4>4. list_namespaces[n].functions \in Seq(Nat) BY <4>3 DEF Entries
        <4>5. \A e \in DOMAIN list_namespaces'[n].functions :
                list_namespaces'[n].functions[e] \in DOMAIN items' /\ items'[list_namespaces'[n].functions[e]].is = "function"
          <5> TAKE e \in DOMAIN list_namespaces'[n].functions
          <5>1. \/ e \in DOMAIN list_namespaces[n].functions /\ list_namespaces'[n].functions[e] = list_namespaces[n].functions[e]
                \/ list_namespaces'[n].functions[e] = i
            BY <1>4, <4>1, <4>4
          <5> QED BY <1>1, <1>5, <4>2, <5>1 DEF BuffersFit
        <4> QED BY <4>1, <4>2, <4>5 DEF BuffersFit
      <3> QED BY <3>1, <3>2
    <2>3. \A p \in DOMAIN list_parentFunction' :
           \/ p \in DOMAIN list_parentFunction /\ list_parentFunction'[p] = list_parentFunction[p]
           \/ list_parentFunction'[p] <= Len(items')
      BY <1>1
    <2> QED BY <1>2, <2>2, <2>3, FitBuffers
  <1>12. Owned' BY <1>1 DEF Owned
  <1>13. AttachedToEnclosing' BY <1>1 DEF AttachedToEnclosing, Of, Here
  <1> QED BY <1>8, <1>9, <1>10, <1>11, <1>12, <1>13

\* An item gets one more in it.
Gains(k, i) ==
  /\ ItemsStay /\ Len(items') = Len(items)
  /\ k \in DOMAIN items /\ i \in DOMAIN items /\ k < i
  /\ \A x \in DOMAIN items : i \notin items[x].subs
  /\ \A x \in DOMAIN items : x # k => items'[x].subs = items[x].subs
  /\ items'[k].subs = items[k].subs \cup {i}

\* Everything has one owner still, if the new one had none.
LEMMA GainsOwned ==
  ASSUME Typed, Owned, NEW k, NEW i, Gains(k, i),
         items[k].is = "class" => items[i].is = "method",
         items[k].is # "class" => items[k].is \in Functions /\ items[i].is = "sub" /\ items'[i].as # <<>>
  PROVE  Owned'
  <1>1. /\ k \in DOMAIN items /\ i \in DOMAIN items /\ k < i
        /\ \A x \in DOMAIN items : i \notin items[x].subs
        /\ \A x \in DOMAIN items : x # k => items'[x].subs = items[x].subs
        /\ items'[k].subs = items[k].subs \cup {i}
        /\ Len(items') = Len(items)
    BY DEF Gains
  <1>2. DOMAIN items' = DOMAIN items /\ DOMAIN items = 1 .. Len(items) /\ Len(items) \in Nat
    BY DEF Gains, ItemsStay, Typed
  <1>3. \A x \in DOMAIN items : items'[x].is = items[x].is /\ (items[x].as # <<>> => items'[x].as # <<>>)
    BY DEF Gains, ItemsStay
  <1>4. \A x \in DOMAIN items : i \in items'[x].subs => x = k BY <1>1
  <1>5. \A x \in DOMAIN items : \A j \in items'[x].subs : j # i => j \in items[x].subs BY <1>1
  <1>6. SUFFICES ASSUME NEW x \in DOMAIN items, NEW j \in items'[x].subs
               PROVE  /\ j \in x + 1 .. Len(items)
                      /\ items'[x].is = "class" => items'[j].is = "method"
                      /\ items'[x].is # "class" =>
                           items'[x].is \in Functions /\ items'[j].is = "sub" /\ items'[j].as # <<>>
                      /\ \A y \in DOMAIN items : j \in items'[y].subs => y = x
    BY <1>1, <1>2 DEF Owned
  <1>7. CASE j = i
    <2>1. x = k BY <1>4, <1>7
    <2>2. j \in x + 1 .. Len(items) BY <1>1, <1>2, <1>7, <2>1
    <2> QED BY <1>1, <1>3, <1>4, <1>7, <2>1, <2>2
  <1>8. CASE j # i
    <2>1. j \in items[x].subs BY <1>5, <1>8
    <2>2. /\ j \in x + 1 .. Len(items)
          /\ items[x].is = "class" => items[j].is = "method"
          /\ items[x].is # "class" => items[x].is \in Functions /\ items[j].is = "sub" /\ items[j].as # <<>>
          /\ \A y \in DOMAIN items : j \in items[y].subs => y = x
      BY <2>1 DEF Owned
    <2>3. j \in DOMAIN items BY <1>2, <2>2
    <2>4. \A y \in DOMAIN items : j \in items'[y].subs => y = x BY <1>5, <1>8, <2>2
    <2> QED BY <1>3, <2>2, <2>3, <2>4
  <1> QED BY <1>7, <1>8

\* The other functions stay attached where they were.
LEMMA GainsAttached ==
  ASSUME Typed, NEW k, NEW i, Gains(k, i), NEW j \in DOMAIN items, j # i, Attached(j)
  PROVE  Attached(j)'
  <1>1. ItemsStay BY DEF Gains
  <1>2. DOMAIN items' = DOMAIN items BY DEF Gains, ItemsStay, Typed
  <1>3. \A x \in DOMAIN items' : j \in items'[x].subs <=> x \in DOMAIN items /\ j \in items[x].subs
    BY <1>2 DEF Gains
  <1> QED BY <1>1, <1>3, StaysAttached

\* The buffers do not know of it.
LEMMA GainsBuffers ==
  ASSUME TextInv, ItemsStay, list_namespaces' = list_namespaces,
         \A p \in DOMAIN list_parentFunction' :
           p \in DOMAIN list_parentFunction /\ list_parentFunction'[p] = list_parentFunction[p]
  PROVE  Buffers'
  BY FitBuffers DEF TextInv

\* Attaching changes what the owner owns, and nothing else.
LEMMA SubsType ==
  ASSUME NEW r \in Declared, NEW s \in SUBSET Nat
  PROVE  /\ [r EXCEPT !.subs = s] \in Declared
         /\ [r EXCEPT !.subs = s].is = r.is /\ [r EXCEPT !.subs = s].name = r.name
         /\ [r EXCEPT !.subs = s].within = r.within /\ [r EXCEPT !.subs = s].as = r.as
         /\ [r EXCEPT !.subs = s].own = r.own /\ [r EXCEPT !.subs = s].analyzed = r.analyzed
         /\ [r EXCEPT !.subs = s].subs = s
  BY DEF Declared

\* The end of a method keeps the invariant.
LEMMA EndsMethodKeeps ==
  ASSUME TextInv, EndsMethod
  PROVE  TextInv'
  <1> USE DEF TextInv
  <1> DEFINE n == Len(open)
             i == open[n].item
             k == open[n - 1].item
             s == items[k].subs \cup {i}
             r == [items[k] EXCEPT !.subs = s]
  <1>1. /\ Ends /\ Last(open).kind = "method"
        /\ items' = [items EXCEPT ![open[Len(open) - 1].item].subs = @ \cup {Last(open).item}]
        /\ list_namespaces' = list_namespaces /\ list_parentFunction' = list_parentFunction
    BY DEF EndsMethod
  <1>2. /\ DOMAIN open = 1 .. n /\ n \in Nat \ {0} /\ DOMAIN open' = 1 .. n - 1
        /\ phase = "parsing" /\ Last(open) = open[n] /\ Last(open) \in Constructs
    BY <1>1, EndsFacts
  <1>3. n \in DOMAIN open /\ open[n].kind = "method" BY <1>1, <1>2
  <1>4. n > 1 /\ open[n - 1].kind = "class" /\ n - 1 \in DOMAIN open
    <2>1. n > 1 /\ open[n - 1].kind = "class" BY <1>2, <1>3, Around
    <2> QED BY <1>2, <2>1
  <1>5. /\ i \in DOMAIN items /\ items[i].is = "method"
        /\ \A x \in DOMAIN items : i \notin items[x].subs
    BY <1>2, <1>3, OpenItem
  <1>6. /\ k \in DOMAIN items /\ items[k].is = "class"
        /\ \A q \in DOMAIN open : q > n - 1 => open[q].item > k
    BY <1>2, <1>4, OpenItem
  <1>7. k < i /\ k \in Nat /\ i \in Nat
    <2>1. k \in Nat /\ i \in Nat BY <1>5, <1>6 DEF Typed
    <2>2. n > n - 1 BY <1>2
    <2> QED BY <1>3, <1>6, <2>1, <2>2
  <1>8. items' = [items EXCEPT ![k] = r]
    <2>1. items' = [items EXCEPT ![k].subs = @ \cup {i}] BY <1>1, <1>2
    <2> QED BY <2>1, Zenon
  <1>9. /\ r \in Declared /\ r.is = items[k].is /\ r.name = items[k].name /\ r.within = items[k].within
        /\ r.as = items[k].as /\ r.own = items[k].own /\ r.subs = s
    <2>1. items[k] \in Declared BY <1>6 DEF Typed
    <2>2. s \in SUBSET Nat
      <3>1. items[k].subs \subseteq Nat BY <2>1 DEF Declared
      <3> QED BY <1>7, <3>1
    <2> HIDE DEF k, s
    <2> QED BY <2>1, <2>2, SubsType
  <1> HIDE DEF r
  <1> DEFINE t == [items EXCEPT ![k] = r]
  <1>10. /\ t \in Seq(Declared) /\ DOMAIN t = DOMAIN items /\ Len(t) = Len(items)
         /\ t[k] = r /\ \A x \in DOMAIN items : x # k => t[x] = items[x]
    <2>1. items \in Seq(Declared) BY DEF Typed
    <2> HIDE DEF k
    <2> QED BY <1>6, <1>9, <2>1, Replaced
  <1>11. items' = t BY <1>8
  <1> HIDE DEF t
  <1>12. /\ DOMAIN items' = DOMAIN items /\ Len(items') = Len(items) /\ items' \in Seq(Declared)
         /\ items'[k] = r /\ \A x \in DOMAIN items : x # k => items'[x] = items[x]
    BY <1>10, <1>11
  <1>13. ASSUME NEW x \in DOMAIN items
         PROVE  /\ items'[x].is = items[x].is /\ items'[x].name = items[x].name
                /\ items'[x].within = items[x].within /\ items'[x].as = items[x].as
                /\ items'[x].own = items[x].own
    <2> HIDE DEF k
    <2> QED BY <1>9, <1>12
  <1>14. ItemsStay
    <2>1. DOMAIN items \subseteq DOMAIN items' BY <1>12
    <2>2. Len(items) <= Len(items') BY <1>12 DEF Typed
    <2> QED BY <1>12, <1>13, <2>1, <2>2 DEF ItemsStay
  <1>15. SpacesStay /\ Len(list_namespaces') = Len(list_namespaces) BY <1>1 DEF SpacesStay, Typed
  <1>16. Gains(k, i)
    <2> HIDE DEF k, i
    <2> QED BY <1>5, <1>6, <1>7, <1>9, <1>12, <1>14 DEF Gains, s
  <1>17. Typed' /\ Nested' /\ Idle' /\ Current' /\ Started' /\ Callable'
    <2>1. \A x \in DOMAIN items : items'[x].own.index <= Len(list_namespaces) BY <1>13 DEF Current
    <2>2. list_parentFunction' \in Seq(Nat) BY <1>1 DEF Typed
    <2> QED BY <1>1, <1>12, <1>14, <1>15, <2>1, <2>2, EndsKeeps
  <1>18. Text'
    <2>1. \A p \in DOMAIN open' : open[p].kind # "namespace" =>
            /\ items'[open[p].item].as = <<>>
            /\ \A x \in DOMAIN items : open[p].item \notin items'[x].subs
      <3> SUFFICES ASSUME NEW p \in DOMAIN open', open[p].kind # "namespace"
                   PROVE  /\ items'[open[p].item].as = <<>>
                          /\ \A x \in DOMAIN items : open[p].item \notin items'[x].subs
        OBVIOUS
      <3>1. p \in DOMAIN open /\ p < n BY <1>2
      <3>2. /\ open[p].item \in DOMAIN items /\ items[open[p].item].as = <<>>
            /\ \A q \in DOMAIN open : q > p => open[q].item > open[p].item
            /\ \A x \in DOMAIN items : open[p].item \notin items[x].subs
        BY <1>2, <3>1, OpenItem
      <3>3. open[p].item # i
        <4>1. i > open[p].item BY <1>3, <3>1, <3>2
        <4>2. open[p].item \in Nat BY <3>2 DEF Typed
        <4> QED BY <1>7, <4>1, <4>2
      <3>4. items'[open[p].item].as = <<>> BY <1>13, <3>2
      <3> HIDE DEF n, i, k
      <3> QED BY <1>16, <3>2, <3>3, <3>4 DEF Gains
    <2> QED BY <1>1, <1>12, <1>14, <2>1, EndsText
  <1>19. Parents'
    <2>1. Last(open).kind # "sub" BY <1>1
    <2> QED BY <1>1, <2>1, EndsOutermost
  <1>20. Buffers' BY <1>1, <1>14, GainsBuffers
  <1>21. Owned' BY <1>5, <1>6, <1>16, GainsOwned
  <1>22. AttachedToEnclosing'
    <2>1. ASSUME NEW j \in DOMAIN items', items'[j].is = "sub", items'[j].as # <<>>
          PROVE  Attached(j)'
      <3>1. j \in DOMAIN items /\ items[j].is = "sub" /\ items[j].as # <<>> BY <1>12, <1>13, <2>1
      <3>2. Attached(j) BY <3>1, AllAttached
      <3>3. j # i BY <1>5, <3>1
      <3> QED BY <1>16, <3>1, <3>2, <3>3, GainsAttached
    <2>2. (\A j \in DOMAIN items : items[j].is = "sub" /\ items[j].as # <<>> => Attached(j))'
      BY <2>1
    <2> QED BY <2>2, AllAttached, PTL
  <1> QED BY <1>17, <1>18, <1>19, <1>20, <1>21, <1>22

\* The end of a function in a function: it is registered, and attached to the
\* one that is open around it.
LEMMA EndsSubFacts ==
  ASSUME TextInv, EndsSub
  PROVE  LET n == Len(open)
             i == open[n].item
             k == open[n - 1].item
         IN  /\ n \in Nat /\ n > 1 /\ DOMAIN open = 1 .. n /\ DOMAIN open' = 1 .. n - 1 /\ phase = "parsing"
             /\ open[n].kind = "sub" /\ open[n - 1].kind \in Functions
             /\ i \in DOMAIN items /\ k \in DOMAIN items /\ k < i /\ k \in Nat /\ i \in Nat
             /\ items[i].is = "sub" /\ items[k].is \in Functions
             /\ Gains(k, i)
             /\ DOMAIN items' = DOMAIN items
             /\ \A x \in DOMAIN items : x # i => items'[x].as = items[x].as /\ items'[x].own = items[x].own
             /\ \A x \in DOMAIN items : items'[x].analyzed = items[x].analyzed
             /\ items'[i].as = Append(Front(currentNameSpace.path), items[i].name)
             /\ items'[i].own = currentNameSpace
             /\ items'[i].as # <<>>
             /\ items'[i].within = items[i].within
             /\ list_parentFunction # <<>> /\ list_parentFunction' = Front(list_parentFunction)
             /\ Ends /\ list_namespaces' = list_namespaces
  <1> USE DEF TextInv
  <1> DEFINE n == Len(open)
             i == open[n].item
             k == open[n - 1].item
             as == Append(Front(currentNameSpace.path), items[i].name)
             r == Registered(i, currentNameSpace, as)
             t == [items EXCEPT ![i] = r]
             s == items[k].subs \cup {i}
             u == [items[k] EXCEPT !.subs = s]
             v == [t EXCEPT ![k] = u]
  <1>1. /\ Ends /\ Last(open).kind = "sub"
        /\ list_parentFunction' = Front(list_parentFunction)
        /\ items' = [[items EXCEPT
           ![Last(open).item] = Registered(Last(open).item, currentNameSpace, Append(Front(currentNameSpace.path), items[Last(open).item].name))]
           EXCEPT ![open[Len(open) - 1].item].subs = @ \cup {Last(open).item}]
        /\ list_namespaces' = list_namespaces
    BY DEF EndsSub
  <1>2. /\ DOMAIN open = 1 .. n /\ n \in Nat \ {0} /\ DOMAIN open' = 1 .. n - 1
        /\ phase = "parsing" /\ open # <<>> /\ Last(open) = open[n] /\ Last(open) \in Constructs
    BY <1>1, EndsFacts DEF Ends
  <1>3. n \in DOMAIN open /\ open[n].kind = "sub" BY <1>1, <1>2
  <1>4. n > 1 /\ open[n - 1].kind \in Functions /\ n - 1 \in DOMAIN open
    <2>1. n > 1 /\ open[n - 1].kind \in Functions BY <1>2, <1>3, Around
    <2> QED BY <1>2, <2>1
  <1>5. /\ i \in DOMAIN items /\ items[i].is = "sub"
        /\ \A x \in DOMAIN items : i \notin items[x].subs
    BY <1>2, <1>3, OpenItem
  <1>6. /\ k \in DOMAIN items /\ items[k].is = open[n - 1].kind
        /\ \A q \in DOMAIN open : q > n - 1 => open[q].item > k
    <2>1. open[n - 1].kind # "namespace" BY <1>4 DEF Functions
    <2> QED BY <1>2, <1>4, <2>1, OpenItem
  <1>7. k < i /\ k \in Nat /\ i \in Nat
    <2>1. k \in Nat /\ i \in Nat BY <1>5, <1>6 DEF Typed
    <2>2. n > n - 1 BY <1>2
    <2> QED BY <1>3, <1>6, <2>1, <2>2
  <1>8. items \in Seq(Declared) /\ items[i] \in Declared /\ items[k] \in Declared BY <1>5, <1>6 DEF Typed
  <1>9. as \in Seq(Names) /\ as # <<>>
    <2>1. currentNameSpace.path \in Seq(Names) /\ currentNameSpace.path # <<>> BY <1>2, Leaving
    <2>2. Front(currentNameSpace.path) \in Seq(Names) BY <2>1, FrontOf
    <2>3. items[i].name \in Names BY <1>8 DEF Declared
    <2> QED BY <2>2, <2>3, Appended
  <1>10. currentNameSpace \in Refs BY DEF Typed
  <1>11. /\ r \in Declared /\ r.is = items[i].is /\ r.name = items[i].name
         /\ r.within = items[i].within /\ r.subs = items[i].subs /\ r.analyzed = items[i].analyzed
         /\ r.own = currentNameSpace /\ r.as = as
    <2> DEFINE w == currentNameSpace
    <2>1. w \in Refs BY <1>10
    <2> HIDE DEF i, as, w
    <2>2. Registered(i, w, as) \in Declared BY <1>5, <1>9, <2>1, RegisteredType
    <2>3. Registered(i, w, as).is = items[i].is /\ Registered(i, w, as).name = items[i].name BY <1>5, <1>9, <2>1, RegisteredType
    <2>4. Registered(i, w, as).within = items[i].within /\ Registered(i, w, as).subs = items[i].subs BY <1>5, <1>9, <2>1, RegisteredType
    <2>5. Registered(i, w, as).analyzed = items[i].analyzed BY <1>5, <1>9, <2>1, RegisteredType
    <2>6. Registered(i, w, as).own = w /\ Registered(i, w, as).as = as BY <1>5, <1>9, <2>1, RegisteredType
    <2> QED BY <2>2, <2>3, <2>4, <2>5, <2>6 DEF w
  <1>12. /\ u \in Declared /\ u.is = items[k].is /\ u.name = items[k].name /\ u.within = items[k].within
         /\ u.as = items[k].as /\ u.own = items[k].own /\ u.analyzed = items[k].analyzed /\ u.subs = s
    <2>2. s \in SUBSET Nat
      <3>1. items[k].subs \subseteq Nat BY <1>8 DEF Declared
      <3> QED BY <1>7, <3>1
    <2> HIDE DEF k, s
    <2> QED BY <1>8, <2>2, SubsType
  <1>13. items' = [[items EXCEPT ![i] = r] EXCEPT ![k].subs = @ \cup {i}]
    BY <1>1, <1>2, Zenon
  <1> HIDE DEF r
  <1>14. /\ t \in Seq(Declared) /\ DOMAIN t = DOMAIN items /\ Len(t) = Len(items)
         /\ t[i] = r /\ \A x \in DOMAIN items : x # i => t[x] = items[x]
    <2> HIDE DEF i
    <2> QED BY <1>5, <1>8, <1>11, Replaced
  <1>15. items' = [t EXCEPT ![k].subs = @ \cup {i}] BY <1>13
  <1> HIDE DEF t
  <1>16. k # i BY <1>7
  <1>17. t[k] = items[k]
    <2> HIDE DEF k, i
    <2> QED BY <1>6, <1>14, <1>16
  <1>18. items' = [t EXCEPT ![k] = [t[k] EXCEPT !.subs = @ \cup {i}]] BY <1>15, Zenon
  <1>19. [t[k] EXCEPT !.subs = @ \cup {i}] = u
    <2>1. [t[k] EXCEPT !.subs = @ \cup {i}] = [items[k] EXCEPT !.subs = @ \cup {i}] BY <1>17
    <2>2. [items[k] EXCEPT !.subs = @ \cup {i}] = u BY Zenon
    <2> QED BY <2>1, <2>2, Zenon
  <1>20. items' = v BY <1>18, <1>19, Zenon
  <1> HIDE DEF u
  <1>21. /\ v \in Seq(Declared) /\ DOMAIN v = DOMAIN items /\ Len(v) = Len(items)
         /\ v[k] = u /\ \A x \in DOMAIN items : x # k => v[x] = t[x]
    <2> HIDE DEF k
    <2>1. k \in DOMAIN t BY <1>6, <1>14
    <2> QED BY <1>12, <1>14, <2>1, Replaced
  <1> HIDE DEF v
  <1>22. /\ items' \in Seq(Declared) /\ DOMAIN items' = DOMAIN items /\ Len(items') = Len(items)
         /\ items'[k] = u /\ items'[i] = r
         /\ \A x \in DOMAIN items : x # k /\ x # i => items'[x] = items[x]
    <2> HIDE DEF k, i
    <2> QED BY <1>5, <1>14, <1>16, <1>20, <1>21
  <1>23. /\ items'[i].is = items[i].is /\ items'[i].name = items[i].name /\ items'[i].within = items[i].within
         /\ items'[i].subs = items[i].subs /\ items'[i].analyzed = items[i].analyzed
         /\ items'[i].as = as /\ items'[i].own = currentNameSpace
    BY <1>11, <1>22
  <1>24. /\ items'[k].is = items[k].is /\ items'[k].name = items[k].name /\ items'[k].within = items[k].within
         /\ items'[k].as = items[k].as /\ items'[k].own = items[k].own /\ items'[k].analyzed = items[k].analyzed
         /\ items'[k].subs = items[k].subs \cup {i}
    BY <1>12, <1>22
  <1> HIDE DEF i, k
  <1>25. ASSUME NEW x \in DOMAIN items
         PROVE  /\ items'[x].is = items[x].is /\ items'[x].name = items[x].name
                /\ items'[x].within = items[x].within
                /\ items'[x].analyzed = items[x].analyzed
                /\ items[x].as # <<>> => items'[x].as # <<>>
                /\ x # i => items'[x].as = items[x].as /\ items'[x].own = items[x].own
                /\ x # k => items'[x].subs = items[x].subs
    <2>1. CASE x = i BY <1>9, <1>23, <2>1
    <2>2. CASE x = k /\ x # i BY <1>24, <2>2
    <2>3. CASE x # k /\ x # i BY <1>22, <2>3
    <2> QED BY <2>1, <2>2, <2>3
  <1>26. ItemsStay
    <2>1. DOMAIN items \subseteq DOMAIN items' BY <1>22
    <2>2. Len(items) <= Len(items') BY <1>22 DEF Typed
    <2> QED BY <1>22, <1>25, <2>1, <2>2 DEF ItemsStay
  <1>27. Gains(k, i) BY <1>5, <1>6, <1>7, <1>22, <1>24, <1>25, <1>26 DEF Gains
  <1>28. list_parentFunction # <<>> BY <1>1, <1>2, SubInside
  <1>29. items'[i].as = Append(Front(currentNameSpace.path), items[i].name) BY <1>23 DEF as
  <1> HIDE DEF as
  <1>30. /\ Gains(k, i) /\ items'[i].as # <<>> /\ items[k].is \in Functions
    BY <1>4, <1>6, <1>9, <1>23, <1>27
  <1> HIDE DEF n
  <1>31. /\ n \in Nat /\ n > 1 /\ DOMAIN open = 1 .. n /\ DOMAIN open' = 1 .. n - 1 /\ phase = "parsing"
         /\ open[n].kind = "sub" /\ open[n - 1].kind \in Functions
    BY <1>2, <1>3, <1>4
  <1>32. i \in DOMAIN items /\ k \in DOMAIN items /\ k < i /\ k \in Nat /\ i \in Nat /\ items[i].is = "sub"
    BY <1>5, <1>6, <1>7
  <1> QED BY <1>1, <1>22, <1>23, <1>25, <1>28, <1>29, <1>30, <1>31, <1>32 DEF n, i, k

\* The end of a function in a function keeps the invariant.
LEMMA EndsSubKeeps ==
  ASSUME TextInv, EndsSub
  PROVE  TextInv'
  <1> USE DEF TextInv
  <1> DEFINE n == Len(open)
             i == open[n].item
             k == open[n - 1].item
             l == Len(list_parentFunction)
  <1>1. /\ n \in Nat /\ n > 1 /\ DOMAIN open = 1 .. n /\ DOMAIN open' = 1 .. n - 1 /\ phase = "parsing"
        /\ open[n].kind = "sub" /\ open[n - 1].kind \in Functions
    BY EndsSubFacts
  <1>2. /\ i \in DOMAIN items /\ k \in DOMAIN items /\ k < i /\ k \in Nat /\ i \in Nat
        /\ items[i].is = "sub" /\ items[k].is \in Functions
    BY EndsSubFacts
  <1>3. /\ Gains(k, i)
        /\ DOMAIN items' = DOMAIN items
        /\ items'[i].as # <<>>
        /\ items'[i].own = currentNameSpace
    BY EndsSubFacts
  <1>4. \A x \in DOMAIN items : x # i => items'[x].as = items[x].as /\ items'[x].own = items[x].own
    BY EndsSubFacts
  <1>5. /\ list_parentFunction # <<>> /\ list_parentFunction' = Front(list_parentFunction)
        /\ Ends /\ list_namespaces' = list_namespaces
    BY EndsSubFacts
  <1>6. /\ list_parentFunction' \in Seq(Nat) /\ Len(list_parentFunction') = l - 1 /\ l \in Nat \ {0}
        /\ DOMAIN list_parentFunction' = 1 .. l - 1
        /\ \A p \in 1 .. l - 1 : list_parentFunction'[p] = list_parentFunction[p]
    BY <1>5, FrontOf DEF Typed
  <1>7. /\ n \in DOMAIN open /\ n - 1 \in DOMAIN open BY <1>1
  <1>8. ItemsStay /\ Len(items') = Len(items) BY <1>3 DEF Gains
  <1>9. SpacesStay /\ Len(list_namespaces') = Len(list_namespaces) BY <1>5 DEF SpacesStay, Typed
  <1>10. Typed' /\ Nested' /\ Idle' /\ Current' /\ Started' /\ Callable'
    <2>1. ASSUME NEW x \in DOMAIN items PROVE items'[x].own.index <= Len(list_namespaces)
      <3>1. CASE x = i BY <1>3, <3>1 DEF Current
      <3>2. CASE x # i BY <1>4, <3>2 DEF Current
      <3> QED BY <3>1, <3>2
    <2> QED BY <1>5, <1>6, <1>8, <1>9, <2>1, EndsKeeps
  <1>11. Text'
    <2>1. \A p \in DOMAIN open' : open[p].kind # "namespace" =>
            /\ items'[open[p].item].as = <<>>
            /\ \A x \in DOMAIN items : open[p].item \notin items'[x].subs
      <3> SUFFICES ASSUME NEW p \in DOMAIN open', open[p].kind # "namespace"
                   PROVE  /\ items'[open[p].item].as = <<>>
                          /\ \A x \in DOMAIN items : open[p].item \notin items'[x].subs
        OBVIOUS
      <3>1. p \in DOMAIN open /\ p < n BY <1>1
      <3>2. /\ open[p].item \in DOMAIN items /\ items[open[p].item].as = <<>>
            /\ \A q \in DOMAIN open : q > p => open[q].item > open[p].item
            /\ \A x \in DOMAIN items : open[p].item \notin items[x].subs
        BY <1>1, <3>1, OpenItem
      <3>3. open[p].item # i
        <4>1. i > open[p].item BY <1>7, <3>1, <3>2
        <4>2. open[p].item \in Nat BY <3>2 DEF Typed
        <4> QED BY <1>2, <4>1, <4>2
      <3>4. items'[open[p].item].as = <<>> BY <1>4, <3>2, <3>3
      <3> HIDE DEF n, i, k
      <3> QED BY <1>3, <3>2, <3>3, <3>4 DEF Gains
    <2> QED BY <1>5, <1>8, <2>1, EndsText
  <1>12. Parents'
    <2> SUFFICES ASSUME NEW p \in DOMAIN open', open'[p].kind \in Functions
                 PROVE  LET above == Len(open') - p IN
                        /\ above < Len(list_parentFunction')
                        /\ list_parentFunction'[Len(list_parentFunction') - above] = open'[p].item
      BY DEF Parents
    <2>1. p \in DOMAIN open /\ open'[p] = open[p] /\ Len(open') = n - 1
      <3>1. /\ Len(open') = Len(open) - 1
            /\ \A q \in DOMAIN open' : open'[q] = open[q]
        BY <1>5, EndsFacts
      <3>2. p \in DOMAIN open BY <1>1
      <3> QED BY <3>1, <3>2
    <2>2. n - p < l /\ list_parentFunction[l - (n - p)] = open[p].item BY <1>1, <2>1 DEF Parents
    <2>3. p \in 1 .. n - 1 BY <1>1
    <2>4. l - (n - p) \in 1 .. l - 1 BY <1>1, <1>6, <2>2, <2>3
    <2>5. Len(list_parentFunction') - (Len(open') - p) = l - (n - p) BY <1>1, <1>6, <2>1, <2>3
    <2>6. Len(open') - p < Len(list_parentFunction') BY <1>1, <1>6, <2>1, <2>2, <2>3
    <2> QED BY <1>6, <2>1, <2>2, <2>4, <2>5, <2>6
  <1>13. Buffers'
    <2>1. \A p \in DOMAIN list_parentFunction' :
            p \in DOMAIN list_parentFunction /\ list_parentFunction'[p] = list_parentFunction[p]
      BY <1>6
    <2> QED BY <1>5, <1>8, <2>1, GainsBuffers
  <1>14. Owned'
    <2>1. items[k].is # "class" BY <1>2 DEF Functions
    <2> QED BY <1>2, <1>3, <2>1, GainsOwned
  <1> DEFINE A(j) == \E x \in DOMAIN items' :
             /\ items'[x].is \in Functions
             /\ {y \in DOMAIN items' : j \in items'[y].subs} = {x}
             /\ items'[j].within = Append(items'[x].within, items'[x].name)
             /\ \A y \in DOMAIN items' : items'[y].is \in Functions /\ y < j
                  /\ Append(items'[y].within, items'[y].name) = Append(items'[x].within, items'[x].name) => y <= x
  <1>15. A(i)
    <2>1. {x \in DOMAIN items' : i \in items'[x].subs} = {k}
      <3> HIDE DEF i, k
      <3> QED BY <1>3 DEF Gains
    <2>2. /\ items[i].within = [q \in 1 .. n - 1 |-> open[q].name]
      BY <1>1, <1>7, OpenItem
    <2>3. /\ items[k].is = open[n - 1].kind /\ items[k].name = open[n - 1].name
          /\ items[k].within = [q \in 1 .. n - 1 - 1 |-> open[q].name]
          /\ \A x \in DOMAIN items : x > k => n - 1 <= Len(items[x].within)
      <3>1. open[n - 1].kind # "namespace" BY <1>1 DEF Functions
      <3> QED BY <1>1, <1>7, <3>1, OpenItem
    <2>4. ASSUME NEW x \in DOMAIN items
          PROVE  /\ items'[x].is = items[x].is /\ items'[x].name = items[x].name /\ items'[x].within = items[x].within
                 /\ items[x].within \in Seq(Names) /\ items[x].name \in Names
      <3>1. items[x] \in Declared BY DEF Typed
      <3> QED BY <1>8, <3>1 DEF ItemsStay, Declared
    <2>5. Len(items[k].within) = n - 2 BY <1>1, <2>3
    <2>6. items[i].within = Append(items[k].within, items[k].name)
      <3>1. Append(items[k].within, items[k].name) \in Seq(Names)
            /\ Len(Append(items[k].within, items[k].name)) = n - 1
            /\ \A q \in 1 .. n - 2 : Append(items[k].within, items[k].name)[q] = items[k].within[q]
            /\ Append(items[k].within, items[k].name)[n - 1] = items[k].name
        <4> HIDE DEF k, n
        <4> QED BY <1>1, <1>2, <2>4, <2>5
      <3>2. items[i].within \in Seq(Names) /\ Len(items[i].within) = n - 1
        BY <1>1, <1>2, <2>2, <2>4
      <3>3. \A q \in 1 .. n - 1 : items[i].within[q] = Append(items[k].within, items[k].name)[q]
        <4> TAKE q \in 1 .. n - 1
        <4>1. CASE q = n - 1 BY <1>1, <2>2, <2>3, <3>1, <4>1
        <4>2. CASE q # n - 1
          <5>1. q \in 1 .. n - 2 /\ q \in 1 .. n - 1 - 1
            <6>1. n \in Nat BY <1>1
            <6> HIDE DEF n
            <6> QED BY <4>2, <6>1
          <5> QED BY <2>2, <2>3, <3>1, <5>1
        <4> QED BY <4>1, <4>2
      <3> HIDE DEF n, k, i
      <3> QED BY <3>1, <3>2, <3>3, SameSequence
    <2>7. ASSUME NEW x \in DOMAIN items', items'[x].is \in Functions, x < i,
                 Append(items'[x].within, items'[x].name) = Append(items'[k].within, items'[k].name)
          PROVE  x <= k
      <3>1. x \in DOMAIN items BY <1>3
      <3>2. Append(items[x].within, items[x].name) = Append(items[k].within, items[k].name)
        BY <1>2, <2>4, <2>7, <3>1
      <3>3. Len(items[x].within) = Len(items[k].within)
        <4>1. items[x].within \in Seq(Names) /\ items[x].name \in Names BY <2>4, <3>1
        <4>2. items[k].within \in Seq(Names) /\ items[k].name \in Names BY <1>2, <2>4
        <4>3. \A s, t \in Seq(Names) : \A a, b \in Names : Append(s, a) = Append(t, b) => Len(s) = Len(t)
          BY SameLength
        <4> HIDE DEF k
        <4> QED BY <3>2, <4>1, <4>2, <4>3, Zenon
      <3>4. ~(x > k) BY <1>1, <2>3, <2>5, <3>1, <3>3
      <3>5. x \in Nat BY <3>1 DEF Typed
      <3> QED BY <1>2, <3>4, <3>5
    <2>8. k \in DOMAIN items' /\ items'[k].is \in Functions BY <1>2, <1>3, <2>4
    <2>9. items'[i].within = Append(items'[k].within, items'[k].name) BY <1>2, <2>4, <2>6
    <2> HIDE DEF i, k, n
    <2> QED BY <2>1, <2>7, <2>8, <2>9
  <1>16. AttachedToEnclosing'
    <2>1. ASSUME NEW j \in DOMAIN items', items'[j].is = "sub", items'[j].as # <<>>, j # i
          PROVE  Attached(j)'
      <3>1. j \in DOMAIN items BY <1>3, <2>1
      <3>2. items[j].is = "sub" /\ items[j].as # <<>> BY <1>4, <1>8, <2>1, <3>1 DEF ItemsStay
      <3>3. Attached(j) BY <3>1, <3>2, AllAttached
      <3> QED BY <1>3, <2>1, <3>1, <3>3, GainsAttached
    <2> HIDE DEF A
    <2>3. ASSUME NEW j \in DOMAIN items', items'[j].is = "sub", items'[j].as # <<>>, j = i
          PROVE  Attached(j)'
      <3>1. A(j) BY <1>15, <2>3
      <3> QED BY <3>1 DEF A, Attached, Here
    <2>2. (\A j \in DOMAIN items : items[j].is = "sub" /\ items[j].as # <<>> => Attached(j))'
      BY <2>1, <2>3
    <2> QED BY <2>2, AllAttached, PTL
  <1> QED BY <1>10, <1>11, <1>12, <1>13, <1>14, <1>16

-----------------------------------------------------------------------------
(***************************************************************************)
(* A variable, an enum, the end of the text.                               *)
(***************************************************************************)
\* What the items are after a declaration without an inside.
LEMMA AddsFacts ==
  ASSUME TextInv, NEW item, Adds(item), item.is \in {"value", "enum"}
  PROVE  /\ Grows /\ DOMAIN items' = 1 .. Len(items) + 1 /\ Len(items) \in Nat /\ DOMAIN items = 1 .. Len(items)
         /\ items'[Len(items) + 1] = item
         /\ New = Len(items) + 1
         /\ phase = "parsing" /\ phase' = "parsing"
         /\ UNCHANGED <<nameSpaceBuffer, calls, entered, errors, currentNameSpace, list_parentFunction, open, unclean>>
  <1> USE DEF TextInv
  <1>1. /\ Declares /\ item \in Declared /\ item.within = Written /\ item.subs = {} /\ item.own = Nowhere
        /\ item.analyzed = {}
        /\ items' = Append(items, item)
        /\ phase = "parsing" /\ phase' = "parsing"
        /\ UNCHANGED <<nameSpaceBuffer, calls, entered, errors, currentNameSpace, list_parentFunction, open, unclean>>
    BY DEF Adds, Reads
  <1>2. items \in Seq(Declared) BY DEF Typed
  <1>3. /\ items' \in Seq(Declared) /\ Len(items') = Len(items) + 1
        /\ DOMAIN items' = 1 .. Len(items) + 1
        /\ \A i \in DOMAIN items : items'[i] = items[i]
        /\ items'[Len(items) + 1] = item
    BY <1>1, <1>2, Appended
  <1>4. Len(items) \in Nat /\ DOMAIN items = 1 .. Len(items) BY <1>2
  <1>5. ItemsStay BY <1>3, <1>4 DEF ItemsStay
  <1>6. Grows BY <1>1, <1>3, <1>5 DEF Grows
  <1>7. New = Len(items) + 1 BY NewItem
  <1> QED BY <1>1, <1>3, <1>4, <1>6, <1>7

\* What every declaration without an inside keeps.
LEMMA AddsKeeps ==
  ASSUME TextInv, NEW item, Adds(item), item.is \in {"value", "enum"},
         SpacesStay, Len(list_namespaces') = Len(list_namespaces)
  PROVE  /\ Typed' /\ Nested' /\ Idle' /\ Current' /\ Started' /\ Callable'
         /\ Text' /\ Parents' /\ Owned' /\ AttachedToEnclosing'
  <1> USE DEF TextInv
  <1>1. /\ Grows /\ DOMAIN items' = 1 .. Len(items) + 1 /\ Len(items) \in Nat /\ DOMAIN items = 1 .. Len(items)
        /\ items'[Len(items) + 1] = item
        /\ phase = "parsing" /\ phase' = "parsing"
        /\ UNCHANGED <<nameSpaceBuffer, calls, entered, errors, currentNameSpace, list_parentFunction, open, unclean>>
    BY AddsFacts
  <1>2. /\ items' \in Seq(Declared) /\ Len(items') = Len(items) + 1
        /\ \A i \in DOMAIN items : items'[i] = items[i]
        /\ items'[Len(items) + 1].within = Written /\ items'[Len(items) + 1].own = Nowhere
    BY <1>1 DEF Grows, ItemsStay
  <1>3. Typed'
    <2>1. list_namespaces' \in Seq(Entries) BY DEF SpacesStay
    <2> QED BY <1>1, <1>2, <2>1 DEF Typed
  <1>4. Nested' BY StillNested
  <1>5. Idle' BY <1>1 DEF Idle
  <1>6. Current'
    <2>1. currentNameSpace \in Refs /\ Refers(currentNameSpace) /\ Len(open) <= Len(currentNameSpace.path)
      BY <1>1 DEF Typed, Current
    <2>2. RefersAfter(currentNameSpace) BY <2>1, StillRefers
    <2>3. \A i \in DOMAIN items' : items'[i].own.index <= Len(list_namespaces')
      <3>1. Nowhere.index <= Len(list_namespaces) BY Consts DEF Typed
      <3>2. items'[Len(items) + 1].own.index <= Len(list_namespaces') BY <1>2, <3>1
      <3>3. \A i \in DOMAIN items : items'[i].own.index <= Len(list_namespaces') BY <1>2 DEF Current
      <3> QED BY <1>1, <3>2, <3>3
    <2>4. currentNameSpace.index <= Len(list_namespaces') BY DEF Current
    <2> QED BY <1>1, <2>1, <2>2, <2>3, <2>4 DEF Current, Refers, RefersAfter
  <1>7. Started'
    <2>1. Len(Written) = Len(open) /\ Len(open) \in Nat BY WrittenType DEF Typed
    <2>2. Len(open) <= Len(items) /\ Len(list_namespaces) <= Len(items) + 1 /\ Len(list_namespaces) \in Nat
      BY DEF Started, Typed
    <2>3. Len(items') <= MaxItems
      <3>1. Declares BY DEF Adds
      <3> QED BY <1>1, <1>2, <3>1, ParsingAssumption DEF Declares
    <2>4. \A i \in DOMAIN items' : Len(items'[i].within) < i
      <3>1. Len(items'[Len(items) + 1].within) < Len(items) + 1 BY <1>1, <1>2, <2>1, <2>2
      <3>2. \A i \in DOMAIN items : Len(items'[i].within) < i BY <1>2 DEF Started
      <3> QED BY <1>1, <3>1, <3>2
    <2>5. Len(open') <= Len(items') BY <1>1, <1>2, <2>1, <2>2
    <2>6. Len(list_namespaces') <= Len(items') + 1 BY <1>1, <1>2, <2>2
    <2> QED BY <2>3, <2>4, <2>5, <2>6 DEF Started
  <1>8. Callable' BY <1>1 DEF Idle, Callable
  <1>9. Text'
    <2> SUFFICES ASSUME NEW p \in DOMAIN open
                 PROVE  LET c == open[p] IN
                        /\ c.kind \in Declarations \cup {"class", "function"} =>
                             \A q \in DOMAIN open : q < p => open[q].kind = "namespace"
                        /\ c.kind = "method" => p > 1 /\ open[p - 1].kind = "class"
                        /\ c.kind = "sub" => p > 1 /\ open[p - 1].kind \in Functions
                        /\ c.kind # "namespace" =>
                             /\ c.item \in DOMAIN items'
                             /\ items'[c.item].is = c.kind
                             /\ items'[c.item].name = c.name
                             /\ items'[c.item].within = [q \in 1 .. p - 1 |-> open[q].name]
                             /\ items'[c.item].as = <<>>
                             /\ \A i \in DOMAIN items' : i > c.item => p <= Len(items'[i].within)
                             /\ \A q \in DOMAIN open : q > p => open[q].item > c.item
                             /\ \A i \in DOMAIN items' : c.item \notin items'[i].subs
      BY <1>1 DEF Text
    <2>1. /\ open[p].kind \in Declarations \cup {"class", "function"} =>
               \A q \in DOMAIN open : q < p => open[q].kind = "namespace"
          /\ open[p].kind = "method" => p > 1 /\ open[p - 1].kind = "class"
          /\ open[p].kind = "sub" => p > 1 /\ open[p - 1].kind \in Functions
      BY <1>1, Around
    <2>2. CASE open[p].kind = "namespace" BY <2>1, <2>2
    <2>3. CASE open[p].kind # "namespace"
      <3>1. \A q \in DOMAIN open : q > p => open[q].item > open[p].item BY <1>1, <2>3, OpenItem
      <3>2. LET o == open[p] IN
            /\ o.item \in DOMAIN items'
            /\ items'[o.item].is = o.kind
            /\ items'[o.item].name = o.name
            /\ items'[o.item].within = [q \in 1 .. p - 1 |-> open[q].name]
            /\ items'[o.item].as = <<>>
            /\ \A i \in DOMAIN items' : i > o.item => p <= Len(items'[i].within)
            /\ \A i \in DOMAIN items' : o.item \notin items'[i].subs
        BY <1>1, <2>3, GrownText
      <3> QED BY <2>1, <3>1, <3>2
    <2> QED BY <2>2, <2>3
  <1>10. Parents' BY <1>1 DEF Parents
  <1>11. Owned' /\ AttachedToEnclosing' BY <1>1, GrownOwned, GrownAttached
  <1> QED BY <1>3, <1>4, <1>5, <1>6, <1>7, <1>8, <1>9, <1>10, <1>11

\* A variable keeps the invariant.
LEMMA DeclaresValueKeeps ==
  ASSUME TextInv, NEW item, DeclaresValue(item)
  PROVE  TextInv'
  <1> USE DEF TextInv
  <1> DEFINE m == Len(items)
  <1>1. Adds(item) /\ item.is = "value" /\ PushValue(New) BY DEF DeclaresValue
  <1>2. /\ Grows /\ DOMAIN items' = 1 .. m + 1 /\ m \in Nat /\ DOMAIN items = 1 .. m
        /\ items'[m + 1] = item /\ New = m + 1
        /\ list_parentFunction' = list_parentFunction
    BY <1>1, AddsFacts
  <1>3. currentNameSpace.index <= Len(list_namespaces) BY DEF Current
  <1>4. m + 1 \in Nat /\ PushValue(m + 1) BY <1>1, <1>2
  <1> HIDE DEF m
  <1>5. SpacesStay /\ Len(list_namespaces') = Len(list_namespaces) BY <1>3, <1>4, PushValueFacts
  <1>6. /\ Typed' /\ Nested' /\ Idle' /\ Current' /\ Started' /\ Callable'
        /\ Text' /\ Parents' /\ Owned' /\ AttachedToEnclosing'
    BY <1>1, <1>5, AddsKeeps
  <1>7. Buffers'
    <2>1. DOMAIN list_namespaces' = DOMAIN list_namespaces BY <1>5 DEF SpacesStay, Typed
    <2>2. ItemsStay BY <1>2 DEF Grows
    <2>3. ASSUME NEW n \in DOMAIN list_namespaces'
          PROVE  \/ n \in DOMAIN list_namespaces /\ list_namespaces'[n] = list_namespaces[n]
                 \/ BuffersFit(list_namespaces'[n])
      <3>1. CASE n # currentNameSpace.index BY <1>3, <1>4, <2>1, <3>1, PushValueFacts
      <3>2. CASE n = currentNameSpace.index
        <4>1. /\ list_namespaces'[n].values = Append(list_namespaces[n].values, m + 1)
              /\ list_namespaces'[n].classes = list_namespaces[n].classes
              /\ list_namespaces'[n].functions = list_namespaces[n].functions
          BY <1>3, <1>4, <3>2, PushValueFacts
        <4>2. BuffersFit(list_namespaces[n]) BY <2>1, <2>2, StillFit
        <4>3. list_namespaces[n] \in Entries BY <2>1 DEF Typed
        <4>4. list_namespaces[n].values \in Seq(Nat) BY <4>3 DEF Entries
        <4>5. \A e \in DOMAIN list_namespaces'[n].values :
                list_namespaces'[n].values[e] \in DOMAIN items' /\ items'[list_namespaces'[n].values[e]].is = "value"
          <5> TAKE e \in DOMAIN list_namespaces'[n].values
          <5>1. \/ e \in DOMAIN list_namespaces[n].values /\ list_namespaces'[n].values[e] = list_namespaces[n].values[e]
                \/ list_namespaces'[n].values[e] = m + 1
            BY <1>4, <4>1, <4>4
          <5>2. m + 1 \in DOMAIN items' /\ items'[m + 1].is = "value" BY <1>1, <1>2
          <5> QED BY <4>2, <5>1, <5>2 DEF BuffersFit
        <4> QED BY <4>1, <4>2, <4>5 DEF BuffersFit
      <3> QED BY <3>1, <3>2
    <2>4. \A p \in DOMAIN list_parentFunction' :
           \/ p \in DOMAIN list_parentFunction /\ list_parentFunction'[p] = list_parentFunction[p]
           \/ list_parentFunction'[p] <= Len(items')
      BY <1>2
    <2> QED BY <2>2, <2>3, <2>4, FitBuffers
  <1> QED BY <1>6, <1>7

\* An enum keeps the invariant.
LEMMA DeclaresEnumKeeps ==
  ASSUME TextInv, NEW item, DeclaresEnum(item)
  PROVE  TextInv'
  <1> USE DEF TextInv
  <1>1. Adds(item) /\ item.is = "enum" /\ list_namespaces' = list_namespaces BY DEF DeclaresEnum
  <1>2. Grows /\ list_parentFunction' = list_parentFunction BY <1>1, AddsFacts
  <1>3. SpacesStay /\ Len(list_namespaces') = Len(list_namespaces) BY <1>1 DEF SpacesStay, Typed
  <1>4. /\ Typed' /\ Nested' /\ Idle' /\ Current' /\ Started' /\ Callable'
        /\ Text' /\ Parents' /\ Owned' /\ AttachedToEnclosing'
    BY <1>1, <1>3, AddsKeeps
  <1>5. Buffers'
    <2>1. ItemsStay BY <1>2 DEF Grows
    <2> QED BY <1>1, <1>2, <2>1, FitBuffers
  <1> QED BY <1>4, <1>5

\* So does the null pointer, after which little is claimed.
LEMMA CrashesKeeps ==
  ASSUME TextInv, Crashes
  PROVE  TextInv'
  <1> USE DEF TextInv
  <1>1. /\ phase' = "crashed"
        /\ UNCHANGED <<list_namespaces, currentNameSpace, list_parentFunction, nameSpaceBuffer, calls, entered,
                       open, items, errors, unclean>>
    BY DEF Crashes, passes
  <1>2. Typed' BY <1>1 DEF Typed
  <1>3. Nested' BY <1>1 DEF Nested, Refers
  <1>4. Idle' BY <1>1 DEF Idle
  <1>5. Current' BY <1>1 DEF Current
  <1>6. Started' BY <1>1 DEF Started
  <1>7. Text' /\ Parents' BY <1>1 DEF Text, Parents
  <1>8. Buffers' BY <1>1 DEF Buffers
  <1>9. Owned' BY <1>1 DEF Owned
  <1>10. Callable' BY <1>1 DEF Callable
  <1>11. AttachedToEnclosing' BY <1>1 DEF AttachedToEnclosing, Of, Here
  <1> QED BY <1>2, <1>3, <1>4, <1>5, <1>6, <1>7, <1>8, <1>9, <1>10, <1>11

\* What the passes are to call.
LEMMA InDeclareClasses ==
  ASSUME NEW c
  PROVE  c \in DeclareClasses <=>
           \E n \in DOMAIN list_namespaces : \E e \in DOMAIN list_namespaces[n].classes :
             c = <<1, n, e, 0, list_namespaces[n].classes[e]>>
  BY DEF DeclareClasses, CallsOver

\* The calls of DeclareValues.
LEMMA InDeclareValues ==
  ASSUME NEW c
  PROVE  c \in DeclareValues <=>
           \E n \in DOMAIN list_namespaces : \E e \in DOMAIN list_namespaces[n].values :
             c = <<2, n, e, 0, list_namespaces[n].values[e]>>
  BY DEF DeclareValues, CallsOver

\* The calls of DeclareFunctions.
LEMMA InDeclareFunctions ==
  ASSUME NEW c
  PROVE  c \in DeclareFunctions <=>
           \E n \in DOMAIN list_namespaces : \E e \in DOMAIN list_namespaces[n].functions :
             c = <<3, n, e, 0, list_namespaces[n].functions[e]>>
  BY DEF DeclareFunctions, CallsOver

\* The calls of AnalyzeClasses: every method twice.
LEMMA InAnalyzeClasses ==
  ASSUME NEW c
  PROVE  c \in AnalyzeClasses <=>
           \E d \in DeclareClasses : \E stage \in {0, 1}, i \in items[d[5]].subs : c = <<4, d[2], d[3], stage, i>>
  BY DEF AnalyzeClasses

\* The calls of AnalyzeFunctions.
LEMMA InAnalyzeFunctions ==
  ASSUME NEW c
  PROVE  c \in AnalyzeFunctions <=>
           \E n \in DOMAIN list_namespaces : \E e \in DOMAIN list_namespaces[n].functions :
             c = <<5, n, e, 0, list_namespaces[n].functions[e]>>
  BY DEF AnalyzeFunctions, CallsOver

-----------------------------------------------------------------------------
(***************************************************************************)
(* The passes.                                                             *)
(***************************************************************************)
CanBeCalled(c) ==
  /\ c[2] \in DOMAIN list_namespaces
  /\ c[5] \in DOMAIN items
  /\ c[1] = 1 => items[c[5]].is = "class"
  /\ c[1] = 2 => items[c[5]].is = "value"
  /\ c[1] = 3 => items[c[5]].is = "function"
  /\ c[1] = 4 => items[c[5]].is \in Functions \ {"function"}
  /\ c[1] = 4 /\ c[4] = 0 => items[c[5]].is = "method"
  /\ c[1] = 5 => items[c[5]].is \in Functions \ {"method"}

\* Callable, call by call.
LEMMA AllCallable == Callable <=> \A d \in calls : CanBeCalled(d)
  BY DEF Callable, CanBeCalled

\* The fields of a call.
LEMMA CallOf ==
  ASSUME NEW loop \in Nat, NEW n \in Nat, NEW e \in Nat, NEW stage \in Nat, NEW i \in Nat
  PROVE  LET c == <<loop, n, e, stage, i>> IN
         c \in Calls /\ c[1] = loop /\ c[2] = n /\ c[3] = e /\ c[4] = stage /\ c[5] = i
  BY DEF Calls

\* What is in the buffers of one namespace.
LEMMA EntryFacts ==
  ASSUME Typed, Buffers, NEW n \in DOMAIN list_namespaces
  PROVE  /\ n \in Nat
         /\ \A e \in DOMAIN list_namespaces[n].functions :
              /\ e \in Nat /\ list_namespaces[n].functions[e] \in DOMAIN items
              /\ list_namespaces[n].functions[e] \in Nat
              /\ items[list_namespaces[n].functions[e]].is = "function"
         /\ \A e \in DOMAIN list_namespaces[n].classes :
              /\ e \in Nat /\ list_namespaces[n].classes[e] \in DOMAIN items
              /\ list_namespaces[n].classes[e] \in Nat
              /\ items[list_namespaces[n].classes[e]].is = "class"
         /\ \A e \in DOMAIN list_namespaces[n].values :
              /\ e \in Nat /\ list_namespaces[n].values[e] \in DOMAIN items
              /\ list_namespaces[n].values[e] \in Nat
              /\ items[list_namespaces[n].values[e]].is = "value"
  <1>1. n \in Nat /\ list_namespaces[n] \in Entries BY DEF Typed
  <1>2. /\ list_namespaces[n].functions \in Seq(Nat) /\ list_namespaces[n].classes \in Seq(Nat)
        /\ list_namespaces[n].values \in Seq(Nat)
    BY <1>1 DEF Entries
  <1>3. /\ \A e \in DOMAIN list_namespaces[n].functions : e \in Nat /\ list_namespaces[n].functions[e] \in Nat
        /\ \A e \in DOMAIN list_namespaces[n].classes : e \in Nat /\ list_namespaces[n].classes[e] \in Nat
        /\ \A e \in DOMAIN list_namespaces[n].values : e \in Nat /\ list_namespaces[n].values[e] \in Nat
    BY <1>2
  <1>4. /\ \A e \in DOMAIN list_namespaces[n].functions :
              list_namespaces[n].functions[e] \in DOMAIN items /\ items[list_namespaces[n].functions[e]].is = "function"
        /\ \A e \in DOMAIN list_namespaces[n].classes :
              list_namespaces[n].classes[e] \in DOMAIN items /\ items[list_namespaces[n].classes[e]].is = "class"
        /\ \A e \in DOMAIN list_namespaces[n].values :
              list_namespaces[n].values[e] \in DOMAIN items /\ items[list_namespaces[n].values[e]].is = "value"
    BY DEF Buffers
  <1> QED BY <1>1, <1>3, <1>4

\* What the passes start with can be called.
LEMMA StartedCalls ==
  ASSUME TextInv, NEW c \in DeclareClasses \cup DeclareValues \cup DeclareFunctions \cup AnalyzeClasses \cup AnalyzeFunctions
  PROVE  c \in Calls /\ CanBeCalled(c)
  <1> USE DEF TextInv
  <1>1. 0 \in Nat /\ 1 \in Nat /\ 2 \in Nat /\ 3 \in Nat /\ 4 \in Nat /\ 5 \in Nat OBVIOUS
  <1>2. CASE c \in DeclareClasses
    <2>1. PICK n \in DOMAIN list_namespaces : \E e \in DOMAIN list_namespaces[n].classes :
             c = <<1, n, e, 0, list_namespaces[n].classes[e]>>
      BY <1>2, InDeclareClasses
    <2>2. PICK e \in DOMAIN list_namespaces[n].classes : c = <<1, n, e, 0, list_namespaces[n].classes[e]>> BY <2>1
    <2> DEFINE i == list_namespaces[n].classes[e]
    <2>3. n \in Nat /\ e \in Nat /\ i \in Nat /\ i \in DOMAIN items /\ items[i].is = "class" BY EntryFacts
    <2>4. c = <<1, n, e, 0, i>> BY <2>2
    <2> HIDE DEF i
    <2>5. c \in Calls /\ c[1] = 1 /\ c[2] = n /\ c[5] = i BY <1>1, <2>3, <2>4, CallOf
    <2> QED BY <2>3, <2>5 DEF CanBeCalled
  <1>3. CASE c \in DeclareValues
    <2>1. PICK n \in DOMAIN list_namespaces : \E e \in DOMAIN list_namespaces[n].values :
             c = <<2, n, e, 0, list_namespaces[n].values[e]>>
      BY <1>3, InDeclareValues
    <2>2. PICK e \in DOMAIN list_namespaces[n].values : c = <<2, n, e, 0, list_namespaces[n].values[e]>> BY <2>1
    <2> DEFINE i == list_namespaces[n].values[e]
    <2>3. n \in Nat /\ e \in Nat /\ i \in Nat /\ i \in DOMAIN items /\ items[i].is = "value" BY EntryFacts
    <2>4. c = <<2, n, e, 0, i>> BY <2>2
    <2> HIDE DEF i
    <2>5. c \in Calls /\ c[1] = 2 /\ c[2] = n /\ c[5] = i BY <1>1, <2>3, <2>4, CallOf
    <2> QED BY <2>3, <2>5 DEF CanBeCalled
  <1>4. CASE c \in DeclareFunctions
    <2>1. PICK n \in DOMAIN list_namespaces : \E e \in DOMAIN list_namespaces[n].functions :
             c = <<3, n, e, 0, list_namespaces[n].functions[e]>>
      BY <1>4, InDeclareFunctions
    <2>2. PICK e \in DOMAIN list_namespaces[n].functions : c = <<3, n, e, 0, list_namespaces[n].functions[e]>> BY <2>1
    <2> DEFINE i == list_namespaces[n].functions[e]
    <2>3. n \in Nat /\ e \in Nat /\ i \in Nat /\ i \in DOMAIN items /\ items[i].is = "function" BY EntryFacts
    <2>4. c = <<3, n, e, 0, i>> BY <2>2
    <2> HIDE DEF i
    <2>5. c \in Calls /\ c[1] = 3 /\ c[2] = n /\ c[5] = i BY <1>1, <2>3, <2>4, CallOf
    <2> QED BY <2>3, <2>5 DEF CanBeCalled
  <1>5. CASE c \in AnalyzeFunctions
    <2>1. PICK n \in DOMAIN list_namespaces : \E e \in DOMAIN list_namespaces[n].functions :
             c = <<5, n, e, 0, list_namespaces[n].functions[e]>>
      BY <1>5, InAnalyzeFunctions
    <2>2. PICK e \in DOMAIN list_namespaces[n].functions : c = <<5, n, e, 0, list_namespaces[n].functions[e]>> BY <2>1
    <2> DEFINE i == list_namespaces[n].functions[e]
    <2>3. n \in Nat /\ e \in Nat /\ i \in Nat /\ i \in DOMAIN items /\ items[i].is = "function" BY EntryFacts
    <2>4. c = <<5, n, e, 0, i>> BY <2>2
    <2> HIDE DEF i
    <2>5. c \in Calls /\ c[1] = 5 /\ c[2] = n /\ c[5] = i BY <1>1, <2>3, <2>4, CallOf
    <2> QED BY <2>3, <2>5 DEF CanBeCalled, Functions
  <1>6. CASE c \in AnalyzeClasses
    <2>1. PICK d \in DeclareClasses : \E stage \in {0, 1}, i \in items[d[5]].subs : c = <<4, d[2], d[3], stage, i>>
      BY <1>6, InAnalyzeClasses
    <2>2. PICK stage \in {0, 1}, i \in items[d[5]].subs : c = <<4, d[2], d[3], stage, i>> BY <2>1
    <2>3. PICK n \in DOMAIN list_namespaces : \E e \in DOMAIN list_namespaces[n].classes :
             d = <<1, n, e, 0, list_namespaces[n].classes[e]>>
      BY <2>1, InDeclareClasses
    <2>4. PICK e \in DOMAIN list_namespaces[n].classes : d = <<1, n, e, 0, list_namespaces[n].classes[e]>> BY <2>3
    <2> DEFINE k == list_namespaces[n].classes[e]
    <2>5. n \in Nat /\ e \in Nat /\ k \in Nat /\ k \in DOMAIN items /\ items[k].is = "class" BY EntryFacts
    <2>6. d = <<1, n, e, 0, k>> BY <2>4
    <2> HIDE DEF k
    <2>7. d[2] = n /\ d[3] = e /\ d[5] = k BY <1>1, <2>5, <2>6, CallOf
    <2>8. i \in items[k].subs BY <2>2, <2>7
    <2>9. i \in k + 1 .. Len(items) /\ items[i].is = "method" BY <2>5, <2>8 DEF Owned
    <2>10. i \in DOMAIN items /\ i \in Nat BY <2>5, <2>9 DEF Typed
    <2>11. c = <<4, n, e, stage, i>> BY <2>2, <2>7
    <2>12. stage \in Nat OBVIOUS
    <2>13. c \in Calls /\ c[1] = 4 /\ c[2] = n /\ c[5] = i BY <1>1, <2>5, <2>10, <2>11, <2>12, CallOf
    <2> QED BY <2>9, <2>10, <2>13 DEF CanBeCalled, Functions
  <1> QED BY <1>2, <1>3, <1>4, <1>5, <1>6

\* The start of the passes keeps the invariant.
LEMMA StartsKeeps ==
  ASSUME TextInv, StartsAnalyze
  PROVE  TextInv'
  <1> USE DEF TextInv
  <1>1. /\ phase = "parsing" /\ phase' = "analyzing"
        /\ nameSpaceBuffer' = currentNameSpace
        /\ calls' = DeclareClasses \cup DeclareValues \cup DeclareFunctions \cup AnalyzeClasses \cup AnalyzeFunctions
        /\ unclean' = unclean \cup {c \in {"cut"} : open # <<>>}
        /\ UNCHANGED <<list_namespaces, currentNameSpace, list_parentFunction, entered, open, items, errors>>
    BY DEF StartsAnalyze, Analyze
  <1>2. \A c \in calls' : c \in Calls /\ CanBeCalled(c) BY <1>1, StartedCalls
  <1>3. Typed'
    <2>1. calls' \in SUBSET Calls BY <1>2
    <2>2. unclean' \in SUBSET {"cut", "prototype"} BY <1>1 DEF Typed
    <2> QED BY <1>1, <2>1, <2>2 DEF Typed
  <1>4. Nested' BY <1>1 DEF Nested, Refers
  <1>5. Idle' BY <1>1 DEF Idle
  <1>6. Current' BY <1>1 DEF Current, Refers
  <1>7. Started' BY <1>1 DEF Started
  <1>8. Text' /\ Parents' BY <1>1 DEF Text, Parents
  <1>9. Buffers' BY <1>1 DEF Buffers
  <1>10. Owned' BY <1>1 DEF Owned
  <1>11. Callable'
    <2>1. (\A d \in calls : CanBeCalled(d))' BY <1>1, <1>2 DEF CanBeCalled
    <2> QED BY <2>1, AllCallable, PTL
  <1>12. AttachedToEnclosing' BY <1>1 DEF AttachedToEnclosing, Of, Here
  <1> QED BY <1>3, <1>4, <1>5, <1>6, <1>7, <1>8, <1>9, <1>10, <1>11, <1>12

\* A call is made, and perhaps calls others.
LEMMA PassesKeeps ==
  ASSUME TextInv, Passes, NEW c \in calls, NEW inside, Called(c, inside),
         \A d \in inside : d \in Calls /\ CanBeCalled(d),
         items' \in Seq(Declared),
         \A i \in DOMAIN items : items'[i].own.index <= Len(list_namespaces),
         currentNameSpace' \in Refs, currentNameSpace'.index <= Len(list_namespaces),
         errors' \in BOOLEAN
  PROVE  TextInv'
  <1> USE DEF TextInv
  <1>1. /\ phase = "analyzing" /\ phase' \in {"analyzing", "crashed"}
        /\ UNCHANGED <<list_namespaces, nameSpaceBuffer, open, unclean>>
        /\ \/ list_parentFunction' = list_parentFunction
           \/ list_parentFunction # <<>> /\ list_parentFunction' = Front(list_parentFunction)
    BY DEF Passes
  <1>2. /\ DOMAIN items' = DOMAIN items /\ Len(items') = Len(items)
        /\ \A i \in DOMAIN items :
             /\ items'[i].is = items[i].is
             /\ items'[i].name = items[i].name
             /\ items'[i].within = items[i].within
             /\ items'[i].subs = items[i].subs
             /\ items[i].is = "sub" => items'[i].as = items[i].as
             /\ items[i].as # <<>> => items'[i].as # <<>>
    BY DEF Passes, SameItems
  <1>3. calls' = (calls \ {c}) \cup inside /\ entered' = <<c[1], c[2]>> BY CalledIs
  <1>4. list_parentFunction' \in Seq(Nat) BY <1>1, FrontOf DEF Typed
  <1>5. Typed'
    <2>1. entered' \in Nat \X Nat
      <3>1. c[1] \in Nat /\ c[2] \in Nat BY CallType
      <3> QED BY <1>3, <3>1
    <2>2. calls' \in SUBSET Calls BY <1>3 DEF Typed
    <2> QED BY <1>1, <1>4, <2>1, <2>2 DEF Typed
  <1>6. Nested' BY <1>1 DEF Nested, Refers
  <1>7. Idle' BY <1>1 DEF Idle
  <1>8. Current' BY <1>1, <1>2 DEF Current, Refers
  <1>9. Started' BY <1>1, <1>2 DEF Started
  <1>10. Text' /\ Parents' BY <1>1 DEF Text, Parents
  <1>11. ItemsStay BY <1>2 DEF ItemsStay, Typed
  <1>12. Buffers'
    <2>1. \A p \in DOMAIN list_parentFunction' :
            p \in DOMAIN list_parentFunction /\ list_parentFunction'[p] = list_parentFunction[p]
      <3>1. CASE list_parentFunction' = list_parentFunction BY <3>1
      <3>2. CASE list_parentFunction # <<>> /\ list_parentFunction' = Front(list_parentFunction)
        <4>1. list_parentFunction \in Seq(Nat) BY DEF Typed
        <4>2. /\ DOMAIN list_parentFunction' = 1 .. Len(list_parentFunction) - 1
              /\ \A p \in 1 .. Len(list_parentFunction) - 1 : list_parentFunction'[p] = list_parentFunction[p]
          BY <3>2, <4>1, FrontOf
        <4>3. \A p \in 1 .. Len(list_parentFunction) - 1 : p \in DOMAIN list_parentFunction BY <4>1
        <4> QED BY <4>2, <4>3
      <3> QED BY <1>1, <3>1, <3>2
    <2> QED BY <1>1, <1>11, <2>1, GainsBuffers
  <1>13. Owned'
    <2>1. \A i \in DOMAIN items : items[i].subs \subseteq DOMAIN items
      <3> SUFFICES ASSUME NEW i \in DOMAIN items, NEW j \in items[i].subs PROVE j \in DOMAIN items OBVIOUS
      <3>1. j \in i + 1 .. Len(items) BY DEF Owned
      <3> QED BY <3>1 DEF Typed
    <2> QED BY <1>2, <2>1 DEF Owned
  <1>14. Callable'
    <2>1. \A d \in calls' : CanBeCalled(d) BY <1>3, AllCallable
    <2> QED BY <1>1, <1>2, <2>1 DEF CanBeCalled, Callable
  <1>15. AttachedToEnclosing'
    <2>1. ASSUME NEW j \in DOMAIN items', items'[j].is = "sub", items'[j].as # <<>>
          PROVE  Attached(j)'
      <3>1. j \in DOMAIN items /\ items[j].is = "sub" /\ items[j].as # <<>> BY <1>2, <2>1
      <3>2. Attached(j) BY <3>1, AllAttached
      <3>3. \A k \in DOMAIN items' : j \in items'[k].subs <=> k \in DOMAIN items /\ j \in items[k].subs BY <1>2
      <3> QED BY <1>11, <3>1, <3>2, <3>3, StaysAttached
    <2>2. (\A j \in DOMAIN items : items[j].is = "sub" /\ items[j].as # <<>> => Attached(j))'
      BY <2>1
    <2> QED BY <2>2, AllAttached, PTL
  <1> QED BY <1>5, <1>6, <1>7, <1>8, <1>9, <1>10, <1>12, <1>13, <1>14, <1>15

\* Declaring a class keeps the invariant.
LEMMA DeclareClassKeeps ==
  ASSUME TextInv, NEW c \in calls, DeclareClass(c)
  PROVE  TextInv'
  <1> USE DEF TextInv
  <1>1. /\ Passes /\ Called(c, {})
        /\ items' \in Seq(Declared) /\ Others(c[5])
        /\ items'[c[5]] = [items[c[5]] EXCEPT !.as = <<items[c[5]].name>>]
        /\ currentNameSpace' = Within(c)
        /\ UNCHANGED errors
    BY DeclareClassIs
  <1>2. Within(c) \in Refs /\ Within(c).index <= Len(list_namespaces) BY WithinType
  <1>3. \A i \in DOMAIN items : items'[i].own.index <= Len(list_namespaces)
    <2>1. c[5] \in DOMAIN items /\ items[c[5]] \in Declared /\ items[c[5]].name \in Names BY CallType
    <2>2. items'[c[5]].own = items[c[5]].own
      <3> DEFINE as == <<items[c[5]].name>>
      <3>1. as \in Seq(Names) BY <2>1
      <3> HIDE DEF as
      <3>2. [items[c[5]] EXCEPT !.as = as].own = items[c[5]].own BY <2>1, <3>1, AsType
      <3> QED BY <1>1, <3>2 DEF as
    <2> QED BY <1>1, <2>2 DEF Others, Current
  <1>4. errors' \in BOOLEAN BY <1>1 DEF Typed
  <1> QED BY <1>1, <1>2, <1>3, <1>4, PassesKeeps

\* Declaring a variable keeps the invariant.
LEMMA DeclareValueKeeps ==
  ASSUME TextInv, NEW c \in calls, DeclareValue(c)
  PROVE  TextInv'
  <1> USE DEF TextInv
  <1>1. /\ Passes /\ Called(c, {})
        /\ \/ items' = items /\ errors'
           \/ /\ items' \in Seq(Declared) /\ Others(c[5])
              /\ items'[c[5]] = [items[c[5]] EXCEPT !.as = Append(Within(c).path, items[c[5]].name)]
              /\ errors' = errors
        /\ currentNameSpace' = Within(c)
    BY DeclareValueIs
  <1>2. Within(c) \in Refs /\ Within(c).index <= Len(list_namespaces) /\ Within(c).path \in Seq(Names) BY WithinType
  <1>3. items' \in Seq(Declared) BY <1>1 DEF Typed
  <1>4. \A i \in DOMAIN items : items'[i].own.index <= Len(list_namespaces)
    <2>1. c[5] \in DOMAIN items /\ items[c[5]] \in Declared /\ items[c[5]].name \in Names BY CallType
    <2>2. CASE items' = items BY <2>2 DEF Current
    <2>3. CASE items' # items
      <3> DEFINE as == Append(Within(c).path, items[c[5]].name)
      <3>1. as \in Seq(Names) BY <1>2, <2>1, Appended
      <3>2. items'[c[5]] = [items[c[5]] EXCEPT !.as = as] /\ Others(c[5]) BY <1>1, <2>3
      <3> HIDE DEF as
      <3>3. [items[c[5]] EXCEPT !.as = as].own = items[c[5]].own BY <2>1, <3>1, AsType
      <3> QED BY <3>2, <3>3 DEF Others, Current
    <2> QED BY <2>2, <2>3
  <1>5. errors' \in BOOLEAN BY DEF DeclareValue
  <1> QED BY <1>1, <1>2, <1>3, <1>4, <1>5, PassesKeeps

\* Registering a function keeps the invariant.
LEMMA PushCompilerKeeps ==
  ASSUME TextInv, NEW c \in calls, PushCompiler(c)
  PROVE  TextInv'
  <1> USE DEF TextInv
  <1>1. PICK as \in Seq(Names) :
          /\ Passes /\ Called(c, {})
          /\ items' \in Seq(Declared) /\ Others(c[5])
          /\ items'[c[5]] = Registered(c[5], Within(c), as)
          /\ currentNameSpace' \in Refs /\ currentNameSpace'.index <= Len(list_namespaces)
          /\ UNCHANGED errors
    BY PushCompilerIs
  <1>2. Within(c) \in Refs /\ Within(c).index <= Len(list_namespaces) BY WithinType
  <1>3. \A i \in DOMAIN items : items'[i].own.index <= Len(list_namespaces)
    <2>1. c[5] \in DOMAIN items BY CallType
    <2> DEFINE w == Within(c)
               i == c[5]
    <2>2. w \in Refs /\ w.index <= Len(list_namespaces) /\ items'[i] = Registered(i, w, as) /\ i \in DOMAIN items
      BY <1>1, <1>2, <2>1
    <2>3. Others(i) BY <1>1
    <2> HIDE DEF w, i
    <2>4. Registered(i, w, as).own = w BY <2>2, RegisteredType
    <2> QED BY <2>2, <2>3, <2>4 DEF Others, Current
  <1>4. errors' \in BOOLEAN BY <1>1 DEF Typed
  <1> QED BY <1>1, <1>3, <1>4, PassesKeeps

\* A function in a function is called where the one around it is.
LEMMA InsideCalls ==
  ASSUME TextInv, NEW c \in calls, Analyzes(c), NEW d \in {<<c[1], c[2], c[3], c[4], j>> : j \in items[c[5]].subs}
  PROVE  /\ d \in Calls /\ CanBeCalled(d)
         /\ d[1] = c[1] /\ d[2] = c[2] /\ d[3] = c[3] /\ d[4] = c[4] /\ d[5] \in items[c[5]].subs
         /\ items[d[5]].is = "sub"
  <1> USE DEF TextInv
  <1>1. PICK j \in items[c[5]].subs : d = <<c[1], c[2], c[3], c[4], j>> OBVIOUS
  <1>2. /\ c[1] \in Nat /\ c[2] \in DOMAIN list_namespaces /\ c[3] \in Nat /\ c[4] \in Nat
        /\ c[5] \in DOMAIN items /\ c[2] \in Nat /\ c[5] \in Nat
    BY CallType
  <1>3. CanBeCalled(c) BY AllCallable
  <1>4. items[c[5]].is # "class" BY <1>3 DEF CanBeCalled, Analyzes, Functions
  <1>5. j \in c[5] + 1 .. Len(items) /\ items[j].is = "sub" BY <1>2, <1>4 DEF Owned
  <1>6. j \in DOMAIN items /\ j \in Nat BY <1>2, <1>5 DEF Typed
  <1>7. d \in Calls /\ d[1] = c[1] /\ d[2] = c[2] /\ d[3] = c[3] /\ d[4] = c[4] /\ d[5] = j
    <2> DEFINE loop == c[1]
               n == c[2]
               e == c[3]
               stage == c[4]
    <2>1. loop \in Nat /\ n \in Nat /\ e \in Nat /\ stage \in Nat /\ d = <<loop, n, e, stage, j>> BY <1>1, <1>2
    <2> HIDE DEF loop, n, e, stage
    <2>2. d \in Calls /\ d[1] = loop /\ d[2] = n /\ d[3] = e /\ d[4] = stage /\ d[5] = j BY <1>6, <2>1, CallOf
    <2> QED BY <2>2 DEF loop, n, e, stage
  <1>8. CanBeCalled(d)
    <2>1. c[1] \in {4, 5} /\ (c[1] = 4 => c[4] # 0) BY DEF Analyzes
    <2> QED BY <1>2, <1>5, <1>6, <1>7, <2>1 DEF CanBeCalled, Functions
  <1> QED BY <1>5, <1>7, <1>8

\* Analyzing a function keeps the invariant: what it calls are functions in functions.
LEMMA AnalyzeFunctionKeeps ==
  ASSUME TextInv, NEW c \in calls, AnalyzeFunction(c)
  PROVE  TextInv'
  <1> USE DEF TextInv
  <1> DEFINE inside == {<<c[1], c[2], c[3], c[4], j>> : j \in items[c[5]].subs}
  <1>1. /\ Passes /\ Called(c, inside)
        /\ Analyzes(c)
        /\ items' \in Seq(Declared) /\ Others(c[5])
        /\ OwnNameSpace(c) \in Refs
        /\ items'[c[5]] = [items[c[5]] EXCEPT !.analyzed = {OwnNameSpace(c)}]
        /\ currentNameSpace' = Within(c)
        /\ UNCHANGED errors
    BY AnalyzeFunctionIs
  <1>2. Within(c) \in Refs /\ Within(c).index <= Len(list_namespaces) BY WithinType
  <1>3. \A i \in DOMAIN items : items'[i].own.index <= Len(list_namespaces)
    <2>1. c[5] \in DOMAIN items /\ items[c[5]] \in Declared BY CallType
    <2> DEFINE w == OwnNameSpace(c)
    <2>2. w \in Refs /\ items'[c[5]] = [items[c[5]] EXCEPT !.analyzed = {w}] BY <1>1
    <2> HIDE DEF w
    <2>3. items'[c[5]].own = items[c[5]].own BY <2>1, <2>2, AnalyzedType
    <2> QED BY <1>1, <2>3 DEF Others, Current
  <1>4. errors' \in BOOLEAN BY <1>1 DEF Typed
  <1>5. \A d \in inside : d \in Calls /\ CanBeCalled(d) BY <1>1, InsideCalls
  <1> HIDE DEF inside
  <1> QED BY <1>1, <1>2, <1>3, <1>4, <1>5, PassesKeeps

\* A second definition keeps the invariant.
LEMMA DefinedTwiceKeeps ==
  ASSUME TextInv, NEW c \in calls, DefinedTwice(c)
  PROVE  TextInv'
  <1> USE DEF TextInv
  <1>1. /\ Passes /\ Called(c, {})
        /\ errors' = TRUE
        /\ currentNameSpace' \in Refs /\ currentNameSpace'.index <= Len(list_namespaces)
        /\ UNCHANGED items
    BY DefinedTwiceIs
  <1>2. items' \in Seq(Declared) /\ \A i \in DOMAIN items : items'[i].own.index <= Len(list_namespaces)
    BY <1>1 DEF Typed, Current
  <1> QED BY <1>1, <1>2, PassesKeeps

-----------------------------------------------------------------------------
(***************************************************************************)
(* From script to script.                                                  *)
(***************************************************************************)
\* A namespace that is in the list no more is still one that was.
LEMMA StaleRefers ==
  ASSUME NEW ref \in Refs
  PROVE  /\ Stale(ref) \in Refs
         /\ Stale(ref).path = ref.path
         /\ ref.path = <<>> => Stale(ref) = ref
         /\ ref.path # <<>> => Stale(ref).index = 0
  <1>1. ref.path \in Seq(Names) BY DEF Refs
  <1>2. Ref(ref.path, 0) \in Refs /\ Ref(ref.path, 0).path = ref.path /\ Ref(ref.path, 0).index = 0 BY <1>1, RefType
  <1> QED BY <1>2 DEF Stale

\* The list with the global namespace alone.
LEMMA FirstSpace ==
  /\ <<Entry(<<>>, Nowhere)>> \in Seq(Entries)
  /\ Len(<<Entry(<<>>, Nowhere)>>) = 1
  /\ DOMAIN <<Entry(<<>>, Nowhere)>> = {1}
  /\ <<Entry(<<>>, Nowhere)>>[1].path = <<>>
  /\ <<Entry(<<>>, Nowhere)>>[1].parent = Nowhere
  /\ <<Entry(<<>>, Nowhere)>>[1].functions = <<>>
  /\ <<Entry(<<>>, Nowhere)>>[1].classes = <<>>
  /\ <<Entry(<<>>, Nowhere)>>[1].values = <<>>
  <1> DEFINE s == Entry(<<>>, Nowhere)
  <1>1. <<>> \in Seq(Names) OBVIOUS
  <1>2. /\ s \in Entries /\ s.path = <<>> /\ s.parent = Nowhere /\ s.functions = <<>>
        /\ s.classes = <<>> /\ s.values = <<>>
    BY <1>1, Consts, EntryType
  <1> HIDE DEF s
  <1>3. <<s>> \in Seq(Entries) /\ Len(<<s>>) = 1 /\ DOMAIN <<s>> = {1} /\ <<s>>[1] = s BY <1>2
  <1> QED BY <1>2, <1>3 DEF s

\* The invariant holds at the start.
LEMMA InitText == Init => TextInv
  <1> SUFFICES ASSUME Init PROVE TextInv OBVIOUS
  <1>1. /\ phase = "idle" /\ list_namespaces = <<Entry(<<>>, Nowhere)>> /\ currentNameSpace = Global
        /\ list_parentFunction = <<>> /\ open = <<>> /\ items = <<>> /\ errors = FALSE
        /\ nameSpaceBuffer = Nowhere /\ calls = {} /\ entered = <<0, 0>> /\ unclean = {}
    BY DEF Init
  <1>2. /\ list_namespaces \in Seq(Entries) /\ Len(list_namespaces) = 1 /\ DOMAIN list_namespaces = {1}
        /\ list_namespaces[1].path = <<>> /\ list_namespaces[1].parent = Nowhere
        /\ list_namespaces[1].functions = <<>> /\ list_namespaces[1].classes = <<>>
        /\ list_namespaces[1].values = <<>>
    BY <1>1, FirstSpace
  <1>3. /\ Nowhere \in Refs /\ Global \in Refs /\ Global.path = <<>> /\ Global.index = 1 BY Consts
  <1>4. Typed
    <2>1. items \in Seq(Declared) /\ open \in Seq(Constructs) /\ list_parentFunction \in Seq(Nat) BY <1>1
    <2>2. entered \in Nat \X Nat /\ calls \in SUBSET Calls BY <1>1
    <2> QED BY <1>1, <1>2, <1>3, <2>1, <2>2 DEF Typed
  <1>5. Nested BY <1>2 DEF Nested
  <1>6. Idle BY <1>1 DEF Idle
  <1>7. Current
    <2>1. Refers(Global) BY <1>2, <1>3 DEF Refers
    <2>2. Len(open) = 0 /\ Len(<<>>) = 0 BY <1>1
    <2> QED BY <1>1, <1>2, <1>3, <2>1, <2>2 DEF Current
  <1>8. Started BY <1>1, <1>2, ParsingAssumption DEF Started
  <1>9. Text /\ Parents BY <1>1 DEF Text, Parents
  <1>10. Buffers BY <1>1, <1>2 DEF Buffers
  <1>11. Owned /\ Callable BY <1>1 DEF Owned, Callable
  <1>12. AttachedToEnclosing BY <1>1 DEF AttachedToEnclosing, Of
  <1> QED BY <1>4, <1>5, <1>6, <1>7, <1>8, <1>9, <1>10, <1>11, <1>12 DEF TextInv

\* Starting a script, and not finding it, keep the invariant.
LEMMA CompileKeeps ==
  ASSUME TextInv, Compile \/ CannotOpen
  PROVE  TextInv'
  <1> USE DEF TextInv
  <1>1. /\ phase \in {"idle", "parsing"} /\ phase' \in {"idle", "parsing"}
        /\ phase = "parsing" => items = <<>> /\ open = <<>>
        /\ open' = <<>> /\ items' = <<>>
        /\ UNCHANGED <<list_namespaces, currentNameSpace, list_parentFunction, nameSpaceBuffer, calls, entered, unclean>>
        /\ errors' \in {FALSE, errors}
    BY DEF Compile, CannotOpen, passes
  <1>2. items = <<>> /\ open = <<>> BY <1>1 DEF Idle
  <1>3. UNCHANGED <<items, open>> BY <1>1, <1>2
  <1>4. Typed' BY <1>1, <1>3 DEF Typed
  <1>5. Nested' BY <1>1 DEF Nested, Refers
  <1>6. list_namespaces = <<Entry(<<>>, Nowhere)>>
    <2> DEFINE s == list_namespaces[1]
    <2>1. list_namespaces \in Seq(Entries) BY DEF Typed
    <2>2. Len(list_namespaces) = 1
      <3>1. Len(items) = 0 BY <1>2
      <3>2. Len(list_namespaces) \in Nat /\ Len(list_namespaces) >= 1 /\ Len(list_namespaces) <= 1
        BY <2>1, <3>1 DEF Nested, Started
      <3> QED BY <3>2
    <2>3. s.path = <<>> /\ s.parent = Nowhere BY DEF Nested
    <2>4. s \in Entries /\ 1 \in DOMAIN list_namespaces BY <2>1, <2>2
    <2>5. DOMAIN s.functions = {} /\ DOMAIN s.classes = {} /\ DOMAIN s.values = {}
      <3>1. DOMAIN items = {} BY <1>2
      <3> QED BY <2>4, <3>1 DEF Buffers
    <2>6. s.functions = <<>> /\ s.classes = <<>> /\ s.values = <<>>
      <3>1. s.functions \in Seq(Nat) /\ s.classes \in Seq(Nat) /\ s.values \in Seq(Nat) BY <2>4 DEF Entries
      <3> HIDE DEF s
      <3> QED BY <2>5, <3>1, NoElement
    <2>7. list_namespaces = <<s>> BY <2>1, <2>2
    <2> HIDE DEF s
    <2>8. s = Entry(<<>>, Nowhere) BY <2>3, <2>4, <2>6 DEF Entry, Entries
    <2> QED BY <2>7, <2>8
  <1>7. \A p \in DOMAIN list_parentFunction : list_parentFunction[p] = 0
    <2> TAKE p \in DOMAIN list_parentFunction
    <2>1. list_parentFunction[p] <= Len(items) BY DEF Buffers
    <2>2. list_parentFunction[p] \in Nat BY DEF Typed
    <2>3. Len(items) = 0 BY <1>2
    <2> QED BY <2>1, <2>2, <2>3
  <1>8. Idle'
    <2>1. calls' = {} /\ entered' = <<0, 0>> BY <1>1 DEF Idle
    <2> QED BY <1>1, <1>6, <1>7, <2>1 DEF Idle
  <1>9. Current' BY <1>1, <1>3 DEF Current, Refers
  <1>10. Started' BY <1>1, <1>3 DEF Started
  <1>11. Text' /\ Parents' BY <1>1 DEF Text, Parents
  <1>12. Buffers' BY <1>1, <1>3 DEF Buffers
  <1>13. Owned' BY <1>3 DEF Owned
  <1>14. Callable' BY <1>1, <1>3 DEF Callable
  <1>15. AttachedToEnclosing' BY <1>1 DEF AttachedToEnclosing, Of
  <1> QED BY <1>4, <1>5, <1>8, <1>9, <1>10, <1>11, <1>12, <1>13, <1>14, <1>15

\* The end of Analyze and the clearing of the namespaces keep the invariant.
LEMMA ClearKeeps ==
  ASSUME TextInv, ClearNameSpace
  PROVE  TextInv'
  <1> USE DEF TextInv
  <1>1. /\ phase = "analyzing" /\ calls = {} /\ phase' = "idle" /\ list_namespaces' = <<Entry(<<>>, Nowhere)>>
        /\ currentNameSpace' = Stale(nameSpaceBuffer)
        /\ list_parentFunction' = [i \in DOMAIN list_parentFunction |-> 0]
        /\ open' = <<>> /\ items' = <<>>
        /\ nameSpaceBuffer' = Nowhere /\ entered' = <<0, 0>>
        /\ UNCHANGED <<calls, errors, unclean>>
    BY DEF ClearNameSpace, Analyzed
  <1>2. /\ list_namespaces' \in Seq(Entries) /\ Len(list_namespaces') = 1 /\ DOMAIN list_namespaces' = {1}
        /\ list_namespaces'[1].path = <<>> /\ list_namespaces'[1].parent = Nowhere
        /\ list_namespaces'[1].functions = <<>> /\ list_namespaces'[1].classes = <<>>
        /\ list_namespaces'[1].values = <<>>
    BY <1>1, FirstSpace
  <1>3. nameSpaceBuffer \in Refs /\ Nowhere \in Refs BY Consts DEF Typed
  <1>4. /\ Stale(nameSpaceBuffer) \in Refs
        /\ Stale(nameSpaceBuffer).path = nameSpaceBuffer.path
        /\ nameSpaceBuffer.path = <<>> => Stale(nameSpaceBuffer) = nameSpaceBuffer
        /\ nameSpaceBuffer.path # <<>> => Stale(nameSpaceBuffer).index = 0
    BY <1>3, StaleRefers
  <1>5. /\ list_parentFunction' \in Seq(Nat)
        /\ \A p \in DOMAIN list_parentFunction' : list_parentFunction'[p] = 0
    <2>1. list_parentFunction \in Seq(Nat) BY DEF Typed
    <2>2. DOMAIN list_parentFunction = 1 .. Len(list_parentFunction) /\ Len(list_parentFunction) \in Nat BY <2>1
    <2>3. list_parentFunction' = [i \in 1 .. Len(list_parentFunction) |-> 0] BY <1>1, <2>2
    <2> QED BY <2>2, <2>3
  <1>6. Typed'
    <2>1. items' \in Seq(Declared) /\ open' \in Seq(Constructs) /\ entered' \in Nat \X Nat BY <1>1
    <2> QED BY <1>1, <1>2, <1>3, <1>4, <1>5, <2>1 DEF Typed
  <1>7. Nested' BY <1>2 DEF Nested
  <1>8. Idle' BY <1>1, <1>5 DEF Idle
  <1>9. Current'
    <2>1. Refers(nameSpaceBuffer) BY <1>1 DEF Current
    <2>2. nameSpaceBuffer.path \in Seq(Names) /\ nameSpaceBuffer.index \in Nat BY <1>3 DEF Refs
    <2>3. CASE nameSpaceBuffer.path # <<>>
      <3>1. currentNameSpace'.index = 0 /\ currentNameSpace'.path # <<>> /\ currentNameSpace'.path \in Seq(Names)
        BY <1>1, <1>4, <2>2, <2>3
      <3>2. Len(open') <= Len(currentNameSpace'.path) BY <1>1, <3>1
      <3> QED BY <1>1, <1>2, <3>1, <3>2 DEF Current, Refers
    <2>4. CASE nameSpaceBuffer.path = <<>>
      <3>1. nameSpaceBuffer.index = 1
        <4>1. nameSpaceBuffer.index # 0 BY <2>1, <2>4 DEF Refers
        <4>2. list_namespaces[nameSpaceBuffer.index].path = <<>> /\ nameSpaceBuffer.index <= Len(list_namespaces)
          BY <2>1, <2>4, <4>1 DEF Refers
        <4>3. nameSpaceBuffer.index \notin 2 .. Len(list_namespaces) BY <4>2 DEF Nested
        <4>4. Len(list_namespaces) \in Nat BY DEF Typed
        <4> QED BY <2>2, <4>1, <4>2, <4>3, <4>4
      <3>2. currentNameSpace'.index = 1 /\ currentNameSpace'.path = <<>> BY <1>1, <1>4, <2>4, <3>1
      <3>3. Len(open') <= Len(currentNameSpace'.path) BY <1>1, <3>2
      <3> QED BY <1>1, <1>2, <3>2, <3>3 DEF Current, Refers
    <2> QED BY <2>3, <2>4
  <1>10. Started' BY <1>1, <1>2, ParsingAssumption DEF Started
  <1>11. Text' /\ Parents' BY <1>1 DEF Text, Parents
  <1>12. Buffers' BY <1>1, <1>2, <1>5 DEF Buffers
  <1>13. Owned' /\ Callable' BY <1>1 DEF Owned, Callable
  <1>14. AttachedToEnclosing' BY <1>1 DEF AttachedToEnclosing, Of
  <1> QED BY <1>6, <1>7, <1>8, <1>9, <1>10, <1>11, <1>12, <1>13, <1>14

\* Doing nothing keeps the invariant.
LEMMA StutterKeeps ==
  ASSUME TextInv, UNCHANGED vars
  PROVE  TextInv'
  <1> USE DEF TextInv
  <1>1. UNCHANGED <<phase, list_namespaces, currentNameSpace, list_parentFunction, nameSpaceBuffer, calls, entered,
                    open, items, errors, unclean>>
    BY DEF vars, passes
  <1>2. Typed' BY <1>1 DEF Typed
  <1>3. Nested' BY <1>1 DEF Nested, Refers
  <1>4. Idle' BY <1>1 DEF Idle
  <1>5. Current' BY <1>1 DEF Current, Refers
  <1>6. Started' BY <1>1 DEF Started
  <1>7. Text' BY <1>1 DEF Text
  <1>a. Parents' BY <1>1 DEF Parents
  <1>8. Buffers' BY <1>1 DEF Buffers
  <1>9. Owned' BY <1>1 DEF Owned
  <1>10. Callable' BY <1>1 DEF Callable
  <1>11. AttachedToEnclosing' BY <1>1 DEF AttachedToEnclosing, Of, Here
  <1> QED BY <1>2, <1>3, <1>4, <1>5, <1>6, <1>7, <1>8, <1>9, <1>10, <1>11, <1>a

\* What happens: one step is one of these.
Step ==
  \/ Compile \/ CannotOpen \/ ClearNameSpace \/ StartsAnalyze \/ Crashes
  \/ EndsBlock \/ EndsFunction \/ EndsMethod \/ EndsSub
  \/ \E kind, name, space, o : Begins(kind, name, space, o)
  \/ \E kind, name, space : Foretells(kind, name, space)
  \/ \E item : DeclaresValue(item)
  \/ \E item : DeclaresEnum(item)
  \/ \E c \in calls : DeclareClass(c)
  \/ \E c \in calls : DeclareValue(c)
  \/ \E c \in calls : PushCompiler(c)
  \/ \E c \in calls : AnalyzeFunction(c)
  \/ \E c \in calls : DefinedTwice(c)

\* Every action is one of the effects above.
LEMMA EveryStep ==
  ASSUME TextInv, Next
  PROVE  Step
  <1> USE DEF TextInv
  <1>1. CASE Compile \/ CannotOpen \/ ClearNameSpace BY <1>1 DEF Step
  <1>2. CASE EndOfFile \/ SyntaxError BY <1>2, StartIs DEF Step
  <1>3. CASE CloseNameSpace \/ CloseClass BY <1>3, CloseBlockIs DEF Step
  <1>4. CASE AddFunction BY <1>4, AddFunctionIs DEF Step
  <1>5. CASE RegistMethod BY <1>5, RegistMethodIs DEF Step
  <1>6. CASE PushCompiler_sub BY <1>6, SubIs DEF Step
  <1>7. ASSUME NEW n \in Names, OpenNameSpace(n) PROVE Step BY <1>7, OpenNameSpaceIs DEF Step
  <1>8. ASSUME NEW n \in Names, OpenClass(n) PROVE Step BY <1>8, OpenClassIs DEF Step
  <1>9. ASSUME NEW n \in Names, OpenFunction(n) PROVE Step BY <1>9, OpenFunctionIs DEF Step
  <1>10. ASSUME NEW n \in Names, AddValue(n) PROVE Step BY <1>10, AddValueIs DEF Step
  <1>11. ASSUME NEW n \in Names, RegistEnumType(n) PROVE Step BY <1>11, EnumIs DEF Step
  <1>12. ASSUME NEW n \in Names, NEW like \in {"class", "function"}, Prototype(like, n) PROVE Step
    BY <1>12, PrototypeIs DEF Step
  <1>13. CASE \/ \E c \in calls : DeclareClass(c)
              \/ \E c \in calls : DeclareValue(c)
              \/ \E c \in calls : PushCompiler(c)
              \/ \E c \in calls : AnalyzeFunction(c)
              \/ \E c \in calls : DefinedTwice(c)
    BY <1>13 DEF Step
  <1> QED BY <1>1, <1>2, <1>3, <1>4, <1>5, <1>6, <1>7, <1>8, <1>9, <1>10, <1>11, <1>12, <1>13 DEF Next

\* The invariant is inductive.
LEMMA NextText == TextInv /\ [Next]_vars => TextInv'
  <1> SUFFICES ASSUME TextInv, [Next]_vars PROVE TextInv' OBVIOUS
  <1>1. CASE UNCHANGED vars BY <1>1, StutterKeeps
  <1>2. CASE Next
    <2>1. Step BY <1>2, EveryStep
    <2>2. CASE Compile \/ CannotOpen BY <2>2, CompileKeeps
    <2>3. CASE ClearNameSpace BY <2>3, ClearKeeps
    <2>4. CASE StartsAnalyze BY <2>4, StartsKeeps
    <2>5. CASE Crashes BY <2>5, CrashesKeeps
    <2>6. CASE EndsBlock BY <2>6, EndsBlockKeeps
    <2>7. CASE EndsFunction BY <2>7, EndsFunctionKeeps
    <2>8. CASE EndsMethod BY <2>8, EndsMethodKeeps
    <2>9. CASE EndsSub BY <2>9, EndsSubKeeps
    <2>10. CASE \E kind, name, space, o : Begins(kind, name, space, o) BY <2>10, BeginsKeeps
    <2>11. CASE \E kind, name, space : Foretells(kind, name, space) BY <2>11, ForetellsKeeps
    <2>12. CASE \E item : DeclaresValue(item) BY <2>12, DeclaresValueKeeps
    <2>13. CASE \E item : DeclaresEnum(item) BY <2>13, DeclaresEnumKeeps
    <2>14. CASE \E c \in calls : DeclareClass(c) BY <2>14, DeclareClassKeeps
    <2>15. CASE \E c \in calls : DeclareValue(c) BY <2>15, DeclareValueKeeps
    <2>16. CASE \E c \in calls : PushCompiler(c) BY <2>16, PushCompilerKeeps
    <2>17. CASE \E c \in calls : AnalyzeFunction(c) BY <2>17, AnalyzeFunctionKeeps
    <2>18. CASE \E c \in calls : DefinedTwice(c) BY <2>18, DefinedTwiceKeeps
    <2> QED BY <2>1, <2>2, <2>3, <2>4, <2>5, <2>6, <2>7, <2>8, <2>9, <2>10, <2>11, <2>12, <2>13, <2>14, <2>15,
               <2>16, <2>17, <2>18 DEF Step
  <1> QED BY <1>1, <1>2

\* Whatever the grammar recognises, in any order and however the text ends, and through all
\* passes of Compiler::Analyze: TextInv, the inductive invariant.
THEOREM EveryText == Spec => []TextInv
  BY InitText, NextText, PTL DEF Spec

\* The invariant implies the types.
LEMMA TextTypes == TextInv => TypeOK
  <1> SUFFICES ASSUME TextInv PROVE TypeOK OBVIOUS
  <1> USE DEF TextInv
  <1>1. /\ items \in Seq(Declared) /\ list_namespaces \in Seq(Entries) /\ currentNameSpace \in Refs
        /\ list_parentFunction \in Seq(Nat)
    BY DEF Typed
  <1>2. Len(items) <= MaxItems /\ Len(items) \in Nat /\ DOMAIN items = 1 .. Len(items)
    BY <1>1 DEF Started
  <1>3. ASSUME NEW i \in DOMAIN items
        PROVE  /\ items[i].is \in {"namespace", "class", "value", "enum"} \cup Functions
               /\ items[i].within \in Texts
               /\ items[i].subs \subseteq i + 1 .. Len(items)
    <2>1. items[i] \in Declared BY <1>1
    <2>2. items[i].is \in Kinds /\ items[i].within \in Seq(Names) BY <2>1 DEF Declared
    <2>3. items[i].is \in {"namespace", "class", "value", "enum"} \cup Functions BY <2>2 DEF Kinds, Makers
    <2>4. items[i].within \in Texts
      <3> DEFINE w == items[i].within
                 n == Len(w)
      <3>1. n \in 0 .. MaxItems
        <4>1. n < i /\ i <= Len(items) /\ n \in Nat BY <1>2, <2>2 DEF Started
        <4> HIDE DEF w, n
        <4> QED BY <1>2, <4>1, ParsingAssumption
      <3>2. w \in [1 .. n -> Names] BY <2>2
      <3> HIDE DEF w, n
      <3>3. w \in UNION {[1 .. k -> Names] : k \in 0 .. MaxItems} BY <3>1, <3>2
      <3> QED BY <3>3 DEF Texts, w
    <2>5. items[i].subs \subseteq i + 1 .. Len(items) BY DEF Owned
    <2> QED BY <2>3, <2>4, <2>5
  <1>4. ASSUME NEW i \in DOMAIN list_namespaces
        PROVE  LET n == list_namespaces[i] IN
               /\ n.parent.index < i
               /\ {n.functions, n.classes, n.values} \subseteq Seq(DOMAIN items)
    <2> DEFINE n == list_namespaces[i]
    <2>1. n \in Entries BY <1>1
    <2>2. /\ n.functions \in Seq(Nat) /\ n.classes \in Seq(Nat) /\ n.values \in Seq(Nat) BY <2>1 DEF Entries
    <2>3. n.parent.index < i
      <3>1. CASE i = 1
        <4>1. n.parent = Nowhere BY <3>1 DEF Nested
        <4> QED BY <3>1, <4>1, Consts
      <3>2. CASE i # 1
        <4>1. i \in 2 .. Len(list_namespaces) BY <1>1, <3>2
        <4> QED BY <4>1 DEF Nested
      <3> QED BY <3>1, <3>2
    <2>4. /\ \A e \in DOMAIN n.functions : n.functions[e] \in DOMAIN items
          /\ \A e \in DOMAIN n.classes : n.classes[e] \in DOMAIN items
          /\ \A e \in DOMAIN n.values : n.values[e] \in DOMAIN items
      BY DEF Buffers
    <2>5. n.functions \in Seq(DOMAIN items) /\ n.classes \in Seq(DOMAIN items) /\ n.values \in Seq(DOMAIN items)
      <3> HIDE DEF n
      <3> QED BY <2>2, <2>4, Narrower
    <2> QED BY <2>3, <2>5
  <1>5. currentNameSpace.index \in 0 .. Len(list_namespaces)
    <2>1. currentNameSpace.index \in Nat BY <1>1 DEF Refs
    <2>2. currentNameSpace.index <= Len(list_namespaces) BY DEF Current
    <2> QED BY <1>1, <2>1, <2>2
  <1>6. phase # "analyzing" /\ phase # "crashed" => currentNameSpace # Nowhere
    <2>1. phase # "analyzing" /\ phase # "crashed" => phase \in {"idle", "parsing"} BY DEF Typed
    <2>2. phase \in {"idle", "parsing"} => Refers(currentNameSpace) BY DEF Current
    <2>3. ~Refers(Nowhere) BY Consts DEF Refers
    <2> QED BY <2>1, <2>2, <2>3
  <1>7. list_parentFunction \in Seq(0 .. Len(items))
    <2>1. \A p \in DOMAIN list_parentFunction : list_parentFunction[p] \in 0 .. Len(items)
      <3> TAKE p \in DOMAIN list_parentFunction
      <3>1. list_parentFunction[p] <= Len(items) BY DEF Buffers
      <3>2. list_parentFunction[p] \in Nat BY <1>1
      <3> QED BY <1>2, <3>1, <3>2
    <2> QED BY <1>1, <2>1, Narrower
  <1>8. phase \in {"idle", "parsing", "analyzing", "crashed"} BY DEF Typed
  <1> QED BY <1>2, <1>3, <1>4, <1>5, <1>6, <1>7, <1>8 DEF TypeOK

\* The current namespace, the parents, the buffers of the namespaces and what functions own
\* are what they are taken for, after any number of declarations and scripts.
THEOREM WellTyped == Spec => []TypeOK
  <1>1. TextInv => TypeOK BY TextTypes
  <1> QED BY <1>1, EveryText, PTL

\* Function::PushCompiler_sub attaches a function in a function to the innermost one around
\* it, although earlier functions and methods stay in list_parentFunction while the text is read.
THEOREM Attaches == Spec => []AttachedToEnclosing
  <1>1. TextInv => AttachedToEnclosing BY DEF TextInv
  <1> QED BY <1>1, EveryText, PTL
=============================================================================
