------------------------- MODULE ParsingCleanProofs -------------------------
(***************************************************************************)
(* What holds while every text has ended between two declarations: the     *)
(* compiler is where the text is, declares what is in it as it is written, *)
(* and leaves nothing to the next.                                         *)
(***************************************************************************)
EXTENDS ParsingProofs, WellFoundedInduction

-----------------------------------------------------------------------------
(***************************************************************************)
(* The invariant, while every text has ended between two declarations and  *)
(* has had no prototype.                                                   *)
(***************************************************************************)
Waiting == {i \in DOMAIN items : items[i].is \in Functions /\ items[i].as = <<>>}

Unfinished(i) == phase = "parsing" /\ \E p \in DOMAIN open : open[p].kind # "namespace" /\ open[p].item = i

\* One parent for every function that has not been registered.
Counted == phase # "crashed" => Len(list_parentFunction) = Cardinality(Waiting)

\* The current namespace is the one of the text, and the passes come back to the global one.
InPlace ==
  /\ phase = "idle" => currentNameSpace = Global
  /\ phase = "parsing" => currentNameSpace.path = Written /\ currentNameSpace.index # 0
  /\ phase = "analyzing" => nameSpaceBuffer = Global
  /\ \A n \in DOMAIN list_namespaces : n # 1 => list_namespaces[n].parent.index # 0

\* From the namespace of the function that is being read on there are no functions yet.
Bare(k, p) ==
  /\ Len(list_namespaces[k].path) = p
  /\ k <= currentNameSpace.index
  /\ \A n \in DOMAIN list_namespaces : n >= k => list_namespaces[n].functions = <<>>
  /\ \A n \in DOMAIN list_namespaces : n > k => list_namespaces[n].parent.index >= k

Fresh ==
  phase = "parsing" => \A p \in DOMAIN open :
    open[p].kind = "function" => \E k \in DOMAIN list_namespaces : Bare(k, p)

\* A namespace has one function or class at most, its own, and nothing is in two.
Single(m) ==
  LET s == list_namespaces[m] IN
  /\ Len(s.functions) <= 1 /\ Len(s.classes) <= 1
  /\ \A i \in DOMAIN items : s.functions # <<>> /\ s.functions[1] = i => Here(i) = s.path /\ ~Unfinished(i)
  /\ \A e \in DOMAIN s.values : items[s.values[e]].within = s.path

Apart(m, n) ==
  LET s == list_namespaces[m]
      t == list_namespaces[n]
  IN  /\ s.functions # <<>> /\ t.functions # <<>> /\ s.functions[1] = t.functions[1] => m = n
      /\ s.classes # <<>> /\ t.classes # <<>> /\ s.classes[1] = t.classes[1] => m = n

Separate ==
  \A m \in DOMAIN list_namespaces : Single(m) /\ \A n \in DOMAIN list_namespaces : Apart(m, n)

\* Everything that has been read is where the passes find it.
Found(i) ==
  /\ items[i].is = "function" => \/ Unfinished(i)
                                 \/ \E n \in DOMAIN list_namespaces :
                                      list_namespaces[n].functions # <<>> /\ list_namespaces[n].functions[1] = i
  /\ items[i].is = "method" => \/ Unfinished(i)
                               \/ \E k \in DOMAIN items : items[k].is = "class" /\ i \in items[k].subs
  /\ items[i].is = "sub" => Unfinished(i) \/ items[i].as # <<>>
  /\ items[i].is = "class" => \E n \in DOMAIN list_namespaces :
                                list_namespaces[n].classes # <<>> /\ list_namespaces[n].classes[1] = i
  /\ items[i].is = "value" => \E n \in DOMAIN list_namespaces : \E e \in DOMAIN list_namespaces[n].values :
                                list_namespaces[n].values[e] = i

Placed == phase # "crashed" => \A i \in DOMAIN items : Found(i)

\* What has been declared has been as it is written, and is analyzed there.
Correct(i) ==
  /\ items[i].as # <<>> =>
       /\ items[i].is \in {"function", "sub", "value"} => items[i].as = Here(i)
       /\ items[i].is \in {"class", "method"} => items[i].as = <<items[i].name>>
       /\ items[i].is \in {"function", "sub"} =>
            /\ items[i].own.index \in DOMAIN list_namespaces
            /\ items[i].own.path = Here(i)
            /\ list_namespaces[items[i].own.index].path = Here(i)
  /\ items[i].is \in {"function", "sub"} => items[i].analyzed \subseteq {items[i].own}
  /\ items[i].is \in {"function", "sub"} /\ items[i].as = <<>> => items[i].analyzed = {}
  /\ items[i].is = "method" => items[i].analyzed = {} \/ \E r \in items[i].analyzed : items[i].analyzed = {r}
  /\ phase = "parsing" => items[i].analyzed = {} /\ (items[i].is \notin {"sub", "enum"} => items[i].as = <<>>)

\* What is called is where it was read, and no function is registered twice.
Due(c) ==
  /\ c[1] = 2 => /\ c[3] \in DOMAIN list_namespaces[c[2]].values
                 /\ c[5] = list_namespaces[c[2]].values[c[3]]
  /\ c[1] = 3 => /\ c[3] = 1 /\ c[4] = 0
                 /\ list_namespaces[c[2]].functions # <<>>
                 /\ c[5] = list_namespaces[c[2]].functions[1]
                 /\ entered # <<3, c[2]>>
  /\ c[1] = 4 /\ c[4] = 0 => /\ c[3] = 1
                             /\ list_namespaces[c[2]].classes # <<>>
                             /\ c[5] \in items[list_namespaces[c[2]].classes[1]].subs
  /\ Registers(c) => items[c[5]].as = <<>>

\* What has not been done will be, or there has been an error.
Awaited(i) ==
  /\ items[i].is = "class" => items[i].as # <<>> \/ \E c \in calls : c[1] = 1 /\ c[5] = i
  /\ items[i].is = "value" => errors \/ items[i].as # <<>> \/ \E c \in calls : c[1] = 2 /\ c[5] = i
  /\ items[i].is \in {"function", "method"} =>
       /\ items[i].as # <<>> \/ \E c \in calls : Registers(c) /\ c[5] = i
       /\ errors \/ items[i].analyzed # {} \/ \E c \in calls : Analyzes(c) /\ c[5] = i
  /\ items[i].is \in Functions /\ items[i].analyzed # {} => \A j \in items[i].subs :
       errors \/ items[j].analyzed # {} \/ \E c \in calls : Analyzes(c) /\ c[5] = j

InPasses ==
  phase = "analyzing" =>
    /\ \A c \in calls : Due(c)
    /\ \A i \in DOMAIN items : Awaited(i)
    /\ entered[1] = 2 => currentNameSpace = Ref(list_namespaces[entered[2]].path, entered[2])

Correctly == \A i \in DOMAIN items : Correct(i)

CleanInv ==
  clean => Counted /\ InPlace /\ Fresh /\ Separate /\ Placed /\ Correctly /\ InPasses

-----------------------------------------------------------------------------
(***************************************************************************)
(* Numbers and sets.                                                       *)
(***************************************************************************)
Less == {ss \in Nat \X Nat : ss[1] < ss[2]}

\* A set of numbers that is not empty has a smallest element.
LEMMA Smallest ==
  ASSUME NEW T \in SUBSET Nat, T # {}
  PROVE  \E x \in T : \A y \in T : x <= y
  <1>1. IsWellFoundedOn(Less, Nat) BY NatLessThanWellFounded, Zenon DEF OpToRel, Less
  <1>2. PICK x \in T : \A y \in T : <<y, x>> \notin Less BY <1>1, WFMin, Zenon
  <1>3. \A y \in T : <<y, x>> \in Less <=> y < x BY DEF Less
  <1>4. \A y \in T : ~(y < x) BY <1>2, <1>3
  <1>5. \A y \in T : x <= y BY <1>4
  <1> QED BY <1>2, <1>5

\* The functions that wait are finitely many.
LEMMA FewWait ==
  ASSUME Typed
  PROVE  IsFiniteSet(Waiting) /\ Cardinality(Waiting) \in Nat /\ Waiting \subseteq DOMAIN items
  <1>1. Len(items) \in Nat /\ DOMAIN items = 1 .. Len(items) BY DEF Typed
  <1>2. IsFiniteSet(DOMAIN items) BY <1>1, FS_Interval
  <1>3. Waiting \subseteq DOMAIN items BY DEF Waiting
  <1>4. IsFiniteSet(Waiting) BY <1>2, <1>3, FS_Subset
  <1> QED BY <1>3, <1>4, FS_CardinalityType

\* One more waits.
LEMMA OneMore ==
  ASSUME Typed, NEW W, NEW i, i \notin Waiting, W = Waiting \cup {i}
  PROVE  Cardinality(W) = Cardinality(Waiting) + 1
  BY FewWait, FS_AddElement

\* One fewer waits.
LEMMA OneFewer ==
  ASSUME Typed, NEW W, NEW i, i \in Waiting, W = Waiting \ {i}
  PROVE  Cardinality(W) = Cardinality(Waiting) - 1 /\ Cardinality(Waiting) >= 1
  <1>1. IsFiniteSet(W) /\ Cardinality(W) = Cardinality(Waiting) - 1 BY FewWait, FS_RemoveElement
  <1>2. Cardinality(W) \in Nat BY <1>1, FS_CardinalityType
  <1> QED BY <1>1, <1>2, FewWait

\* Nobody else waits, if what has been read stays as it is and what is new does not wait.
LEMMA SameWait ==
  ASSUME Typed, DOMAIN items \subseteq DOMAIN items',
         \A i \in DOMAIN items : items'[i].is = items[i].is /\ (items[i].is \in Functions => items'[i].as = items[i].as),
         \A i \in DOMAIN items' \ DOMAIN items : items'[i].is \notin Functions
  PROVE  Waiting' = Waiting
  <1>1. \A i : i \in Waiting' <=> i \in DOMAIN items' /\ items'[i].is \in Functions /\ items'[i].as = <<>> BY DEF Waiting
  <1>2. \A i : i \in Waiting <=> i \in DOMAIN items /\ items[i].is \in Functions /\ items[i].as = <<>> BY DEF Waiting
  <1>3. \A i : i \in Waiting' <=> i \in Waiting BY <1>1, <1>2
  <1> QED BY <1>3

\* The global namespace is the one without a name that is in the list.
LEMMA OnlyGlobal ==
  ASSUME Typed, Nested, NEW ref \in Refs, Refers(ref), ref.path = <<>>
  PROVE  ref = Global
  <1>1. ref.index \in Nat /\ ref.index # 0 /\ ref.index \in DOMAIN list_namespaces
    BY DEF Refs, Refers, Typed
  <1>2. list_namespaces[ref.index].path = <<>> BY <1>1 DEF Refers
  <1>3. ref.index = 1
    <2>1. ref.index \notin 2 .. Len(list_namespaces) BY <1>2 DEF Nested
    <2>2. ref.index \in 1 .. Len(list_namespaces) BY <1>1 DEF Typed
    <2> QED BY <2>1, <2>2
  <1> QED BY <1>3 DEF Global, Ref, Refs

-----------------------------------------------------------------------------
(***************************************************************************)
(* A construct begins.                                                     *)
(***************************************************************************)
\* What the buffers hold has been read.
LEMMA InBuffers ==
  ASSUME Typed, Buffers, NEW n \in DOMAIN list_namespaces
  PROVE  LET s == list_namespaces[n] IN
         /\ s \in Entries
         /\ s.functions # <<>> => s.functions[1] \in DOMAIN items /\ items[s.functions[1]].is = "function"
         /\ s.classes # <<>> => s.classes[1] \in DOMAIN items /\ items[s.classes[1]].is = "class"
         /\ \A e \in DOMAIN s.values : s.values[e] \in DOMAIN items /\ items[s.values[e]].is = "value"
  <1> DEFINE s == list_namespaces[n]
  <1>1. s \in Entries BY DEF Typed
  <1>2. s.functions \in Seq(Nat) /\ s.classes \in Seq(Nat) BY <1>1 DEF Entries
  <1>3. s.functions # <<>> => 1 \in DOMAIN s.functions
    <2> HIDE DEF s
    <2> QED BY <1>2
  <1>4. s.classes # <<>> => 1 \in DOMAIN s.classes
    <2> HIDE DEF s
    <2> QED BY <1>2
  <1> QED BY <1>1, <1>3, <1>4 DEF Buffers

\* The new construct waits, if it is a function.
LEMMA BeginsCounted ==
  ASSUME TextInv, clean, CleanInv, NEW kind, NEW name, NEW space, NEW o, Begins(kind, name, space, o)
  PROVE  Counted'
  <1> USE DEF TextInv
  <1>1. /\ Makes(kind, name, space) /\ phase = "parsing"
        /\ Len(list_parentFunction) = Cardinality(Waiting)
    BY DEF Begins, Makes, Reads, CleanInv, Counted
  <1>2. /\ DOMAIN items = 1 .. Len(items) /\ DOMAIN items' = 1 .. Len(items) + 1 /\ Len(items) \in Nat
        /\ \A i \in DOMAIN items : items'[i] = items[i]
        /\ items'[Len(items) + 1].is = kind /\ items'[Len(items) + 1].as = <<>>
        /\ New = Len(items) + 1
    BY <1>1, MakesFacts
  <1>3. CASE kind \in Functions
    <2>1. Waiting' = Waiting \cup {New}
      <3>1. \A i : i \in Waiting' <=> i \in DOMAIN items' /\ items'[i].is \in Functions /\ items'[i].as = <<>> BY DEF Waiting
      <3>2. \A i : i \in Waiting <=> i \in DOMAIN items /\ items[i].is \in Functions /\ items[i].as = <<>> BY DEF Waiting
      <3>3. ASSUME NEW i PROVE i \in Waiting' <=> i \in Waiting \/ i = New
        <4>1. CASE i = New BY <4>1, <1>2, <1>3, <3>1
        <4>2. CASE i # New BY <4>2, <1>2, <3>1, <3>2
        <4> QED BY <4>1, <4>2
      <3> QED BY <3>3
    <2>2. New \notin Waiting BY <1>2, FewWait
    <2>3. Cardinality(Waiting') = Cardinality(Waiting) + 1
      <3> DEFINE W == Waiting'
      <3>1. W = Waiting \cup {New} BY <2>1
      <3> HIDE DEF W
      <3>2. Cardinality(W) = Cardinality(Waiting) + 1 BY <2>2, <3>1, OneMore
      <3> QED BY <3>2 DEF W
    <2>4. list_parentFunction' = Append(list_parentFunction, New) BY <1>1, <1>3 DEF Makes
    <2>5. list_parentFunction \in Seq(Nat) BY DEF Typed
    <2>6. Len(list_parentFunction') = Len(list_parentFunction) + 1 BY <1>2, <2>4, <2>5
    <2> QED BY <1>1, <2>3, <2>6 DEF Counted
  <1>4. CASE kind \notin Functions
    <2>1. Waiting' = Waiting BY <1>2, <1>4, SameWait
    <2>2. list_parentFunction' = list_parentFunction BY <1>1, <1>4 DEF Makes
    <2> QED BY <1>1, <2>1, <2>2 DEF Counted
  <1> QED BY <1>3, <1>4

\* The current namespace is the new one.
LEMMA BeginsInPlace ==
  ASSUME TextInv, clean, CleanInv, NEW kind, NEW name, NEW space, NEW o, Begins(kind, name, space, o)
  PROVE  InPlace'
  <1> USE DEF TextInv
  <1>1. /\ Makes(kind, name, space) /\ phase = "parsing" /\ phase' = "parsing"
        /\ currentNameSpace.path = Written /\ currentNameSpace.index # 0
        /\ \A n \in DOMAIN list_namespaces : n # 1 => list_namespaces[n].parent.index # 0
    BY DEF Begins, Makes, Reads, CleanInv, InPlace
  <1>2. /\ Len(list_namespaces) \in Nat
        /\ DOMAIN list_namespaces = 1 .. Len(list_namespaces)
        /\ DOMAIN list_namespaces' = 1 .. Len(list_namespaces) + 1
        /\ \A n \in DOMAIN list_namespaces : list_namespaces'[n] = list_namespaces[n]
        /\ list_namespaces'[Len(list_namespaces) + 1] = space
        /\ currentNameSpace'.path = space.path /\ currentNameSpace'.index = Len(list_namespaces) + 1
    BY <1>1, MakesFacts
  <1>3. space.path = Append(currentNameSpace.path, name) /\ space.parent = currentNameSpace BY <1>1 DEF Makes
  <1>4. Written' = Append(Written, name) BY BeginsFacts
  <1>5. currentNameSpace'.path = Written' /\ currentNameSpace'.index # 0 BY <1>1, <1>2, <1>3, <1>4
  <1>6. \A n \in DOMAIN list_namespaces' : n # 1 => list_namespaces'[n].parent.index # 0 BY <1>1, <1>2, <1>3
  <1> QED BY <1>1, <1>5, <1>6 DEF InPlace

\* The function around, if there is one, has had no function since.
LEMMA BeginsFresh ==
  ASSUME TextInv, clean, CleanInv, NEW kind, NEW name, NEW space, NEW o, Begins(kind, name, space, o)
  PROVE  Fresh'
  <1> USE DEF TextInv
  <1>1. /\ Makes(kind, name, space) /\ phase = "parsing" /\ phase' = "parsing"
        /\ currentNameSpace.path = Written /\ Fresh /\ Current
    BY DEF Begins, Makes, Reads, CleanInv, InPlace
  <1>2. /\ Len(list_namespaces) \in Nat
        /\ DOMAIN list_namespaces = 1 .. Len(list_namespaces)
        /\ DOMAIN list_namespaces' = 1 .. Len(list_namespaces) + 1
        /\ \A n \in DOMAIN list_namespaces : list_namespaces'[n] = list_namespaces[n]
        /\ list_namespaces'[Len(list_namespaces) + 1] = space
        /\ currentNameSpace'.index = Len(list_namespaces) + 1
    BY <1>1, MakesFacts
  <1>3. /\ space.path = Append(Written, name) /\ space.parent = currentNameSpace /\ space.functions = <<>>
        /\ name \in Names
    BY <1>1 DEF Makes
  <1>4. /\ DOMAIN open = 1 .. Len(open) /\ DOMAIN open' = 1 .. Len(open) + 1 /\ Len(open) \in Nat
        /\ \A p \in DOMAIN open : open'[p] = open[p]
    BY BeginsFacts
  <1>5. SUFFICES ASSUME NEW p \in DOMAIN open', open'[p].kind = "function"
                 PROVE  \E k \in DOMAIN list_namespaces' : Bare(k, p)'
    BY DEF Fresh
  <1>6. CASE p \in DOMAIN open
    <2>1. PICK k \in DOMAIN list_namespaces : Bare(k, p) BY <1>1, <1>4, <1>5, <1>6 DEF Fresh
    <2>2. k \in DOMAIN list_namespaces' /\ k <= Len(list_namespaces) /\ k \in Nat BY <1>2
    <2>3. Bare(k, p)'
      <3>1. Len(list_namespaces'[k].path) = p BY <1>2, <2>1 DEF Bare
      <3>2. k <= currentNameSpace'.index BY <1>2, <2>2
      <3>3. \A n \in DOMAIN list_namespaces' : n >= k => list_namespaces'[n].functions = <<>>
        BY <1>2, <1>3, <2>1 DEF Bare
      <3>4. space.parent.index >= k
        <4>1. k <= currentNameSpace.index BY <2>1 DEF Bare
        <4>2. currentNameSpace.index \in Nat BY DEF Typed, Refs
        <4> QED BY <1>3, <2>2, <4>1, <4>2
      <3>5. \A n \in DOMAIN list_namespaces' : n > k => list_namespaces'[n].parent.index >= k
        BY <1>2, <2>1, <3>4 DEF Bare
      <3> QED BY <3>1, <3>2, <3>3, <3>5 DEF Bare
    <2> QED BY <2>2, <2>3
  <1>7. CASE p \notin DOMAIN open
    <2> PICK k : k = Len(list_namespaces) + 1 OBVIOUS
    <2>1. p = Len(open) + 1 BY <1>4, <1>7
    <2>2. Len(Written) = Len(open) /\ Written \in Seq(Names) BY WrittenType
    <2>3. Len(space.path) = p BY <1>3, <2>1, <2>2
    <2>4. k \in DOMAIN list_namespaces' BY <1>2
    <2>5. \A n \in DOMAIN list_namespaces' : n >= k => n = k BY <1>2
    <2>6. \A n \in DOMAIN list_namespaces' : ~(n > k) BY <1>2
    <2>7. k <= currentNameSpace'.index BY <1>2
    <2>8. list_namespaces'[k] = space BY <1>2
    <2>9. Bare(k, p)' BY <1>3, <2>3, <2>5, <2>6, <2>7, <2>8 DEF Bare
    <2> QED BY <2>4, <2>9
  <1> QED BY <1>6, <1>7

\* The new namespace has its class, or nothing yet.
LEMMA BeginsSeparate ==
  ASSUME TextInv, clean, CleanInv, NEW kind, NEW name, NEW space, NEW o, Begins(kind, name, space, o)
  PROVE  Separate'
  <1> USE DEF TextInv
  <1>1. Makes(kind, name, space) /\ phase = "parsing" /\ phase' = "parsing" /\ Separate
    BY DEF Begins, Makes, Reads, CleanInv
  <1>2. /\ Len(list_namespaces) \in Nat
        /\ DOMAIN list_namespaces = 1 .. Len(list_namespaces)
        /\ DOMAIN list_namespaces' = 1 .. Len(list_namespaces) + 1
        /\ \A n \in DOMAIN list_namespaces : list_namespaces'[n] = list_namespaces[n]
        /\ list_namespaces'[Len(list_namespaces) + 1] = space
        /\ DOMAIN items = 1 .. Len(items) /\ Len(items) \in Nat
        /\ \A i \in DOMAIN items : items'[i] = items[i]
        /\ New = Len(items) + 1
    BY <1>1, MakesFacts
  <1>3. space.functions = <<>> /\ space.values = <<>> /\ space.classes \in {<<>>, <<New>>}
    BY <1>1 DEF Makes
  <1>4. /\ DOMAIN open = 1 .. Len(open) /\ DOMAIN open' = 1 .. Len(open) + 1 /\ Len(open) \in Nat
        /\ \A p \in DOMAIN open : open'[p] = open[p]
        /\ open'[Len(open) + 1] = o /\ o.kind = kind
        /\ kind # "namespace" => o.item = Len(items) + 1
    BY BeginsFacts
  <1>5. \A i \in DOMAIN items : Unfinished(i)' => Unfinished(i)
    <2> SUFFICES ASSUME NEW i \in DOMAIN items, Unfinished(i)' PROVE Unfinished(i) OBVIOUS
    <2>1. PICK p \in DOMAIN open' : open'[p].kind # "namespace" /\ open'[p].item = i BY DEF Unfinished
    <2>2. p \in DOMAIN open BY <1>2, <1>4, <2>1
    <2> QED BY <1>1, <1>4, <2>1, <2>2 DEF Unfinished
  <1>6. \A i \in DOMAIN items : Here(i)' = Here(i) BY <1>2 DEF Here
  <1>7. Len(space.functions) <= 1 /\ Len(space.classes) <= 1
    <2>1. Len(<<>>) = 0 /\ Len(<<New>>) = 1 OBVIOUS
    <2>2. space.classes = <<>> \/ space.classes = <<New>> BY <1>3
    <2>3. Len(space.classes) = 0 \/ Len(space.classes) = 1 BY <2>1, <2>2, Zenon
    <2>4. Len(space.functions) = 0 BY <1>3, <2>1, Zenon
    <2>5. \A a : a = 0 \/ a = 1 => a <= 1 OBVIOUS
    <2> QED BY <2>3, <2>4, <2>5, Zenon
  <1>8. space.classes # <<>> => space.classes[1] \notin DOMAIN items BY <1>2, <1>3
  <1>9. \A n \in DOMAIN list_namespaces :
          /\ list_namespaces[n].functions # <<>> => list_namespaces[n].functions[1] \in DOMAIN items
          /\ list_namespaces[n].classes # <<>> => list_namespaces[n].classes[1] \in DOMAIN items
          /\ \A e \in DOMAIN list_namespaces[n].values : list_namespaces[n].values[e] \in DOMAIN items
    BY InBuffers
  <1>10. ASSUME NEW m \in DOMAIN list_namespaces' PROVE Single(m)'
    <2>1. CASE m \in DOMAIN list_namespaces
      <3>1. list_namespaces'[m] = list_namespaces[m] BY <1>2, <2>1
      <3>2. Single(m) BY <1>1, <2>1 DEF Separate
      <3>3. ASSUME NEW i \in DOMAIN items', list_namespaces[m].functions # <<>>, list_namespaces[m].functions[1] = i
            PROVE  Here(i)' = list_namespaces[m].path /\ ~Unfinished(i)'
        <4>1. i \in DOMAIN items BY <1>9, <2>1, <3>3
        <4> QED BY <1>5, <1>6, <3>2, <3>3, <4>1 DEF Single
      <3>4. \A e \in DOMAIN list_namespaces[m].values :
              items'[list_namespaces[m].values[e]].within = list_namespaces[m].path
        BY <1>2, <1>9, <2>1, <3>2 DEF Single
      <3>5. Len(list_namespaces[m].functions) <= 1 /\ Len(list_namespaces[m].classes) <= 1 BY <3>2 DEF Single
      <3> QED BY <3>1, <3>3, <3>4, <3>5 DEF Single
    <2>2. CASE m \notin DOMAIN list_namespaces
      <3>1. list_namespaces'[m] = space BY <1>2, <2>2
      <3>2. \A e : e \notin DOMAIN space.values BY <1>3
      <3> QED BY <1>3, <1>7, <3>1, <3>2 DEF Single
    <2> QED BY <2>1, <2>2
  <1>11. ASSUME NEW m \in DOMAIN list_namespaces', NEW n \in DOMAIN list_namespaces' PROVE Apart(m, n)'
    <2>1. CASE m \in DOMAIN list_namespaces /\ n \in DOMAIN list_namespaces
      BY <1>1, <1>2, <2>1 DEF Separate, Apart
    <2>2. CASE m \notin DOMAIN list_namespaces /\ n \notin DOMAIN list_namespaces
      <3>1. m = n BY <1>2, <2>2
      <3> QED BY <3>1 DEF Apart
    <2>3. CASE m \in DOMAIN list_namespaces /\ n \notin DOMAIN list_namespaces
      <3>1. list_namespaces'[n] = space /\ list_namespaces'[m] = list_namespaces[m] BY <1>2, <2>3
      <3> QED BY <1>3, <1>8, <1>9, <2>3, <3>1 DEF Apart
    <2>4. CASE m \notin DOMAIN list_namespaces /\ n \in DOMAIN list_namespaces
      <3>1. list_namespaces'[m] = space /\ list_namespaces'[n] = list_namespaces[n] BY <1>2, <2>4
      <3> QED BY <1>3, <1>8, <1>9, <2>4, <3>1 DEF Apart
    <2> QED BY <2>1, <2>2, <2>3, <2>4
  <1> QED BY <1>10, <1>11 DEF Separate

\* Everything is where it was, and the new construct is unfinished, or a class in its namespace.
LEMMA BeginsPlaced ==
  ASSUME TextInv, clean, CleanInv, NEW kind, NEW name, NEW space, NEW o, Begins(kind, name, space, o)
  PROVE  Placed'
  <1> USE DEF TextInv
  <1>1. Makes(kind, name, space) /\ phase = "parsing" /\ phase' = "parsing" /\ Placed
    BY DEF Begins, Makes, Reads, CleanInv
  <1>2. /\ Len(list_namespaces) \in Nat
        /\ DOMAIN list_namespaces = 1 .. Len(list_namespaces)
        /\ DOMAIN list_namespaces' = 1 .. Len(list_namespaces) + 1
        /\ \A n \in DOMAIN list_namespaces : list_namespaces'[n] = list_namespaces[n]
        /\ list_namespaces'[Len(list_namespaces) + 1] = space
        /\ DOMAIN items = 1 .. Len(items) /\ DOMAIN items' = 1 .. Len(items) + 1 /\ Len(items) \in Nat
        /\ \A i \in DOMAIN items : items'[i] = items[i]
        /\ items'[Len(items) + 1].is = kind
        /\ New = Len(items) + 1
    BY <1>1, MakesFacts
  <1>3. kind \in Makers /\ (kind = "class" => space.classes = <<New>>) BY <1>1 DEF Makes
  <1>4. /\ DOMAIN open = 1 .. Len(open) /\ DOMAIN open' = 1 .. Len(open) + 1 /\ Len(open) \in Nat
        /\ \A p \in DOMAIN open : open'[p] = open[p]
        /\ open'[Len(open) + 1] = o /\ o.kind = kind
        /\ kind # "namespace" => o.item = Len(items) + 1
    BY BeginsFacts
  <1>5. \A i : Unfinished(i) => Unfinished(i)' BY <1>1, <1>4 DEF Unfinished
  <1>6. ASSUME NEW i \in DOMAIN items' PROVE Found(i)'
    <2>1. CASE i \in DOMAIN items
      <3>1. Found(i) /\ items'[i] = items[i] BY <1>1, <1>2, <2>1 DEF Placed
      <3>2. items[i].is = "function" =>
              Unfinished(i)' \/ \E n \in DOMAIN list_namespaces' :
                list_namespaces'[n].functions # <<>> /\ list_namespaces'[n].functions[1] = i
        BY <1>2, <1>5, <3>1 DEF Found
      <3>3. items[i].is = "method" =>
              Unfinished(i)' \/ \E k \in DOMAIN items' : items'[k].is = "class" /\ i \in items'[k].subs
        BY <1>2, <1>5, <3>1 DEF Found
      <3>4. items[i].is = "sub" => Unfinished(i)' \/ items'[i].as # <<>> BY <1>5, <3>1 DEF Found
      <3>5. items[i].is = "class" => \E n \in DOMAIN list_namespaces' :
              list_namespaces'[n].classes # <<>> /\ list_namespaces'[n].classes[1] = i
        BY <1>2, <3>1 DEF Found
      <3>6. items[i].is = "value" => \E n \in DOMAIN list_namespaces' :
              \E e \in DOMAIN list_namespaces'[n].values : list_namespaces'[n].values[e] = i
        BY <1>2, <3>1 DEF Found
      <3> QED BY <3>1, <3>2, <3>3, <3>4, <3>5, <3>6 DEF Found
    <2>2. CASE i \notin DOMAIN items
      <3>1. i = Len(items) + 1 /\ items'[i].is = kind BY <1>2, <2>2
      <3>2. kind # "namespace" => Unfinished(i)' BY <1>1, <1>4, <3>1 DEF Unfinished
      <3>3. kind = "class" => \E n \in DOMAIN list_namespaces' :
              list_namespaces'[n].classes # <<>> /\ list_namespaces'[n].classes[1] = i
        <4> SUFFICES ASSUME kind = "class" PROVE \E n \in DOMAIN list_namespaces' :
              list_namespaces'[n].classes # <<>> /\ list_namespaces'[n].classes[1] = i
          OBVIOUS
        <4>1. space.classes = <<i>> BY <1>2, <1>3, <3>1
        <4>2. space.classes # <<>> /\ space.classes[1] = i BY <4>1
        <4> QED BY <1>2, <4>2
      <3>4. kind # "value" BY <1>3 DEF Makers, Functions
      <3> QED BY <3>1, <3>2, <3>3, <3>4 DEF Found
    <2> QED BY <2>1, <2>2
  <1> QED BY <1>6 DEF Placed

\* The new construct has not been declared.
LEMMA BeginsCorrectly ==
  ASSUME TextInv, clean, CleanInv, NEW kind, NEW name, NEW space, NEW o, Begins(kind, name, space, o)
  PROVE  Correctly'
  <1> USE DEF TextInv
  <1>1. Makes(kind, name, space) /\ phase = "parsing" /\ phase' = "parsing" /\ Correctly
    BY DEF Begins, Makes, Reads, CleanInv
  <1>2. /\ Len(list_namespaces) \in Nat
        /\ DOMAIN list_namespaces = 1 .. Len(list_namespaces)
        /\ DOMAIN list_namespaces' = 1 .. Len(list_namespaces) + 1
        /\ \A n \in DOMAIN list_namespaces : list_namespaces'[n] = list_namespaces[n]
        /\ DOMAIN items = 1 .. Len(items) /\ DOMAIN items' = 1 .. Len(items) + 1 /\ Len(items) \in Nat
        /\ \A i \in DOMAIN items : items'[i] = items[i]
        /\ items'[Len(items) + 1].as = <<>> /\ items'[Len(items) + 1].analyzed = {}
    BY <1>1, MakesFacts
  <1>3. ASSUME NEW i \in DOMAIN items' PROVE Correct(i)'
    <2>1. CASE i \in DOMAIN items
      <3>1. Correct(i) /\ items'[i] = items[i] BY <1>1, <1>2, <2>1 DEF Correctly
      <3>2. Here(i)' = Here(i) BY <3>1 DEF Here
      <3> QED BY <1>1, <1>2, <3>1, <3>2 DEF Correct
    <2>2. CASE i \notin DOMAIN items
      <3>1. i = Len(items) + 1 BY <1>2, <2>2
      <3>2. items'[i].as = <<>> /\ items'[i].analyzed = {} BY <1>2, <3>1
      <3> QED BY <3>2 DEF Correct
    <2> QED BY <2>1, <2>2
  <1> QED BY <1>3 DEF Correctly

\* The head of a construct keeps the invariant.
LEMMA BeginsClean ==
  ASSUME TextInv, CleanInv, NEW kind, NEW name, NEW space, NEW o, Begins(kind, name, space, o)
  PROVE  CleanInv'
  <1>1. clean' <=> clean BY DEF Begins, clean
  <1>2. ASSUME clean PROVE CleanInv'
    <2>1. phase' = "parsing" BY DEF Begins, Makes, Reads
    <2>2. InPasses' BY <2>1 DEF InPasses
    <2> QED BY <1>2, <2>2, BeginsCounted, BeginsInPlace, BeginsFresh, BeginsSeparate, BeginsPlaced, BeginsCorrectly
        DEF CleanInv
  <1> QED BY <1>1, <1>2 DEF CleanInv

-----------------------------------------------------------------------------
(***************************************************************************)
(* A variable or an enum.                                                  *)
(***************************************************************************)
\* What a declaration without an inside does.
AddsTo(item) ==
  /\ Adds(item) /\ item.is \in {"value", "enum"}
  /\ SpacesStay /\ Len(list_namespaces') = Len(list_namespaces)
  /\ \A n \in DOMAIN list_namespaces :
       /\ list_namespaces'[n].functions = list_namespaces[n].functions
       /\ list_namespaces'[n].classes = list_namespaces[n].classes
       /\ \/ list_namespaces'[n].values = list_namespaces[n].values
          \/ /\ n = currentNameSpace.index
             /\ list_namespaces'[n].values = Append(list_namespaces[n].values, New)
  /\ item.is = "value" =>
       /\ item.as = <<>>
       /\ \A n \in DOMAIN list_namespaces : n = currentNameSpace.index =>
            list_namespaces'[n].values = Append(list_namespaces[n].values, New)

\* A variable does so, in the current namespace.
LEMMA ValueAddsTo ==
  ASSUME TextInv, NEW item, DeclaresValue(item)
  PROVE  AddsTo(item)
  <1> USE DEF TextInv
  <1>1. Adds(item) /\ item.is = "value" /\ item.as = <<>> /\ PushValue(New) BY DEF DeclaresValue
  <1>2. New \in Nat BY NewItem
  <1>3. currentNameSpace.index <= Len(list_namespaces) BY DEF Current
  <1>4. /\ SpacesStay /\ Len(list_namespaces') = Len(list_namespaces)
        /\ \A n \in DOMAIN list_namespaces' :
             /\ list_namespaces'[n].classes = list_namespaces[n].classes
             /\ list_namespaces'[n].functions = list_namespaces[n].functions
             /\ n # currentNameSpace.index => list_namespaces'[n] = list_namespaces[n]
             /\ n = currentNameSpace.index =>
                  list_namespaces'[n].values = Append(list_namespaces[n].values, New)
    <2> DEFINE new == New
    <2>1. new \in Nat /\ PushValue(new) BY <1>1, <1>2
    <2> HIDE DEF new
    <2>2. /\ SpacesStay /\ Len(list_namespaces') = Len(list_namespaces)
          /\ \A n \in DOMAIN list_namespaces' :
               /\ list_namespaces'[n].classes = list_namespaces[n].classes
               /\ list_namespaces'[n].functions = list_namespaces[n].functions
               /\ n # currentNameSpace.index => list_namespaces'[n] = list_namespaces[n]
               /\ n = currentNameSpace.index =>
                    list_namespaces'[n].values = Append(list_namespaces[n].values, new)
      BY <1>3, <2>1, PushValueFacts
    <2> QED BY <2>2 DEF new
  <1>5. DOMAIN list_namespaces \subseteq DOMAIN list_namespaces' BY <1>4 DEF SpacesStay
  <1> QED BY <1>1, <1>4, <1>5 DEF AddsTo

\* An enum changes no namespace.
LEMMA EnumAddsTo ==
  ASSUME TextInv, NEW item, DeclaresEnum(item)
  PROVE  AddsTo(item)
  <1>1. Adds(item) /\ item.is = "enum" /\ list_namespaces' = list_namespaces BY DEF DeclaresEnum
  <1>2. SpacesStay BY <1>1 DEF SpacesStay, TextInv, Typed
  <1> QED BY <1>1, <1>2 DEF AddsTo

\* The facts of AddsTo and Adds together.
LEMMA AddsToFacts ==
  ASSUME TextInv, clean, CleanInv, NEW item, AddsTo(item)
  PROVE  /\ items' \in Seq(Declared)
         /\ DOMAIN items = 1 .. Len(items) /\ DOMAIN items' = 1 .. Len(items) + 1 /\ Len(items) \in Nat
         /\ \A i \in DOMAIN items : items'[i] = items[i]
         /\ items'[Len(items) + 1] = item
         /\ item.within = Written /\ item.analyzed = {}
         /\ New = Len(items) + 1
         /\ phase = "parsing" /\ phase' = "parsing"
         /\ UNCHANGED <<currentNameSpace, list_parentFunction, open, unclean>>
         /\ DOMAIN list_namespaces' = DOMAIN list_namespaces
         /\ DOMAIN list_namespaces = 1 .. Len(list_namespaces)
         /\ \A n \in DOMAIN list_namespaces :
              /\ list_namespaces'[n].path = list_namespaces[n].path
              /\ list_namespaces'[n].parent = list_namespaces[n].parent
         /\ currentNameSpace.path = Written
         /\ currentNameSpace.index \in DOMAIN list_namespaces
         /\ list_namespaces[currentNameSpace.index].path = Written
         /\ Counted /\ InPlace /\ Fresh /\ Separate /\ Placed /\ Correctly
  <1>1. /\ Adds(item) /\ item.is \in {"value", "enum"}
        /\ SpacesStay /\ Len(list_namespaces') = Len(list_namespaces)
    BY DEF AddsTo
  <1>2. /\ Grows /\ DOMAIN items' = 1 .. Len(items) + 1 /\ Len(items) \in Nat /\ DOMAIN items = 1 .. Len(items)
        /\ items'[Len(items) + 1] = item
        /\ New = Len(items) + 1
        /\ phase = "parsing" /\ phase' = "parsing"
        /\ UNCHANGED <<nameSpaceBuffer, calls, entered, errors, currentNameSpace, list_parentFunction, open, unclean>>
    BY <1>1, AddsFacts
  <1>3. items' \in Seq(Declared) /\ \A i \in DOMAIN items : items'[i] = items[i] BY <1>2 DEF Grows, ItemsStay
  <1>4. item.within = Written /\ item.analyzed = {} BY <1>1 DEF Adds
  <1>5. DOMAIN list_namespaces' = DOMAIN list_namespaces /\ DOMAIN list_namespaces = 1 .. Len(list_namespaces)
    <2>1. list_namespaces \in Seq(Entries) /\ list_namespaces' \in Seq(Entries)
      BY <1>1 DEF TextInv, Typed, SpacesStay
    <2> QED BY <1>1, <2>1
  <1>6. /\ Counted /\ InPlace /\ Fresh /\ Separate /\ Placed /\ Correctly
        /\ currentNameSpace.path = Written /\ currentNameSpace.index # 0
    BY <1>2 DEF CleanInv, InPlace
  <1>7. currentNameSpace.index \in DOMAIN list_namespaces /\ list_namespaces[currentNameSpace.index].path = Written
    <2>1. Refers(currentNameSpace) BY <1>2 DEF TextInv, Current
    <2>2. currentNameSpace.index \in 0 .. Len(list_namespaces) /\ Len(list_namespaces) \in Nat
      BY <2>1 DEF Refers, TextInv, Typed
    <2> QED BY <1>5, <1>6, <2>1, <2>2 DEF Refers
  <1> QED BY <1>1, <1>2, <1>3, <1>4, <1>5, <1>6, <1>7 DEF SpacesStay

\* A declaration without an inside keeps the invariant.
LEMMA AddsClean ==
  ASSUME TextInv, CleanInv, NEW item, AddsTo(item)
  PROVE  CleanInv'
  <1>1. clean' <=> clean BY DEF AddsTo, Adds, clean
  <1>2. SUFFICES ASSUME clean PROVE Counted' /\ InPlace' /\ Fresh' /\ Separate' /\ Placed' /\ Correctly' /\ InPasses'
    BY <1>1 DEF CleanInv
  <1>3. Adds(item) /\ item.is \in {"value", "enum"} /\ (item.is = "value" => item.as = <<>>) BY DEF AddsTo
  <1>4. /\ DOMAIN items = 1 .. Len(items) /\ DOMAIN items' = 1 .. Len(items) + 1 /\ Len(items) \in Nat
        /\ \A i \in DOMAIN items : items'[i] = items[i]
        /\ items'[Len(items) + 1] = item
        /\ item.within = Written /\ item.analyzed = {}
        /\ New = Len(items) + 1
        /\ phase = "parsing" /\ phase' = "parsing"
        /\ UNCHANGED <<currentNameSpace, list_parentFunction, open>>
    BY <1>2, AddsToFacts
  <1>5. /\ DOMAIN list_namespaces' = DOMAIN list_namespaces
        /\ DOMAIN list_namespaces = 1 .. Len(list_namespaces)
        /\ \A n \in DOMAIN list_namespaces :
             /\ list_namespaces'[n].path = list_namespaces[n].path
             /\ list_namespaces'[n].parent = list_namespaces[n].parent
        /\ currentNameSpace.path = Written
        /\ currentNameSpace.index \in DOMAIN list_namespaces
        /\ list_namespaces[currentNameSpace.index].path = Written
        /\ Counted /\ InPlace /\ Fresh /\ Separate /\ Placed /\ Correctly
    BY <1>2, AddsToFacts
  <1>6. \A n \in DOMAIN list_namespaces :
          /\ list_namespaces'[n].functions = list_namespaces[n].functions
          /\ list_namespaces'[n].classes = list_namespaces[n].classes
    BY DEF AddsTo
  <1>7. \A i : Unfinished(i)' <=> Unfinished(i) BY <1>4 DEF Unfinished
  <1>8. \A i \in DOMAIN items : Here(i)' = Here(i) BY <1>4 DEF Here
  <1>9. \A n \in DOMAIN list_namespaces :
          /\ list_namespaces[n] \in Entries
          /\ list_namespaces[n].functions # <<>> => list_namespaces[n].functions[1] \in DOMAIN items
          /\ \A e \in DOMAIN list_namespaces[n].values : list_namespaces[n].values[e] \in DOMAIN items
    BY InBuffers DEF TextInv
  <1>10. \A n \in DOMAIN list_namespaces : \A e \in DOMAIN list_namespaces[n].values :
           e \in DOMAIN list_namespaces'[n].values /\ list_namespaces'[n].values[e] = list_namespaces[n].values[e]
    <2> SUFFICES ASSUME NEW n \in DOMAIN list_namespaces, NEW e \in DOMAIN list_namespaces[n].values
                 PROVE  e \in DOMAIN list_namespaces'[n].values
                        /\ list_namespaces'[n].values[e] = list_namespaces[n].values[e]
      OBVIOUS
    <2> PICK v : v = list_namespaces[n].values OBVIOUS
    <2> PICK new : new = New OBVIOUS
    <2>1. v \in Seq(Nat) /\ new \in Nat BY <1>4, <1>9 DEF Entries
    <2>2. list_namespaces'[n].values = v \/ list_namespaces'[n].values = Append(v, new) BY DEF AddsTo
    <2>3. e \in DOMAIN v OBVIOUS
    <2>4. e \in DOMAIN Append(v, new) /\ Append(v, new)[e] = v[e] BY <2>1, <2>3
    <2> QED BY <2>2, <2>3, <2>4
  <1>11. Counted'
    <2>1. Waiting' = Waiting
      <3>1. DOMAIN items \subseteq DOMAIN items' BY <1>4
      <3>2. \A i \in DOMAIN items' \ DOMAIN items : items'[i].is \notin Functions BY <1>3, <1>4 DEF Functions
      <3> QED BY <1>4, <3>1, <3>2, SameWait DEF TextInv
    <2> QED BY <1>4, <1>5, <2>1 DEF Counted
  <1>12. InPlace'
    <2>1. Written' = Written BY <1>4 DEF Written
    <2> QED BY <1>4, <1>5, <2>1 DEF InPlace
  <1>13. Fresh'
    <2> SUFFICES ASSUME NEW p \in DOMAIN open, open[p].kind = "function"
                 PROVE  \E k \in DOMAIN list_namespaces' : Bare(k, p)'
      BY <1>4 DEF Fresh
    <2>1. PICK k \in DOMAIN list_namespaces : Bare(k, p) BY <1>4, <1>5 DEF Fresh
    <2>2. Bare(k, p)' BY <1>4, <1>5, <1>6, <2>1 DEF Bare
    <2> QED BY <1>5, <2>1, <2>2
  <1>14. Separate'
    <2>1. ASSUME NEW m \in DOMAIN list_namespaces PROVE Single(m)'
      <3>1. Single(m) BY <1>5 DEF Separate
      <3>2. ASSUME NEW i \in DOMAIN items', list_namespaces[m].functions # <<>>, list_namespaces[m].functions[1] = i
            PROVE  Here(i)' = list_namespaces[m].path /\ ~Unfinished(i)'
        <4>1. i \in DOMAIN items BY <1>9, <3>2
        <4> QED BY <1>7, <1>8, <3>1, <3>2, <4>1 DEF Single
      <3>3. ASSUME NEW e \in DOMAIN list_namespaces'[m].values
            PROVE  items'[list_namespaces'[m].values[e]].within = list_namespaces[m].path
        <4>1. CASE e \in DOMAIN list_namespaces[m].values
          BY <1>4, <1>9, <1>10, <3>1, <4>1 DEF Single
        <4>2. CASE e \notin DOMAIN list_namespaces[m].values
          <5> PICK v : v = list_namespaces[m].values OBVIOUS
          <5> PICK new : new = New OBVIOUS
          <5>1. v \in Seq(Nat) /\ new \in Nat BY <1>4, <1>9 DEF Entries
          <5>2. m = currentNameSpace.index /\ list_namespaces'[m].values = Append(v, new)
            BY <3>3, <4>2 DEF AddsTo
          <5>3. e = Len(v) + 1 /\ Append(v, new)[e] = new BY <3>3, <4>2, <5>1, <5>2
          <5>4. list_namespaces'[m].values[e] = Len(items) + 1 BY <1>4, <5>2, <5>3
          <5> QED BY <1>4, <1>5, <5>2, <5>4
        <4> QED BY <4>1, <4>2
      <3> QED BY <1>5, <1>6, <3>1, <3>2, <3>3 DEF Single
    <2>2. ASSUME NEW m \in DOMAIN list_namespaces, NEW n \in DOMAIN list_namespaces PROVE Apart(m, n)'
      BY <1>5, <1>6 DEF Separate, Apart
    <2> QED BY <1>5, <2>1, <2>2 DEF Separate
  <1>15. Placed'
    <2> SUFFICES ASSUME NEW i \in DOMAIN items' PROVE Found(i)' BY DEF Placed
    <2>1. CASE i \in DOMAIN items
      <3>1. Found(i) /\ items'[i] = items[i] BY <1>4, <1>5, <2>1 DEF Placed
      <3>2. items[i].is = "function" =>
              Unfinished(i)' \/ \E n \in DOMAIN list_namespaces' :
                list_namespaces'[n].functions # <<>> /\ list_namespaces'[n].functions[1] = i
        BY <1>5, <1>6, <1>7, <3>1 DEF Found
      <3>3. items[i].is = "method" =>
              Unfinished(i)' \/ \E k \in DOMAIN items' : items'[k].is = "class" /\ i \in items'[k].subs
        BY <1>4, <1>7, <3>1 DEF Found
      <3>4. items[i].is = "sub" => Unfinished(i)' \/ items'[i].as # <<>> BY <1>7, <3>1 DEF Found
      <3>5. items[i].is = "class" => \E n \in DOMAIN list_namespaces' :
              list_namespaces'[n].classes # <<>> /\ list_namespaces'[n].classes[1] = i
        BY <1>5, <1>6, <3>1 DEF Found
      <3>6. items[i].is = "value" => \E n \in DOMAIN list_namespaces' :
              \E e \in DOMAIN list_namespaces'[n].values : list_namespaces'[n].values[e] = i
        BY <1>5, <1>10, <3>1 DEF Found
      <3> QED BY <3>1, <3>2, <3>3, <3>4, <3>5, <3>6 DEF Found
    <2>2. CASE i \notin DOMAIN items
      <3>1. i = Len(items) + 1 /\ items'[i] = item BY <1>4, <2>2
      <3>2. item.is = "value" => \E n \in DOMAIN list_namespaces' :
              \E e \in DOMAIN list_namespaces'[n].values : list_namespaces'[n].values[e] = i
        <4> SUFFICES ASSUME item.is = "value" PROVE \E n \in DOMAIN list_namespaces' :
              \E e \in DOMAIN list_namespaces'[n].values : list_namespaces'[n].values[e] = i
          OBVIOUS
        <4> PICK n : n = currentNameSpace.index OBVIOUS
        <4> PICK v : v = list_namespaces[n].values OBVIOUS
        <4> PICK new : new = New OBVIOUS
        <4>1. v \in Seq(Nat) /\ new \in Nat BY <1>4, <1>5, <1>9 DEF Entries
        <4>2. list_namespaces'[n].values = Append(v, new) BY <1>5 DEF AddsTo
        <4>3. Len(v) + 1 \in DOMAIN Append(v, new) /\ Append(v, new)[Len(v) + 1] = new BY <4>1
        <4> QED BY <1>4, <1>5, <3>1, <4>2, <4>3
      <3> QED BY <1>3, <3>1, <3>2 DEF Found
    <2> QED BY <2>1, <2>2
  <1>16. Correctly'
    <2> SUFFICES ASSUME NEW i \in DOMAIN items' PROVE Correct(i)' BY DEF Correctly
    <2>1. CASE i \in DOMAIN items
      <3>1. Correct(i) /\ items'[i] = items[i] BY <1>4, <1>5, <2>1 DEF Correctly
      <3>2. Here(i)' = Here(i) BY <1>8, <2>1
      <3> QED BY <1>4, <1>5, <3>1, <3>2 DEF Correct
    <2>2. CASE i \notin DOMAIN items
      <3>1. items'[i] = item BY <1>4, <2>2
      <3> QED BY <1>3, <1>4, <3>1 DEF Correct
    <2> QED BY <2>1, <2>2
  <1>17. InPasses' BY <1>4 DEF InPasses
  <1> QED BY <1>11, <1>12, <1>13, <1>14, <1>15, <1>16, <1>17

-----------------------------------------------------------------------------
(***************************************************************************)
(* A construct ends.                                                       *)
(***************************************************************************)
\* What is around, and where the compiler goes back to.
LEMMA EndsBack ==
  ASSUME TextInv, clean, CleanInv, Ends
  PROVE  /\ phase = "parsing" /\ phase' = "parsing" /\ clean'
         /\ Len(open) \in Nat \ {0} /\ DOMAIN open = 1 .. Len(open) /\ DOMAIN open' = 1 .. Len(open) - 1
         /\ Len(open) \in DOMAIN open
         /\ Last(open) = open[Len(open)]
         /\ \A p \in DOMAIN open' : p \in DOMAIN open /\ open'[p] = open[p]
         /\ currentNameSpace.index \in 2 .. Len(list_namespaces)
         /\ currentNameSpace.index \in DOMAIN list_namespaces
         /\ currentNameSpace.path = Written
         /\ list_namespaces[currentNameSpace.index].path = Written
         /\ currentNameSpace' = list_namespaces[currentNameSpace.index].parent
         /\ currentNameSpace'.path = Written'
         /\ currentNameSpace'.index # 0
         /\ Counted /\ InPlace /\ Fresh /\ Separate /\ Placed /\ Correctly
         /\ \A i : Unfinished(i)' => Unfinished(i)
         /\ \A i : Unfinished(i) => Unfinished(i)' \/ (i = open[Len(open)].item /\ open[Len(open)].kind # "namespace")
         /\ list_namespaces \in Seq(Entries) /\ items \in Seq(Declared)
  <1> USE DEF TextInv
  <1>1. /\ Len(open) \in Nat \ {0}
        /\ DOMAIN open = 1 .. Len(open) /\ DOMAIN open' = 1 .. Len(open) - 1
        /\ \A p \in DOMAIN open' : open'[p] = open[p]
        /\ Last(open) = open[Len(open)]
        /\ currentNameSpace' = PopNameSpace(currentNameSpace)
        /\ currentNameSpace'.path = Front(currentNameSpace.path)
        /\ Written' = Front(Written)
        /\ phase = "parsing" /\ phase' = "parsing" /\ unclean' = unclean
    BY EndsFacts
  <1>2. /\ Counted /\ InPlace /\ Fresh /\ Separate /\ Placed /\ Correctly
        /\ currentNameSpace.path = Written /\ currentNameSpace.index # 0
    BY <1>1 DEF CleanInv, InPlace
  <1>3. open # <<>> BY DEF Ends
  <1>4. /\ currentNameSpace.index \in 2 .. Len(list_namespaces)
        /\ currentNameSpace' = list_namespaces[currentNameSpace.index].parent
        /\ Refers(currentNameSpace)
    BY <1>1, <1>2, <1>3, Leaving
  <1>5. Len(list_namespaces) \in Nat /\ DOMAIN list_namespaces = 1 .. Len(list_namespaces) BY DEF Typed
  <1>6. currentNameSpace.index \in DOMAIN list_namespaces /\ currentNameSpace.index # 1 BY <1>4, <1>5
  <1>7. currentNameSpace'.index # 0 BY <1>2, <1>4, <1>6 DEF InPlace
  <1>8. list_namespaces[currentNameSpace.index].path = Written BY <1>2, <1>4 DEF Refers
  <1>9. clean' BY <1>1 DEF clean
  <1>10. Len(open) \in DOMAIN open /\ \A p \in DOMAIN open' : p \in DOMAIN open BY <1>1
  <1>11. \A i : Unfinished(i)' => Unfinished(i) BY <1>1, <1>10 DEF Unfinished
  <1>12. ASSUME NEW i, Unfinished(i)
         PROVE  Unfinished(i)' \/ (i = open[Len(open)].item /\ open[Len(open)].kind # "namespace")
    <2>1. PICK p \in DOMAIN open : open[p].kind # "namespace" /\ open[p].item = i BY <1>12 DEF Unfinished
    <2>2. CASE p = Len(open) BY <2>1, <2>2
    <2>3. CASE p # Len(open)
      <3>1. p \in DOMAIN open' BY <1>1, <2>1, <2>3
      <3> QED BY <1>1, <2>1, <3>1 DEF Unfinished
    <2> QED BY <2>2, <2>3
  <1> QED BY <1>1, <1>2, <1>4, <1>6, <1>7, <1>8, <1>9, <1>10, <1>11, <1>12 DEF Typed

\* The current namespace is the one around.
LEMMA EndsInPlace ==
  ASSUME TextInv, clean, CleanInv, Ends, SpacesStay, Len(list_namespaces') = Len(list_namespaces)
  PROVE  InPlace'
  <1>1. /\ phase' = "parsing" /\ currentNameSpace'.path = Written' /\ currentNameSpace'.index # 0 /\ InPlace
        /\ list_namespaces \in Seq(Entries)
    BY EndsBack
  <1>2. list_namespaces' \in Seq(Entries) BY DEF SpacesStay
  <1>3. DOMAIN list_namespaces' = DOMAIN list_namespaces BY <1>1, <1>2
  <1>4. \A n \in DOMAIN list_namespaces : list_namespaces'[n].parent = list_namespaces[n].parent BY DEF SpacesStay
  <1> QED BY <1>1, <1>3, <1>4 DEF InPlace

\* Around a function, a class or a namespace there are namespaces, around a method a class.
LEMMA NothingAround ==
  ASSUME TextInv, clean, CleanInv, Ends, open[Len(open)].kind # "sub"
  PROVE  /\ \A p \in DOMAIN open' : open'[p].kind # "function"
         /\ open[Len(open)].kind = "function" => \A p \in DOMAIN open' : open'[p].kind = "namespace"
  <1>1. /\ Len(open) \in Nat \ {0} /\ DOMAIN open = 1 .. Len(open) /\ DOMAIN open' = 1 .. Len(open) - 1
        /\ Len(open) \in DOMAIN open /\ phase = "parsing"
        /\ \A p \in DOMAIN open' : p \in DOMAIN open /\ open'[p] = open[p]
    BY EndsBack
  <1> DEFINE n == Len(open)
  <1>2. open[n] \in Constructs BY <1>1 DEF TextInv, Typed
  <1>3. open[n].kind \in {"namespace", "class", "function", "method"}
    BY <1>2 DEF Constructs, Makers, Functions
  <1>4. Text BY DEF TextInv
  <1>5. open[n].kind \in {"namespace", "class", "function"} => \A p \in DOMAIN open' : open'[p].kind = "namespace"
    <2> SUFFICES ASSUME open[n].kind \in {"namespace", "class", "function"}, NEW p \in DOMAIN open'
                 PROVE  open'[p].kind = "namespace"
      OBVIOUS
    <2>1. \A q \in DOMAIN open : q < n => open[q].kind = "namespace" BY <1>1, <1>4, Around DEF Declarations
    <2> QED BY <1>1, <2>1
  <1>6. open[n].kind = "method" => \A p \in DOMAIN open' : open'[p].kind \in {"namespace", "class"}
    <2> SUFFICES ASSUME open[n].kind = "method", NEW p \in DOMAIN open'
                 PROVE  open'[p].kind \in {"namespace", "class"}
      OBVIOUS
    <2>1. n > 1 /\ open[n - 1].kind = "class" BY <1>1, <1>4, Around
    <2>2. n - 1 \in DOMAIN open BY <1>1, <2>1
    <2>3. \A q \in DOMAIN open : q < n - 1 => open[q].kind = "namespace" BY <1>1, <1>4, <2>1, <2>2, Around
    <2> QED BY <1>1, <2>1, <2>2, <2>3
  <1> QED BY <1>3, <1>5, <1>6

\* The declarations of the constructs around are what they were.
LEMMA EndsFresh ==
  ASSUME TextInv, clean, CleanInv, Ends, list_namespaces' = list_namespaces
  PROVE  Fresh'
  <1>1. /\ phase = "parsing" /\ phase' = "parsing"
        /\ Len(open) \in Nat \ {0} /\ DOMAIN open = 1 .. Len(open) /\ DOMAIN open' = 1 .. Len(open) - 1
        /\ \A p \in DOMAIN open' : p \in DOMAIN open /\ open'[p] = open[p]
        /\ currentNameSpace.index \in DOMAIN list_namespaces
        /\ list_namespaces[currentNameSpace.index].path = Written
        /\ currentNameSpace' = list_namespaces[currentNameSpace.index].parent
        /\ Fresh
        /\ list_namespaces \in Seq(Entries)
    BY EndsBack
  <1>2. SUFFICES ASSUME NEW p \in DOMAIN open', open[p].kind = "function"
                 PROVE  \E k \in DOMAIN list_namespaces : Bare(k, p)'
    BY <1>1 DEF Fresh
  <1>3. PICK k \in DOMAIN list_namespaces : Bare(k, p) BY <1>1, <1>2 DEF Fresh
  <1>4. Len(Written) = Len(open) BY WrittenType DEF TextInv
  <1>5. p < Len(open) BY <1>1, <1>2
  <1>6. currentNameSpace.index # k BY <1>1, <1>3, <1>4, <1>5 DEF Bare
  <1>7. currentNameSpace.index > k BY <1>1, <1>3, <1>6 DEF Bare
  <1>8. currentNameSpace'.index >= k BY <1>1, <1>3, <1>7 DEF Bare
  <1>9. k \in Nat /\ currentNameSpace'.index \in Nat
    <2>1. list_namespaces[currentNameSpace.index] \in Entries BY <1>1
    <2>2. list_namespaces[currentNameSpace.index].parent \in Refs BY <2>1 DEF Entries
    <2>3. currentNameSpace' \in Refs BY <1>1, <2>2
    <2>4. currentNameSpace'.index \in Nat BY <2>3 DEF Refs
    <2>5. DOMAIN list_namespaces = 1 .. Len(list_namespaces) BY <1>1
    <2> QED BY <2>4, <2>5
  <1>10. k <= currentNameSpace'.index BY <1>8, <1>9
  <1>11. Bare(k, p)' BY <1>3, <1>10 DEF Bare
  <1> QED BY <1>11

\* The end of a namespace, class or method: the buffers stay.
EndsQuietly ==
  /\ Ends /\ Last(open).kind \in {"namespace", "class", "method"}
  /\ UNCHANGED <<list_namespaces, list_parentFunction>>
  /\ ItemsStay /\ Len(items') = Len(items)
  /\ \A i \in DOMAIN items :
       /\ items'[i].as = items[i].as /\ items'[i].own = items[i].own /\ items'[i].analyzed = items[i].analyzed
       /\ items[i].subs \subseteq items'[i].subs
  /\ Last(open).kind = "method" => \E k \in DOMAIN items : items[k].is = "class" /\ Last(open).item \in items'[k].subs

\* The end of a namespace or a class changes nothing else.
LEMMA BlockEndsQuietly ==
  ASSUME TextInv, EndsBlock
  PROVE  EndsQuietly
  BY DEF EndsBlock, EndsQuietly, ItemsStay, TextInv, Typed

\* A declaration with other functions in it.
WithSubs(t, s) == [t EXCEPT !.subs = s]

\* Attaching changes what is owned, and nothing else of the declaration.
LEMMA Attaching ==
  ASSUME NEW t \in Declared, NEW s \in SUBSET Nat
  PROVE  LET r == WithSubs(t, s) IN
         /\ r \in Declared /\ r.is = t.is /\ r.name = t.name /\ r.within = t.within
         /\ r.as = t.as /\ r.own = t.own /\ r.analyzed = t.analyzed /\ r.subs = s
  BY SubsType DEF WithSubs

\* The end of a method gives it to its class.
LEMMA MethodEndsQuietly ==
  ASSUME TextInv, EndsMethod
  PROVE  EndsQuietly
  <1> USE DEF TextInv
  <1>1. /\ Ends /\ Last(open).kind = "method"
        /\ items' = [items EXCEPT ![open[Len(open) - 1].item].subs = @ \cup {Last(open).item}]
        /\ UNCHANGED <<list_namespaces, list_parentFunction>>
    BY DEF EndsMethod
  <1>2. /\ Len(open) \in Nat \ {0} /\ DOMAIN open = 1 .. Len(open) /\ Last(open) = open[Len(open)]
        /\ phase = "parsing" /\ open[Len(open)].item \in Nat
    BY <1>1, EndsFacts
  <1> PICK n : n = Len(open) OBVIOUS
  <1>3. n \in DOMAIN open /\ n \in Nat BY <1>2
  <1>4. n > 1 /\ open[n - 1].kind = "class" BY <1>1, <1>2, <1>3, Around
  <1>5. n - 1 \in DOMAIN open BY <1>2, <1>3, <1>4
  <1> PICK k : k = open[n - 1].item OBVIOUS
  <1> PICK x : x = open[n].item OBVIOUS
  <1>6. k \in DOMAIN items /\ items[k].is = "class" BY <1>2, <1>4, <1>5, OpenItem
  <1>7. items' = [items EXCEPT ![k].subs = @ \cup {x}] BY <1>1, <1>2
  <1>8. items \in Seq(Declared) /\ items[k] \in Declared BY <1>6 DEF Typed
  <1> PICK s : s = items[k].subs \cup {x} OBVIOUS
  <1>9. s \in SUBSET Nat
    <2>1. items[k].subs \in SUBSET Nat BY <1>8 DEF Declared
    <2>2. x \in Nat BY <1>2
    <2> QED BY <2>1, <2>2
  <1> PICK r : r = [items[k] EXCEPT !.subs = s] OBVIOUS
  <1>10. /\ r \in Declared /\ r.is = items[k].is /\ r.name = items[k].name /\ r.within = items[k].within
         /\ r.as = items[k].as /\ r.own = items[k].own /\ r.analyzed = items[k].analyzed /\ r.subs = s
    <2>1. r = WithSubs(items[k], s) BY DEF WithSubs
    <2>2. items[k] \in Declared BY <1>8
    <2>3. r \in Declared
      <3>1. WithSubs(items[k], s) \in Declared BY <1>9, <2>2, Attaching
      <3> QED BY <2>1, <3>1, Zenon
    <2>4. r.is = items[k].is /\ r.name = items[k].name BY <1>9, <2>1, <2>2, Attaching
    <2>5. r.within = items[k].within /\ r.as = items[k].as BY <1>9, <2>1, <2>2, Attaching
    <2>6. r.own = items[k].own /\ r.analyzed = items[k].analyzed BY <1>9, <2>1, <2>2, Attaching
    <2>7. r.subs = s BY <1>9, <2>1, <2>2, Attaching
    <2> QED BY <2>3, <2>4, <2>5, <2>6, <2>7
  <1>11. items' = [items EXCEPT ![k] = r] BY <1>7
  <1>12. /\ items' \in Seq(Declared) /\ Len(items') = Len(items) /\ DOMAIN items' = DOMAIN items
         /\ items'[k] = r /\ \A i \in DOMAIN items : i # k => items'[i] = items[i]
    BY <1>6, <1>8, <1>10, <1>11, Replaced
  <1>13. ItemsStay
    <2>1. Len(items) <= Len(items') BY <1>8, <1>12
    <2>2. \A i \in DOMAIN items :
            /\ items'[i].is = items[i].is /\ items'[i].name = items[i].name
            /\ items'[i].within = items[i].within /\ items'[i].as = items[i].as
      BY <1>10, <1>12
    <2> QED BY <1>12, <2>1, <2>2 DEF ItemsStay
  <1>14. \A i \in DOMAIN items :
           /\ items'[i].as = items[i].as /\ items'[i].own = items[i].own /\ items'[i].analyzed = items[i].analyzed
           /\ items[i].subs \subseteq items'[i].subs
    <2> SUFFICES ASSUME NEW i \in DOMAIN items
                 PROVE  /\ items'[i].as = items[i].as /\ items'[i].own = items[i].own
                        /\ items'[i].analyzed = items[i].analyzed /\ items[i].subs \subseteq items'[i].subs
      OBVIOUS
    <2>1. CASE i # k
      <3>1. items'[i] = items[i] BY <1>12, <2>1
      <3> QED BY <3>1
    <2>2. CASE i = k
      <3>1. items'[i] = r BY <1>12, <2>2
      <3>2. items[k].subs \subseteq r.subs BY <1>10
      <3> QED BY <1>10, <2>2, <3>1, <3>2
    <2> QED BY <2>1, <2>2
  <1>15. Last(open).item \in items'[k].subs BY <1>2, <1>10, <1>12
  <1> QED BY <1>1, <1>6, <1>12, <1>13, <1>14, <1>15 DEF EndsQuietly

\* They keep the invariant.
LEMMA EndsQuietlyClean ==
  ASSUME TextInv, CleanInv, EndsQuietly
  PROVE  CleanInv'
  <1>1. /\ Ends /\ ItemsStay /\ Len(items') = Len(items) /\ UNCHANGED <<list_namespaces, list_parentFunction>>
        /\ \A i \in DOMAIN items :
             /\ items'[i].as = items[i].as /\ items'[i].own = items[i].own /\ items'[i].analyzed = items[i].analyzed
             /\ items[i].subs \subseteq items'[i].subs
    BY DEF EndsQuietly
  <1>2. clean' <=> clean BY <1>1 DEF Ends, clean
  <1>3. SUFFICES ASSUME clean PROVE Counted' /\ InPlace' /\ Fresh' /\ Separate' /\ Placed' /\ Correctly' /\ InPasses'
    BY <1>2 DEF CleanInv
  <1>4. /\ phase = "parsing" /\ phase' = "parsing"
        /\ Len(open) \in Nat \ {0} /\ DOMAIN open = 1 .. Len(open) /\ Last(open) = open[Len(open)] /\ Len(open) \in DOMAIN open
        /\ Counted /\ InPlace /\ Fresh /\ Separate /\ Placed /\ Correctly
        /\ \A i : Unfinished(i)' => Unfinished(i)
        /\ \A i : Unfinished(i) => Unfinished(i)' \/ (i = open[Len(open)].item /\ open[Len(open)].kind # "namespace")
        /\ items \in Seq(Declared)
    BY <1>1, <1>3, EndsBack
  <1>5. /\ items' \in Seq(Declared) /\ DOMAIN items' = DOMAIN items
        /\ \A i \in DOMAIN items :
             items'[i].is = items[i].is /\ items'[i].name = items[i].name /\ items'[i].within = items[i].within
    BY <1>1, <1>4 DEF ItemsStay
  <1>6. \A i \in DOMAIN items : Here(i)' = Here(i) BY <1>5 DEF Here
  <1>7. Counted'
    <2>1. Waiting' = Waiting BY <1>1, <1>5, SameWait DEF TextInv
    <2> QED BY <1>1, <1>4, <2>1 DEF Counted
  <1>8. InPlace'
    <2>1. SpacesStay BY <1>1 DEF SpacesStay, TextInv, Typed
    <2> QED BY <1>1, <1>3, <2>1, EndsInPlace
  <1>9. Fresh' BY <1>1, <1>3, EndsFresh
  <1>10. Separate'
    <2>1. ASSUME NEW m \in DOMAIN list_namespaces PROVE Single(m)'
      <3>1. Single(m) BY <1>4 DEF Separate
      <3>2. \A e \in DOMAIN list_namespaces[m].values : list_namespaces[m].values[e] \in DOMAIN items
        BY InBuffers DEF TextInv
      <3> QED BY <1>1, <1>4, <1>5, <1>6, <3>1, <3>2 DEF Single
    <2>2. ASSUME NEW m \in DOMAIN list_namespaces, NEW n \in DOMAIN list_namespaces PROVE Apart(m, n)'
      BY <1>1, <1>4 DEF Separate, Apart
    <2> QED BY <1>1, <2>1, <2>2 DEF Separate
  <1>11. Placed'
    <2> SUFFICES ASSUME NEW i \in DOMAIN items PROVE Found(i)' BY <1>5 DEF Placed
    <2>1. Found(i) BY <1>4 DEF Placed
    <2>2. Last(open).kind \in {"namespace", "class", "method"} BY DEF EndsQuietly
    <2>3. Unfinished(i) /\ ~Unfinished(i)' => items[i].is = open[Len(open)].kind /\ i = open[Len(open)].item
      <3> SUFFICES ASSUME Unfinished(i), ~Unfinished(i)'
                   PROVE  items[i].is = open[Len(open)].kind /\ i = open[Len(open)].item
        OBVIOUS
      <3>1. i = open[Len(open)].item /\ open[Len(open)].kind # "namespace" BY <1>4
      <3>2. items[open[Len(open)].item].is = open[Len(open)].kind BY <1>4, <3>1, OpenItem DEF TextInv
      <3> QED BY <3>1, <3>2
    <2>4. items[i].is \in {"function", "sub"} => (Unfinished(i) => Unfinished(i)') BY <1>4, <2>2, <2>3
    <2>5. items[i].is = "function" =>
            Unfinished(i)' \/ \E n \in DOMAIN list_namespaces' :
              list_namespaces'[n].functions # <<>> /\ list_namespaces'[n].functions[1] = i
      BY <1>1, <2>1, <2>4 DEF Found
    <2>6. items[i].is = "method" =>
            Unfinished(i)' \/ \E k \in DOMAIN items' : items'[k].is = "class" /\ i \in items'[k].subs
      <3> SUFFICES ASSUME items[i].is = "method", ~Unfinished(i)'
                   PROVE  \E k \in DOMAIN items' : items'[k].is = "class" /\ i \in items'[k].subs
        OBVIOUS
      <3>1. CASE Unfinished(i)
        <4>1. Last(open).kind = "method" /\ Last(open).item = i BY <1>4, <2>3, <3>1
        <4>2. \E k \in DOMAIN items : items[k].is = "class" /\ i \in items'[k].subs BY <4>1 DEF EndsQuietly
        <4> QED BY <1>5, <4>2
      <3>2. CASE ~Unfinished(i) BY <1>1, <1>5, <2>1, <3>2 DEF Found
      <3> QED BY <3>1, <3>2
    <2>7. items[i].is = "sub" => Unfinished(i)' \/ items'[i].as # <<>> BY <1>1, <2>1, <2>4 DEF Found
    <2>8. items[i].is = "class" => \E n \in DOMAIN list_namespaces' :
            list_namespaces'[n].classes # <<>> /\ list_namespaces'[n].classes[1] = i
      BY <1>1, <2>1 DEF Found
    <2>9. items[i].is = "value" => \E n \in DOMAIN list_namespaces' :
            \E e \in DOMAIN list_namespaces'[n].values : list_namespaces'[n].values[e] = i
      BY <1>1, <2>1 DEF Found
    <2>10. items'[i].is = items[i].is BY <1>5
    <2> QED BY <2>5, <2>6, <2>7, <2>8, <2>9, <2>10 DEF Found
  <1>12. Correctly'
    <2> SUFFICES ASSUME NEW i \in DOMAIN items PROVE Correct(i)' BY <1>5 DEF Correctly
    <2>1. Correct(i) BY <1>4 DEF Correctly
    <2> QED BY <1>1, <1>4, <1>5, <1>6, <2>1 DEF Correct
  <1>13. InPasses' BY <1>4 DEF InPasses
  <1> QED BY <1>7, <1>8, <1>9, <1>10, <1>11, <1>12, <1>13


\* What the text is in the middle of is called as it is written.
LEMMA EnclosingName ==
  ASSUME Typed, open # <<>>, NEW x,
         items[x].name = open[Len(open)].name,
         items[x].within = [q \in 1 .. Len(open) - 1 |-> open[q].name]
  PROVE  Here(x) = Written /\ Append(Front(Written), items[x].name) = Written
  <1>1. open \in Seq(Constructs) BY DEF Typed
  <1> PICK n \in Nat \ {0} : n = Len(open) BY <1>1, FrontOf
  <1> DEFINE a == [q \in 1 .. n - 1 |-> open[q].name]
             b == [q \in 1 .. n |-> open[q].name]
  <1>2. Here(x) = Append(a, open[n].name) BY DEF Here
  <1>3. Written = b BY <1>1 DEF Written
  <1>4. \A q \in 1 .. n : open[q].name \in Names
    <2>1. \A q \in 1 .. n : open[q] \in Constructs BY <1>1
    <2> QED BY <2>1 DEF Constructs
  <1>5. a \in Seq(Names) /\ b \in Seq(Names) /\ Len(a) = n - 1 /\ Len(b) = n BY <1>4
  <1>6. \A q \in 1 .. n - 1 : a[q] = open[q].name OBVIOUS
  <1>7. \A q \in 1 .. n : b[q] = open[q].name OBVIOUS
  <1> HIDE DEF a, b
  <1> PICK y : y = open[n].name OBVIOUS
  <1>8. y \in Names BY <1>4
  <1>9. /\ Append(a, y) \in Seq(Names) /\ Len(Append(a, y)) = n
        /\ \A q \in 1 .. n - 1 : Append(a, y)[q] = a[q]
        /\ Append(a, y)[n] = y
    BY <1>5, <1>8
  <1>10. Append(a, y) = b
    <2> PICK c : c = Append(a, y) OBVIOUS
    <2>1. c \in Seq(Names) /\ Len(c) = Len(b) BY <1>5, <1>9
    <2>2. \A q \in 1 .. Len(c) : c[q] = b[q]
      <3> SUFFICES ASSUME NEW q \in 1 .. n PROVE c[q] = b[q] BY <1>9
      <3>1. CASE q = n BY <1>7, <1>9, <3>1
      <3>2. CASE q # n
        <4>1. q \in 1 .. n - 1 BY <3>2
        <4> QED BY <1>6, <1>7, <1>9, <4>1
      <3> QED BY <3>1, <3>2
    <2> QED BY <1>5, <2>1, <2>2, SameSequence
  <1>11. Front(b) = a BY <1>5, <1>8, <1>10, FrontAppended
  <1> QED BY <1>2, <1>3, <1>10, <1>11

\* The end of a function.
LEMMA EndsFunctionClean ==
  ASSUME TextInv, CleanInv, EndsFunction
  PROVE  CleanInv'
  <1>1. Ends /\ Last(open).kind = "function" /\ PushFunction(Last(open).item) /\ UNCHANGED <<items, list_parentFunction>>
    BY DEF EndsFunction
  <1>2. clean' <=> clean BY <1>1 DEF Ends, clean
  <1>3. SUFFICES ASSUME clean PROVE Counted' /\ InPlace' /\ Fresh' /\ Separate' /\ Placed' /\ Correctly' /\ InPasses'
    BY <1>2 DEF CleanInv
  <1>4. /\ phase = "parsing" /\ phase' = "parsing"
        /\ Len(open) \in Nat \ {0} /\ DOMAIN open = 1 .. Len(open) /\ Last(open) = open[Len(open)] /\ Len(open) \in DOMAIN open
        /\ currentNameSpace.index \in DOMAIN list_namespaces
        /\ list_namespaces[currentNameSpace.index].path = Written
        /\ Counted /\ InPlace /\ Fresh /\ Separate /\ Placed /\ Correctly
        /\ \A i : Unfinished(i)' => Unfinished(i)
        /\ \A i : Unfinished(i) => Unfinished(i)' \/ (i = open[Len(open)].item /\ open[Len(open)].kind # "namespace")
        /\ items \in Seq(Declared) /\ list_namespaces \in Seq(Entries)
    BY <1>1, <1>3, EndsBack
  <1> PICK x : x = open[Len(open)].item OBVIOUS
  <1> PICK w : w = currentNameSpace.index OBVIOUS
  <1>5. /\ x \in DOMAIN items /\ x \in Nat /\ items[x].is = "function" /\ items[x].name = open[Len(open)].name
        /\ items[x].within = [q \in 1 .. Len(open) - 1 |-> open[q].name]
    <2>1. open[Len(open)].kind = "function" BY <1>1, <1>4
    <2> QED BY <1>4, <2>1, OpenItem DEF TextInv
  <1>6. /\ SpacesStay /\ Len(list_namespaces') = Len(list_namespaces)
        /\ \A n \in DOMAIN list_namespaces' :
             /\ list_namespaces'[n].classes = list_namespaces[n].classes
             /\ list_namespaces'[n].values = list_namespaces[n].values
             /\ n # w => list_namespaces'[n] = list_namespaces[n]
             /\ n = w => list_namespaces'[n].functions = Append(list_namespaces[n].functions, x)
    <2>1. PushFunction(x) BY <1>1, <1>4
    <2>2. currentNameSpace.index <= Len(list_namespaces) BY DEF TextInv, Current
    <2> QED BY <1>5, <2>1, <2>2, PushFunctionFacts DEF TextInv
  <1>7. DOMAIN list_namespaces' = DOMAIN list_namespaces
    <2>1. list_namespaces' \in Seq(Entries) BY <1>6 DEF SpacesStay
    <2> QED BY <1>4, <1>6, <2>1
  <1>8. \A n \in DOMAIN list_namespaces : list_namespaces'[n].path = list_namespaces[n].path
    BY <1>6 DEF SpacesStay
  <1>9. list_namespaces[w].functions = <<>>
    <2>1. PICK k \in DOMAIN list_namespaces : Bare(k, Len(open)) BY <1>1, <1>4 DEF Fresh
    <2>2. w >= k
      <3>1. k <= w BY <2>1 DEF Bare
      <3>2. k \in Nat /\ w \in Nat BY <1>4
      <3> QED BY <3>1, <3>2
    <2> QED BY <1>4, <2>1, <2>2 DEF Bare
  <1>10. list_namespaces'[w].functions = <<x>>
    <2>1. w \in DOMAIN list_namespaces' BY <1>4, <1>7
    <2>2. list_namespaces'[w].functions = Append(list_namespaces[w].functions, x) BY <1>6, <2>1
    <2> QED BY <1>9, <2>2
  <1>11. Here(x) = Written
    <2>1. open # <<>> BY <1>1 DEF Ends
    <2> QED BY <1>5, <2>1, EnclosingName DEF TextInv
  <1>12. \A i : ~Unfinished(i)'
    <2>1. \A p \in DOMAIN open' : open'[p].kind = "namespace"
      <3>1. open[Len(open)].kind = "function" BY <1>1, <1>4
      <3>2. open[Len(open)].kind # "sub" BY <3>1
      <3> QED BY <1>1, <1>3, <3>1, <3>2, NothingAround
    <2> QED BY <2>1 DEF Unfinished
  <1>13. Unfinished(x) BY <1>1, <1>4 DEF Unfinished
  <1>14. \A i : Here(i)' = Here(i) BY <1>1 DEF Here
  <1>15. Counted'
    <2>1. Waiting' = Waiting BY <1>1 DEF Waiting
    <2> QED BY <1>1, <1>4, <2>1 DEF Counted
  <1>16. InPlace' BY <1>1, <1>3, <1>6, EndsInPlace
  <1>17. Fresh'
    <2>1. \A p \in DOMAIN open' : open'[p].kind # "function"
      <3>1. open[Len(open)].kind # "sub" BY <1>1, <1>4
      <3> QED BY <1>1, <1>3, <3>1, NothingAround
    <2> QED BY <2>1 DEF Fresh
  <1>18. Separate'
    <2>1. ASSUME NEW m \in DOMAIN list_namespaces' PROVE Single(m)'
      <3>1. Single(m) BY <1>4, <1>7 DEF Separate
      <3>2. CASE m # w BY <1>1, <1>4, <1>6, <1>12, <1>14, <3>1, <3>2 DEF Single
      <3>3. CASE m = w
        <4>1. Len(list_namespaces'[m].functions) <= 1
          <5>1. Len(<<x>>) = 1 OBVIOUS
          <5>2. Len(list_namespaces'[m].functions) = 1 BY <1>10, <3>3, <5>1, Zenon
          <5>3. \A a : a = 1 => a <= 1 OBVIOUS
          <5> QED BY <5>2, <5>3, Zenon
        <4>2. Len(list_namespaces'[m].classes) <= 1 BY <1>6, <3>1 DEF Single
        <4>3. ASSUME NEW i, list_namespaces'[m].functions[1] = i
              PROVE  Here(i)' = list_namespaces'[m].path /\ ~Unfinished(i)'
          <5>1. i = x BY <1>10, <3>3, <4>3
          <5> QED BY <1>4, <1>7, <1>8, <1>11, <1>12, <1>14, <3>3, <5>1
        <4>4. \A e \in DOMAIN list_namespaces'[m].values :
                items'[list_namespaces'[m].values[e]].within = list_namespaces'[m].path
          BY <1>1, <1>6, <1>7, <1>8, <3>1 DEF Single
        <4> QED BY <4>1, <4>2, <4>3, <4>4 DEF Single
      <3> QED BY <3>2, <3>3
    <2>2. ASSUME NEW n \in DOMAIN list_namespaces, list_namespaces[n].functions # <<>>
          PROVE  list_namespaces[n].functions[1] # x
      <3>1. Single(n) BY <1>4 DEF Separate
      <3> QED BY <1>5, <1>13, <2>2, <3>1 DEF Single
    <2>3. ASSUME NEW m \in DOMAIN list_namespaces', NEW n \in DOMAIN list_namespaces' PROVE Apart(m, n)'
      <3>1. Apart(m, n) BY <1>4, <1>7 DEF Separate
      <3>2. list_namespaces'[m].classes = list_namespaces[m].classes /\ list_namespaces'[n].classes = list_namespaces[n].classes
        BY <1>6
      <3>3. ASSUME list_namespaces'[m].functions # <<>>, list_namespaces'[n].functions # <<>>,
                   list_namespaces'[m].functions[1] = list_namespaces'[n].functions[1]
            PROVE  m = n
        <4>1. CASE m # w /\ n # w BY <1>6, <3>1, <3>3, <4>1 DEF Apart
        <4>2. CASE m = w /\ n # w
          <5>1. list_namespaces'[m].functions[1] = x BY <1>10, <4>2
          <5> QED BY <1>6, <1>7, <2>2, <3>3, <4>2, <5>1
        <4>3. CASE m # w /\ n = w
          <5>1. list_namespaces'[n].functions[1] = x BY <1>10, <4>3
          <5> QED BY <1>6, <1>7, <2>2, <3>3, <4>3, <5>1
        <4> QED BY <4>1, <4>2, <4>3
      <3> QED BY <3>1, <3>2, <3>3 DEF Apart
    <2> QED BY <2>1, <2>3 DEF Separate
  <1>19. Placed'
    <2> SUFFICES ASSUME NEW i \in DOMAIN items PROVE Found(i)' BY <1>1 DEF Placed
    <2>1. Found(i) BY <1>4 DEF Placed
    <2>2. Unfinished(i) => i = x BY <1>4, <1>12
    <2>3. items[i].is = "function" => \E n \in DOMAIN list_namespaces' :
            list_namespaces'[n].functions # <<>> /\ list_namespaces'[n].functions[1] = i
      <3>1. CASE i = x
        <4>1. list_namespaces'[w].functions # <<>> /\ list_namespaces'[w].functions[1] = i BY <1>10, <3>1
        <4> QED BY <1>4, <1>7, <4>1
      <3>2. CASE i # x
        <4> SUFFICES ASSUME items[i].is = "function" PROVE \E n \in DOMAIN list_namespaces' :
              list_namespaces'[n].functions # <<>> /\ list_namespaces'[n].functions[1] = i
          OBVIOUS
        <4>1. PICK n \in DOMAIN list_namespaces :
                list_namespaces[n].functions # <<>> /\ list_namespaces[n].functions[1] = i
          BY <2>1, <2>2, <3>2 DEF Found
        <4>2. n # w BY <1>9, <4>1
        <4> QED BY <1>6, <1>7, <4>1, <4>2
      <3> QED BY <3>1, <3>2
    <2>4. items[i].is \in {"method", "sub"} => ~Unfinished(i) BY <1>5, <2>2
    <2>5. items[i].is = "class" => \E n \in DOMAIN list_namespaces' :
            list_namespaces'[n].classes # <<>> /\ list_namespaces'[n].classes[1] = i
      BY <1>6, <1>7, <2>1 DEF Found
    <2>6. items[i].is = "value" => \E n \in DOMAIN list_namespaces' :
            \E e \in DOMAIN list_namespaces'[n].values : list_namespaces'[n].values[e] = i
      BY <1>6, <1>7, <2>1 DEF Found
    <2> QED BY <1>1, <2>1, <2>3, <2>4, <2>5, <2>6 DEF Found
  <1>20. Correctly'
    <2> SUFFICES ASSUME NEW i \in DOMAIN items PROVE Correct(i)' BY <1>1 DEF Correctly
    <2>1. Correct(i) BY <1>4 DEF Correctly
    <2> QED BY <1>1, <1>4, <1>7, <1>8, <1>14, <2>1 DEF Correct
  <1>21. InPasses' BY <1>4 DEF InPasses
  <1> QED BY <1>15, <1>16, <1>17, <1>18, <1>19, <1>20, <1>21


\* The end of a function in a function: it is registered, and waits no more.
LEMMA EndsSubClean ==
  ASSUME TextInv, CleanInv, EndsSub
  PROVE  CleanInv'
  <1> PICK n : n = Len(open) OBVIOUS
  <1> PICK x : x = open[n].item OBVIOUS
  <1> PICK k : k = open[n - 1].item OBVIOUS
  <1>1. /\ n \in Nat /\ n > 1 /\ DOMAIN open = 1 .. n /\ phase = "parsing"
        /\ open[n].kind = "sub"
        /\ x \in DOMAIN items /\ k \in DOMAIN items /\ k \in Nat /\ x \in Nat
        /\ items[x].is = "sub" /\ items[k].is \in Functions
        /\ Gains(k, x)
        /\ DOMAIN items' = DOMAIN items
        /\ \A i \in DOMAIN items : i # x => items'[i].as = items[i].as /\ items'[i].own = items[i].own
        /\ \A i \in DOMAIN items : items'[i].analyzed = items[i].analyzed
        /\ items'[x].as = Append(Front(currentNameSpace.path), items[x].name)
        /\ items'[x].own = currentNameSpace
        /\ items'[x].as # <<>>
        /\ list_parentFunction # <<>> /\ list_parentFunction' = Front(list_parentFunction)
        /\ Ends /\ list_namespaces' = list_namespaces
    BY EndsSubFacts
  <1>2. clean' <=> clean BY <1>1 DEF Ends, clean
  <1>3. SUFFICES ASSUME clean PROVE Counted' /\ InPlace' /\ Fresh' /\ Separate' /\ Placed' /\ Correctly' /\ InPasses'
    BY <1>2 DEF CleanInv
  <1>4. /\ phase = "parsing" /\ phase' = "parsing" /\ n \in DOMAIN open
        /\ currentNameSpace.index \in DOMAIN list_namespaces
        /\ currentNameSpace.path = Written
        /\ list_namespaces[currentNameSpace.index].path = Written
        /\ Counted /\ InPlace /\ Fresh /\ Separate /\ Placed /\ Correctly
        /\ \A i : Unfinished(i)' => Unfinished(i)
        /\ \A i : Unfinished(i) => Unfinished(i)' \/ i = x
        /\ items \in Seq(Declared) /\ list_namespaces \in Seq(Entries)
    BY <1>1, <1>3, EndsBack
  <1>5. /\ items' \in Seq(Declared)
        /\ \A i \in DOMAIN items :
             /\ items'[i].is = items[i].is /\ items'[i].name = items[i].name /\ items'[i].within = items[i].within
             /\ items[i].subs \subseteq items'[i].subs
    BY <1>1 DEF Gains, ItemsStay
  <1>6. \A i \in DOMAIN items : Here(i)' = Here(i) BY <1>5 DEF Here
  <1>7. items[x].as = <<>> /\ items[x].name = open[n].name /\ items[x].within = [q \in 1 .. n - 1 |-> open[q].name]
    BY <1>1, <1>4, OpenItem DEF TextInv
  <1>8. Here(x) = Written /\ Append(Front(Written), items[x].name) = Written
    <2>1. open # <<>> BY <1>1 DEF Ends
    <2> QED BY <1>7, <2>1, EnclosingName DEF TextInv
  <1>9. Counted'
    <2>1. Waiting' = Waiting \ {x}
      <3>1. \A i : i \in Waiting' <=> i \in DOMAIN items' /\ items'[i].is \in Functions /\ items'[i].as = <<>> BY DEF Waiting
      <3>2. \A i : i \in Waiting <=> i \in DOMAIN items /\ items[i].is \in Functions /\ items[i].as = <<>> BY DEF Waiting
      <3>3. /\ \A i \in DOMAIN items : i # x => items'[i].as = items[i].as
            /\ \A i \in DOMAIN items : items'[i].is = items[i].is
            /\ DOMAIN items' = DOMAIN items /\ items'[x].as # <<>>
        BY <1>1, <1>5
      <3>4. \A i : i \in Waiting' <=> i \in Waiting /\ i # x
        <4> SUFFICES ASSUME NEW i \in DOMAIN items PROVE i \in Waiting' <=> i \in Waiting /\ i # x
          BY <3>1, <3>2, <3>3
        <4>1. CASE i = x BY <4>1, <3>1, <3>3
        <4>2. CASE i # x BY <4>2, <3>1, <3>2, <3>3
        <4> QED BY <4>1, <4>2
      <3> QED BY <3>4
    <2>2. x \in Waiting BY <1>1, <1>7 DEF Waiting, Functions
    <2>3. Cardinality(Waiting') = Cardinality(Waiting) - 1
      <3> DEFINE W == Waiting'
      <3>1. W = Waiting \ {x} BY <2>1
      <3> HIDE DEF W
      <3>2. Cardinality(W) = Cardinality(Waiting) - 1 BY <2>2, <3>1, OneFewer DEF TextInv
      <3> QED BY <3>2 DEF W
    <2>4. list_parentFunction \in Seq(Nat) BY DEF TextInv, Typed
    <2>5. Len(list_parentFunction') = Len(list_parentFunction) - 1 BY <1>1, <2>4, FrontOf
    <2> QED BY <1>4, <2>3, <2>5 DEF Counted
  <1>10. InPlace'
    <2>1. SpacesStay BY <1>1, <1>4 DEF SpacesStay
    <2> QED BY <1>1, <1>3, <2>1, EndsInPlace
  <1>11. Fresh' BY <1>1, <1>3, EndsFresh
  <1>12. Separate'
    <2>1. ASSUME NEW m \in DOMAIN list_namespaces PROVE Single(m)'
      <3>1. Single(m) BY <1>4 DEF Separate
      <3>2. /\ \A e \in DOMAIN list_namespaces[m].values : list_namespaces[m].values[e] \in DOMAIN items
        BY InBuffers DEF TextInv
      <3>3. /\ list_namespaces' = list_namespaces /\ DOMAIN items' = DOMAIN items
            /\ \A i : Unfinished(i)' => Unfinished(i)
            /\ \A i \in DOMAIN items : items'[i].within = items[i].within
        BY <1>1, <1>4, <1>5
      <3> QED BY <1>6, <3>1, <3>2, <3>3 DEF Single
    <2>2. ASSUME NEW m \in DOMAIN list_namespaces, NEW o \in DOMAIN list_namespaces PROVE Apart(m, o)'
      BY <1>1, <1>4 DEF Separate, Apart
    <2> QED BY <1>1, <2>1, <2>2 DEF Separate
  <1>13. Placed'
    <2> SUFFICES ASSUME NEW i \in DOMAIN items PROVE Found(i)' BY <1>1 DEF Placed
    <2>1. Found(i) BY <1>4 DEF Placed
    <2>2. Unfinished(i) => Unfinished(i)' \/ i = x BY <1>4
    <2>3. items[i].is = "function" =>
            Unfinished(i)' \/ \E m \in DOMAIN list_namespaces' :
              list_namespaces'[m].functions # <<>> /\ list_namespaces'[m].functions[1] = i
      BY <1>1, <2>1, <2>2 DEF Found
    <2>4. items[i].is = "method" =>
            Unfinished(i)' \/ \E m \in DOMAIN items' : items'[m].is = "class" /\ i \in items'[m].subs
      BY <1>1, <1>5, <2>1, <2>2 DEF Found
    <2>5. items[i].is = "sub" => Unfinished(i)' \/ items'[i].as # <<>> BY <1>1, <2>1, <2>2 DEF Found
    <2>6. items[i].is = "class" => \E m \in DOMAIN list_namespaces' :
            list_namespaces'[m].classes # <<>> /\ list_namespaces'[m].classes[1] = i
      BY <1>1, <2>1 DEF Found
    <2>7. items[i].is = "value" => \E m \in DOMAIN list_namespaces' :
            \E e \in DOMAIN list_namespaces'[m].values : list_namespaces'[m].values[e] = i
      BY <1>1, <2>1 DEF Found
    <2>8. items'[i].is = items[i].is BY <1>5
    <2> QED BY <2>3, <2>4, <2>5, <2>6, <2>7, <2>8 DEF Found
  <1>14. Correctly'
    <2> SUFFICES ASSUME NEW i \in DOMAIN items PROVE Correct(i)' BY <1>1 DEF Correctly
    <2>1. Correct(i) BY <1>4 DEF Correctly
    <2>2. CASE i # x BY <1>1, <1>4, <1>5, <1>6, <2>1, <2>2 DEF Correct
    <2>3. CASE i = x
      <3>1. items[x].analyzed = {} BY <1>1, <1>7, <2>1, <2>3 DEF Correct
      <3>2. items'[x].as = Here(x)' /\ items'[x].is = "sub" /\ items'[x].analyzed = {}
        BY <1>1, <1>4, <1>5, <1>6, <1>8, <3>1
      <3>3. /\ items'[x].own.index \in DOMAIN list_namespaces'
            /\ items'[x].own.path = Here(x)'
            /\ list_namespaces'[items'[x].own.index].path = Here(x)'
        BY <1>1, <1>4, <1>6, <1>8
      <3> QED BY <2>3, <3>2, <3>3 DEF Correct
    <2> QED BY <2>2, <2>3
  <1>15. InPasses' BY <1>4 DEF InPasses
  <1> QED BY <1>9, <1>10, <1>11, <1>12, <1>13, <1>14, <1>15

-----------------------------------------------------------------------------
(***************************************************************************)
(* The passes start.                                                       *)
(***************************************************************************)
\* A buffer of one entry at most has no other.
LEMMA OneEntry ==
  ASSUME NEW s \in Seq(Nat), Len(s) <= 1, NEW e \in DOMAIN s
  PROVE  e = 1 /\ s # <<>> /\ s[e] = s[1]
  <1>1. DOMAIN s = 1 .. Len(s) /\ Len(s) \in Nat OBVIOUS
  <1>2. e \in Nat /\ e >= 1 /\ e <= Len(s) BY <1>1
  <1>3. e = 1 BY <1>1, <1>2
  <1>4. s # <<>>
    <2>1. SUFFICES ASSUME s = <<>> PROVE FALSE OBVIOUS
    <2>2. Len(s) = 0 BY <2>1
    <2> QED BY <1>2, <2>2
  <1> QED BY <1>3, <1>4

\* What is called is where it was read.
LEMMA StartsDue ==
  ASSUME TextInv, clean, CleanInv, phase = "parsing",
         NEW c \in DeclareClasses \cup DeclareValues \cup DeclareFunctions \cup AnalyzeClasses \cup AnalyzeFunctions
  PROVE  Due(c)
  <1> USE DEF TextInv
  <1>1. Separate /\ Correctly /\ entered = <<0, 0>> BY DEF CleanInv, Idle
  <1>2. \A n \in DOMAIN list_namespaces :
          /\ list_namespaces[n].functions \in Seq(Nat) /\ Len(list_namespaces[n].functions) <= 1
          /\ list_namespaces[n].classes \in Seq(Nat) /\ Len(list_namespaces[n].classes) <= 1
    <2> SUFFICES ASSUME NEW n \in DOMAIN list_namespaces
                 PROVE  /\ list_namespaces[n].functions \in Seq(Nat) /\ Len(list_namespaces[n].functions) <= 1
                        /\ list_namespaces[n].classes \in Seq(Nat) /\ Len(list_namespaces[n].classes) <= 1
      OBVIOUS
    <2>1. list_namespaces[n] \in Entries BY DEF Typed
    <2>2. Single(n) BY <1>1 DEF Separate
    <2> QED BY <2>1, <2>2 DEF Single, Entries
  <1>3. \A i \in DOMAIN items : items[i].is \in {"function", "method"} => items[i].as = <<>>
    BY <1>1 DEF Correctly, Correct
  <1>4. CASE c \in DeclareClasses
    <2>1. PICK n \in DOMAIN list_namespaces : \E e \in DOMAIN list_namespaces[n].classes :
            c = <<1, n, e, 0, list_namespaces[n].classes[e]>>
      BY <1>4, InDeclareClasses
    <2>2. c[1] = 1 BY <2>1
    <2> QED BY <2>2 DEF Due, Registers
  <1>5. CASE c \in DeclareValues
    <2>1. PICK n \in DOMAIN list_namespaces : \E e \in DOMAIN list_namespaces[n].values :
            c = <<2, n, e, 0, list_namespaces[n].values[e]>>
      BY <1>5, InDeclareValues
    <2>2. PICK e \in DOMAIN list_namespaces[n].values : c = <<2, n, e, 0, list_namespaces[n].values[e]>> BY <2>1
    <2>3. c[1] = 2 /\ c[2] = n /\ c[3] = e /\ c[5] = list_namespaces[n].values[e] BY <2>2
    <2> QED BY <2>3 DEF Due, Registers
  <1>6. CASE c \in DeclareFunctions
    <2>1. PICK n \in DOMAIN list_namespaces : \E e \in DOMAIN list_namespaces[n].functions :
            c = <<3, n, e, 0, list_namespaces[n].functions[e]>>
      BY <1>6, InDeclareFunctions
    <2>2. PICK e \in DOMAIN list_namespaces[n].functions : c = <<3, n, e, 0, list_namespaces[n].functions[e]>> BY <2>1
    <2>3. c[1] = 3 /\ c[2] = n /\ c[3] = e /\ c[4] = 0 /\ c[5] = list_namespaces[n].functions[e] BY <2>2
    <2>4. e = 1 /\ list_namespaces[n].functions # <<>> /\ list_namespaces[n].functions[e] = list_namespaces[n].functions[1]
      BY <1>2, OneEntry
    <2>5. items[c[5]].as = <<>>
      <3>1. c[5] \in DOMAIN items /\ items[c[5]].is = "function" BY <2>3, EntryFacts
      <3> QED BY <1>3, <3>1
    <2>6. entered # <<3, c[2]>> BY <1>1
    <2> QED BY <2>3, <2>4, <2>5, <2>6 DEF Due
  <1>7. CASE c \in AnalyzeClasses
    <2>a. PICK d \in DeclareClasses : \E stage \in {0, 1}, i \in items[d[5]].subs : c = <<4, d[2], d[3], stage, i>>
      BY <1>7, InAnalyzeClasses
    <2>1. PICK stage \in {0, 1}, i \in items[d[5]].subs : c = <<4, d[2], d[3], stage, i>> BY <2>a
    <2>2. PICK n \in DOMAIN list_namespaces : \E e \in DOMAIN list_namespaces[n].classes :
            d = <<1, n, e, 0, list_namespaces[n].classes[e]>>
      BY <2>1, InDeclareClasses
    <2>3. PICK e \in DOMAIN list_namespaces[n].classes : d = <<1, n, e, 0, list_namespaces[n].classes[e]>> BY <2>2
    <2>4. d[2] = n /\ d[3] = e /\ d[5] = list_namespaces[n].classes[e] BY <2>3
    <2>5. e = 1 /\ list_namespaces[n].classes # <<>> /\ list_namespaces[n].classes[e] = list_namespaces[n].classes[1]
      BY <1>2, OneEntry
    <2>6. c[1] = 4 /\ c[2] = n /\ c[3] = 1 /\ c[5] = i BY <2>1, <2>4, <2>5
    <2>7. i \in items[list_namespaces[n].classes[1]].subs BY <2>1, <2>4, <2>5
    <2>8. items[i].as = <<>>
      <3>1. d[5] \in DOMAIN items /\ items[d[5]].is = "class" BY <2>4, EntryFacts
      <3>2. i \in d[5] + 1 .. Len(items) /\ items[i].is = "method" BY <2>1, <3>1 DEF Owned
      <3>3. i \in DOMAIN items BY <3>1, <3>2 DEF Typed
      <3> QED BY <1>3, <3>2, <3>3
    <2> QED BY <2>5, <2>6, <2>7, <2>8 DEF Due
  <1>8. CASE c \in AnalyzeFunctions
    <2>1. PICK n \in DOMAIN list_namespaces : \E e \in DOMAIN list_namespaces[n].functions :
            c = <<5, n, e, 0, list_namespaces[n].functions[e]>>
      BY <1>8, InAnalyzeFunctions
    <2>2. c[1] = 5 BY <2>1
    <2> QED BY <2>2 DEF Due, Registers
  <1> QED BY <1>4, <1>5, <1>6, <1>7, <1>8

\* Whatever has been read is called.
LEMMA StartsAwaited ==
  ASSUME TextInv, clean, CleanInv, phase = "parsing", open = <<>>, NEW i \in DOMAIN items, NEW all,
         all = DeclareClasses \cup DeclareValues \cup DeclareFunctions \cup AnalyzeClasses \cup AnalyzeFunctions
  PROVE  /\ items[i].is = "class" => \E c \in all : c[1] = 1 /\ c[5] = i
         /\ items[i].is = "value" => \E c \in all : c[1] = 2 /\ c[5] = i
         /\ items[i].is \in {"function", "method"} =>
              /\ \E c \in all : Registers(c) /\ c[5] = i
              /\ \E c \in all : Analyzes(c) /\ c[5] = i
         /\ items[i].analyzed = {}
  <1> USE DEF TextInv
  <1>1. Placed /\ Correctly BY DEF CleanInv
  <1>2. Found(i) /\ Correct(i) BY <1>1 DEF Placed, Correctly
  <1>3. ~Unfinished(i) BY DEF Unfinished
  <1>4. \A n \in DOMAIN list_namespaces :
          /\ list_namespaces[n].functions \in Seq(Nat) /\ list_namespaces[n].classes \in Seq(Nat)
    <2> SUFFICES ASSUME NEW n \in DOMAIN list_namespaces
                 PROVE  list_namespaces[n].functions \in Seq(Nat) /\ list_namespaces[n].classes \in Seq(Nat)
      OBVIOUS
    <2>1. list_namespaces[n] \in Entries BY DEF Typed
    <2> QED BY <2>1 DEF Entries
  <1>5. \A s \in Seq(Nat) : s # <<>> => 1 \in DOMAIN s OBVIOUS
  <1>6. ASSUME NEW k \in DOMAIN items, items[k].is = "class"
        PROVE  \E n \in DOMAIN list_namespaces : <<1, n, 1, 0, k>> \in DeclareClasses
    <2>1. Found(k) BY <1>1, <1>6 DEF Placed
    <2>2. PICK n \in DOMAIN list_namespaces : list_namespaces[n].classes # <<>> /\ list_namespaces[n].classes[1] = k
      BY <1>6, <2>1 DEF Found
    <2>3. 1 \in DOMAIN list_namespaces[n].classes BY <1>4, <1>5, <2>2
    <2>4. <<1, n, 1, 0, k>> \in DeclareClasses BY <2>2, <2>3, InDeclareClasses
    <2> QED BY <2>4
  <1>7. items[i].is = "class" => \E c \in all : c[1] = 1 /\ c[5] = i
    <2> SUFFICES ASSUME items[i].is = "class" PROVE \E c \in all : c[1] = 1 /\ c[5] = i OBVIOUS
    <2>1. PICK n \in DOMAIN list_namespaces : <<1, n, 1, 0, i>> \in DeclareClasses BY <1>6
    <2>2. <<1, n, 1, 0, i>>[1] = 1 /\ <<1, n, 1, 0, i>>[5] = i OBVIOUS
    <2> QED BY <2>1, <2>2
  <1>8. items[i].is = "value" => \E c \in all : c[1] = 2 /\ c[5] = i
    <2> SUFFICES ASSUME items[i].is = "value" PROVE \E c \in all : c[1] = 2 /\ c[5] = i OBVIOUS
    <2>1. PICK n \in DOMAIN list_namespaces : \E e \in DOMAIN list_namespaces[n].values : list_namespaces[n].values[e] = i
      BY <1>2 DEF Found
    <2>2. PICK e \in DOMAIN list_namespaces[n].values : list_namespaces[n].values[e] = i BY <2>1
    <2>3. <<2, n, e, 0, i>> \in DeclareValues BY <2>2, InDeclareValues
    <2>4. <<2, n, e, 0, i>>[1] = 2 /\ <<2, n, e, 0, i>>[5] = i OBVIOUS
    <2> QED BY <2>3, <2>4
  <1>9. items[i].is = "function" =>
          (\E c \in all : Registers(c) /\ c[5] = i) /\ \E c \in all : Analyzes(c) /\ c[5] = i
    <2> SUFFICES ASSUME items[i].is = "function"
                 PROVE  (\E c \in all : Registers(c) /\ c[5] = i) /\ \E c \in all : Analyzes(c) /\ c[5] = i
      OBVIOUS
    <2>1. PICK n \in DOMAIN list_namespaces : list_namespaces[n].functions # <<>> /\ list_namespaces[n].functions[1] = i
      BY <1>2, <1>3 DEF Found
    <2>2. 1 \in DOMAIN list_namespaces[n].functions BY <1>4, <1>5, <2>1
    <2>3. <<3, n, 1, 0, i>> \in DeclareFunctions BY <2>1, <2>2, InDeclareFunctions
    <2>4. <<5, n, 1, 0, i>> \in AnalyzeFunctions BY <2>1, <2>2, InAnalyzeFunctions
    <2>5. Registers(<<3, n, 1, 0, i>>) /\ <<3, n, 1, 0, i>>[5] = i BY DEF Registers
    <2>6. Analyzes(<<5, n, 1, 0, i>>) /\ <<5, n, 1, 0, i>>[5] = i BY DEF Analyzes
    <2>7. \E c \in all : Registers(c) /\ c[5] = i BY <2>3, <2>5
    <2>8. \E c \in all : Analyzes(c) /\ c[5] = i BY <2>4, <2>6
    <2> QED BY <2>7, <2>8
  <1>10. items[i].is = "method" =>
          (\E c \in all : Registers(c) /\ c[5] = i) /\ \E c \in all : Analyzes(c) /\ c[5] = i
    <2> SUFFICES ASSUME items[i].is = "method"
                 PROVE  (\E c \in all : Registers(c) /\ c[5] = i) /\ \E c \in all : Analyzes(c) /\ c[5] = i
      OBVIOUS
    <2>1. PICK k \in DOMAIN items : items[k].is = "class" /\ i \in items[k].subs BY <1>2, <1>3 DEF Found
    <2>2. PICK n \in DOMAIN list_namespaces : <<1, n, 1, 0, k>> \in DeclareClasses BY <1>6, <2>1
    <2> PICK d : d = <<1, n, 1, 0, k>> OBVIOUS
    <2>3. d \in DeclareClasses /\ d[2] = n /\ d[3] = 1 /\ d[5] = k BY <2>2
    <2>4. <<4, n, 1, 0, i>> \in AnalyzeClasses
      <3>1. <<4, d[2], d[3], 0, i>> \in AnalyzeClasses BY <2>1, <2>3, InAnalyzeClasses
      <3> QED BY <2>3, <3>1
    <2>5. <<4, n, 1, 1, i>> \in AnalyzeClasses
      <3>1. <<4, d[2], d[3], 1, i>> \in AnalyzeClasses BY <2>1, <2>3, InAnalyzeClasses
      <3> QED BY <2>3, <3>1
    <2>6. Registers(<<4, n, 1, 0, i>>) /\ <<4, n, 1, 0, i>>[5] = i BY DEF Registers
    <2>7. Analyzes(<<4, n, 1, 1, i>>) /\ <<4, n, 1, 1, i>>[5] = i BY DEF Analyzes
    <2>8. \E c \in all : Registers(c) /\ c[5] = i BY <2>4, <2>6
    <2>9. \E c \in all : Analyzes(c) /\ c[5] = i BY <2>5, <2>7
    <2> QED BY <2>8, <2>9
  <1>11. items[i].analyzed = {} BY <1>2 DEF Correct
  <1> QED BY <1>7, <1>8, <1>9, <1>10, <1>11

\* The passes start with the invariant.
LEMMA StartsClean ==
  ASSUME TextInv, CleanInv, StartsAnalyze
  PROVE  CleanInv'
  <1> USE DEF TextInv
  <1>1. /\ phase = "parsing" /\ phase' = "analyzing"
        /\ nameSpaceBuffer' = currentNameSpace
        /\ calls' = DeclareClasses \cup DeclareValues \cup DeclareFunctions \cup AnalyzeClasses \cup AnalyzeFunctions
        /\ unclean' = unclean \cup {c \in {"cut"} : open # <<>>}
        /\ UNCHANGED <<list_namespaces, currentNameSpace, list_parentFunction, entered, open, items, errors>>
    BY DEF StartsAnalyze, Analyze
  <1>2. SUFFICES ASSUME clean' PROVE Counted' /\ InPlace' /\ Fresh' /\ Separate' /\ Placed' /\ Correctly' /\ InPasses'
    BY DEF CleanInv
  <1>3. clean /\ open = <<>>
    <2>1. unclean = {} /\ {c \in {"cut"} : open # <<>>} = {} BY <1>1, <1>2 DEF clean
    <2>2. open = <<>>
      <3>1. SUFFICES ASSUME open # <<>> PROVE FALSE OBVIOUS
      <3>2. "cut" \in {c \in {"cut"} : open # <<>>} BY <3>1
      <3> QED BY <2>1, <3>2
    <2> QED BY <2>1, <2>2 DEF clean
  <1>4. Counted /\ InPlace /\ Separate /\ Placed /\ Correctly BY <1>3 DEF CleanInv
  <1>5. \A i : ~Unfinished(i)' /\ ~Unfinished(i) BY <1>1, <1>3 DEF Unfinished
  <1>6. \A i : Here(i)' = Here(i) BY <1>1 DEF Here
  <1>7. Counted'
    <2>1. Waiting' = Waiting BY <1>1 DEF Waiting
    <2> QED BY <1>1, <1>4, <2>1 DEF Counted
  <1>8. InPlace'
    <2>1. currentNameSpace = Global
      <3>1. currentNameSpace \in Refs /\ Refers(currentNameSpace) BY <1>1 DEF Typed, Current
      <3>2. currentNameSpace.path = Written BY <1>1, <1>4 DEF InPlace
      <3>3. Written = <<>>
        <4>1. Written \in Seq(Names) /\ Len(Written) = 0 BY <1>3, WrittenType
        <4> QED BY <4>1
      <3> QED BY <3>1, <3>2, <3>3, OnlyGlobal
    <2> QED BY <1>1, <1>4, <2>1 DEF InPlace
  <1>9. Fresh' BY <1>1 DEF Fresh
  <1>10. Separate'
    <2>1. ASSUME NEW m \in DOMAIN list_namespaces PROVE Single(m)'
      <3>1. Single(m) BY <1>4 DEF Separate
      <3> QED BY <1>1, <1>5, <1>6, <3>1 DEF Single
    <2>2. ASSUME NEW m \in DOMAIN list_namespaces, NEW n \in DOMAIN list_namespaces PROVE Apart(m, n)'
      BY <1>1, <1>4 DEF Separate, Apart
    <2> QED BY <1>1, <2>1, <2>2 DEF Separate
  <1>11. Placed'
    <2> SUFFICES ASSUME NEW i \in DOMAIN items PROVE Found(i)' BY <1>1 DEF Placed
    <2>1. Found(i) BY <1>1, <1>4 DEF Placed
    <2> QED BY <1>1, <1>5, <2>1 DEF Found
  <1>12. Correctly'
    <2> SUFFICES ASSUME NEW i \in DOMAIN items PROVE Correct(i)' BY <1>1 DEF Correctly
    <2>1. Correct(i) BY <1>4 DEF Correctly
    <2> QED BY <1>1, <1>6, <2>1 DEF Correct
  <1>13. InPasses'
    <2> PICK all : all = DeclareClasses \cup DeclareValues \cup DeclareFunctions \cup AnalyzeClasses \cup AnalyzeFunctions
      OBVIOUS
    <2>1. ASSUME NEW c \in calls' PROVE Due(c)'
      <3>1. Due(c) BY <1>1, <1>3, <2>1, StartsDue
      <3> QED BY <1>1, <3>1 DEF Due
    <2>2. ASSUME NEW i \in DOMAIN items PROVE Awaited(i)'
      <3>1. /\ items[i].is = "class" => \E c \in all : c[1] = 1 /\ c[5] = i
            /\ items[i].is = "value" => \E c \in all : c[1] = 2 /\ c[5] = i
            /\ items[i].is \in {"function", "method"} =>
                 /\ \E c \in all : Registers(c) /\ c[5] = i
                 /\ \E c \in all : Analyzes(c) /\ c[5] = i
            /\ items[i].analyzed = {}
        BY <1>1, <1>3, StartsAwaited
      <3>2. calls' = all BY <1>1
      <3> QED BY <1>1, <3>1, <3>2 DEF Awaited
    <2>3. entered'[1] # 2
      <3>1. entered = <<0, 0>> BY <1>1 DEF Idle
      <3> QED BY <1>1, <3>1
    <2> QED BY <1>1, <2>1, <2>2, <2>3 DEF InPasses
  <1> QED BY <1>7, <1>8, <1>9, <1>10, <1>11, <1>12, <1>13

-----------------------------------------------------------------------------
(***************************************************************************)
(* The passes.                                                             *)
(***************************************************************************)
\* What every step of a pass keeps.
LEMMA PassesStay ==
  ASSUME TextInv, clean, CleanInv, Passes
  PROVE  /\ clean' /\ Counted /\ InPlace /\ Separate /\ Placed /\ Correctly /\ InPasses
         /\ InPlace' /\ Fresh' /\ Separate' /\ Placed'
         /\ \A i \in DOMAIN items : Here(i)' = Here(i) /\ Found(i) /\ Correct(i) /\ Awaited(i)
         /\ \A i : ~Unfinished(i)
         /\ \A n \in DOMAIN list_namespaces : Single(n)
         /\ \A d \in calls : Due(d)
  <1> USE DEF TextInv
  <1>1. /\ phase = "analyzing" /\ phase' \in {"analyzing", "crashed"}
        /\ UNCHANGED <<list_namespaces, nameSpaceBuffer, open, unclean>>
        /\ DOMAIN items' = DOMAIN items
        /\ \A i \in DOMAIN items :
             /\ items'[i].is = items[i].is /\ items'[i].name = items[i].name
             /\ items'[i].within = items[i].within /\ items'[i].subs = items[i].subs
             /\ items[i].as # <<>> => items'[i].as # <<>>
    BY DEF Passes, SameItems
  <1>2. clean' BY <1>1 DEF clean
  <1>3. Counted /\ InPlace /\ Separate /\ Placed /\ Correctly /\ InPasses BY DEF CleanInv
  <1>4. \A i \in DOMAIN items : Here(i)' = Here(i) BY <1>1 DEF Here
  <1>5. \A i : ~Unfinished(i)' /\ ~Unfinished(i) BY <1>1 DEF Unfinished
  <1>6. InPlace' BY <1>1, <1>3 DEF InPlace
  <1>7. Fresh' BY <1>1 DEF Fresh
  <1>8. Separate'
    <2>1. ASSUME NEW m \in DOMAIN list_namespaces PROVE Single(m)'
      <3>1. Single(m) BY <1>3 DEF Separate
      <3>2. \A e \in DOMAIN list_namespaces[m].values : list_namespaces[m].values[e] \in DOMAIN items
        BY InBuffers
      <3> QED BY <1>1, <1>4, <1>5, <3>1, <3>2 DEF Single
    <2>2. ASSUME NEW m \in DOMAIN list_namespaces, NEW n \in DOMAIN list_namespaces PROVE Apart(m, n)'
      BY <1>1, <1>3 DEF Separate, Apart
    <2> QED BY <1>1, <2>1, <2>2 DEF Separate
  <1>9. Placed'
    <2> SUFFICES ASSUME NEW i \in DOMAIN items PROVE Found(i)' BY <1>1 DEF Placed
    <2>1. Found(i) BY <1>1, <1>3 DEF Placed
    <2> QED BY <1>1, <1>5, <2>1 DEF Found
  <1>10. \A i \in DOMAIN items : Found(i) /\ Correct(i) /\ Awaited(i)
    BY <1>1, <1>3 DEF Placed, Correctly, InPasses
  <1>11. \A n \in DOMAIN list_namespaces : Single(n) BY <1>3 DEF Separate
  <1>12. \A d \in calls : Due(d) BY <1>1, <1>3 DEF InPasses
  <1> QED BY <1>2, <1>3, <1>4, <1>5, <1>6, <1>7, <1>8, <1>9, <1>10, <1>11, <1>12

\* Calls are the same if they are of one loop, namespace, entry, stage and item.
LEMMA SameCall ==
  ASSUME NEW c \in Calls, NEW d \in Calls, c[1] = d[1], c[2] = d[2], c[3] = d[3], c[4] = d[4], c[5] = d[5]
  PROVE  c = d
  BY DEF Calls

\* Of the functions of all namespaces each is registered once.
LEMMA RegisteredOnce ==
  ASSUME TextInv, clean, CleanInv, Passes, NEW c \in calls, NEW d \in calls, Registers(c), Registers(d), c[5] = d[5]
  PROVE  c = d
  <1> USE DEF TextInv
  <1>1. Due(c) /\ Due(d) /\ Separate BY PassesStay
  <1>2. /\ c \in Calls /\ d \in Calls /\ c[2] \in DOMAIN list_namespaces /\ d[2] \in DOMAIN list_namespaces
        /\ c[5] \in DOMAIN items
    BY CallType
  <1>3. CanBeCalled(c) /\ CanBeCalled(d) BY AllCallable
  <1>4. Apart(c[2], d[2]) BY <1>1, <1>2 DEF Separate
  <1>5. CASE c[1] = 3
    <2>1. d[1] = 3 BY <1>3, <1>5 DEF CanBeCalled, Registers
    <2>2. c[2] = d[2] BY <1>1, <1>4, <1>5, <2>1 DEF Due, Apart
    <2>3. c[3] = 1 /\ c[4] = 0 /\ d[3] = 1 /\ d[4] = 0 BY <1>1, <1>5, <2>1 DEF Due
    <2> QED BY <1>2, <1>5, <2>1, <2>2, <2>3, SameCall
  <1>6. CASE c[1] = 4 /\ c[4] = 0
    <2>1. d[1] = 4 /\ d[4] = 0 BY <1>3, <1>6 DEF CanBeCalled, Registers
    <2>2. /\ c[3] = 1 /\ list_namespaces[c[2]].classes # <<>>
          /\ c[5] \in items[list_namespaces[c[2]].classes[1]].subs
      BY <1>1, <1>6 DEF Due
    <2>3. /\ d[3] = 1 /\ list_namespaces[d[2]].classes # <<>>
          /\ d[5] \in items[list_namespaces[d[2]].classes[1]].subs
      BY <1>1, <2>1 DEF Due
    <2>4. list_namespaces[c[2]].classes[1] \in DOMAIN items /\ list_namespaces[d[2]].classes[1] \in DOMAIN items
      BY <1>2, <2>2, <2>3, InBuffers
    <2>5. list_namespaces[c[2]].classes[1] = list_namespaces[d[2]].classes[1] BY <2>2, <2>3, <2>4 DEF Owned
    <2>6. c[2] = d[2] BY <1>4, <2>2, <2>3, <2>5 DEF Apart
    <2> QED BY <1>2, <1>6, <2>1, <2>2, <2>3, <2>6, SameCall
  <1> QED BY <1>5, <1>6 DEF Registers

\* What is called later is still where it was read.
LEMMA StaysDue ==
  ASSUME TextInv, clean, CleanInv, Passes, NEW c \in calls, NEW inside, Called(c, inside),
         NEW d \in calls, d # c, Registers(d) => items'[d[5]].as = <<>>
  PROVE  Due(d)'
  <1> USE DEF TextInv
  <1>1. Due(c) /\ Due(d) BY PassesStay
  <1>2. c \in Calls /\ d \in Calls BY CallType
  <1>3. entered' = <<c[1], c[2]>> /\ list_namespaces' = list_namespaces BY CalledIs
  <1>4. /\ DOMAIN items' = DOMAIN items /\ \A i \in DOMAIN items : items'[i].subs = items[i].subs
    BY DEF Passes, SameItems
  <1>5. d[1] = 3 => entered' # <<3, d[2]>>
    <2> SUFFICES ASSUME d[1] = 3, entered' = <<3, d[2]>> PROVE FALSE OBVIOUS
    <2>1. c[1] = 3 /\ c[2] = d[2] BY <1>3
    <2>2. c[3] = d[3] /\ c[4] = d[4] /\ c[5] = d[5] BY <1>1, <2>1 DEF Due
    <2>3. c = d BY <1>2, <2>1, <2>2, SameCall
    <2> QED BY <2>3
  <1>6. d[1] = 4 /\ d[4] = 0 => list_namespaces[d[2]].classes[1] \in DOMAIN items
    <2>1. d[2] \in DOMAIN list_namespaces BY CallType
    <2>2. d[1] = 4 /\ d[4] = 0 => list_namespaces[d[2]].classes # <<>> BY <1>1 DEF Due
    <2> QED BY <2>1, <2>2, InBuffers
  <1>7. d[1] = 2 => d[3] \in DOMAIN list_namespaces'[d[2]].values /\ d[5] = list_namespaces'[d[2]].values[d[3]]
    BY <1>1, <1>3 DEF Due
  <1>8. d[1] = 3 => /\ d[3] = 1 /\ d[4] = 0
                    /\ list_namespaces'[d[2]].functions # <<>>
                    /\ d[5] = list_namespaces'[d[2]].functions[1]
                    /\ entered' # <<3, d[2]>>
    BY <1>1, <1>3, <1>5 DEF Due
  <1>9. d[1] = 4 /\ d[4] = 0 => /\ d[3] = 1
                                /\ list_namespaces'[d[2]].classes # <<>>
                                /\ d[5] \in items'[list_namespaces'[d[2]].classes[1]].subs
    BY <1>1, <1>3, <1>4, <1>6 DEF Due
  <1> QED BY <1>7, <1>8, <1>9 DEF Due

\* What has not been done and is not what is called now is done later.
LEMMA StaysAwaited ==
  ASSUME TextInv, clean, CleanInv, Passes, NEW c \in calls, NEW inside, Called(c, inside), errors => errors',
         NEW i \in DOMAIN items,
         items'[i].analyzed # {} => items[i].analyzed # {} \/ (Analyzes(c) /\ c[5] = i),
         \A j \in DOMAIN items : items[j].analyzed # {} => items'[j].analyzed # {},
         c[1] = 1 => items'[c[5]].as # <<>>,
         c[1] = 2 => errors' \/ items'[c[5]].as # <<>>,
         Registers(c) => items'[c[5]].as # <<>>,
         Analyzes(c) =>
           \/ errors'
           \/ /\ items'[c[5]].analyzed # {}
              /\ \A j \in items[c[5]].subs : \E d \in inside : Analyzes(d) /\ d[5] = j
  PROVE  Awaited(i)'
  <1> USE DEF TextInv
  <1>1. Awaited(i) BY PassesStay
  <1>2. calls' = (calls \ {c}) \cup inside BY CalledIs
  <1>3. /\ \A j \in DOMAIN items : items'[j].is = items[j].is /\ items'[j].subs = items[j].subs
        /\ \A j \in DOMAIN items : items[j].as # <<>> => items'[j].as # <<>>
    BY DEF Passes, SameItems
  <1>4. \A d \in calls : d # c => d \in calls' BY <1>2
  <1>5. items[i].subs \subseteq DOMAIN items
    <2> SUFFICES ASSUME NEW j \in items[i].subs PROVE j \in DOMAIN items OBVIOUS
    <2>1. j \in i + 1 .. Len(items) BY DEF Owned
    <2> QED BY <2>1 DEF Typed
  <1>6. items'[i].is = "class" => items'[i].as # <<>> \/ \E d \in calls' : d[1] = 1 /\ d[5] = i
    BY <1>1, <1>3, <1>4 DEF Awaited
  <1>7. items'[i].is = "value" => errors' \/ items'[i].as # <<>> \/ \E d \in calls' : d[1] = 2 /\ d[5] = i
    BY <1>1, <1>3, <1>4 DEF Awaited
  <1>8. items'[i].is \in {"function", "method"} =>
          items'[i].as # <<>> \/ \E d \in calls' : Registers(d) /\ d[5] = i
    BY <1>1, <1>3, <1>4 DEF Awaited
  <1>9. items'[i].is \in {"function", "method"} =>
          errors' \/ items'[i].analyzed # {} \/ \E d \in calls' : Analyzes(d) /\ d[5] = i
    BY <1>1, <1>3, <1>4 DEF Awaited
  <1>10. ASSUME items'[i].is \in Functions, items'[i].analyzed # {}, NEW j \in items'[i].subs, ~errors'
         PROVE  items'[j].analyzed # {} \/ \E d \in calls' : Analyzes(d) /\ d[5] = j
    <2>1. j \in items[i].subs /\ j \in DOMAIN items /\ items[i].is \in Functions /\ ~errors BY <1>3, <1>5, <1>10
    <2>2. CASE items[i].analyzed # {}
      <3>1. items[j].analyzed # {} \/ \E d \in calls : Analyzes(d) /\ d[5] = j BY <1>1, <2>1, <2>2 DEF Awaited
      <3> QED BY <1>4, <1>10, <2>1, <3>1
    <2>3. CASE Analyzes(c) /\ c[5] = i BY <1>2, <1>10, <2>1, <2>3
    <2> QED BY <1>10, <2>2, <2>3
  <1> QED BY <1>6, <1>7, <1>8, <1>9, <1>10 DEF Awaited

\* What is called within the functions that are analyzed is not registered.
LEMMA InsideDue ==
  ASSUME NEW d, d[1] \in {4, 5}, d[1] = 4 => d[4] = 1
  PROVE  Due(d)' /\ ~Registers(d)
  BY DEF Due, Registers

\* The declaration of a class keeps the invariant.
LEMMA DeclareClassClean ==
  ASSUME TextInv, CleanInv, NEW c \in calls, DeclareClass(c)
  PROVE  CleanInv'
  <1> USE DEF TextInv
  <1> PICK x : x = c[5] OBVIOUS
  <1> PICK as : as = <<items[x].name>> OBVIOUS
  <1>1. /\ Passes /\ Called(c, {}) /\ phase' = phase
        /\ items' \in Seq(Declared) /\ Others(x)
        /\ items[x].is = "class"
        /\ items'[x] = [items[x] EXCEPT !.as = as]
        /\ UNCHANGED <<list_parentFunction, errors>>
    BY DeclareClassIs
  <1>2. c[1] = 1 BY DEF DeclareClass
  <1>3. x \in DOMAIN items /\ items[x] \in Declared /\ items[x].name \in Names BY CallType
  <1>4. as \in Seq(Names) /\ as # <<>> BY <1>3
  <1>5. /\ items'[x].is = items[x].is /\ items'[x].name = items[x].name /\ items'[x].within = items[x].within
        /\ items'[x].subs = items[x].subs /\ items'[x].own = items[x].own /\ items'[x].analyzed = items[x].analyzed
        /\ items'[x].as = as
    BY <1>1, <1>3, <1>4, AsType
  <1>6. /\ DOMAIN items' = DOMAIN items /\ \A i \in DOMAIN items : i # x => items'[i] = items[i]
    BY <1>1 DEF Others, Passes, SameItems
  <1>7. clean' <=> clean BY <1>1 DEF Passes, clean
  <1>8. SUFFICES ASSUME clean PROVE Counted' /\ InPlace' /\ Fresh' /\ Separate' /\ Placed' /\ Correctly' /\ InPasses'
    BY <1>7 DEF CleanInv
  <1>9. /\ Counted /\ InPlace' /\ Fresh' /\ Separate' /\ Placed'
        /\ \A i \in DOMAIN items : Here(i)' = Here(i) /\ Correct(i)
        /\ phase = "analyzing"
    BY <1>1, <1>8, PassesStay DEF Passes
  <1>10. Counted'
    <2>1. Waiting' = Waiting
      <3>1. \A i \in DOMAIN items :
              items'[i].is = items[i].is /\ (items[i].is \in Functions => items'[i].as = items[i].as)
        BY <1>1, <1>5, <1>6 DEF Functions
      <3> QED BY <1>6, <3>1, SameWait
    <2> QED BY <1>1, <1>9, <2>1 DEF Counted
  <1>11. Correctly'
    <2> SUFFICES ASSUME NEW i \in DOMAIN items PROVE Correct(i)' BY <1>6 DEF Correctly
    <2>1. Correct(i) BY <1>9
    <2>2. CASE i # x BY <1>1, <1>6, <1>9, <2>1, <2>2 DEF Correct, Passes
    <2>3. CASE i = x
      <3>1. items'[i].is = "class" /\ items'[i].as = <<items'[i].name>> /\ phase' # "parsing"
        BY <1>1, <1>5, <1>9, <2>3
      <3> QED BY <3>1 DEF Correct
    <2> QED BY <2>2, <2>3
  <1>12. InPasses'
    <2>1. ASSUME NEW d \in calls' PROVE Due(d)'
      <3>1. d \in calls /\ d # c BY <1>1, <2>1, CalledIs
      <3>2. Registers(d) => items'[d[5]].as = <<>>
        <4> SUFFICES ASSUME Registers(d) PROVE items'[d[5]].as = <<>> OBVIOUS
        <4>1. items[d[5]].as = <<>> BY <1>1, <1>8, <3>1, PassesStay DEF Due
        <4>2. CanBeCalled(d) BY <3>1, AllCallable
        <4>3. d[5] # x BY <1>1, <4>2 DEF CanBeCalled, Registers
        <4>4. d[5] \in DOMAIN items BY <4>2 DEF CanBeCalled
        <4> QED BY <1>6, <4>1, <4>3, <4>4
      <3> QED BY <1>1, <1>8, <3>1, <3>2, StaysDue
    <2>2. ASSUME NEW i \in DOMAIN items PROVE Awaited(i)'
      <3>1. \A j \in DOMAIN items : items'[j].analyzed = items[j].analyzed BY <1>5, <1>6
      <3>2. ~Registers(c) /\ ~Analyzes(c) BY <1>2 DEF Registers, Analyzes
      <3> QED BY <1>1, <1>2, <1>4, <1>5, <1>8, <3>1, <3>2, StaysAwaited
    <2>3. entered'[1] # 2 BY <1>1, <1>2, CalledIs
    <2> QED BY <1>6, <2>1, <2>2, <2>3 DEF InPasses
  <1> QED BY <1>9, <1>10, <1>11, <1>12

\* The declaration of a variable keeps the invariant.
LEMMA DeclareValueClean ==
  ASSUME TextInv, CleanInv, NEW c \in calls, DeclareValue(c)
  PROVE  CleanInv'
  <1> USE DEF TextInv
  <1> PICK x : x = c[5] OBVIOUS
  <1> PICK as : as = Append(Within(c).path, items[x].name) OBVIOUS
  <1>1. /\ Passes /\ Called(c, {}) /\ phase' = phase
        /\ c[1] = 2 /\ items[x].is = "value"
        /\ \/ items' = items /\ errors'
           \/ /\ items' \in Seq(Declared) /\ Others(x)
              /\ items'[x] = [items[x] EXCEPT !.as = as]
        /\ currentNameSpace' = Within(c)
        /\ UNCHANGED list_parentFunction
        /\ errors => errors'
    BY DeclareValueIs
  <1>2. /\ x \in DOMAIN items /\ items[x] \in Declared /\ items[x].name \in Names /\ c[2] \in DOMAIN list_namespaces
    BY CallType
  <1>3. Within(c).path \in Seq(Names) BY WithinType
  <1>4. as \in Seq(Names) /\ as # <<>> BY <1>2, <1>3, Appended
  <1>5. [items[x] EXCEPT !.as = as].is = items[x].is /\ [items[x] EXCEPT !.as = as].name = items[x].name
        /\ [items[x] EXCEPT !.as = as].within = items[x].within
        /\ [items[x] EXCEPT !.as = as].own = items[x].own /\ [items[x] EXCEPT !.as = as].analyzed = items[x].analyzed
        /\ [items[x] EXCEPT !.as = as].as = as
    BY <1>2, <1>4, AsType
  <1>6. /\ DOMAIN items' = DOMAIN items
        /\ \A i \in DOMAIN items : i # x => items'[i] = items[i]
        /\ items'[x].analyzed = items[x].analyzed
        /\ items'[x].as = as \/ (items' = items /\ errors')
    BY <1>1, <1>5 DEF Others, Passes, SameItems
  <1>7. clean' <=> clean BY <1>1 DEF Passes, clean
  <1>8. SUFFICES ASSUME clean PROVE Counted' /\ InPlace' /\ Fresh' /\ Separate' /\ Placed' /\ Correctly' /\ InPasses'
    BY <1>7 DEF CleanInv
  <1>9. /\ Counted /\ InPlace' /\ Fresh' /\ Separate' /\ Placed' /\ InPasses
        /\ \A i \in DOMAIN items : Here(i)' = Here(i) /\ Correct(i)
        /\ phase = "analyzing" /\ Due(c) /\ Single(c[2])
    BY <1>1, <1>2, <1>8, PassesStay DEF Passes
  <1>10. Within(c) = Ref(list_namespaces[c[2]].path, c[2])
    <2>1. entered # <<c[1], c[2]>> => Within(c) = Ref(list_namespaces[c[2]].path, c[2]) BY WithinType
    <2>2. entered = <<c[1], c[2]>> => Within(c) = currentNameSpace BY WithinType
    <2>3. entered[1] = 2 => currentNameSpace = Ref(list_namespaces[entered[2]].path, entered[2]) BY <1>9 DEF InPasses
    <2>4. entered = <<c[1], c[2]>> => entered[1] = 2 /\ entered[2] = c[2] BY <1>1
    <2> QED BY <2>1, <2>2, <2>3, <2>4
  <1>11. as = Here(x)
    <2>1. c[3] \in DOMAIN list_namespaces[c[2]].values /\ x = list_namespaces[c[2]].values[c[3]] BY <1>1, <1>9 DEF Due
    <2>2. items[x].within = list_namespaces[c[2]].path BY <1>9, <2>1 DEF Single
    <2>3. Within(c).path = list_namespaces[c[2]].path BY <1>10 DEF Ref
    <2> QED BY <2>2, <2>3 DEF Here
  <1>12. Counted'
    <2>1. Waiting' = Waiting
      <3>1. \A i \in DOMAIN items :
              items'[i].is = items[i].is /\ (items[i].is \in Functions => items'[i].as = items[i].as)
        BY <1>1, <1>5, <1>6 DEF Functions
      <3> QED BY <1>6, <3>1, SameWait
    <2> QED BY <1>1, <1>9, <2>1 DEF Counted
  <1>13. Correctly'
    <2> SUFFICES ASSUME NEW i \in DOMAIN items PROVE Correct(i)' BY <1>6 DEF Correctly
    <2>1. Correct(i) BY <1>9
    <2>2. CASE items'[i] = items[i] BY <1>1, <1>9, <2>1, <2>2 DEF Correct, Passes
    <2>3. CASE items'[i] # items[i]
      <3>1. i = x /\ items'[x].as = as BY <1>6, <2>3
      <3>2. items'[i].is = "value" /\ items'[i].as = Here(i)' /\ phase' # "parsing"
        BY <1>1, <1>5, <1>9, <1>11, <2>3, <3>1 DEF Passes, SameItems
      <3> QED BY <3>2 DEF Correct
    <2> QED BY <2>2, <2>3
  <1>14. InPasses'
    <2>1. ASSUME NEW d \in calls' PROVE Due(d)'
      <3>1. d \in calls /\ d # c BY <1>1, <2>1, CalledIs
      <3>2. Registers(d) => items'[d[5]].as = <<>>
        <4> SUFFICES ASSUME Registers(d) PROVE items'[d[5]].as = <<>> OBVIOUS
        <4>1. items[d[5]].as = <<>> BY <1>1, <1>8, <3>1, PassesStay DEF Due
        <4>2. CanBeCalled(d) BY <3>1, AllCallable
        <4>3. d[5] # x BY <1>1, <4>2 DEF CanBeCalled, Registers
        <4>4. d[5] \in DOMAIN items BY <4>2 DEF CanBeCalled
        <4> QED BY <1>6, <4>1, <4>3, <4>4
      <3> QED BY <1>1, <1>8, <3>1, <3>2, StaysDue
    <2>2. ASSUME NEW i \in DOMAIN items PROVE Awaited(i)'
      <3>1. \A j \in DOMAIN items : items'[j].analyzed = items[j].analyzed BY <1>6
      <3>2. ~Registers(c) /\ ~Analyzes(c) /\ c[1] # 1 BY <1>1 DEF Registers, Analyzes
      <3>3. errors' \/ items'[c[5]].as # <<>> BY <1>4, <1>6
      <3> QED BY <1>1, <1>8, <3>1, <3>2, <3>3, StaysAwaited
    <2>3. currentNameSpace' = Ref(list_namespaces'[entered'[2]].path, entered'[2])
      <3>1. entered' = <<c[1], c[2]>> /\ list_namespaces' = list_namespaces BY <1>1, CalledIs
      <3> QED BY <1>1, <1>10, <3>1
    <2> QED BY <1>6, <2>1, <2>2, <2>3 DEF InPasses
  <1> QED BY <1>9, <1>12, <1>13, <1>14

\* A function that is registered gets the name and the namespace it is written with.
LEMMA RegistersAsWritten ==
  ASSUME TextInv, clean, CleanInv, NEW c \in calls, PushCompiler(c), c[1] = 3, list_parentFunction # <<>>
  PROVE  /\ Within(c).index \in DOMAIN list_namespaces
         /\ Within(c).path = Here(c[5]) /\ list_namespaces[Within(c).index].path = Here(c[5])
         /\ Append(currentNameSpace'.path, items[c[5]].name) = Here(c[5])
  <1> USE DEF TextInv
  <1> PICK x : x = c[5] OBVIOUS
  <1> PICK w : w = Within(c) OBVIOUS
  <1>1. Passes /\ PopAnalyzeFunction(w)
    <2>1. \E as \in Seq(Names) : Passes /\ PopAnalyzeFunction(Within(c)) BY PushCompilerIs
    <2> QED BY <2>1
  <1>2. c[2] \in DOMAIN list_namespaces /\ c[2] \in Nat /\ x \in DOMAIN items /\ items[x] \in Declared BY CallType
  <1>3. Due(c) /\ Single(c[2]) BY <1>1, <1>2, PassesStay
  <1>4. w = Ref(list_namespaces[c[2]].path, c[2])
    <2>1. entered # <<c[1], c[2]>> BY <1>3 DEF Due
    <2> QED BY <2>1, WithinType
  <1>5. list_namespaces[c[2]].path = Here(x)
    <2>1. list_namespaces[c[2]].functions # <<>> /\ list_namespaces[c[2]].functions[1] = x BY <1>3 DEF Due
    <2> QED BY <1>2, <1>3, <2>1 DEF Single
  <1>6. w \in Refs /\ w.path = Here(x) /\ w.index = c[2]
    <2>1. w.path = list_namespaces[c[2]].path /\ w.index = c[2] BY <1>4 DEF Ref
    <2> QED BY <1>5, <2>1, WithinType
  <1>7. items[x].within \in Seq(Names) /\ items[x].name \in Names BY <1>2 DEF Declared
  <1>8. w.path # <<>> /\ Front(w.path) = items[x].within BY <1>6, <1>7, Appended, FrontAppended DEF Here
  <1>9. Refers(w)
    <2>1. Len(list_namespaces) \in Nat /\ DOMAIN list_namespaces = 1 .. Len(list_namespaces) BY DEF Typed
    <2> QED BY <1>2, <1>5, <1>6, <1>8, <2>1 DEF Refers
  <1>10. currentNameSpace' = PopNameSpace(w) BY <1>1 DEF PopAnalyzeFunction
  <1>11. currentNameSpace'.path = items[x].within BY <1>6, <1>8, <1>9, <1>10, PopRefers
  <1> QED BY <1>2, <1>5, <1>6, <1>11 DEF Here

\* Registering a function keeps the invariant.
LEMMA PushCompilerClean ==
  ASSUME TextInv, CleanInv, NEW c \in calls, PushCompiler(c)
  PROVE  CleanInv'
  <1> USE DEF TextInv
  <1> PICK x : x = c[5] OBVIOUS
  <1> PICK w : w = Within(c) OBVIOUS
  <1>1. PICK as \in Seq(Names) :
         /\ Passes /\ Called(c, {}) /\ phase' = phase
         /\ Registers(c) /\ items[x].is \in {"function", "method"}
         /\ items' \in Seq(Declared) /\ Others(x)
         /\ items'[x] = Registered(x, w, as)
         /\ as # <<>>
         /\ c[1] = 4 => as = <<items[x].name>>
         /\ c[1] # 4 => as = Append(currentNameSpace'.path, items[x].name)
         /\ PopAnalyzeFunction(w)
         /\ UNCHANGED errors
    BY PushCompilerIs
  <1>2. x \in DOMAIN items /\ w \in Refs BY CallType, WithinType
  <1>3. /\ items'[x].is = items[x].is /\ items'[x].name = items[x].name /\ items'[x].within = items[x].within
        /\ items'[x].subs = items[x].subs /\ items'[x].analyzed = items[x].analyzed
        /\ items'[x].own = w /\ items'[x].as = as
    <2>1. Typed /\ as \in Seq(Names) OBVIOUS
    <2>2. items'[x] = Registered(x, w, as) BY <1>1
    <2> HIDE DEF TextInv
    <2>3. Registered(x, w, as).is = items[x].is /\ Registered(x, w, as).name = items[x].name
      BY <1>2, <2>1, RegisteredType
    <2>4. Registered(x, w, as).within = items[x].within /\ Registered(x, w, as).subs = items[x].subs
      BY <1>2, <2>1, RegisteredType
    <2>5. Registered(x, w, as).analyzed = items[x].analyzed BY <1>2, <2>1, RegisteredType
    <2>6. Registered(x, w, as).own = w /\ Registered(x, w, as).as = as BY <1>2, <2>1, RegisteredType
    <2> QED BY <2>2, <2>3, <2>4, <2>5, <2>6
  <1>4. /\ DOMAIN items' = DOMAIN items /\ \A i \in DOMAIN items : i # x => items'[i] = items[i]
        /\ list_namespaces' = list_namespaces
    BY <1>1 DEF Others, Passes, SameItems
  <1>5. clean' <=> clean BY <1>1 DEF Passes, clean
  <1>6. SUFFICES ASSUME clean PROVE Counted' /\ InPlace' /\ Fresh' /\ Separate' /\ Placed' /\ Correctly' /\ InPasses'
    BY <1>5 DEF CleanInv
  <1>7. /\ Counted /\ InPlace' /\ Fresh' /\ Separate' /\ Placed'
        /\ \A i \in DOMAIN items : Here(i)' = Here(i) /\ Correct(i)
        /\ phase = "analyzing" /\ Due(c)
    BY <1>1, <1>6, PassesStay DEF Passes
  <1>8. x \in Waiting BY <1>1, <1>2, <1>7 DEF Due, Waiting, Functions
  <1>9. list_parentFunction # <<>> /\ list_parentFunction \in Seq(Nat) /\ Cardinality(Waiting) = Len(list_parentFunction)
    <2>1. Len(list_parentFunction) = Cardinality(Waiting) BY <1>7 DEF Counted
    <2> PICK W : W = Waiting \ {x} OBVIOUS
    <2>2. Cardinality(Waiting) >= 1 BY <1>8, OneFewer
    <2>3. list_parentFunction \in Seq(Nat) BY DEF Typed
    <2>4. list_parentFunction # <<>>
      <3>1. SUFFICES ASSUME list_parentFunction = <<>> PROVE FALSE OBVIOUS
      <3>2. Len(list_parentFunction) = 0 BY <3>1
      <3> QED BY <2>1, <2>2, <3>2
    <2> QED BY <2>1, <2>3, <2>4
  <1>10. Counted'
    <2>1. list_parentFunction' = Front(list_parentFunction) BY <1>1, <1>9 DEF PopAnalyzeFunction
    <2>2. Len(list_parentFunction') = Len(list_parentFunction) - 1 BY <1>9, <2>1, FrontOf
    <2>3. Waiting' = Waiting \ {x}
      <3>1. \A i : i \in Waiting' <=> i \in DOMAIN items' /\ items'[i].is \in Functions /\ items'[i].as = <<>> BY DEF Waiting
      <3>2. \A i : i \in Waiting <=> i \in DOMAIN items /\ items[i].is \in Functions /\ items[i].as = <<>> BY DEF Waiting
      <3>3. \A i : i \in Waiting' <=> i \in Waiting /\ i # x
        <4> SUFFICES ASSUME NEW i \in DOMAIN items PROVE i \in Waiting' <=> i \in Waiting /\ i # x BY <1>4, <3>1, <3>2
        <4>1. CASE i = x BY <1>1, <1>3, <3>1, <4>1
        <4>2. CASE i # x BY <1>4, <3>1, <3>2, <4>2
        <4> QED BY <4>1, <4>2
      <3> QED BY <3>3
    <2>4. Cardinality(Waiting') = Cardinality(Waiting) - 1
      <3> DEFINE W == Waiting'
      <3>1. W = Waiting \ {x} BY <2>3
      <3> HIDE DEF W
      <3>2. Cardinality(W) = Cardinality(Waiting) - 1 BY <1>8, <3>1, OneFewer
      <3> QED BY <3>2 DEF W
    <2> QED BY <1>9, <2>2, <2>4 DEF Counted
  <1>11. Correctly'
    <2> SUFFICES ASSUME NEW i \in DOMAIN items PROVE Correct(i)' BY <1>4 DEF Correctly
    <2>1. Correct(i) BY <1>7
    <2>2. CASE i # x BY <1>1, <1>4, <1>7, <2>1, <2>2 DEF Correct
    <2>3. CASE i = x /\ items[x].is = "function"
      <3>1. CanBeCalled(c) BY AllCallable
      <3>2. c[1] = 3 BY <1>1, <2>3, <3>1 DEF CanBeCalled, Registers
      <3>3. /\ w.index \in DOMAIN list_namespaces
            /\ w.path = Here(x) /\ list_namespaces[w.index].path = Here(x)
            /\ as = Here(x)
        <4>1. /\ Within(c).index \in DOMAIN list_namespaces
              /\ Within(c).path = Here(c[5]) /\ list_namespaces[Within(c).index].path = Here(c[5])
              /\ Append(currentNameSpace'.path, items[c[5]].name) = Here(c[5])
          BY <1>6, <1>9, <3>2, RegistersAsWritten
        <4>2. c[1] # 4 BY <3>2
        <4>3. as = Append(currentNameSpace'.path, items[x].name) BY <1>1, <4>2, Zenon
        <4> QED BY <4>1, <4>3
      <3>4. items[x].analyzed = {} BY <1>7, <1>8, <2>1, <2>3 DEF Correct, Waiting
      <3>5. Here(x)' = Here(x) BY <1>2, <1>7
      <3> QED BY <1>1, <1>3, <1>4, <1>7, <2>3, <3>3, <3>4, <3>5 DEF Correct
    <2>4. CASE i = x /\ items[x].is = "method"
      <3>1. CanBeCalled(c) BY AllCallable
      <3>2. c[1] = 4 BY <1>1, <2>4, <3>1 DEF CanBeCalled, Registers
      <3>3. items'[x].as = <<items'[x].name>> BY <1>1, <1>3, <3>2
      <3>4. items[x].analyzed = {} \/ \E r \in items[x].analyzed : items[x].analyzed = {r} BY <2>1, <2>4 DEF Correct
      <3>5. items'[x].is = "method" /\ phase' # "parsing" BY <1>1, <1>3, <1>7, <2>4
      <3> QED BY <1>3, <2>4, <3>3, <3>4, <3>5 DEF Correct
    <2> QED BY <1>1, <2>2, <2>3, <2>4
  <1>12. InPasses'
    <2>1. ASSUME NEW d \in calls' PROVE Due(d)'
      <3>1. d \in calls /\ d # c BY <1>1, <2>1, CalledIs
      <3>2. Registers(d) => items'[d[5]].as = <<>>
        <4> SUFFICES ASSUME Registers(d) PROVE items'[d[5]].as = <<>> OBVIOUS
        <4>1. items[d[5]].as = <<>> BY <1>1, <1>6, <3>1, PassesStay DEF Due
        <4>2. d[5] # x BY <1>1, <1>6, <3>1, RegisteredOnce
        <4>3. d[5] \in DOMAIN items BY <3>1, CallType
        <4> QED BY <1>4, <4>1, <4>2, <4>3
      <3> QED BY <1>1, <1>6, <3>1, <3>2, StaysDue
    <2>2. ASSUME NEW i \in DOMAIN items PROVE Awaited(i)'
      <3>1. \A j \in DOMAIN items : items'[j].analyzed = items[j].analyzed BY <1>3, <1>4
      <3>2. ~Analyzes(c) /\ c[1] # 1 /\ c[1] # 2 BY <1>1 DEF Registers, Analyzes
      <3>3. items'[c[5]].as # <<>> BY <1>1, <1>3
      <3> QED BY <1>1, <1>6, <3>1, <3>2, <3>3, StaysAwaited
    <2>3. entered'[1] # 2
      <3>1. entered' = <<c[1], c[2]>> BY <1>1, CalledIs
      <3>2. c[1] # 2 BY <1>1 DEF Registers
      <3> QED BY <3>1, <3>2
    <2> QED BY <1>4, <2>1, <2>2, <2>3 DEF InPasses
  <1> QED BY <1>7, <1>10, <1>11, <1>12

\* Functions and functions in functions are registered before they are analyzed.
LEMMA RegisteredBefore ==
  ASSUME TextInv, clean, CleanInv, Passes, NEW c \in calls, Analyzes(c), \A d \in calls : ~Before(d, c),
         items[c[5]].is # "method"
  PROVE  items[c[5]].as # <<>>
  <1> USE DEF TextInv
  <1> PICK x : x = c[5] OBVIOUS
  <1>1. x \in DOMAIN items /\ c[1] \in Nat /\ c[4] \in Nat BY CallType
  <1>2. Found(x) /\ Awaited(x) /\ ~Unfinished(x) BY <1>1, PassesStay
  <1>3. CanBeCalled(c) BY AllCallable
  <1>4. items[x].is \in Functions BY <1>3 DEF CanBeCalled, Analyzes, Functions
  <1>5. items[x].is = "sub" => items[x].as # <<>> BY <1>2 DEF Found
  <1>6. items[x].is = "function" => items[x].as # <<>>
    <2> SUFFICES ASSUME items[x].is = "function", items[x].as = <<>> PROVE FALSE OBVIOUS
    <2>1. PICK d \in calls : Registers(d) /\ d[5] = x BY <1>2 DEF Awaited
    <2>2. CanBeCalled(d) BY AllCallable
    <2>3. d[1] = 3 BY <2>1, <2>2 DEF CanBeCalled, Registers
    <2>4. c[1] = 5 BY <1>3 DEF CanBeCalled, Analyzes
    <2>5. Before(d, c)
      <3>1. d[1] < c[1] /\ \A l \in 1 .. 1 - 1 : d[l] = c[l] BY <2>3, <2>4
      <3>2. 1 \in 1 .. 5 OBVIOUS
      <3> QED BY <3>1, <3>2 DEF Before
    <2> QED BY <2>5
  <1> QED BY <1>4, <1>5, <1>6 DEF Functions

\* Analyzing a function keeps the invariant.
LEMMA AnalyzeFunctionClean ==
  ASSUME TextInv, CleanInv, NEW c \in calls, AnalyzeFunction(c)
  PROVE  CleanInv'
  <1> USE DEF TextInv
  <1> PICK x : x = c[5] OBVIOUS
  <1> PICK o : o = OwnNameSpace(c) OBVIOUS
  <1> PICK inside : inside = {<<c[1], c[2], c[3], c[4], j>> : j \in items[x].subs} OBVIOUS
  <1>1. /\ Passes /\ Called(c, inside)
        /\ Analyzes(c)
        /\ items' \in Seq(Declared) /\ Others(x)
        /\ o \in Refs
        /\ items'[x] = [items[x] EXCEPT !.analyzed = {o}]
        /\ UNCHANGED <<list_parentFunction, errors>>
    BY AnalyzeFunctionIs
  <1>2. x \in DOMAIN items /\ items[x] \in Declared BY CallType
  <1>3. /\ items'[x].is = items[x].is /\ items'[x].name = items[x].name /\ items'[x].within = items[x].within
        /\ items'[x].subs = items[x].subs /\ items'[x].own = items[x].own /\ items'[x].as = items[x].as
        /\ items'[x].analyzed = {o}
    BY <1>1, <1>2, AnalyzedType
  <1>4. /\ DOMAIN items' = DOMAIN items /\ \A i \in DOMAIN items : i # x => items'[i] = items[i]
        /\ list_namespaces' = list_namespaces
    BY <1>1 DEF Others, Passes, SameItems
  <1>5. clean' <=> clean BY <1>1 DEF Passes, clean
  <1>6. SUFFICES ASSUME clean PROVE Counted' /\ InPlace' /\ Fresh' /\ Separate' /\ Placed' /\ Correctly' /\ InPasses'
    BY <1>5 DEF CleanInv
  <1>7. /\ Counted /\ InPlace' /\ Fresh' /\ Separate' /\ Placed'
        /\ \A i \in DOMAIN items : Here(i)' = Here(i) /\ Correct(i)
        /\ phase = "analyzing" /\ phase' # "parsing"
    BY <1>1, <1>6, PassesStay DEF Passes
  <1>8. Counted'
    <2>1. Waiting' = Waiting
      <3>1. \A i \in DOMAIN items : items'[i].is = items[i].is /\ items'[i].as = items[i].as
        BY <1>3, <1>4
      <3> QED BY <1>4, <3>1, SameWait
    <2>2. phase' # "crashed" => phase # "crashed" BY <1>7
    <2> QED BY <1>1, <1>7, <2>1, <2>2 DEF Counted
  <1>9. \A d \in calls : ~Before(d, c) BY <1>1, CalledIs
  <1>10. Correctly'
    <2> SUFFICES ASSUME NEW i \in DOMAIN items PROVE Correct(i)' BY <1>4 DEF Correctly
    <2>1. Correct(i) BY <1>7
    <2>2. CASE i # x BY <1>4, <1>7, <2>1, <2>2 DEF Correct
    <2>3. CASE i = x /\ items[x].is = "method"
      <3>1. items'[x].is = "method" /\ items'[x].analyzed = {o} BY <1>3, <2>3
      <3>2. items'[x].as # <<>> => items'[x].as = <<items'[x].name>> BY <1>3, <2>1, <2>3 DEF Correct
      <3>3. \E r \in items'[x].analyzed : items'[x].analyzed = {r} BY <3>1
      <3> QED BY <1>7, <2>3, <3>1, <3>2, <3>3 DEF Correct
    <2>4. CASE i = x /\ items[x].is # "method"
      <3>1. items[x].as # <<>> BY <1>1, <1>6, <1>9, <2>4, RegisteredBefore
      <3>2. items[x].is \in {"function", "sub"}
        <4>1. CanBeCalled(c) BY AllCallable
        <4> QED BY <1>1, <2>4, <4>1 DEF CanBeCalled, Analyzes, Functions
      <3>3. items[x].own.path = Here(x) BY <2>1, <2>4, <3>1, <3>2 DEF Correct
      <3>4. o = items[x].own
        <4>1. Here(x) # <<>> BY <1>2, Appended DEF Here, Declared
        <4>2. Nowhere.path = <<>> BY Consts
        <4> QED BY <3>3, <4>1, <4>2 DEF OwnNameSpace
      <3>5. Here(x)' = Here(x) BY <1>2, <1>7
      <3> QED BY <1>3, <1>4, <1>7, <2>1, <2>4, <3>1, <3>2, <3>4, <3>5 DEF Correct
    <2> QED BY <2>2, <2>3, <2>4
  <1>11. InPasses'
    <2>0. \A d \in inside : d \in calls' BY <1>1, CalledIs
    <2>1. ASSUME NEW d \in calls' PROVE Due(d)'
      <3>1. (d \in calls /\ d # c) \/ d \in inside BY <1>1, <2>1, CalledIs
      <3>2. CASE d \in inside
        <4>1. d[1] = c[1] /\ d[4] = c[4] BY <1>1, <3>2, InsideCalls
        <4>2. d[1] \in {4, 5} /\ (d[1] = 4 => d[4] = 1) BY <1>1, <4>1 DEF Analyzes
        <4> QED BY <4>2, InsideDue
      <3>3. CASE d \in calls /\ d # c
        <4>1. Registers(d) => items'[d[5]].as = <<>>
          <5>1. d[5] \in DOMAIN items BY <3>3, CallType
          <5>2. Due(d) BY <1>1, <1>6, <3>3, PassesStay
          <5> QED BY <1>3, <1>4, <5>1, <5>2 DEF Due
        <4> QED BY <1>1, <1>6, <3>3, <4>1, StaysDue
      <3> QED BY <3>1, <3>2, <3>3
    <2>2. ASSUME NEW i \in DOMAIN items PROVE Awaited(i)'
      <3>1. \A j \in DOMAIN items : j # x => items'[j].analyzed = items[j].analyzed BY <1>4
      <3>2. ~Registers(c) /\ c[1] # 1 /\ c[1] # 2 BY <1>1 DEF Registers, Analyzes
      <3>3. items'[c[5]].analyzed # {} BY <1>3
      <3>4. \A j \in items[c[5]].subs : \E d \in inside : Analyzes(d) /\ d[5] = j
        <4> SUFFICES ASSUME NEW j \in items[x].subs PROVE \E d \in inside : Analyzes(d) /\ d[5] = j OBVIOUS
        <4> PICK d : d = <<c[1], c[2], c[3], c[4], j>> OBVIOUS
        <4>1. d \in inside OBVIOUS
        <4>2. d[1] = c[1] /\ d[4] = c[4] /\ d[5] = j OBVIOUS
        <4> QED BY <1>1, <4>1, <4>2 DEF Analyzes
      <3>5. items'[i].analyzed # {} => items[i].analyzed # {} \/ (Analyzes(c) /\ c[5] = i) BY <1>1, <3>1
      <3>6. \A j \in DOMAIN items : items[j].analyzed # {} => items'[j].analyzed # {} BY <3>1, <3>3
      <3>7. Passes /\ Called(c, inside) /\ (errors => errors') BY <1>1
      <3> HIDE DEF TextInv
      <3> QED BY <1>6, <3>2, <3>3, <3>4, <3>5, <3>6, <3>7, StaysAwaited, Zenon
    <2>3. entered'[1] # 2
      <3>1. entered' = <<c[1], c[2]>> BY <1>1, CalledIs
      <3>2. c[1] # 2 BY <1>1 DEF Analyzes
      <3> QED BY <3>1, <3>2
    <2> QED BY <1>4, <2>1, <2>2, <2>3 DEF InPasses
  <1> QED BY <1>7, <1>8, <1>10, <1>11

\* A second definition keeps the invariant.
LEMMA DefinedTwiceClean ==
  ASSUME TextInv, CleanInv, NEW c \in calls, DefinedTwice(c)
  PROVE  CleanInv'
  <1> USE DEF TextInv
  <1>1. /\ Passes /\ Called(c, {}) /\ phase' = phase
        /\ errors' = TRUE
        /\ Analyzes(c)
        /\ UNCHANGED <<items, list_parentFunction>>
    BY DefinedTwiceIs
  <1>2. list_namespaces' = list_namespaces BY <1>1 DEF Passes
  <1>3. clean' <=> clean BY <1>1 DEF Passes, clean
  <1>4. SUFFICES ASSUME clean PROVE Counted' /\ InPlace' /\ Fresh' /\ Separate' /\ Placed' /\ Correctly' /\ InPasses'
    BY <1>3 DEF CleanInv
  <1>5. /\ Counted /\ InPlace' /\ Fresh' /\ Separate' /\ Placed'
        /\ \A i \in DOMAIN items : Here(i)' = Here(i) /\ Correct(i)
        /\ phase = "analyzing"
    BY <1>1, <1>4, PassesStay DEF Passes
  <1>6. Counted'
    <2>1. Waiting' = Waiting BY <1>1 DEF Waiting
    <2> QED BY <1>1, <1>5, <2>1 DEF Counted
  <1>7. Correctly'
    <2> SUFFICES ASSUME NEW i \in DOMAIN items PROVE Correct(i)' BY <1>1 DEF Correctly
    <2>1. Correct(i) BY <1>5
    <2> QED BY <1>1, <1>2, <1>5, <2>1 DEF Correct
  <1>8. InPasses'
    <2>1. ASSUME NEW d \in calls' PROVE Due(d)'
      <3>1. d \in calls /\ d # c BY <1>1, <2>1, CalledIs
      <3>2. Registers(d) => items'[d[5]].as = <<>> BY <1>1, <1>4, <3>1, PassesStay DEF Due
      <3> QED BY <1>1, <1>4, <3>1, <3>2, StaysDue
    <2>2. ASSUME NEW i \in DOMAIN items PROVE Awaited(i)'
      <3>1. ~Registers(c) /\ c[1] # 1 /\ c[1] # 2 BY <1>1 DEF Registers, Analyzes
      <3>2. /\ items'[i].analyzed = items[i].analyzed
            /\ \A j \in DOMAIN items : items'[j].analyzed = items[j].analyzed
            /\ errors'
        BY <1>1
      <3> QED BY <1>1, <1>4, <3>1, <3>2, StaysAwaited
    <2>3. entered'[1] # 2
      <3>1. entered' = <<c[1], c[2]>> BY <1>1, CalledIs
      <3>2. c[1] # 2 BY <1>1 DEF Analyzes
      <3> QED BY <3>1, <3>2
    <2> QED BY <1>1, <2>1, <2>2, <2>3 DEF InPasses
  <1> QED BY <1>5, <1>6, <1>7, <1>8

-----------------------------------------------------------------------------
(***************************************************************************)
(* From script to script.                                                  *)
(***************************************************************************)
\* With nothing read, and only the global namespace, there is nothing to be wrong.
LEMMA NothingRead ==
  ASSUME items' = <<>>, list_namespaces' = <<Entry(<<>>, Nowhere)>>, open' = <<>>, phase' # "analyzing",
         list_parentFunction' = <<>>, currentNameSpace' = Global
  PROVE  CleanInv'
  <1>1. /\ DOMAIN list_namespaces' = {1}
        /\ list_namespaces'[1].functions = <<>> /\ list_namespaces'[1].classes = <<>>
        /\ list_namespaces'[1].values = <<>>
    BY FirstSpace
  <1>2. DOMAIN items' = {} /\ DOMAIN open' = {}
    <2>1. DOMAIN <<>> = {} OBVIOUS
    <2> QED BY <2>1
  <1>3. Counted'
    <2>1. Waiting' = {} BY <1>2 DEF Waiting
    <2>2. Cardinality({}) = 0 BY FS_EmptySet
    <2>3. Len(<<>>) = 0 OBVIOUS
    <2> QED BY <2>1, <2>2, <2>3 DEF Counted
  <1>4. InPlace'
    <2>1. currentNameSpace'.path = <<>> /\ currentNameSpace'.index # 0 BY Consts
    <2>2. Written' = <<>>
      <3>1. Written' = [p \in {} |-> open'[p].name] BY <1>2 DEF Written
      <3>2. [p \in {} |-> open'[p].name] = <<>> OBVIOUS
      <3> QED BY <3>1, <3>2
    <2> QED BY <1>1, <2>1, <2>2 DEF InPlace
  <1>5. Fresh' BY <1>2 DEF Fresh
  <1>6. Separate'
    <2>1. Single(1)'
      <3>1. Len(<<>>) = 0 /\ 0 <= 1 /\ DOMAIN <<>> = {} OBVIOUS
      <3>2. Len(list_namespaces'[1].functions) <= 1 /\ Len(list_namespaces'[1].classes) <= 1
        BY <1>1, <3>1
      <3> QED BY <1>1, <1>2, <3>1, <3>2 DEF Single
    <2>2. Apart(1, 1)' BY DEF Apart
    <2> QED BY <1>1, <2>1, <2>2 DEF Separate
  <1>7. Placed' /\ Correctly' BY <1>2 DEF Placed, Correctly
  <1>8. InPasses' BY DEF InPasses
  <1> QED BY <1>3, <1>4, <1>5, <1>6, <1>7, <1>8 DEF CleanInv

\* Nothing is left between two scripts.
LEMMA LeftIdle ==
  ASSUME TextInv, clean, CleanInv, items = <<>>, phase # "crashed"
  PROVE  list_parentFunction = <<>>
  <1>1. list_parentFunction \in Seq(Nat) BY DEF TextInv, Typed
  <1>2. Waiting = {}
    <2>1. DOMAIN items = {} OBVIOUS
    <2> QED BY <2>1 DEF Waiting
  <1>3. Len(list_parentFunction) = 0 BY <1>2, FS_EmptySet DEF CleanInv, Counted
  <1> QED BY <1>1, <1>3

\* The start of a script, and one that cannot be opened.
LEMMA CompileClean ==
  ASSUME TextInv, CleanInv, Compile \/ CannotOpen
  PROVE  CleanInv'
  <1> USE DEF TextInv
  <1>1. /\ UNCHANGED <<list_namespaces, currentNameSpace, list_parentFunction, unclean>>
        /\ items' = <<>> /\ open' = <<>> /\ items = <<>> /\ open = <<>>
        /\ phase \in {"idle", "parsing"} /\ phase' \in {"idle", "parsing"}
    BY DEF Compile, CannotOpen, Idle
  <1>2. SUFFICES ASSUME clean PROVE CleanInv'
    BY <1>1 DEF CleanInv, clean
  <1>3. list_parentFunction = <<>> BY <1>1, <1>2, LeftIdle
  <1>4. currentNameSpace = Global
    <2>1. CASE phase = "idle" BY <1>2, <2>1 DEF CleanInv, InPlace
    <2>2. CASE phase = "parsing"
      <3>1. currentNameSpace.path = Written BY <1>2, <2>2 DEF CleanInv, InPlace
      <3>2. Written = <<>>
        <4>1. Written \in Seq(Names) /\ Len(Written) = 0 BY <1>1, WrittenType
        <4> QED BY <4>1
      <3>3. currentNameSpace \in Refs /\ Refers(currentNameSpace) BY <2>2 DEF Typed, Current
      <3> QED BY <3>1, <3>2, <3>3, OnlyGlobal
    <2> QED BY <1>1, <2>1, <2>2
  <1>5. CASE phase = "idle"
    <2>1. list_namespaces = <<Entry(<<>>, Nowhere)>> BY <1>5 DEF Idle
    <2> QED BY <1>1, <1>3, <1>4, <2>1, NothingRead
  <1>6. CASE CannotOpen
    <2>1. phase = "parsing" /\ phase' = "idle" BY <1>6 DEF CannotOpen
    <2>2. Separate /\ InPlace BY <1>2 DEF CleanInv
    <2>3. DOMAIN items = {} /\ DOMAIN open = {} /\ DOMAIN items' = {} /\ DOMAIN open' = {} BY <1>1
    <2>4. Counted'
      <3>1. Waiting' = {} BY <2>3 DEF Waiting
      <3>2. Len(list_parentFunction') = 0 BY <1>1, <1>3
      <3> QED BY <3>1, <3>2, FS_EmptySet DEF Counted
    <2>5. InPlace' BY <1>1, <1>4, <2>1, <2>2 DEF InPlace
    <2>6. Fresh' /\ InPasses' BY <2>1 DEF Fresh, InPasses
    <2>7. Placed' /\ Correctly' BY <2>3 DEF Placed, Correctly
    <2>8. Separate'
      <3>1. ASSUME NEW m \in DOMAIN list_namespaces PROVE Single(m)'
        <4>1. Single(m) BY <2>2 DEF Separate
        <4>2. \A e \in DOMAIN list_namespaces[m].values : FALSE BY <2>3 DEF Buffers
        <4> QED BY <1>1, <2>3, <4>1, <4>2 DEF Single
      <3>2. ASSUME NEW m \in DOMAIN list_namespaces, NEW n \in DOMAIN list_namespaces PROVE Apart(m, n)'
        BY <1>1, <2>2 DEF Separate, Apart
      <3> QED BY <1>1, <3>1, <3>2 DEF Separate
    <2> QED BY <2>4, <2>5, <2>6, <2>7, <2>8 DEF CleanInv
  <1> QED BY <1>1, <1>5, <1>6 DEF Compile

\* The end of the passes.
LEMMA ClearClean ==
  ASSUME TextInv, CleanInv, ClearNameSpace
  PROVE  CleanInv'
  <1> USE DEF TextInv
  <1>1. /\ phase = "analyzing" /\ calls = {} /\ phase' = "idle" /\ list_namespaces' = <<Entry(<<>>, Nowhere)>>
        /\ currentNameSpace' = Stale(nameSpaceBuffer)
        /\ list_parentFunction' = [i \in DOMAIN list_parentFunction |-> 0]
        /\ open' = <<>> /\ items' = <<>>
        /\ UNCHANGED unclean
    BY DEF ClearNameSpace, Analyzed
  <1>2. SUFFICES ASSUME clean PROVE CleanInv' BY <1>1 DEF CleanInv, clean
  <1>3. Counted /\ InPlace /\ Placed /\ InPasses BY <1>2 DEF CleanInv
  <1>4. Waiting = {}
    <2> SUFFICES ASSUME NEW i \in DOMAIN items, items[i].is \in Functions PROVE items[i].as # <<>>
      BY DEF Waiting
    <2>1. Found(i) /\ Awaited(i) /\ ~Unfinished(i) BY <1>1, <1>3 DEF Placed, InPasses, Unfinished
    <2> QED BY <1>1, <2>1 DEF Found, Awaited, Functions
  <1>5. list_parentFunction' = <<>>
    <2>1. list_parentFunction \in Seq(Nat) BY DEF Typed
    <2>2. Len(list_parentFunction) = 0 BY <1>1, <1>3, <1>4, FS_EmptySet DEF Counted
    <2>3. list_parentFunction = <<>> BY <2>1, <2>2
    <2>4. DOMAIN list_parentFunction = {} BY <2>3
    <2>5. list_parentFunction' = [i \in {} |-> 0] BY <1>1, <2>4
    <2>6. [i \in {} |-> 0] = <<>> OBVIOUS
    <2> QED BY <2>5, <2>6
  <1>6. currentNameSpace' = Global
    <2>1. nameSpaceBuffer = Global BY <1>1, <1>3 DEF InPlace
    <2> QED BY <1>1, <2>1, Consts DEF Stale
  <1> QED BY <1>1, <1>5, <1>6, NothingRead

\* After a crash nothing happens.
LEMMA CrashesClean ==
  ASSUME TextInv, CleanInv, Crashes
  PROVE  CleanInv'
  <1> USE DEF TextInv
  <1>1. /\ phase' = "crashed"
        /\ UNCHANGED <<list_namespaces, nameSpaceBuffer, open, items, unclean>>
    BY DEF Crashes, passes
  <1>2. SUFFICES ASSUME clean PROVE Counted' /\ InPlace' /\ Fresh' /\ Separate' /\ Placed' /\ Correctly' /\ InPasses'
    BY <1>1 DEF CleanInv, clean
  <1>3. InPlace /\ Separate /\ Correctly BY <1>2 DEF CleanInv
  <1>4. \A i : ~Unfinished(i)' BY <1>1 DEF Unfinished
  <1>5. \A i : Here(i)' = Here(i) BY <1>1 DEF Here
  <1>6. Counted' /\ Fresh' /\ Placed' /\ InPasses' BY <1>1 DEF Counted, Fresh, Placed, InPasses
  <1>7. InPlace' BY <1>1, <1>3 DEF InPlace
  <1>8. Separate'
    <2>1. ASSUME NEW m \in DOMAIN list_namespaces PROVE Single(m)'
      <3>1. Single(m) BY <1>3 DEF Separate
      <3> QED BY <1>1, <1>4, <1>5, <3>1 DEF Single
    <2>2. ASSUME NEW m \in DOMAIN list_namespaces, NEW n \in DOMAIN list_namespaces PROVE Apart(m, n)'
      BY <1>1, <1>3 DEF Separate, Apart
    <2> QED BY <1>1, <2>1, <2>2 DEF Separate
  <1>9. Correctly'
    <2> SUFFICES ASSUME NEW i \in DOMAIN items PROVE Correct(i)' BY <1>1 DEF Correctly
    <2>1. Correct(i) BY <1>3 DEF Correctly
    <2> QED BY <1>1, <1>5, <2>1 DEF Correct
  <1> QED BY <1>6, <1>7, <1>8, <1>9

-----------------------------------------------------------------------------
(***************************************************************************)
(* The invariant is inductive.                                             *)
(***************************************************************************)
\* It holds at the start.
LEMMA InitClean == Init => CleanInv
  <1> SUFFICES ASSUME Init PROVE CleanInv OBVIOUS
  <1>1. /\ phase = "idle" /\ list_namespaces = <<Entry(<<>>, Nowhere)>> /\ currentNameSpace = Global
        /\ list_parentFunction = <<>> /\ open = <<>> /\ items = <<>>
    BY DEF Init
  <1>2. /\ DOMAIN list_namespaces = {1}
        /\ list_namespaces[1].functions = <<>> /\ list_namespaces[1].classes = <<>>
        /\ list_namespaces[1].values = <<>>
    BY <1>1, FirstSpace
  <1>3. DOMAIN items = {} /\ DOMAIN open = {} BY <1>1
  <1>4. Counted
    <2>1. Waiting = {} BY <1>3 DEF Waiting
    <2>2. Len(list_parentFunction) = 0 BY <1>1
    <2> QED BY <2>1, <2>2, FS_EmptySet DEF Counted
  <1>5. InPlace /\ Fresh /\ InPasses BY <1>1, <1>2 DEF InPlace, Fresh, InPasses
  <1>6. Separate
    <2>1. Len(<<>>) = 0 /\ 0 <= 1 /\ DOMAIN <<>> = {} OBVIOUS
    <2>2. Len(list_namespaces[1].functions) <= 1 /\ Len(list_namespaces[1].classes) <= 1 BY <1>2, <2>1
    <2>3. Single(1) BY <1>2, <1>3, <2>1, <2>2 DEF Single
    <2>4. Apart(1, 1) BY DEF Apart
    <2> QED BY <1>2, <2>3, <2>4 DEF Separate
  <1>7. Placed /\ Correctly BY <1>3 DEF Placed, Correctly
  <1> QED BY <1>4, <1>5, <1>6, <1>7 DEF CleanInv

\* Doing nothing keeps it.
LEMMA StutterClean ==
  ASSUME CleanInv, UNCHANGED vars
  PROVE  CleanInv'
  <1>1. UNCHANGED <<phase, list_namespaces, currentNameSpace, list_parentFunction, nameSpaceBuffer, calls, entered,
                    open, items, errors, unclean>>
    BY DEF vars, passes
  <1>2. SUFFICES ASSUME clean PROVE Counted' /\ InPlace' /\ Fresh' /\ Separate' /\ Placed' /\ Correctly' /\ InPasses'
    BY <1>1 DEF CleanInv, clean
  <1>3. Counted /\ InPlace /\ Fresh /\ Separate /\ Placed /\ Correctly /\ InPasses BY <1>2 DEF CleanInv
  <1>4. Counted' BY <1>1, <1>3 DEF Counted, Waiting
  <1>5. InPlace' BY <1>1, <1>3 DEF InPlace, Written
  <1>6. Fresh' BY <1>1, <1>3 DEF Fresh, Bare
  <1>7. Separate' BY <1>1, <1>3 DEF Separate, Single, Apart, Here, Unfinished
  <1>8. Placed' BY <1>1, <1>3 DEF Placed, Found, Unfinished
  <1>9. Correctly' BY <1>1, <1>3 DEF Correctly, Correct, Here
  <1>10. InPasses' BY <1>1, <1>3 DEF InPasses, Due, Awaited
  <1> QED BY <1>4, <1>5, <1>6, <1>7, <1>8, <1>9, <1>10

\* Every step keeps it.
LEMMA NextClean == TextInv /\ CleanInv /\ [Next]_vars => CleanInv'
  <1> SUFFICES ASSUME TextInv, CleanInv, [Next]_vars PROVE CleanInv' OBVIOUS
  <1>1. CASE UNCHANGED vars BY <1>1, StutterClean
  <1>2. CASE Next
    <2>1. Step BY <1>2, EveryStep
    <2>2. CASE Compile \/ CannotOpen BY <2>2, CompileClean
    <2>3. CASE ClearNameSpace BY <2>3, ClearClean
    <2>4. CASE StartsAnalyze BY <2>4, StartsClean
    <2>5. CASE Crashes BY <2>5, CrashesClean
    <2>6. CASE EndsBlock BY <2>6, BlockEndsQuietly, EndsQuietlyClean
    <2>7. CASE EndsFunction BY <2>7, EndsFunctionClean
    <2>8. CASE EndsMethod BY <2>8, MethodEndsQuietly, EndsQuietlyClean
    <2>9. CASE EndsSub BY <2>9, EndsSubClean
    <2>10. CASE \E kind, name, space, o : Begins(kind, name, space, o) BY <2>10, BeginsClean
    <2>11. ASSUME NEW kind, NEW name, NEW space, Foretells(kind, name, space) PROVE CleanInv'
      <3>1. unclean' = unclean \cup {"prototype"} BY <2>11 DEF Foretells
      <3> QED BY <3>1 DEF CleanInv, clean
    <2>12. CASE \E item : DeclaresValue(item) BY <2>12, ValueAddsTo, AddsClean
    <2>13. CASE \E item : DeclaresEnum(item) BY <2>13, EnumAddsTo, AddsClean
    <2>14. CASE \E c \in calls : DeclareClass(c) BY <2>14, DeclareClassClean
    <2>15. CASE \E c \in calls : DeclareValue(c) BY <2>15, DeclareValueClean
    <2>16. CASE \E c \in calls : PushCompiler(c) BY <2>16, PushCompilerClean
    <2>17. CASE \E c \in calls : AnalyzeFunction(c) BY <2>17, AnalyzeFunctionClean
    <2>18. CASE \E c \in calls : DefinedTwice(c) BY <2>18, DefinedTwiceClean
    <2> QED BY <2>1, <2>2, <2>3, <2>4, <2>5, <2>6, <2>7, <2>8, <2>9, <2>10, <2>11, <2>12, <2>13, <2>14, <2>15,
               <2>16, <2>17, <2>18 DEF Step
  <1> QED BY <1>1, <1>2

\* While every text has ended between two declarations and none has had a prototype that
\* begins like a construct: CleanInv, the inductive invariant, on top of TextInv.
THEOREM CleanTexts == Spec => []CleanInv
  <1>1. Init => CleanInv BY InitClean
  <1>2. TextInv /\ CleanInv /\ [Next]_vars => CleanInv' BY NextClean
  <1> QED BY <1>1, <1>2, EveryText, PTL DEF Spec

\* Whatever is opened and left while the text is read, the current namespace is the one of the
\* text, and functions end up as the parents of what is in them (Compiler::PushNameSpace,
\* PopNameSpace, PushAnalyzeFunction, PopAnalyzeFunction).
THEOREM FollowsText == Spec => []NameSpaceFollowsText
  <1>1. TextInv /\ CleanInv => NameSpaceFollowsText
    <2> SUFFICES ASSUME TextInv, CleanInv, clean, phase = "parsing"
                 PROVE  /\ currentNameSpace.path = [i \in DOMAIN open |-> open[i].name]
                        /\ currentNameSpace.index # 0
                        /\ list_namespaces[currentNameSpace.index].path = currentNameSpace.path
                        /\ \A i \in DOMAIN open : open[i].kind \in Functions =>
                             LET above == Len(open) - i IN
                             /\ above < Len(list_parentFunction)
                             /\ list_parentFunction[Len(list_parentFunction) - above] = open[i].item
      BY DEF NameSpaceFollowsText
    <2>1. currentNameSpace.path = [i \in DOMAIN open |-> open[i].name] /\ currentNameSpace.index # 0
      BY DEF CleanInv, InPlace, Written
    <2>2. list_namespaces[currentNameSpace.index].path = currentNameSpace.path
      BY <2>1 DEF TextInv, Current, Refers
    <2> QED BY <2>1, <2>2 DEF TextInv, Parents
  <1> QED BY <1>1, EveryText, CleanTexts, PTL

\* Between two scripts the compiler is as it was before the first: the namespaces have been
\* emptied, the current one is the global one, and every parent has been taken off.
THEOREM LeavesNothing == Spec => []NothingLeft
  <1>1. TextInv /\ CleanInv => NothingLeft
    <2> SUFFICES ASSUME TextInv, CleanInv, clean, phase = "idle"
                 PROVE  /\ currentNameSpace = Global
                        /\ list_parentFunction = <<>>
                        /\ list_namespaces = <<Entry(<<>>, Nowhere)>>
      BY DEF NothingLeft
    <2>1. currentNameSpace = Global BY DEF CleanInv, InPlace
    <2>2. items = <<>> /\ list_namespaces = <<Entry(<<>>, Nowhere)>> BY DEF TextInv, Idle
    <2>3. list_parentFunction = <<>> BY <2>2, LeftIdle
    <2> QED BY <2>1, <2>2, <2>3
  <1> QED BY <1>1, EveryText, CleanTexts, PTL

\* At the end of the passes a function in a function has been analyzed: the first that has not
\* would be in one that has, and called by it.
LEMMA SubsAnalyzed ==
  ASSUME TextInv, clean, CleanInv, phase = "analyzing", calls = {}, ~errors,
         NEW i \in DOMAIN items, items[i].is \in Functions
  PROVE  items[i].analyzed # {}
  <1> USE DEF TextInv
  <1>1. \A j \in DOMAIN items : Awaited(j) /\ Found(j) /\ ~Unfinished(j)
    BY DEF CleanInv, InPasses, Placed, Unfinished
  <1>2. \A j \in DOMAIN items : items[j].is \in {"function", "method"} => items[j].analyzed # {}
    BY <1>1 DEF Awaited
  <1> PICK T : T = {j \in DOMAIN items : items[j].is = "sub" /\ items[j].analyzed = {}} OBVIOUS
  <1>3. T \in SUBSET Nat
    <2>1. DOMAIN items = 1 .. Len(items) BY DEF Typed
    <2> QED BY <2>1
  <1>4. T = {}
    <2> SUFFICES ASSUME T # {} PROVE FALSE OBVIOUS
    <2>1. PICK j \in T : \A k \in T : j <= k BY <1>3, Smallest
    <2>2. j \in DOMAIN items /\ items[j].is = "sub" /\ items[j].analyzed = {} OBVIOUS
    <2>3. items[j].as # <<>> BY <1>1, <2>2 DEF Found
    <2>4. PICK k \in Of(Functions) : {l \in DOMAIN items : j \in items[l].subs} = {k}
      BY <2>2, <2>3 DEF AttachedToEnclosing, Of
    <2>5. k \in DOMAIN items /\ items[k].is \in Functions /\ j \in items[k].subs BY <2>4 DEF Of
    <2>6. j \in k + 1 .. Len(items) BY <2>5 DEF Owned
    <2>7. k \notin T
      <3>1. k \in Nat /\ j \in Nat BY <2>2, <2>5 DEF Typed
      <3>2. ~(j <= k) BY <2>6, <3>1
      <3> QED BY <2>1, <3>2
    <2>8. items[k].analyzed # {} BY <1>2, <2>5, <2>7 DEF Functions
    <2>9. items[j].analyzed # {} BY <1>1, <2>5, <2>8 DEF Awaited
    <2> QED BY <2>2, <2>9
  <1> QED BY <1>2, <1>4 DEF Functions

\* The five passes of Compiler::Analyze declare and analyze every script as it is written.
THEOREM DeclaresAsWritten == Spec => []DeclaredAsWritten
  <1>1. TextInv /\ CleanInv => DeclaredAsWritten
    <2> SUFFICES ASSUME TextInv, CleanInv, clean, phase = "analyzing", calls = {}, ~errors PROVE
          /\ \A i \in Of({"function", "sub", "value"}) : items[i].as = Here(i)
          /\ \A i \in Of({"function", "sub"}) : \E n \in DOMAIN list_namespaces :
               list_namespaces[n].path = Here(i) /\ items[i].analyzed = {Ref(Here(i), n)}
          /\ \A i \in Of({"class", "method"}) : items[i].as = <<items[i].name>>
          /\ \A i \in Of({"method"}) : Cardinality(items[i].analyzed) = 1
      BY DEF DeclaredAsWritten, Analyzed
    <2>1. \A i \in DOMAIN items : Awaited(i) /\ Found(i) /\ Correct(i) /\ ~Unfinished(i)
      BY DEF CleanInv, InPasses, Placed, Correctly, Unfinished
    <2>2. \A i \in DOMAIN items : items[i].is \in {"function", "method", "sub", "class", "value"} => items[i].as # <<>>
      BY <2>1 DEF Awaited, Found
    <2>3. \A i \in Of({"function", "sub", "value"}) : items[i].as = Here(i) BY <2>1, <2>2 DEF Of, Correct
    <2>4. \A i \in Of({"class", "method"}) : items[i].as = <<items[i].name>> BY <2>1, <2>2 DEF Of, Correct
    <2>5. ASSUME NEW i \in Of({"function", "sub"})
          PROVE  \E n \in DOMAIN list_namespaces :
                   list_namespaces[n].path = Here(i) /\ items[i].analyzed = {Ref(Here(i), n)}
      <3> PICK o : o = items[i].own OBVIOUS
      <3>1. i \in DOMAIN items /\ items[i].is \in {"function", "sub"} BY <2>5 DEF Of
      <3>2. o.index \in DOMAIN list_namespaces /\ o.path = Here(i) /\ list_namespaces[o.index].path = Here(i)
        BY <2>1, <2>2, <3>1 DEF Correct
      <3>3. items[i].analyzed = {o}
        <4>1. items[i].analyzed \subseteq {o} BY <2>1, <3>1 DEF Correct
        <4>2. items[i].analyzed # {} BY <3>1, SubsAnalyzed DEF Functions
        <4> QED BY <4>1, <4>2
      <3>4. o = Ref(Here(i), o.index)
        <4>1. items[i] \in Declared BY <3>1 DEF TextInv, Typed
        <4>2. o \in Refs BY <4>1 DEF Declared
        <4> QED BY <3>2, <4>2 DEF Refs, Ref
      <3> QED BY <3>2, <3>3, <3>4
    <2>6. ASSUME NEW i \in Of({"method"}) PROVE Cardinality(items[i].analyzed) = 1
      <3>1. i \in DOMAIN items /\ items[i].is = "method" BY <2>6 DEF Of
      <3>2. items[i].analyzed # {} BY <3>1, SubsAnalyzed DEF Functions
      <3>3. PICK r \in items[i].analyzed : items[i].analyzed = {r} BY <2>1, <3>1, <3>2 DEF Correct
      <3>4. Cardinality({r}) = 1 BY FS_Singleton
      <3> QED BY <3>3, <3>4
    <2> QED BY <2>3, <2>4, <2>5, <2>6
  <1> QED BY <1>1, EveryText, CleanTexts, PTL
=============================================================================
