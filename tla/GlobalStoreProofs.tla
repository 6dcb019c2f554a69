------------------------- MODULE GlobalStoreProofs -------------------------
(***************************************************************************)
(* What GlobalStore keeps true for every set of programs.  The invariant   *)
(* relates three things the code keeps apart: the counter that HotReload   *)
(* compares by is never smaller than the number of globals, the cells are  *)
(* the ones the loaded program declares, and a save holds, type by type,   *)
(* what the cells held when it was taken.                                  *)
(***************************************************************************)
EXTENDS GlobalStore, TLAPS

\* A variable that is not a reference always holds something.
Filled == \A i \in DOMAIN valueStack :
  ~valueStack[i].ref => valueStack[i].obj.k # "nothing"

\* The save is one of the cells at the time.
SavedAtSave ==
  /\ Len(saved) = Len(atSave)
  /\ \A i \in DOMAIN atSave :
       /\ saved[i].type = atSave[i].type
       /\ saved[i].ref = atSave[i].ref
       /\ ~atSave[i].ref => saved[i].obj = atSave[i].obj /\ saved[i].obj.k # "nothing"

\* What HotReload compares is no less than what ToldApart asks for.
CounterCovers ==
  Distinct /\ Ready => globalValueAllocOpSize >= Len(Globals[vlp_data])

\* A saved value is of the kind that some program means by its type.
SavedFits ==
  Distinct /\ SameKinds =>
    \A i \in DOMAIN saved :
      saved[i].obj.k # "nothing" =>
        \E p \in Programs :
          /\ \E j \in DOMAIN Globals[p] : Globals[p][j].type = saved[i].type
          /\ Fits(saved[i], p)

\* The host keeps what the machine has loaded.
LoadedKept == vlp_data \in kept

Inv ==
  /\ TypeOK
  /\ Filled
  /\ SavedAtSave
  /\ RestoreBringsBack
  /\ CounterCovers
  /\ DeclaredByLoaded
  /\ SavedFits
  /\ KindsAgree
  /\ TagsAtMostOneBehind
  /\ LoadedKept
  /\ NothingPointsToFreed

-----------------------------------------------------------------------------
\* Values and cells have their types.
LEMMA ContentType ==
  ASSUME NEW k \in Kinds \cup {"nothing"}, NEW v \in Values, NEW p \in Programs
  PROVE  /\ Content(k, v, p) \in Object
         /\ Content(k, v, p).k = k
         /\ Content(k, v, p).v = v
         /\ Content(k, v, p).tag \subseteq {p}
BY DEF Content, Object

\* The same of a value that comes from a save.
LEMMA FromSaveType ==
  ASSUME NEW k \in Kinds \cup {"nothing"}, NEW v \in Values, NEW p \in Programs
  PROVE  /\ FromSave(k, v, p) \in Object
         /\ FromSave(k, v, p).k = k
         /\ FromSave(k, v, p).v = v
         /\ FromSave(k, v, p).tag \subseteq {p}
BY DEF FromSave, Object

\* And of the picture of a cell that a save takes.
LEMMA UntaggedType ==
  ASSUME NEW c \in Cell
  PROVE  /\ Untagged(c) \in Cell
         /\ Untagged(c).type = c.type /\ Untagged(c).ref = c.ref
         /\ Untagged(c).obj.k = c.obj.k /\ Untagged(c).obj.v = c.obj.v
BY DEF Untagged, Cell, Object

\* What a reference holds before it is assigned.
LEMMA NothingType == Nothing \in Object /\ Nothing.k = "nothing" /\ Nothing.tag = {}
BY BoundsAssumption DEF Nothing, Object, Kinds

\* A cell whose object is replaced is a cell of the same type.
LEMMA CellUpdate ==
  ASSUME NEW c \in Cell, NEW o \in Object
  PROVE  LET d == [c EXCEPT !.obj = o] IN
         /\ d \in Cell /\ d.type = c.type /\ d.ref = c.ref /\ d.obj = o
BY DEF Cell

\* What a sequence over S holds is in S.
LEMMA ElementIn ==
  ASSUME NEW S, NEW s \in Seq(S), NEW i \in 1 .. Len(s)
  PROVE  s[i] \in S
OBVIOUS

\* A function on 1 .. n whose values are cells is a sequence of n cells.
LEMMA CellSequence ==
  ASSUME NEW n \in Nat, NEW f, f = [i \in 1 .. n |-> f[i]],
         \A i \in 1 .. n : f[i] \in Cell
  PROVE  f \in Seq(Cell) /\ Len(f) = n /\ DOMAIN f = 1 .. n
OBVIOUS

\* The cells before the one whose allocation threw.
LEMMA PrefixType ==
  ASSUME NEW s \in Seq(Cell), NEW i \in 1 .. Len(s)
  PROVE  /\ SubSeq(s, 1, i - 1) \in Seq(Cell)
         /\ DOMAIN SubSeq(s, 1, i - 1) = 1 .. (i - 1)
         /\ \A j \in 1 .. (i - 1) : j \in DOMAIN s /\ SubSeq(s, 1, i - 1)[j] = s[j]
OBVIOUS

\* AllocGlobalValue: one cell for each declared global, of its type and kind.
LEMMA FreshType ==
  ASSUME NEW p \in Programs, NEW q \in Programs
  PROVE  LET f == FreshCells(p, q) IN
         /\ f \in Seq(Cell)
         /\ Len(f) = Len(Globals[p])
         /\ DOMAIN f = DOMAIN Globals[p]
         /\ \A i \in DOMAIN f :
              /\ f[i] \in Cell
              /\ f[i].type = Globals[p][i].type
              /\ f[i].ref = Globals[p][i].ref
              /\ f[i].ref => f[i].obj = Nothing
              /\ ~f[i].ref => f[i].obj.k = Kind[p][f[i].type]
              /\ f[i].obj.tag \subseteq {q}
<1> DEFINE f == FreshCells(p, q)
           n == Len(Globals[p])
<1>1. /\ Globals[p] \in Seq([type : Types, ref : BOOLEAN])
      /\ n \in Nat
      /\ DOMAIN Globals[p] = 1 .. n
  <2>1. Globals[p] \in Seq([type : Types, ref : BOOLEAN])
    BY ProgramsAssumption
  <2> QED
    BY <2>1
<1>2. ASSUME NEW i \in 1 .. n
      PROVE  /\ Globals[p][i] \in [type : Types, ref : BOOLEAN]
             /\ Kind[p][Globals[p][i].type] \in Kinds
  <2>1. Globals[p][i] \in [type : Types, ref : BOOLEAN]
    BY <1>1, <1>2, ElementIn
  <2>2. Kind[p] \in [Types -> Kinds]
    BY ProgramsAssumption
  <2> QED
    BY <2>1, <2>2
<1>3. ASSUME NEW i \in 1 .. n
      PROVE  /\ f[i] \in Cell
             /\ f[i].type = Globals[p][i].type
             /\ f[i].ref = Globals[p][i].ref
             /\ f[i].ref => f[i].obj = Nothing
             /\ ~f[i].ref => f[i].obj.k = Kind[p][f[i].type]
             /\ f[i].obj.tag \subseteq {q}
  <2> DEFINE g == Globals[p][i]
             o == IF g.ref THEN Nothing ELSE Content(Kind[p][g.type], 0, q)
  <2>1. f[i] = [type |-> g.type, ref |-> g.ref, obj |-> o]
    BY DEF FreshCells
  <2>2. 0 \in Values
    BY BoundsAssumption
  <2>3. /\ Content(Kind[p][g.type], 0, q) \in Object
        /\ Content(Kind[p][g.type], 0, q).k = Kind[p][g.type]
        /\ Content(Kind[p][g.type], 0, q).tag \subseteq {q}
    BY <1>2, <2>2, ContentType
  <2>4. g \in [type : Types, ref : BOOLEAN]
    BY <1>2
  <2>5. o \in Object /\ (g.ref => o = Nothing) /\ (~g.ref => o = Content(Kind[p][g.type], 0, q))
    BY <2>3, NothingType
  <2>6. o.tag \subseteq {q} /\ (~g.ref => o.k = Kind[p][g.type])
    BY <2>3, <2>5, NothingType
  <2> HIDE DEF o, f
  <2> QED
    BY <2>1, <2>4, <2>5, <2>6 DEF Cell
<1>4. f \in Seq(Cell) /\ Len(f) = n /\ DOMAIN f = 1 .. n
  <2>1. f = [i \in 1 .. n |-> f[i]]
    BY DEF FreshCells
  <2> HIDE DEF f
  <2> QED
    BY <1>1, <1>3, <2>1, CellSequence
<1> QED
  BY <1>1, <1>3, <1>4

\* HotReload changes nothing of an enum value but its tag.
LEMMA RetaggedType ==
  ASSUME NEW c \in Cell, NEW p \in Programs
  PROVE  LET d == Retagged(c, p) IN
         /\ d \in Cell /\ d.type = c.type /\ d.ref = c.ref
         /\ d.obj.k = c.obj.k /\ d.obj.v = c.obj.v
         /\ d.obj.tag \subseteq {p}
BY DEF Retagged, Cell, Object

\* RestoreGlobalValue replaces the object of a cell of the same type, and its
\* type never.
LEMMA RestoredType ==
  ASSUME NEW c \in Cell, NEW s \in Cell, vlp_data \in Programs
  PROVE  LET d == Restored(c, s) IN
         /\ d \in Cell /\ d.type = c.type /\ d.ref = c.ref
         /\ \/ d = c /\ (c.type # s.type \/ c.ref # s.ref \/ s.obj.k = "nothing")
            \/ /\ c.type = s.type /\ s.obj.k # "nothing"
               /\ d.obj = FromSave(s.obj.k, s.obj.v, vlp_data)
<1>1. s.obj.k \in Kinds \cup {"nothing"} /\ s.obj.v \in Values
  BY DEF Cell, Object
<1>2. FromSave(s.obj.k, s.obj.v, vlp_data) \in Object
  BY <1>1, FromSaveType
<1> QED
  BY <1>2, CellUpdate DEF Restored

-----------------------------------------------------------------------------
\* HotReload either allocates the globals again, or has found no difference
\* within the counter.
LEMMA HotReloadCases ==
  ASSUME NEW p \in Programs, HotReload(p)
  PROVE  \/ Ready /\ Reallocate(p)
         \/ /\ Ready /\ Keep(p)
            /\ ~DifferWithin(commandTable, p, globalValueAllocOpSize)
            /\ ClassTable[commandTable] = ClassTable[p]
BY DEF HotReload, Differs

\* When it keeps the cells, the programs declare the same globals, if HotReload
\* tells programs apart.
LEMMA KeptSame ==
  ASSUME Inv, Distinct, Ready, NEW p \in Programs,
         ~DifferWithin(commandTable, p, globalValueAllocOpSize),
         ClassTable[commandTable] = ClassTable[p]
  PROVE  Globals[p] = Globals[vlp_data] /\ Kind[p] = Kind[vlp_data]
<1>1. /\ commandTable = vlp_data /\ vlp_data \in Programs
      /\ globalValueAllocOpSize \in Nat
      /\ globalValueAllocOpSize >= Len(Globals[vlp_data])
  BY BoundsAssumption DEF Inv, TypeOK, CounterCovers
<1>2. Len(Globals[vlp_data]) \in Nat
  BY <1>1, ProgramsAssumption
<1>3. ~DifferWithin(vlp_data, p, Len(Globals[vlp_data]))
  BY <1>1, <1>2 DEF DifferWithin
<1> QED
  BY <1>1, <1>3 DEF Distinct, ToldApart

-----------------------------------------------------------------------------
\* A machine that has just allocated the globals of p, with tags from q,
\* whatever the host has saved before.
LEMMA FreshInv ==
  ASSUME Inv, NEW p \in Programs, NEW q \in Programs,
         vlp_data' = p, commandTable' = p, valueStack' = FreshCells(p, q),
         globalValue_size' = Len(Globals[p]),
         globalValueAllocOpSize' \in Len(Globals[p]) .. MaxCounter,
         status' = "ok", q \in {p, previous'}, previous' \in Programs,
         kept' = {p, q},
         last' # "restore", UNCHANGED <<saved, atSave>>
  PROVE  Inv'
<1>1. /\ valueStack' \in Seq(Cell)
      /\ Len(valueStack') = Len(Globals[p])
      /\ DOMAIN valueStack' = DOMAIN Globals[p]
      /\ \A i \in DOMAIN valueStack' :
           /\ valueStack'[i] \in Cell
           /\ valueStack'[i].type = Globals[p][i].type
           /\ valueStack'[i].ref = Globals[p][i].ref
           /\ valueStack'[i].ref => valueStack'[i].obj = Nothing
           /\ ~valueStack'[i].ref => valueStack'[i].obj.k = Kind[p][valueStack'[i].type]
           /\ valueStack'[i].obj.tag \subseteq {q}
  BY FreshType
<1>2. Len(Globals[p]) \in Nat
  BY ProgramsAssumption
<1>3. TypeOK'
  BY <1>1, <1>2, BoundsAssumption DEF Inv, TypeOK, Ready
<1>4. Filled'
  <2>1. ASSUME NEW i \in DOMAIN valueStack' PROVE Kind[p][valueStack'[i].type] \in Kinds
    <3>1. Kind[p] \in [Types -> Kinds]
      BY ProgramsAssumption
    <3> QED
      BY <1>1, <3>1 DEF Cell
  <2> QED
    BY <1>1, <2>1 DEF Filled, Kinds
<1>5. SavedAtSave' /\ SavedFits' /\ RestoreBringsBack'
  BY DEF Inv, SavedAtSave, SavedFits, RestoreBringsBack, Fits
<1>6. CounterCovers'
  BY <1>2 DEF CounterCovers
<1>7. DeclaredByLoaded'
  <2>1. ASSUME NEW i \in DOMAIN valueStack'
        PROVE  Globals[p][i] = [type |-> valueStack'[i].type, ref |-> valueStack'[i].ref]
    <3>1. Globals[p] \in Seq([type : Types, ref : BOOLEAN])
      BY ProgramsAssumption
    <3>2. i \in 1 .. Len(Globals[p])
      BY <1>1, <3>1
    <3>3. Globals[p][i] \in [type : Types, ref : BOOLEAN]
      BY <3>1, <3>2, ElementIn
    <3> QED
      BY <1>1, <3>3
  <2> QED
    BY <1>1, <2>1 DEF DeclaredByLoaded
<1>8. KindsAgree'
  BY <1>1, NothingType DEF KindsAgree, Fits
<1>9. TagsAtMostOneBehind' /\ LoadedKept' /\ NothingPointsToFreed'
  BY <1>1 DEF TagsAtMostOneBehind, LoadedKept, NothingPointsToFreed
<1> QED
  BY <1>3, <1>4, <1>5, <1>6, <1>7, <1>8, <1>9 DEF Inv

\* A new machine, while the host keeps its save.
LEMMA LoadKeeps ==
  ASSUME Inv, NEW p \in Programs, Load(p)
  PROVE  Inv'
<1>1. Len(Globals[p]) \in Nat /\ Len(Globals[p]) <= MaxCounter /\ MaxCounter \in Nat
  BY ProgramsAssumption, BoundsAssumption
<1> QED
  BY <1>1, FreshInv DEF Load

\* HotReload after a change, also when an allocation throws.
LEMMA ReallocateKeeps ==
  ASSUME Inv, Ready, NEW p \in Programs, Reallocate(p)
  PROVE  Inv'
<1>1. /\ vlp_data \in Programs /\ globalValueAllocOpSize \in Nat
      /\ Len(Globals[p]) \in Nat /\ MaxCounter \in Nat
  BY ProgramsAssumption, BoundsAssumption DEF Inv, TypeOK
<1>2. CASE Unallocatable(p) = {}
  BY <1>1, <1>2, FreshInv DEF Reallocate, Ready
<1>3. ASSUME NEW i \in Unallocatable(p),
             valueStack' = SubSeq(FreshCells(p, vlp_data), 1, i - 1),
             globalValueAllocOpSize' = globalValueAllocOpSize + i,
             status' = "threw",
             UNCHANGED <<globalValue_size, vlp_data, previous, kept>>
      PROVE  Inv'
  <2> DEFINE f == FreshCells(p, vlp_data)
  <2>1. /\ f \in Seq(Cell) /\ Len(f) = Len(Globals[p]) /\ DOMAIN f = 1 .. Len(Globals[p])
        /\ \A j \in DOMAIN f :
             /\ f[j] \in Cell
             /\ ~f[j].ref => f[j].obj.k = Kind[p][f[j].type]
    BY <1>1, FreshType
  <2>2. i \in 1 .. Len(Globals[p])
    BY DEF Unallocatable
  <2>3. /\ valueStack' \in Seq(Cell) /\ DOMAIN valueStack' = 1 .. (i - 1)
        /\ \A j \in DOMAIN valueStack' : j \in DOMAIN f /\ valueStack'[j] = f[j]
    <3>1. valueStack' = SubSeq(f, 1, i - 1) /\ Len(f) \in Nat /\ i \in 1 .. Len(f)
      BY <1>1, <1>3, <2>1, <2>2
    <3> HIDE DEF f
    <3> QED
      BY <2>1, <3>1, PrefixType
  <2>4. TypeOK'
    BY <1>1, <1>3, <2>2, <2>3 DEF Inv, TypeOK, Ready, Reallocate
  <2>5. Filled'
    <3>1. ASSUME NEW j \in DOMAIN valueStack' PROVE Kind[p][valueStack'[j].type] \in Kinds
      <4>1. Kind[p] \in [Types -> Kinds]
        BY ProgramsAssumption
      <4> QED
        BY <2>1, <2>3, <4>1 DEF Cell
    <3> QED
      BY <2>1, <2>3, <3>1 DEF Filled, Kinds
  <2>6. ~Ready' /\ SavedAtSave' /\ SavedFits' /\ RestoreBringsBack'
    BY <1>3 DEF Inv, Reallocate, Ready, SavedAtSave, SavedFits, RestoreBringsBack, Fits
  <2>7. LoadedKept'
    BY <1>3 DEF Inv, LoadedKept
  <2> QED
    BY <2>4, <2>5, <2>6, <2>7 DEF Inv, CounterCovers, DeclaredByLoaded, KindsAgree, TagsAtMostOneBehind,
                                 NothingPointsToFreed
<1> QED
  BY <1>2, <1>3 DEF Reallocate

\* Steps that replace objects in cells, by whatever the two programs and the
\* two stacks have in common.
LEMMA ReplacedInv ==
  ASSUME Inv, Ready, Ready', NEW p \in Programs,
         vlp_data' = p, commandTable' = p, previous' \in Programs,
         Distinct => Globals[p] = Globals[vlp_data],
         DOMAIN valueStack' = DOMAIN valueStack,
         valueStack' = [i \in DOMAIN valueStack |-> valueStack'[i]],
         \A i \in DOMAIN valueStack :
           /\ valueStack'[i] \in Cell
           /\ valueStack'[i].type = valueStack[i].type
           /\ valueStack'[i].ref = valueStack[i].ref
           /\ valueStack[i].obj.k # "nothing" => valueStack'[i].obj.k # "nothing"
           /\ valueStack'[i].obj.tag \subseteq kept',
         kept' \subseteq Programs, p \in kept',
         UNCHANGED <<globalValue_size, globalValueAllocOpSize, status>>,
         saved' \in Seq(Cell), atSave' \in Seq(Cell),
         SavedAtSave', SavedFits', RestoreBringsBack', KindsAgree', TagsAtMostOneBehind'
  PROVE  Inv'
<1>1. valueStack \in Seq(Cell) /\ Len(valueStack) \in Nat /\ DOMAIN valueStack = 1 .. Len(valueStack)
  BY DEF Inv, TypeOK
<1>2. valueStack' \in Seq(Cell) /\ Len(valueStack') = Len(valueStack)
  BY <1>1, CellSequence
<1>3. TypeOK'
  BY <1>2 DEF Inv, TypeOK, Ready
<1>4. Filled' /\ LoadedKept' /\ NothingPointsToFreed'
  BY DEF Inv, Filled, LoadedKept, NothingPointsToFreed
<1>5. CounterCovers'
  BY DEF Inv, CounterCovers
<1>6. DeclaredByLoaded'
  <2>1. ASSUME Distinct, NEW i \in DOMAIN valueStack
        PROVE  [type |-> valueStack'[i].type, ref |-> valueStack'[i].ref] = Globals[p][i]
    BY <2>1 DEF Inv, DeclaredByLoaded
  <2> QED
    BY <1>2, <2>1 DEF Inv, DeclaredByLoaded
<1> QED
  BY <1>3, <1>4, <1>5, <1>6 DEF Inv

\* The globals are cells of a type and kind that the loaded program declares.
LEMMA LoadedTypes ==
  ASSUME Inv, Ready, Distinct, NEW i \in DOMAIN valueStack
  PROVE  /\ valueStack[i] \in Cell
         /\ i \in DOMAIN Globals[vlp_data]
         /\ Globals[vlp_data][i].type = valueStack[i].type
         /\ Globals[vlp_data][i].ref = valueStack[i].ref
<1>1. valueStack[i] \in Cell
  BY ElementIn DEF Inv, TypeOK
<1>2. Globals[vlp_data][i] = [type |-> valueStack[i].type, ref |-> valueStack[i].ref]
      /\ Len(valueStack) = Len(Globals[vlp_data])
  BY DEF Inv, DeclaredByLoaded
<1>3. Globals[vlp_data] \in Seq([type : Types, ref : BOOLEAN]) /\ valueStack \in Seq(Cell)
  BY ProgramsAssumption DEF Inv, TypeOK
<1> QED
  BY <1>1, <1>2, <1>3

\* HotReload without one: the cells stay and fit, because the programs declare
\* the same globals.
LEMMA KeepKeeps ==
  ASSUME Inv, Ready, NEW p \in Programs, Keep(p),
         ~DifferWithin(commandTable, p, globalValueAllocOpSize),
         ClassTable[commandTable] = ClassTable[p]
  PROVE  Inv'
<1> DEFINE enums == {i \in 1 .. globalValue_size :
                       ~valueStack[i].ref /\ Kind[vlp_data][valueStack[i].type] = "enum"}
<1>1. Distinct => Globals[p] = Globals[vlp_data] /\ Kind[p] = Kind[vlp_data]
  BY KeptSame
<1>2. /\ SavedAtSave' /\ SavedFits' /\ RestoreBringsBack'
      /\ saved' \in Seq(Cell) /\ atSave' \in Seq(Cell)
  <2>1. saved' = saved /\ atSave' = atSave /\ last' = "keep"
    BY DEF Keep
  <2>2. SavedAtSave /\ SavedFits /\ saved \in Seq(Cell) /\ atSave \in Seq(Cell)
    BY DEF Inv, TypeOK
  <2>3. SavedAtSave'
    BY <2>1, <2>2 DEF SavedAtSave
  <2>4. SavedFits'
    BY <2>1, <2>2 DEF SavedFits, Fits
  <2>5. RestoreBringsBack'
    BY <2>1 DEF RestoreBringsBack
  <2> QED
    BY <2>1, <2>2, <2>3, <2>4, <2>5
<1>3. /\ globalValue_size = Len(valueStack) /\ valueStack \in Seq(Cell)
      /\ DOMAIN valueStack = 1 .. globalValue_size
      /\ vlp_data \in Programs
  BY DEF Inv, TypeOK
<1>4. CASE ~\A i \in enums : valueStack[i].obj.k = "enum"
  <2>1. status' = "corrupt" /\ valueStack' = valueStack
    BY <1>4 DEF Keep
  <2> QED
    BY <1>2, <2>1 DEF Inv, Keep, TypeOK, Ready, Filled, CounterCovers, DeclaredByLoaded, KindsAgree,
                      TagsAtMostOneBehind, LoadedKept, NothingPointsToFreed
<1>5. CASE \A i \in enums : valueStack[i].obj.k = "enum"
  <2>1. /\ valueStack' = [i \in DOMAIN valueStack |->
              IF i \in enums THEN Retagged(valueStack[i], p) ELSE valueStack[i]]
        /\ status' = status
    BY <1>5 DEF Keep
  <2>2. ASSUME NEW i \in DOMAIN valueStack
        PROVE  /\ valueStack'[i] \in Cell
               /\ valueStack'[i].type = valueStack[i].type
               /\ valueStack'[i].ref = valueStack[i].ref
               /\ valueStack'[i].obj.k = valueStack[i].obj.k
               /\ i \in enums => valueStack[i].obj.k = "enum" /\ valueStack'[i].obj.tag \subseteq {p}
               /\ i \notin enums => valueStack'[i] = valueStack[i]
    <3>1. valueStack[i] \in Cell
      BY <1>3, ElementIn
    <3> HIDE DEF enums
    <3> QED
      BY <1>5, <2>1, <3>1, RetaggedType
  <2>3. KindsAgree'
    <3> SUFFICES ASSUME Distinct, SameKinds, NEW i \in DOMAIN valueStack'
                 PROVE  Fits(valueStack'[i], p)
      BY DEF KindsAgree, Keep
    <3>1. i \in DOMAIN valueStack
      BY <2>1
    <3>2. Fits(valueStack[i], vlp_data) /\ Kind[p] = Kind[vlp_data]
      BY <1>1, <3>1 DEF Inv, KindsAgree
    <3> QED
      BY <2>2, <3>1, <3>2 DEF Fits
  <2>4. TagsAtMostOneBehind'
    <3> SUFFICES ASSUME Distinct, SameKinds, NEW i \in DOMAIN valueStack,
                        valueStack'[i].obj.k = "enum"
                 PROVE  valueStack'[i].obj.tag \subseteq {p}
      BY <2>1 DEF TagsAtMostOneBehind, Keep
    <3>1. Fits(valueStack[i], vlp_data)
      BY DEF Inv, KindsAgree
    <3>2. Kind[vlp_data][valueStack[i].type] = "enum"
      BY <2>2, <3>1 DEF Fits
    <3>3. ~valueStack[i].ref
      <4>1. /\ valueStack[i] \in Cell
            /\ i \in DOMAIN Globals[vlp_data]
            /\ Globals[vlp_data][i].type = valueStack[i].type
            /\ Globals[vlp_data][i].ref = valueStack[i].ref
        BY LoadedTypes
      <4>2. i \in 1 .. Len(Globals[vlp_data])
        BY <1>3, <4>1, ProgramsAssumption
      <4> QED
        BY <1>3, <3>2, <4>1, <4>2, ReferencesAllocatable
    <3> QED
      BY <1>3, <2>2, <3>2, <3>3
  <2>5. /\ \A i \in DOMAIN valueStack : valueStack'[i].obj.tag \subseteq kept'
        /\ kept' \subseteq Programs /\ p \in kept'
    BY <2>2 DEF Inv, TypeOK, Keep, NothingPointsToFreed
  <2>6. /\ DOMAIN valueStack' = DOMAIN valueStack
        /\ valueStack' = [i \in DOMAIN valueStack |-> valueStack'[i]]
    BY <2>1
  <2>7. /\ vlp_data' = p /\ commandTable' = p /\ previous' \in Programs /\ Ready'
        /\ UNCHANGED <<globalValue_size, globalValueAllocOpSize, status>>
    BY <1>3, <2>1 DEF Keep, Ready
  <2> HIDE DEF enums
  <2> QED
    BY <1>1, <1>2, <2>2, <2>3, <2>4, <2>5, <2>6, <2>7, ReplacedInv
<1> QED
  BY <1>4, <1>5

\* An assignment changes the object of a cell and never its type.
LEMMA AssignKeeps ==
  ASSUME Inv, NEW i \in DOMAIN valueStack, NEW v \in Values, Assign(i, v)
  PROVE  Inv'
<1> DEFINE c == valueStack[i]
           kind == IF Kind[vlp_data][c.type] \in Enums THEN "plain" ELSE Kind[vlp_data][c.type]
           o == Content(kind, v, vlp_data)
<1>1. /\ Ready /\ vlp_data \in Programs /\ commandTable = vlp_data /\ previous \in Programs
      /\ saved \in Seq(Cell) /\ atSave \in Seq(Cell) /\ valueStack \in Seq(Cell)
  BY DEF Inv, TypeOK, Assign
<1>2. c \in Cell
  BY <1>1, ElementIn
<1>3. kind \in Kinds /\ kind \notin Enums
  <2>1. Kind[vlp_data] \in [Types -> Kinds]
    BY <1>1, ProgramsAssumption
  <2> QED
    BY <1>2, <2>1 DEF Cell, Kinds, Enums
<1>4. o \in Object /\ o.k = kind /\ o.tag \subseteq {vlp_data} /\ kind # "nothing"
  BY <1>1, <1>3, ContentType DEF Kinds
<1>5. valueStack' = [valueStack EXCEPT ![i] = [c EXCEPT !.obj = o]]
  BY DEF Assign
<1>6. [c EXCEPT !.obj = o] \in Cell /\ [c EXCEPT !.obj = o].type = c.type
      /\ [c EXCEPT !.obj = o].ref = c.ref /\ [c EXCEPT !.obj = o].obj = o
  BY <1>2, <1>4, CellUpdate
<1>7. ASSUME NEW j \in DOMAIN valueStack
      PROVE  /\ valueStack'[j] \in Cell
             /\ valueStack'[j].type = valueStack[j].type
             /\ valueStack'[j].ref = valueStack[j].ref
             /\ j = i => valueStack'[j].obj = o
             /\ j # i => valueStack'[j] = valueStack[j]
  <2>1. valueStack[j] \in Cell
    BY <1>1, ElementIn
  <2>2. CASE j = i
    BY <1>5, <1>6, <2>2
  <2>3. CASE j # i
    BY <1>5, <2>1, <2>3
  <2> QED
    BY <2>2, <2>3
<1> HIDE DEF o, c
<1>8. /\ DOMAIN valueStack' = DOMAIN valueStack
      /\ valueStack' = [j \in DOMAIN valueStack |-> valueStack'[j]]
  BY <1>5
<1>9. KindsAgree'
  <2> SUFFICES ASSUME Distinct, SameKinds, NEW j \in DOMAIN valueStack
               PROVE  Fits(valueStack'[j], vlp_data)
    BY <1>8 DEF KindsAgree, Assign
  <2>1. Fits(valueStack[j], vlp_data)
    BY <1>1 DEF Inv, KindsAgree
  <2> QED
    BY <1>4, <1>7, <2>1 DEF Fits, c
<1>10. TagsAtMostOneBehind'
  BY <1>1, <1>4, <1>7, <1>8 DEF Inv, TagsAtMostOneBehind, Assign
<1>11. /\ \A j \in DOMAIN valueStack :
            /\ valueStack[j].obj.k # "nothing" => valueStack'[j].obj.k # "nothing"
            /\ valueStack'[j].obj.tag \subseteq kept'
       /\ kept' \subseteq Programs /\ vlp_data \in kept'
  BY <1>1, <1>4, <1>7 DEF Inv, TypeOK, Assign, LoadedKept, NothingPointsToFreed
<1>12. SavedAtSave' /\ SavedFits' /\ RestoreBringsBack'
  BY DEF Inv, Assign, SavedAtSave, SavedFits, RestoreBringsBack, Fits
<1>13. /\ vlp_data' = vlp_data /\ commandTable' = vlp_data /\ previous' \in Programs /\ Ready'
       /\ UNCHANGED <<globalValue_size, globalValueAllocOpSize, status, saved, atSave>>
  BY <1>1 DEF Assign, Ready
<1> QED
  BY <1>1, <1>7, <1>8, <1>9, <1>10, <1>11, <1>12, <1>13, ReplacedInv

\* The copy of a global has the type of the cell it is copied to.
LEMMA CopyKeeps ==
  ASSUME Inv, NEW i \in DOMAIN valueStack, NEW j \in DOMAIN valueStack, Copy(i, j)
  PROVE  Inv'
<1> DEFINE c == valueStack[i]
           o == valueStack[j].obj
<1>1. /\ Ready /\ vlp_data \in Programs /\ commandTable = vlp_data /\ previous \in Programs
      /\ saved \in Seq(Cell) /\ atSave \in Seq(Cell) /\ valueStack \in Seq(Cell)
  BY DEF Inv, TypeOK, Copy
<1>2. c \in Cell /\ valueStack[j] \in Cell
  BY <1>1, ElementIn
<1>3. o \in Object /\ o.k # "nothing" /\ c.type = valueStack[j].type
  BY <1>2 DEF Cell, Copy
<1>4. valueStack' = [valueStack EXCEPT ![i] = [c EXCEPT !.obj = o]]
  BY DEF Copy
<1>5. [c EXCEPT !.obj = o] \in Cell /\ [c EXCEPT !.obj = o].type = c.type
      /\ [c EXCEPT !.obj = o].ref = c.ref /\ [c EXCEPT !.obj = o].obj = o
  BY <1>2, <1>3, CellUpdate
<1>6. ASSUME NEW n \in DOMAIN valueStack
      PROVE  /\ valueStack'[n] \in Cell
             /\ valueStack'[n].type = valueStack[n].type
             /\ valueStack'[n].ref = valueStack[n].ref
             /\ n = i => valueStack'[n].obj = o
             /\ n # i => valueStack'[n] = valueStack[n]
  <2>1. valueStack[n] \in Cell
    BY <1>1, ElementIn
  <2>2. CASE n = i
    BY <1>4, <1>5, <2>2
  <2>3. CASE n # i
    BY <1>4, <2>1, <2>3
  <2> QED
    BY <2>2, <2>3
<1>7. /\ DOMAIN valueStack' = DOMAIN valueStack
      /\ valueStack' = [n \in DOMAIN valueStack |-> valueStack'[n]]
  BY <1>4
<1>8. KindsAgree'
  <2> SUFFICES ASSUME Distinct, SameKinds, NEW n \in DOMAIN valueStack
               PROVE  Fits(valueStack'[n], vlp_data)
    BY <1>7 DEF KindsAgree, Copy
  <2>1. Fits(valueStack[n], vlp_data) /\ Fits(valueStack[j], vlp_data)
    BY <1>1 DEF Inv, KindsAgree
  <2> QED
    BY <1>3, <1>6, <2>1 DEF Fits
<1>9. TagsAtMostOneBehind'
  BY <1>1, <1>6, <1>7 DEF Inv, TagsAtMostOneBehind, Copy
<1>10. /\ \A n \in DOMAIN valueStack :
            /\ valueStack[n].obj.k # "nothing" => valueStack'[n].obj.k # "nothing"
            /\ valueStack'[n].obj.tag \subseteq kept'
       /\ kept' \subseteq Programs /\ vlp_data \in kept'
  BY <1>1, <1>3, <1>6 DEF Inv, TypeOK, Copy, LoadedKept, NothingPointsToFreed
<1>11. SavedAtSave' /\ SavedFits' /\ RestoreBringsBack'
  BY DEF Inv, Copy, SavedAtSave, SavedFits, RestoreBringsBack, Fits
<1>12. /\ vlp_data' = vlp_data /\ commandTable' = vlp_data /\ previous' \in Programs /\ Ready'
       /\ UNCHANGED <<globalValue_size, globalValueAllocOpSize, status, saved, atSave>>
  BY <1>1 DEF Copy, Ready
<1> HIDE DEF o, c
<1> QED
  BY <1>1, <1>6, <1>7, <1>8, <1>9, <1>10, <1>11, <1>12, ReplacedInv

\* A save is a picture of the cells.
LEMMA SaveKeeps ==
  ASSUME Inv, SaveGlobalValue
  PROVE  Inv'
<1>1. /\ Ready /\ vlp_data \in Programs /\ valueStack \in Seq(Cell)
      /\ globalValue_size = Len(valueStack) /\ Len(valueStack) \in Nat
      /\ DOMAIN valueStack = 1 .. globalValue_size
  BY DEF Inv, TypeOK, SaveGlobalValue
<1>2. /\ saved' = [i \in 1 .. globalValue_size |->
                 [type |-> valueStack[i].type, ref |-> valueStack[i].ref,
                  obj |-> IF valueStack[i].ref THEN Nothing ELSE Untagged(valueStack[i]).obj]]
      /\ atSave' = [i \in 1 .. globalValue_size |-> Untagged(valueStack[i])]
  BY DEF SaveGlobalValue
<1>3. ASSUME NEW i \in 1 .. globalValue_size
      PROVE  /\ saved'[i] \in Cell /\ atSave'[i] \in Cell
             /\ saved'[i].type = valueStack[i].type /\ atSave'[i].type = valueStack[i].type
             /\ saved'[i].ref = valueStack[i].ref /\ atSave'[i].ref = valueStack[i].ref
             /\ saved'[i].ref => saved'[i].obj = Nothing
             /\ ~saved'[i].ref => saved'[i].obj = atSave'[i].obj
             /\ atSave'[i].obj.k = valueStack[i].obj.k
  <2>1. valueStack[i] \in Cell
    BY <1>1, ElementIn
  <2>2. /\ Untagged(valueStack[i]) \in Cell
        /\ Untagged(valueStack[i]).type = valueStack[i].type
        /\ Untagged(valueStack[i]).ref = valueStack[i].ref
        /\ Untagged(valueStack[i]).obj.k = valueStack[i].obj.k
    BY <2>1, UntaggedType
  <2>3. atSave'[i] = Untagged(valueStack[i])
        /\ saved'[i] = [type |-> valueStack[i].type, ref |-> valueStack[i].ref,
                        obj |-> IF valueStack[i].ref THEN Nothing ELSE Untagged(valueStack[i]).obj]
    BY <1>2
  <2> QED
    BY <2>1, <2>2, <2>3, NothingType DEF Cell
<1>4. /\ saved' = [i \in 1 .. globalValue_size |-> saved'[i]]
      /\ atSave' = [i \in 1 .. globalValue_size |-> atSave'[i]]
  BY <1>2
<1>5. /\ saved' \in Seq(Cell) /\ Len(saved') = globalValue_size /\ DOMAIN saved' = 1 .. globalValue_size
      /\ atSave' \in Seq(Cell) /\ Len(atSave') = globalValue_size /\ DOMAIN atSave' = 1 .. globalValue_size
  BY <1>1, <1>3, <1>4, CellSequence
<1>6. /\ UNCHANGED <<vlp_data, commandTable, valueStack, globalValue_size,
                     globalValueAllocOpSize, status, previous, kept>>
      /\ last' # "restore"
  BY DEF SaveGlobalValue
<1>7. TypeOK'
  BY <1>1, <1>5, <1>6 DEF Inv, TypeOK, Ready
<1>8. SavedAtSave'
  BY <1>1, <1>3, <1>5, <1>6 DEF Inv, SavedAtSave, Filled
<1>9. SavedFits'
  <2> SUFFICES ASSUME Distinct, SameKinds, NEW i \in DOMAIN saved', saved'[i].obj.k # "nothing"
               PROVE  \E p \in Programs :
                        /\ \E j \in DOMAIN Globals[p] : Globals[p][j].type = saved'[i].type
                        /\ Fits(saved'[i], p)
    BY DEF SavedFits, Fits
  <2>1. i \in DOMAIN valueStack /\ i \in DOMAIN Globals[vlp_data]
        /\ Globals[vlp_data][i].type = saved'[i].type
    BY <1>1, <1>3, <1>5, LoadedTypes
  <2>2. saved'[i].obj.k = valueStack[i].obj.k
    BY <1>1, <1>3, <2>1, NothingType
  <2>3. Fits(valueStack[i], vlp_data)
    BY <1>1, <2>1 DEF Inv, KindsAgree
  <2>4. Fits(saved'[i], vlp_data)
    BY <1>1, <1>3, <2>1, <2>2, <2>3 DEF Fits
  <2> QED
    BY <1>1, <2>1, <2>4
<1>10. Filled' /\ CounterCovers' /\ DeclaredByLoaded' /\ KindsAgree' /\ LoadedKept'
       /\ TagsAtMostOneBehind' /\ NothingPointsToFreed' /\ RestoreBringsBack'
  BY <1>6 DEF Inv, Filled, CounterCovers, DeclaredByLoaded, KindsAgree, LoadedKept, NothingPointsToFreed,
              TagsAtMostOneBehind, RestoreBringsBack, Ready, Fits
<1> QED
  BY <1>7, <1>8, <1>9, <1>10 DEF Inv

\* A restore: what comes back is of the kind some program means by the type,
\* and so of the kind the loaded one does.
LEMMA RestoreKeeps ==
  ASSUME Inv, RestoreGlobalValue, globalValue_size = Len(saved)
  PROVE  Inv'
<1>1. /\ Ready /\ vlp_data \in Programs /\ commandTable = vlp_data /\ previous \in Programs
      /\ valueStack \in Seq(Cell) /\ saved \in Seq(Cell) /\ atSave \in Seq(Cell)
      /\ DOMAIN valueStack = 1 .. globalValue_size
      /\ DOMAIN saved = 1 .. globalValue_size
      /\ DOMAIN atSave = 1 .. globalValue_size
  BY DEF Inv, TypeOK, RestoreGlobalValue, SavedAtSave
<1>2. valueStack' = [i \in 1 .. globalValue_size |-> Restored(valueStack[i], saved[i])]
  BY DEF RestoreGlobalValue
<1>3. UNCHANGED <<vlp_data, commandTable, globalValue_size, globalValueAllocOpSize,
                  status, saved, atSave, previous, kept>>
  BY DEF RestoreGlobalValue
<1>4. ASSUME NEW i \in 1 .. globalValue_size
      PROVE  /\ valueStack[i] \in Cell /\ saved[i] \in Cell /\ valueStack'[i] \in Cell
             /\ valueStack'[i].type = valueStack[i].type
             /\ valueStack'[i].ref = valueStack[i].ref
             /\ \/ /\ valueStack'[i] = valueStack[i]
                   /\ \/ valueStack[i].type # saved[i].type
                      \/ valueStack[i].ref # saved[i].ref
                      \/ saved[i].obj.k = "nothing"
                \/ /\ valueStack[i].type = saved[i].type
                   /\ saved[i].obj.k # "nothing"
                   /\ valueStack'[i].obj.k = saved[i].obj.k
                   /\ valueStack'[i].obj.v = saved[i].obj.v
                   /\ valueStack'[i].obj.tag \subseteq {vlp_data}
  <2>1. valueStack[i] \in Cell /\ saved[i] \in Cell
    BY <1>1, ElementIn
  <2>2. saved[i].obj.k \in Kinds \cup {"nothing"} /\ saved[i].obj.v \in Values
    BY <2>1 DEF Cell, Object
  <2> DEFINE o == FromSave(saved[i].obj.k, saved[i].obj.v, vlp_data)
  <2>3. /\ o.k = saved[i].obj.k /\ o.v = saved[i].obj.v /\ o.tag \subseteq {vlp_data}
    BY DEF FromSave
  <2>4. valueStack'[i] = Restored(valueStack[i], saved[i])
    BY <1>2
  <2>5. LET d == Restored(valueStack[i], saved[i]) IN
        /\ d \in Cell /\ d.type = valueStack[i].type /\ d.ref = valueStack[i].ref
        /\ \/ /\ d = valueStack[i]
              /\ \/ valueStack[i].type # saved[i].type
                 \/ valueStack[i].ref # saved[i].ref
                 \/ saved[i].obj.k = "nothing"
           \/ valueStack[i].type = saved[i].type /\ saved[i].obj.k # "nothing" /\ d.obj = o
    BY <1>1, <2>1, RestoredType
  <2> HIDE DEF o
  <2> QED
    BY <2>1, <2>3, <2>4, <2>5
<1>5. /\ DOMAIN valueStack' = DOMAIN valueStack
      /\ valueStack' = [i \in DOMAIN valueStack |-> valueStack'[i]]
  BY <1>1, <1>2
<1>6. RestoreBringsBack'
  <2> SUFFICES ASSUME NEW i \in 1 .. globalValue_size,
                      atSave[i].type = valueStack'[i].type, ~atSave[i].ref, ~valueStack'[i].ref
               PROVE  atSave[i].obj.k = valueStack'[i].obj.k /\ atSave[i].obj.v = valueStack'[i].obj.v
    BY <1>1, <1>3 DEF RestoreBringsBack
  <2>1. /\ saved[i].type = atSave[i].type /\ ~saved[i].ref
        /\ saved[i].obj = atSave[i].obj /\ saved[i].obj.k # "nothing"
    BY <1>1 DEF Inv, SavedAtSave
  <2>2. saved[i].ref \in BOOLEAN /\ valueStack[i].ref \in BOOLEAN /\ valueStack'[i].ref = valueStack[i].ref
    BY <1>4 DEF Cell
  <2> QED
    BY <1>4, <2>1, <2>2
<1>7. KindsAgree'
  <2> SUFFICES ASSUME Distinct, SameKinds, NEW i \in 1 .. globalValue_size
               PROVE  Fits(valueStack'[i], vlp_data)
    BY <1>1, <1>3, <1>5 DEF KindsAgree
  <2>1. Fits(valueStack[i], vlp_data)
    BY <1>1 DEF Inv, KindsAgree
  <2>2. CASE valueStack'[i] = valueStack[i]
    BY <2>1, <2>2
  <2>3. CASE /\ valueStack[i].type = saved[i].type /\ saved[i].obj.k # "nothing"
             /\ valueStack'[i].obj.k = saved[i].obj.k
    <3>1. PICK p \in Programs :
             /\ \E j \in DOMAIN Globals[p] : Globals[p][j].type = saved[i].type
             /\ Fits(saved[i], p)
      BY <1>1, <2>3 DEF Inv, SavedFits
    <3>2. i \in DOMAIN Globals[vlp_data] /\ Globals[vlp_data][i].type = valueStack[i].type
      BY <1>1, LoadedTypes
    <3>3. Kind[p][saved[i].type] = Kind[vlp_data][saved[i].type]
      BY <1>1, <2>3, <3>1, <3>2 DEF SameKinds
    <3> QED
      BY <1>4, <2>3, <3>1, <3>3 DEF Fits
  <2> QED
    BY <1>4, <2>2, <2>3
<1>8. TagsAtMostOneBehind'
  BY <1>1, <1>3, <1>4, <1>5 DEF Inv, TagsAtMostOneBehind
<1>9. /\ \A i \in DOMAIN valueStack :
           /\ valueStack[i].obj.k # "nothing" => valueStack'[i].obj.k # "nothing"
           /\ valueStack'[i].obj.tag \subseteq kept'
      /\ kept' \subseteq Programs /\ vlp_data \in kept'
  BY <1>1, <1>3, <1>4 DEF Inv, TypeOK, LoadedKept, NothingPointsToFreed
<1>10. SavedAtSave' /\ SavedFits'
  BY <1>3 DEF Inv, SavedAtSave, SavedFits, Fits
<1> QED
  BY <1>1, <1>3, <1>4, <1>5, <1>6, <1>7, <1>8, <1>9, <1>10, ReplacedInv DEF Ready

\* A refused restore changes nothing.
LEMMA RefuseKeeps ==
  ASSUME Inv, RestoreGlobalValue, globalValue_size # Len(saved)
  PROVE  Inv'
BY DEF RestoreGlobalValue, Inv, TypeOK, Filled, SavedAtSave, RestoreBringsBack, CounterCovers,
       DeclaredByLoaded, SavedFits, KindsAgree, LoadedKept, NothingPointsToFreed, TagsAtMostOneBehind, Ready, Fits

\* Nor does a stuttering step.
LEMMA StutterKeeps ==
  ASSUME Inv, UNCHANGED vars
  PROVE  Inv'
BY DEF vars, Inv, TypeOK, Filled, SavedAtSave, RestoreBringsBack, CounterCovers,
       DeclaredByLoaded, SavedFits, KindsAgree, LoadedKept, NothingPointsToFreed, TagsAtMostOneBehind, Ready, Fits

\* The first machine is one that has just allocated its globals.
LEMMA InitInv == Init => Inv
<1> SUFFICES ASSUME NEW p \in Programs,
                    vlp_data = p, commandTable = p, valueStack = FreshCells(p, p),
                    globalValue_size = Len(Globals[p]), globalValueAllocOpSize = Len(Globals[p]),
                    status = "ok", saved = <<>>, atSave = <<>>, previous = p, kept = {p}, last = "load"
             PROVE  Inv
  BY DEF Init
<1>1. /\ valueStack \in Seq(Cell)
      /\ Len(valueStack) = Len(Globals[p])
      /\ DOMAIN valueStack = DOMAIN Globals[p]
      /\ \A i \in DOMAIN valueStack :
           /\ valueStack[i] \in Cell
           /\ valueStack[i].type = Globals[p][i].type
           /\ valueStack[i].ref = Globals[p][i].ref
           /\ valueStack[i].ref => valueStack[i].obj = Nothing
           /\ ~valueStack[i].ref => valueStack[i].obj.k = Kind[p][valueStack[i].type]
           /\ valueStack[i].obj.tag \subseteq {p}
  BY FreshType
<1>2. /\ Len(Globals[p]) \in Nat /\ Len(Globals[p]) <= MaxCounter /\ MaxCounter \in Nat
      /\ Globals[p] \in Seq([type : Types, ref : BOOLEAN])
      /\ Kind[p] \in [Types -> Kinds]
  <2>1. Globals[p] \in Seq([type : Types, ref : BOOLEAN]) /\ Kind[p] \in [Types -> Kinds]
    BY ProgramsAssumption
  <2>2. Len(Globals[p]) <= MaxCounter /\ MaxCounter \in Nat
    BY BoundsAssumption
  <2> QED
    BY <2>1, <2>2
<1>3. TypeOK
  BY <1>1, <1>2 DEF TypeOK, Ready
<1>4. Filled
  BY <1>1, <1>2 DEF Filled, Kinds, Cell
<1>5. SavedAtSave /\ SavedFits /\ RestoreBringsBack
  BY DEF SavedAtSave, SavedFits, RestoreBringsBack
<1>6. CounterCovers /\ LoadedKept /\ NothingPointsToFreed /\ TagsAtMostOneBehind
  BY <1>1, <1>2 DEF CounterCovers, LoadedKept, NothingPointsToFreed, TagsAtMostOneBehind
<1>7. DeclaredByLoaded
  <2>1. ASSUME NEW i \in DOMAIN valueStack
        PROVE  Globals[p][i] = [type |-> valueStack[i].type, ref |-> valueStack[i].ref]
    <3>1. i \in 1 .. Len(Globals[p])
      BY <1>1, <1>2
    <3>2. Globals[p][i] \in [type : Types, ref : BOOLEAN]
      BY <1>2, <3>1, ElementIn
    <3> QED
      BY <1>1, <3>2
  <2> QED
    BY <1>1, <2>1 DEF DeclaredByLoaded
<1>8. KindsAgree
  BY <1>1, NothingType DEF KindsAgree, Fits
<1> QED
  BY <1>3, <1>4, <1>5, <1>6, <1>7, <1>8 DEF Inv

\* Every step keeps the invariant.
LEMMA NextKeeps == Inv /\ [Next]_vars => Inv'
<1> SUFFICES ASSUME Inv, [Next]_vars PROVE Inv'
  OBVIOUS
<1>1. ASSUME NEW p \in Programs, Load(p) PROVE Inv'
  BY <1>1, LoadKeeps
<1>2. ASSUME NEW p \in Programs, HotReload(p) PROVE Inv'
  BY <1>2, HotReloadCases, ReallocateKeeps, KeepKeeps
<1>3. ASSUME NEW i \in DOMAIN valueStack, NEW v \in Values, Assign(i, v) PROVE Inv'
  BY <1>3, AssignKeeps
<1>4. ASSUME NEW i \in DOMAIN valueStack, NEW j \in DOMAIN valueStack, Copy(i, j) PROVE Inv'
  BY <1>4, CopyKeeps
<1>5. CASE SaveGlobalValue
  BY <1>5, SaveKeeps
<1>6. CASE RestoreGlobalValue
  BY <1>6, RestoreKeeps, RefuseKeeps
<1>7. CASE UNCHANGED vars
  BY <1>7, StutterKeeps
<1> QED
  BY <1>1, <1>2, <1>3, <1>4, <1>5, <1>6, <1>7 DEF Next

\* The inductive invariant, for every set of programs and every order of the
\* host's calls.
THEOREM Invariance == Spec => []Inv
<1>1. Init => Inv
  BY InitInv
<1>2. Inv /\ [Next]_vars => Inv'
  BY NextKeeps
<1> QED
  BY <1>1, <1>2, PTL DEF Spec

\* The globals on the stack are the ones that the program loaded last declares,
\* if HotReload tells the programs apart.
THEOREM AlwaysDeclared == Spec => []DeclaredByLoaded
<1>1. Inv => DeclaredByLoaded
  BY DEF Inv
<1> QED
  BY <1>1, Invariance, PTL

\* What SaveGlobalValue has kept, RestoreGlobalValue brings back, whatever was
\* loaded and assigned in between: no condition on the programs.
THEOREM AlwaysRestored == Spec => []RestoreBringsBack
<1>1. Inv => RestoreBringsBack
  BY DEF Inv
<1> QED
  BY <1>1, Invariance, PTL

\* Every object is of the kind that the loaded program takes it for.
THEOREM AlwaysSound == Spec => []KindsAgree
<1>1. Inv => KindsAgree
  BY DEF Inv
<1> QED
  BY <1>1, Invariance, PTL

\* No value of a host's enum has a tag from before the last reload but one.
THEOREM AlwaysRecent == Spec => []TagsAtMostOneBehind
<1>1. Inv => TagsAtMostOneBehind
  BY DEF Inv
<1> QED
  BY <1>1, Invariance, PTL

\* Whatever is loaded, allocated, saved and freed is what the store keeps.
THEOREM AlwaysTyped == Spec => []TypeOK
<1>1. Inv => TypeOK
  BY DEF Inv
<1> QED
  BY <1>1, Invariance, PTL

\* A host that frees old programs only after a reload that reported a change,
\* and then keeps the one replaced, has no value that points into freed data:
\* no condition on the programs.
THEOREM AlwaysKept == Spec => []NothingPointsToFreed
<1>1. Inv => NothingPointsToFreed
  BY DEF Inv
<1> QED
  BY <1>1, Invariance, PTL
=============================================================================
