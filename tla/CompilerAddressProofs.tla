------------------------ MODULE CompilerAddressProofs ------------------------
(***************************************************************************)
(* The labels and the variables of module Compiler, for every set of       *)
(* scripts.  Two invariants rest on that of CompilerProofs.                *)
(*   Labelling  the labels that were made are those that are set, those    *)
(*              that a pending call promises to set, and those owed to     *)
(*              functions without code: each in one of these ways, once.   *)
(*   Numbered   the parameters that are left get addresses below those in  *)
(*              the table, and the addresses of nested tables follow each  *)
(*              other.                                                     *)
(***************************************************************************)
EXTENDS CompilerProofs

-----------------------------------------------------------------------------
(* The invariants.                                                         *)

\* The pending calls that set a label in the end, and the labels they set.
Promising(x) == x.do \in {"setLabel", "else"}

Promises(w) == {i \in DOMAIN w : Promising(w[i])}
Promised(w) == {w[i].label : i \in Promises(w)}
Once(w) == \A i, j \in Promises(w) : w[i].label = w[j].label => i = j

\* The labels that are set, and those of the functions without code.
Placed == {places[i].label : i \in DOMAIN places}
Undefined == {i \in DOMAIN functions : ~functions[i].isDefinition}
Owed == {functions[i].label : i \in Undefined}

\* The labels that were made are those that are set, those that the pending calls
\* promise to set, and those owed to functions without code; each is so only once.
Labelling ==
  /\ \A i, j \in DOMAIN places : places[i].label = places[j].label => i = j
  /\ Once(work)
  /\ \A i, j \in Undefined : functions[i].label = functions[j].label => i = j
  /\ Placed \cap Promised(work) = {} /\ Placed \cap Owed = {} /\ Promised(work) \cap Owed = {}
  /\ Placed \cup Promised(work) \cup Owed = 0 .. labels - 1

\* The address a parameter gets.
Address(p) == -4 - (functions[p.f].arity - p.is)

\* The parameters that are left are the next calls, from the last to the first; they
\* get addresses below those of the parameters that have one.
Parameters ==
  \A i \in DOMAIN work :
    work[i].do = "parameter" =>
      /\ work[i].is <= functions[work[i].f].arity
      /\ \A j \in 1 .. i - 1 : work[j].do = "parameter" /\ work[j].f = work[i].f /\ work[j].is > work[i].is
      /\ \A v \in variables[Len(variables)].vars : v.address > Address(work[i])

\* The addresses of a table: a range of its own, and those of the parameters in a
\* function's.
Table(k) ==
  LET t == variables[k] IN
  /\ t.start <= t.next
  /\ \A v \in t.vars : v.address \in t.start .. t.next - 1 \/ (k = 2 /\ v.address <= -4)
  /\ \A v, w \in t.vars : v.address = w.address => v = w

\* The ranges of the tables follow each other.
Apart ==
  /\ \A k \in 2 .. Len(variables) : Table(k)
  /\ \A k \in 2 .. Len(variables) : \A l \in k + 1 .. Len(variables) : variables[k].next <= variables[l].start

-----------------------------------------------------------------------------
(* Labels: the account of them.                                            *)

\* The labels a call sets in the end.
Own(x) == IF Promising(x) THEN {x.label} ELSE {}

\* The labels that all but the first of w set.
Rest(w) == {w[i].label : i \in Promises(w) \ {1}}

\* The calls w set the labels L in the end, each of them once.
Pledges(w, L) == w \in Seq(Calls) /\ Once(w) /\ Promised(w) = L

\* What sequences of calls pledge.
LEMMA PledgeNone ==
  ASSUME NEW w \in Seq(Calls), \A i \in 1 .. Len(w) : ~Promising(w[i])
  PROVE  Pledges(w, {})
  <1>1. DOMAIN w = 1 .. Len(w) OBVIOUS
  <1>2. Promises(w) = {} BY <1>1 DEF Promises
  <1> QED BY <1>2 DEF Pledges, Once, Promised

LEMMA PledgeOne ==
  ASSUME NEW x \in Calls
  PROVE  Pledges(<<x>>, Own(x))
  <1>1. PICK w : w = <<x>> OBVIOUS
  <1>2. w \in Seq(Calls) /\ DOMAIN w = {1} /\ w[1] = x BY <1>1
  <1>3. Promises(w) = IF Promising(x) THEN {1} ELSE {} BY <1>2 DEF Promises
  <1>4. Promised(w) = Own(x) BY <1>2, <1>3 DEF Promised, Own
  <1>5. Once(w) BY <1>3 DEF Once
  <1> QED BY <1>1, <1>2, <1>4, <1>5 DEF Pledges

LEMMA PledgeJoined ==
  ASSUME NEW s, NEW L, NEW t, NEW M, Pledges(s, L), Pledges(t, M), L \cap M = {}, NEW r, r = s \o t
  PROVE  Pledges(r, L \cup M)
  <1>1. s \in Seq(Calls) /\ t \in Seq(Calls) /\ Once(s) /\ Once(t) /\ Promised(s) = L /\ Promised(t) = M BY DEF Pledges
  <1>2. /\ r \in Seq(Calls) /\ Len(r) = Len(s) + Len(t) /\ Len(s) \in Nat /\ Len(t) \in Nat
        /\ \A i \in 1 .. Len(s) : r[i] = s[i]
        /\ \A i \in 1 .. Len(t) : r[Len(s) + i] = t[i]
    BY <1>1, Joined
  <1>3. DOMAIN r = 1 .. Len(r) /\ DOMAIN s = 1 .. Len(s) /\ DOMAIN t = 1 .. Len(t) BY <1>1, <1>2
  <1>4. ASSUME NEW i \in Promises(r)
        PROVE  \/ i \in Promises(s) /\ r[i] = s[i]
               \/ i > Len(s) /\ i - Len(s) \in Promises(t) /\ r[i] = t[i - Len(s)]
    <2>1. i \in 1 .. Len(r) /\ Promising(r[i]) BY <1>3 DEF Promises
    <2>2. CASE i \in 1 .. Len(s) BY <1>2, <1>3, <2>1, <2>2 DEF Promises
    <2>3. CASE i > Len(s)
      <3>1. i - Len(s) \in 1 .. Len(t) /\ Len(s) + (i - Len(s)) = i BY <1>2, <2>1, <2>3
      <3>2. r[i] = t[i - Len(s)] BY <1>2, <3>1
      <3> QED BY <1>3, <2>1, <2>3, <3>1, <3>2 DEF Promises
    <2>4. i \in 1 .. Len(s) \/ i > Len(s) BY <1>2, <2>1
    <2> QED BY <2>2, <2>3, <2>4
  <1>5. \A i \in Promises(s) : i \in Promises(r) /\ r[i] = s[i] BY <1>2, <1>3 DEF Promises
  <1>6. ASSUME NEW i \in Promises(t) PROVE Len(s) + i \in Promises(r) /\ r[Len(s) + i] = t[i]
    <2>1. i \in 1 .. Len(t) /\ Promising(t[i]) BY <1>3 DEF Promises
    <2>2. Len(s) + i \in 1 .. Len(r) BY <1>2, <2>1
    <2> QED BY <1>2, <1>3, <2>1, <2>2 DEF Promises
  <1>7. Promised(r) = L \cup M
    <2>1. ASSUME NEW x \in Promised(r) PROVE x \in L \cup M
      <3>1. PICK i \in Promises(r) : x = r[i].label BY <2>1 DEF Promised
      <3> QED BY <1>1, <1>4, <3>1 DEF Promised
    <2>2. ASSUME NEW x \in L PROVE x \in Promised(r)
      <3>1. PICK i \in Promises(s) : x = s[i].label BY <1>1, <2>2 DEF Promised
      <3> QED BY <1>5, <3>1 DEF Promised
    <2>3. ASSUME NEW x \in M PROVE x \in Promised(r)
      <3>1. PICK i \in Promises(t) : x = t[i].label BY <1>1, <2>3 DEF Promised
      <3> QED BY <1>6, <3>1 DEF Promised
    <2> QED BY <2>1, <2>2, <2>3
  <1>8. Once(r)
    <2> SUFFICES ASSUME NEW i \in Promises(r), NEW j \in Promises(r), r[i].label = r[j].label PROVE i = j BY DEF Once
    <2>0. i \in Nat /\ j \in Nat BY <1>2, <1>3 DEF Promises
    <2>1. CASE i \in Promises(s) /\ r[i] = s[i] /\ j \in Promises(s) /\ r[j] = s[j] BY <1>1, <2>1 DEF Once
    <2>2. CASE i \in Promises(s) /\ r[i] = s[i] /\ j - Len(s) \in Promises(t) /\ r[j] = t[j - Len(s)]
      <3>1. r[i].label \in L /\ r[j].label \in M BY <1>1, <2>2 DEF Promised
      <3> QED BY <3>1
    <2>3. CASE i - Len(s) \in Promises(t) /\ r[i] = t[i - Len(s)] /\ j \in Promises(s) /\ r[j] = s[j]
      <3>1. r[i].label \in M /\ r[j].label \in L BY <1>1, <2>3 DEF Promised
      <3> QED BY <3>1
    <2>4. CASE i - Len(s) \in Promises(t) /\ r[i] = t[i - Len(s)] /\ j - Len(s) \in Promises(t) /\ r[j] = t[j - Len(s)]
      <3>1. i - Len(s) = j - Len(s) BY <1>1, <2>4 DEF Once
      <3> QED BY <1>2, <2>0, <3>1
    <2> QED BY <1>4, <2>1, <2>2, <2>3, <2>4
  <1> QED BY <1>2, <1>7, <1>8 DEF Pledges

LEMMA PledgeHead ==
  ASSUME NEW w \in Seq(Calls), w # <<>>, Once(w)
  PROVE  /\ Promised(w) = Own(w[1]) \cup Rest(w)
         /\ Own(w[1]) \cap Rest(w) = {}
         /\ Pledges(Tail(w), Rest(w))
  <1>1. 1 \in DOMAIN w OBVIOUS
  <1>2. 1 \in Promises(w) <=> Promising(w[1]) BY <1>1 DEF Promises
  <1>3. Promised(w) = Own(w[1]) \cup Rest(w)
    <2>1. ASSUME NEW x \in Promised(w) PROVE x \in Own(w[1]) \cup Rest(w)
      <3>1. PICK i \in Promises(w) : x = w[i].label BY <2>1 DEF Promised
      <3> QED BY <1>2, <3>1 DEF Own, Rest
    <2>2. ASSUME NEW x \in Own(w[1]) \cup Rest(w) PROVE x \in Promised(w)
      BY <1>2, <2>2 DEF Own, Rest, Promised
    <2> QED BY <2>1, <2>2
  <1>4. Own(w[1]) \cap Rest(w) = {} BY <1>2 DEF Own, Rest, Once
  <1>5. PICK r : r = Tail(w) OBVIOUS
  <1>6. /\ DOMAIN w = 1 .. Len(w) /\ DOMAIN r = 1 .. Len(r) /\ Len(r) = Len(w) - 1 /\ Len(w) \in Nat
        /\ r \in Seq(Calls)
        /\ \A j \in DOMAIN r : r[j] = w[j + 1] /\ j + 1 \in 2 .. Len(w)
        /\ \A i \in 2 .. Len(w) : i - 1 \in DOMAIN r /\ r[i - 1] = w[i]
    BY <1>5, Behind
  <1>7. \A j \in Promises(r) : j \in Nat /\ j + 1 \in Promises(w) \ {1} /\ r[j] = w[j + 1] BY <1>6 DEF Promises
  <1>8. \A i \in Promises(w) \ {1} : i - 1 \in Promises(r) /\ r[i - 1] = w[i]
    <2> SUFFICES ASSUME NEW i \in Promises(w) \ {1} PROVE i - 1 \in Promises(r) /\ r[i - 1] = w[i] OBVIOUS
    <2>1. i \in 2 .. Len(w) /\ Promising(w[i]) BY <1>6 DEF Promises
    <2> QED BY <1>6, <2>1 DEF Promises
  <1>9. Promised(r) = Rest(w)
    <2>1. ASSUME NEW x \in Promised(r) PROVE x \in Rest(w)
      <3>1. PICK j \in Promises(r) : x = r[j].label BY <2>1 DEF Promised
      <3> QED BY <1>7, <3>1 DEF Rest
    <2>2. ASSUME NEW x \in Rest(w) PROVE x \in Promised(r)
      <3>1. PICK i \in Promises(w) \ {1} : x = w[i].label BY <2>2 DEF Rest
      <3> QED BY <1>8, <3>1 DEF Promised
    <2> QED BY <2>1, <2>2
  <1>10. Once(r)
    <2> SUFFICES ASSUME NEW i \in Promises(r), NEW j \in Promises(r), r[i].label = r[j].label PROVE i = j BY DEF Once
    <2>1. i + 1 = j + 1 BY <1>7 DEF Once
    <2> QED BY <1>7, <2>1
  <1> QED BY <1>3, <1>4, <1>5, <1>6, <1>9, <1>10 DEF Pledges

\* A step that makes labels and leaves calls that set them keeps the account.
LEMMA LabelsMade ==
  ASSUME Typed, Labelling, work # <<>>, NEW c, NEW L, Pledges(c, L), work' = c \o Tail(work),
         labels' \in Nat, labels' >= labels, L = Own(work[1]) \cup labels .. labels' - 1,
         UNCHANGED <<places, functions>>
  PROVE  Labelling'
  <1>1. work \in Seq(Calls) /\ labels \in Nat BY DEF Typed
  <1>2. PICK w, r, x : w = work /\ r = work' /\ x = work[1] OBVIOUS
  <1>3. /\ Once(w) /\ Placed \cap Promised(w) = {} /\ Placed \cap Owed = {} /\ Promised(w) \cap Owed = {}
        /\ Placed \cup Promised(w) \cup Owed = 0 .. labels - 1
    BY <1>2 DEF Labelling
  <1>4. w \in Seq(Calls) /\ w # <<>> BY <1>1, <1>2
  <1>5. /\ Promised(w) = Own(x) \cup Rest(w) /\ Own(x) \cap Rest(w) = {} /\ Pledges(Tail(w), Rest(w))
    BY <1>2, <1>3, <1>4, PledgeHead
  <1>6. L \cap Rest(w) = {}
    <2>1. Rest(w) \subseteq 0 .. labels - 1 BY <1>3, <1>5
    <2> QED BY <1>1, <1>2, <1>5, <2>1
  <1>7. r = c \o Tail(w) BY <1>2
  <1>8. Pledges(r, L \cup Rest(w)) BY ONLY <1>5, <1>6, <1>7, Pledges(c, L), PledgeJoined, Zenon
  <1>9. Once(r) /\ Promised(r) = Promised(w) \cup labels .. labels' - 1 BY <1>2, <1>5, <1>8 DEF Pledges
  <1>10. Placed' = Placed /\ Owed' = Owed /\ Undefined' = Undefined BY DEF Placed, Owed, Undefined
  <1>11. (0 .. labels - 1) \cup (labels .. labels' - 1) = 0 .. labels' - 1 BY <1>1
  <1>12. Placed \subseteq 0 .. labels - 1 /\ Owed \subseteq 0 .. labels - 1 BY <1>3
  <1>13. (0 .. labels - 1) \cap (labels .. labels' - 1) = {}
    <2> SUFFICES ASSUME NEW y \in 0 .. labels - 1, y \in labels .. labels' - 1 PROVE FALSE OBVIOUS
    <2> QED BY <1>1
  <1>14. /\ Placed \cap Promised(r) = {} /\ Placed \cap Owed = {} /\ Promised(r) \cap Owed = {}
         /\ Placed \cup Promised(r) \cup Owed = 0 .. labels' - 1
    BY <1>3, <1>9, <1>11, <1>12, <1>13
  <1>15. /\ \A i, j \in DOMAIN places' : places'[i].label = places'[j].label => i = j
         /\ \A i, j \in Undefined' : functions'[i].label = functions'[j].label => i = j
    BY <1>10 DEF Labelling
  <1> QED BY <1>2, <1>9, <1>10, <1>14, <1>15 DEF Labelling

\* Steps that make no label and set none.
LEMMA LabelsLeft ==
  ASSUME Typed, Labelling, work # <<>>, ~Promising(work[1]), NEW c, Pledges(c, {}), work' = c \o Tail(work),
         UNCHANGED <<labels, places, functions>>
  PROVE  Labelling'
  <1>1. labels \in Nat BY DEF Typed
  <1>2. PICK L : L = {} OBVIOUS
  <1>3. L = Own(work[1]) \cup labels .. labels' - 1 BY <1>1, <1>2 DEF Own
  <1>4. Pledges(c, L) BY <1>2
  <1>5. labels' \in Nat /\ labels' >= labels BY <1>1
  <1> QED BY <1>3, <1>4, <1>5, LabelsMade

\* Quiet steps make no label.
LEMMA LabelsQuiet ==
  ASSUME Typed, Labelling, QuietStep
  PROVE  Labelling'
  <1>1. PICK c : Calm(c) /\ work' = c \o Tail(work) BY DEF QuietStep
  <1>2. work # <<>> /\ ~Promising(work[1]) /\ UNCHANGED <<labels, places, functions>>
    BY DEF QuietStep, Quiet, Promising
  <1>3. c \in Seq(Calls) /\ \A i \in 1 .. Len(c) : ~Promising(c[i]) BY <1>1 DEF Calm, Quiet, Promising
  <1>4. Pledges(c, {}) BY <1>3, PledgeNone
  <1> QED BY <1>1, <1>2, <1>4, LabelsLeft

\* SetLabel places the label that the call promised.
LEMMA LabelsPlaced ==
  ASSUME Typed, Labelling, SetLabelNext
  PROVE  Labelling'
  <1>1. work # <<>> /\ work[1].do = "setLabel" /\ work' = <<>> \o Tail(work)
        /\ places' = Append(places, [label |-> work[1].label, address |-> Len(statement)])
        /\ UNCHANGED <<labels, functions>>
    BY DEF SetLabelNext, Doing, Then, Place, tables
  <1>2. work \in Seq(Calls) /\ labels \in Nat BY DEF Typed
  <1>3. PICK w, r, l : w = work /\ r = work' /\ l = work[1].label OBVIOUS
  <1>4. w \in Seq(Calls) /\ w # <<>> /\ Once(w) BY <1>1, <1>2, <1>3 DEF Labelling
  <1>5. r = Tail(w) BY <1>1, <1>2, <1>3
  <1>6. /\ Promised(w) = Own(w[1]) \cup Rest(w) /\ Own(w[1]) \cap Rest(w) = {} /\ Pledges(r, Rest(w))
    BY <1>4, <1>5, PledgeHead
  <1>7. Own(w[1]) = {l} BY <1>1, <1>3 DEF Own, Promising
  <1>8. Promised(r) = Rest(w) /\ Once(r) BY <1>6 DEF Pledges
  <1>9. PICK n : n = Len(places) OBVIOUS
  <1>10. places \in Seq([label : Int, address : Nat]) BY DEF Typed
  <1>11. n \in Nat /\ DOMAIN places = 1 .. n BY <1>9, <1>10
  <1>12. PICK p : p = [label |-> l, address |-> Len(statement)] OBVIOUS
  <1>13. /\ DOMAIN places' = 1 .. n + 1 /\ places'[n + 1] = p
         /\ \A i \in 1 .. n : places'[i] = places[i]
    BY <1>1, <1>3, <1>9, <1>10, <1>11, <1>12
  <1>14. p.label = l BY <1>12
  <1>15. l \in Promised(w) BY <1>6, <1>7
  <1>16. l \notin Placed BY <1>3, <1>15 DEF Labelling
  <1>17. Placed' = Placed \cup {l}
    <2>1. ASSUME NEW x \in Placed' PROVE x \in Placed \cup {l}
      <3>1. PICK i \in DOMAIN places' : x = places'[i].label BY <2>1 DEF Placed
      <3>2. CASE i = n + 1 BY <1>13, <1>14, <3>1, <3>2
      <3>3. CASE i \in 1 .. n BY <1>11, <1>13, <3>1, <3>3 DEF Placed
      <3> QED BY <1>11, <1>13, <3>1, <3>2, <3>3
    <2>2. ASSUME NEW x \in Placed PROVE x \in Placed'
      <3>1. PICK i \in 1 .. n : x = places[i].label BY <1>11, <2>2 DEF Placed
      <3>2. i \in DOMAIN places' /\ places'[i].label = x BY <1>11, <1>13, <3>1
      <3> QED BY <3>2 DEF Placed
    <2>3. l \in Placed'
      <3>1. n + 1 \in DOMAIN places' /\ places'[n + 1].label = l BY <1>11, <1>13, <1>14
      <3> QED BY <3>1 DEF Placed
    <2> QED BY <2>1, <2>2, <2>3
  <1>18. \A i, j \in DOMAIN places' : places'[i].label = places'[j].label => i = j
    <2> SUFFICES ASSUME NEW i \in DOMAIN places', NEW j \in DOMAIN places', places'[i].label = places'[j].label
                 PROVE  i = j
      OBVIOUS
    <2>1. \A h \in 1 .. n : places'[h].label = places[h].label /\ places[h].label # l BY <1>11, <1>13, <1>16 DEF Placed
    <2>2. CASE i \in 1 .. n /\ j \in 1 .. n BY <1>11, <2>1, <2>2 DEF Labelling
    <2>3. CASE i \in 1 .. n /\ j = n + 1 BY <1>13, <1>14, <2>1, <2>3
    <2>4. CASE i = n + 1 /\ j \in 1 .. n BY <1>13, <1>14, <2>1, <2>4
    <2> QED BY <1>11, <1>13, <2>2, <2>3, <2>4
  <1>19. Owed' = Owed /\ Undefined' = Undefined BY <1>1 DEF Owed, Undefined
  <1>20. /\ Placed \cap Promised(w) = {} /\ Placed \cap Owed = {} /\ Promised(w) \cap Owed = {}
         /\ Placed \cup Promised(w) \cup Owed = 0 .. labels - 1
    BY <1>3 DEF Labelling
  <1>21. /\ Placed' \cap Promised(r) = {} /\ Placed' \cap Owed = {} /\ Promised(r) \cap Owed = {}
         /\ Placed' \cup Promised(r) \cup Owed = 0 .. labels - 1
    BY <1>6, <1>7, <1>8, <1>17, <1>20
  <1>22. \A i, j \in Undefined' : functions'[i].label = functions'[j].label => i = j BY <1>1, <1>19 DEF Labelling
  <1> QED BY <1>1, <1>3, <1>8, <1>18, <1>19, <1>21, <1>22 DEF Labelling

\* What a sequence of calls pledges when it is written out.
LEMMA PledgeFour ==
  ASSUME NEW x \in Calls, NEW y \in Calls, NEW z \in Calls, NEW u \in Calls,
         ~Promising(z), Own(x) \cap Own(y) = {}, Own(x) \cap Own(u) = {}, Own(y) \cap Own(u) = {}
  PROVE  Pledges(<<x, y, z, u>>, Own(x) \cup Own(y) \cup Own(u))
  <1>1. PICK w : w = <<x, y, z, u>> OBVIOUS
  <1>2. w \in Seq(Calls) /\ DOMAIN w = 1 .. 4 /\ w[1] = x /\ w[2] = y /\ w[3] = z /\ w[4] = u BY <1>1
  <1>3. Promises(w) = {i \in {1, 2, 4} : Promising(w[i])}
    <2>1. \A i \in 1 .. 4 : i = 1 \/ i = 2 \/ i = 3 \/ i = 4 OBVIOUS
    <2> QED BY <1>2, <2>1 DEF Promises
  <1>4. Promised(w) = Own(x) \cup Own(y) \cup Own(u) BY <1>2, <1>3 DEF Promised, Own
  <1>5. Once(w) BY <1>2, <1>3 DEF Once, Own
  <1> QED BY <1>1, <1>2, <1>4, <1>5 DEF Pledges

LEMMA PledgeThree ==
  ASSUME NEW x \in Calls, NEW y \in Calls, NEW z \in Calls, ~Promising(x), ~Promising(y)
  PROVE  Pledges(<<x, y, z>>, Own(z))
  <1>1. PICK w : w = <<x, y, z>> OBVIOUS
  <1>2. w \in Seq(Calls) /\ DOMAIN w = 1 .. 3 /\ w[1] = x /\ w[2] = y /\ w[3] = z BY <1>1
  <1>3. Promises(w) = {i \in {3} : Promising(w[i])}
    <2>1. \A i \in 1 .. 3 : i = 1 \/ i = 2 \/ i = 3 OBVIOUS
    <2> QED BY <1>2, <2>1 DEF Promises
  <1>4. Promised(w) = Own(z) BY <1>2, <1>3 DEF Promised, Own
  <1>5. Once(w) BY <1>2, <1>3 DEF Once, Own
  <1> QED BY <1>1, <1>2, <1>4, <1>5 DEF Pledges

-----------------------------------------------------------------------------
(* Labels: the steps.                                                      *)

\* Which calls promise a label, and which do not.
LEMMA OwnKinds ==
  /\ \A l, n : Own(SetLabel(l, n)) = {l}
  /\ \A s, l, n : Own(Else(s, l, n)) = {l}
  /\ \A x : x.do \notin {"setLabel", "else"} => Own(x) = {} /\ ~Promising(x)
BY DEF Own, Promising, SetLabel, Else

LEMMA PlainKinds ==
  /\ \A e : ~Promising(Push(e))
  /\ \A s : ~Promising(Analyze(s))
  /\ \A op, arg, n : ~Promising(Emit(op, arg, n)) /\ ~Promising(EmitOn(op, arg, n))
  /\ \A l : ~Promising(SetBreakLabel(l))
  /\ ~Promising([do |-> "blockOut"]) /\ ~Promising([do |-> "close"])
BY DEF Promising, Push, Analyze, Emit, EmitOn, SetBreakLabel

\* An if statement makes the label its else part sets,
LEMMA LabelsThen ==
  ASSUME Typed, Labelling, AnalyzeThen
  PROVE  Labelling'
  <1> DEFINE s == work[1].s
             o == EmitOn("oper", 1, 0)
             x == EmitOn("jmpnc", labels, 0)
             y == Analyze(s.then)
             z == Else(s.else, labels, depth - 1)
             p == IF type = "int" THEN <<>> ELSE <<o>>
             q == p \o <<x, y, z>>
  <1>1. work # <<>> /\ work[1].do = "then" /\ work' = q \o Tail(work) /\ labels' = labels + 1
        /\ UNCHANGED <<places, functions>>
    BY DEF AnalyzeThen, Doing, Then, tables
  <1>2. s \in Statements /\ labels \in Nat /\ depth - 1 \in Int BY <1>1, HeadParts, CallParts DEF Typed
  <1>3. s.then \in Statements /\ s.else \in Statements \cup {None} BY <1>1, <1>2, HeadParts, CallParts, StatementParts
  <1>4. o \in Calls /\ x \in Calls /\ y \in Calls
    <2>1. \A e \in Int : EmitOn("oper", e, 0) \in Calls /\ EmitOn("jmpnc", e, 0) \in Calls
      BY CallTypes DEF Opcodes
    <2>2. 1 \in Int /\ labels \in Int BY <1>2
    <2>3. y \in Calls BY <1>3, CallTypes
    <2> QED BY <2>1, <2>2, <2>3
  <1>5a. \A t \in Statements \cup {None}, l \in Int, n \in Int : Else(t, l, n) \in Calls BY CallTypes
  <1>5b. labels \in Int BY <1>2
  <1>5. z \in Calls BY <1>2, <1>3, <1>5a, <1>5b, Zenon
  <1>6. ~Promising(o) /\ ~Promising(x) /\ ~Promising(y) /\ Own(z) = {labels} BY PlainKinds, OwnKinds
  <1> HIDE DEF o, x, y, z
  <1>7. Pledges(<<x, y, z>>, {labels}) BY <1>4, <1>5, <1>6, PledgeThree
  <1>8. Pledges(p, {})
    <2>1. CASE type = "int"
      <3>1. p \in Seq(Calls) /\ Len(p) = 0 BY <2>1
      <3>2. \A i \in 1 .. Len(p) : ~Promising(p[i]) BY <3>1
      <3> HIDE DEF p
      <3> QED BY <3>1, <3>2, PledgeNone
    <2>2. CASE type # "int"
      <3>1. p \in Seq(Calls) /\ Len(p) = 1 /\ p[1] = o BY <1>4, <2>2
      <3>2. \A i \in 1 .. Len(p) : ~Promising(p[i]) BY <1>6, <3>1
      <3> HIDE DEF p
      <3> QED BY <3>1, <3>2, PledgeNone
    <2> QED BY <2>1, <2>2
  <1> HIDE DEF p
  <1>9. PICK t, L, M : t = <<x, y, z>> /\ L = {} /\ M = {labels} OBVIOUS
  <1>10. q = p \o t /\ Pledges(p, L) /\ Pledges(t, M) /\ L \cap M = {} BY <1>7, <1>8, <1>9
  <1> HIDE DEF q
  <1>11. Pledges(q, L \cup M) BY ONLY <1>10, PledgeJoined
  <1>12. PICK N : N = L \cup M OBVIOUS
  <1>13. N = Own(work[1]) \cup labels .. labels' - 1
    <2>1. Own(work[1]) = {} BY <1>1, OwnKinds
    <2>2. labels .. labels' - 1 = {labels} BY <1>1, <1>2
    <2> QED BY <1>9, <1>12, <2>1, <2>2
  <1>14. Pledges(q, N) /\ labels' \in Nat /\ labels' >= labels BY <1>1, <1>2, <1>11, <1>12
  <1> QED BY <1>1, <1>13, <1>14, LabelsMade

\* and with an else one more, for the end.
LEMMA LabelsElse ==
  ASSUME Typed, Labelling, AnalyzeElse
  PROVE  Labelling'
  <1> DEFINE s == work[1].s
             x == SetLabel(work[1].label, work[1].least)
             y == Emit("jmp", labels, 0)
             z == SetLabel(labels, work[1].least)
  <1>1. work # <<>> /\ work[1].do = "else" /\ UNCHANGED <<places, functions>> /\ work \in Seq(Calls)
    BY DEF AnalyzeElse, Doing, tables, Typed
  <1>2. /\ s \in Statements \cup {None} /\ work[1].label \in Int /\ work[1].least \in Int
        /\ labels \in Nat /\ labels \in Int
    BY <1>1, HeadParts, CallParts DEF Typed
  <1>3. \A l \in Int, n \in Int : SetLabel(l, n) \in Calls BY CallTypes
  <1>4. x \in Calls /\ z \in Calls BY <1>2, <1>3, Zenon
  <1>5. y \in Calls BY <1>2, CallTypes DEF Opcodes
  <1>6. PICK l : l = work[1].label OBVIOUS
  <1>7. Own(x) = {l} /\ Own(z) = {labels} /\ ~Promising(y) /\ Own(y) = {} /\ Own(work[1]) = {l}
    BY <1>1, <1>6, OwnKinds, PlainKinds DEF Own, Promising
  <1>8. l \in 0 .. labels - 1
    <2>1. Promised(work) = Own(work[1]) \cup Rest(work) BY <1>1, PledgeHead DEF Labelling
    <2> QED BY <1>7, <2>1 DEF Labelling
  <1>9. CASE s = None
    <2>1. work' = <<x>> \o Tail(work) /\ labels' = labels BY <1>9 DEF AnalyzeElse, Then
    <2> HIDE DEF x, y, z, s
    <2>2. Pledges(<<x>>, Own(x)) BY <1>4, PledgeOne
    <2>3. Own(x) = Own(work[1]) \cup labels .. labels' - 1 BY <1>2, <1>7, <2>1
    <2>4. labels' \in Nat /\ labels' >= labels BY <1>2, <2>1
    <2> QED BY <1>1, <2>1, <2>2, <2>3, <2>4, LabelsMade
  <1>10. CASE s # None
    <2>1. work' = <<y, x, Analyze(s), z>> \o Tail(work) /\ labels' = labels + 1 BY <1>10 DEF AnalyzeElse, Then
    <2>2. Analyze(s) \in Calls /\ ~Promising(Analyze(s)) BY <1>2, <1>10, CallTypes, PlainKinds
    <2>3. PICK u : u = Analyze(s) OBVIOUS
    <2> HIDE DEF x, y, z, s
    <2>4. l # labels BY <1>2, <1>8
    <2>5. Own(y) \cap Own(x) = {} /\ Own(y) \cap Own(z) = {} /\ Own(x) \cap Own(z) = {} BY <1>7, <2>4
    <2>6. Pledges(<<y, x, u, z>>, Own(y) \cup Own(x) \cup Own(z)) BY <1>4, <1>5, <2>2, <2>3, <2>5, PledgeFour
    <2>7. PICK c, L : c = <<y, x, u, z>> /\ L = Own(y) \cup Own(x) \cup Own(z) OBVIOUS
    <2>8. labels .. labels' - 1 = {labels} BY <1>2, <2>1
    <2>9. L = Own(work[1]) \cup labels .. labels' - 1 BY <1>7, <2>7, <2>8
    <2>10. labels' \in Nat /\ labels' >= labels BY <1>2, <2>1
    <2>11. Pledges(c, L) /\ work' = c \o Tail(work) BY <2>1, <2>3, <2>6, <2>7
    <2> QED BY <1>1, <2>9, <2>10, <2>11, LabelsMade
  <1> QED BY <1>9, <1>10

\* A loop makes two labels and sets both.
LEMMA PledgePart ==
  ASSUME NEW s \in Statements \cup {None}, IsPart(s)
  PROVE  Pledges(Part(s), {})
  <1>1. PICK c : c = Part(s) OBVIOUS
  <1>2. c \in Seq(Calls) BY <1>1, PartFlat, FlatCalls
  <1>3. \A i \in 1 .. Len(c) : ~Promising(c[i])
    <2>1. CASE s.k = "none" BY <1>1, <2>1 DEF Part
    <2>2. CASE s.k = "assign"
      <3>1. c = <<Analyze(s)>> BY <1>1, <2>2 DEF Part
      <3> QED BY <3>1, PlainKinds
    <2>3. CASE s.k = "unary"
      <3>1. c = <<Push(s.e)>> BY <1>1, <2>3 DEF Part
      <3> QED BY <3>1, PlainKinds
    <2> QED BY <2>1, <2>2, <2>3 DEF IsPart
  <1> QED BY <1>1, <1>2, <1>3, PledgeNone

LEMMA PledgeTwo ==
  ASSUME NEW x \in Calls, NEW y \in Calls, Own(x) = {}
  PROVE  Pledges(<<x, y>>, Own(y))
  <1>1. PICK a, b, L, M, r : a = <<x>> /\ b = <<y>> /\ L = Own(x) /\ M = Own(y) /\ r = <<x, y>> OBVIOUS
  <1>2. r = a \o b BY <1>1, Paired
  <1>3. Pledges(a, L) /\ Pledges(b, M) /\ L \cap M = {} BY <1>1, PledgeOne
  <1>4. Pledges(r, L \cup M) BY ONLY <1>2, <1>3, PledgeJoined
  <1>5. L \cup M = Own(y) BY <1>1
  <1> QED BY <1>1, <1>4, <1>5

LEMMA PledgeLoop ==
  ASSUME NEW init \in Statements \cup {None}, IsPart(init), NEW step \in Statements \cup {None}, IsPart(step),
         NEW e \in Expressions, NEW body \in Statements, NEW l1 \in Int, NEW l2 \in Int, l1 # l2, depth \in Int,
         breakIndex \in Int
  PROVE  Pledges(LoopCode(init, e, step, body, l1, l2), {l1, l2})
  <1>1. PICK a : a = Part(init) OBVIOUS
  <1>2. PICK c : c = Part(step) OBVIOUS
  <1>3. PICK b1, b2, b3, b4 : /\ b1 = SetLabel(l1, depth) /\ b2 = Push(e) /\ b3 = EmitOn("jmpnc", l2, 0)
                              /\ b4 = Analyze(body)
    OBVIOUS
  <1>4. PICK d1, d2, x : d1 = Emit("jmp", l1, 0) /\ d2 = SetLabel(l2, depth) /\ x = SetBreakLabel(breakIndex)
    OBVIOUS
  <1>5. Pledges(a, {}) /\ Pledges(c, {}) BY <1>1, <1>2, PledgePart
  <1>6. \A l \in Int, n \in Int : SetLabel(l, n) \in Calls BY CallTypes
  <1>7. b1 \in Calls /\ d2 \in Calls BY <1>3, <1>4, <1>6
  <1>8. b2 \in Calls /\ b4 \in Calls BY <1>3, CallTypes
  <1>9. b3 \in Calls /\ d1 \in Calls
    <2>1. \A l \in Int : EmitOn("jmpnc", l, 0) \in Calls /\ Emit("jmp", l, 0) \in Calls BY CallTypes DEF Opcodes
    <2> QED BY <1>3, <1>4, <2>1
  <1>10. x \in Calls BY <1>4, CallTypes
  <1>11. Own(b1) = {l1} /\ Own(d2) = {l2} BY <1>3, <1>4, OwnKinds
  <1>12. ~Promising(b2) /\ ~Promising(b3) /\ ~Promising(b4) /\ ~Promising(d1) /\ ~Promising(x)
    BY <1>3, <1>4, PlainKinds
  <1>13. Own(b2) = {} /\ Own(b4) = {} /\ Own(d1) = {} /\ Own(x) = {} BY <1>12 DEF Own
  <1>14. PICK b : b = <<b1, b2, b3, b4>> OBVIOUS
  <1>15. PICK d : d = <<d1, d2>> OBVIOUS
  <1>16. PICK y : y = <<x>> OBVIOUS
  <1>17. Pledges(b, {l1})
    <2>1. /\ ~Promising(b3) /\ Own(b1) \cap Own(b2) = {} /\ Own(b1) \cap Own(b4) = {} /\ Own(b2) \cap Own(b4) = {}
      BY <1>12, <1>13
    <2>2. Pledges(<<b1, b2, b3, b4>>, Own(b1) \cup Own(b2) \cup Own(b4)) BY <1>7, <1>8, <1>9, <2>1, PledgeFour
    <2> QED BY <1>11, <1>13, <1>14, <2>2
  <1>18. Pledges(d, {l2}) BY <1>7, <1>9, <1>11, <1>13, <1>15, PledgeTwo
  <1>19. Pledges(y, {}) BY <1>10, <1>13, <1>16, PledgeOne
  <1>20. PICK N, L, M : N = {} /\ L = {l1} /\ M = {l2} OBVIOUS
  <1>21. PICK p : p = a \o b OBVIOUS
  <1>22. PICK q : q = p \o c OBVIOUS
  <1>23. PICK r : r = q \o d OBVIOUS
  <1>24. PICK t : t = r \o y OBVIOUS
  <1>25. Pledges(a, N) /\ Pledges(b, L) /\ Pledges(c, N) /\ Pledges(d, M) /\ Pledges(y, N)
    BY <1>5, <1>17, <1>18, <1>19, <1>20
  <1>26. N \cap L = {} /\ L \cap N = {} /\ L \cap M = {} BY <1>20
  <1>27. Pledges(p, L)
    <2>1. Pledges(p, N \cup L) BY ONLY <1>21, <1>25, <1>26, PledgeJoined
    <2>2. N \cup L = L BY <1>20
    <2> QED BY <2>1, <2>2
  <1>28. Pledges(q, L)
    <2>1. Pledges(q, L \cup N) BY ONLY <1>22, <1>25, <1>26, <1>27, PledgeJoined
    <2>2. L \cup N = L BY <1>20
    <2> QED BY <2>1, <2>2
  <1>29. Pledges(r, L \cup M) BY ONLY <1>23, <1>25, <1>26, <1>28, PledgeJoined
  <1>30. PICK O : O = L \cup M OBVIOUS
  <1>31. Pledges(t, O)
    <2>1. Pledges(r, O) /\ O \cap N = {} BY <1>20, <1>29, <1>30
    <2>2. Pledges(t, O \cup N) BY ONLY <1>24, <1>25, <2>1, PledgeJoined
    <2>3. O \cup N = O BY <1>20
    <2> QED BY <2>2, <2>3
  <1>32. LoopFront(init, e, step, body, l1, l2, depth) = r
    BY <1>1, <1>2, <1>3, <1>4, <1>14, <1>15, <1>21, <1>22, <1>23, Zenon DEF LoopFront
  <1>33. LoopCode(init, e, step, body, l1, l2) = LoopFront(init, e, step, body, l1, l2, depth) \o <<SetBreakLabel(breakIndex)>>
    BY LoopFlat
  <1>34. LoopCode(init, e, step, body, l1, l2) = t BY <1>4, <1>16, <1>24, <1>32, <1>33
  <1>35. O = {l1, l2} BY <1>20, <1>30
  <1> QED BY <1>31, <1>34, <1>35

LEMMA LabelsLoop ==
  ASSUME Typed, Labelling, AnalyzeLoop
  PROVE  Labelling'
  <1>1. PICK s : s = work[1].s OBVIOUS
  <1>2. PICK init, step : init = (IF s.k = "while" THEN None ELSE s.init) /\ step = IF s.k = "while" THEN None ELSE s.step
    OBVIOUS
  <1>3. work # <<>> /\ work[1].do = "analyze" /\ s.k \in {"while", "for"}
        /\ work' = LoopCode(init, s.e, step, s.body, labels, labels + 1) \o Tail(work)
        /\ labels' = labels + 2 /\ UNCHANGED <<places, functions>>
    BY <1>1, <1>2 DEF AnalyzeLoop, Doing, Then, tables
  <1>4. s \in Statements /\ labels \in Nat /\ depth \in Int /\ breakIndex \in Int
    BY <1>1, <1>3, HeadParts, CallParts DEF Typed
  <1>5. /\ s.e \in Expressions /\ s.body \in Statements
        /\ s.k = "for" => /\ s.init \in Statements \cup {None} /\ IsPart(s.init)
                          /\ s.step \in Statements \cup {None} /\ IsPart(s.step)
    BY <1>3, <1>4, StatementParts
  <1>6. None \in Statements \cup {None} /\ IsPart(None) BY DEF IsPart, None
  <1>7. init \in Statements \cup {None} /\ IsPart(init) /\ step \in Statements \cup {None} /\ IsPart(step)
    <2>1. CASE s.k = "while" BY <1>2, <1>6, <2>1
    <2>2. CASE s.k = "for" BY <1>2, <1>5, <2>2
    <2> QED BY <1>3, <2>1, <2>2
  <1>8. PICK e, body, l1, l2 : e = s.e /\ body = s.body /\ l1 = labels /\ l2 = labels + 1 OBVIOUS
  <1>9. e \in Expressions /\ body \in Statements /\ l1 \in Int /\ l2 \in Int /\ l1 # l2 BY <1>4, <1>5, <1>8
  <1>10. PICK c, L : c = LoopCode(init, e, step, body, l1, l2) /\ L = {l1, l2} OBVIOUS
  <1>11. Pledges(LoopCode(init, e, step, body, l1, l2), {l1, l2}) BY ONLY <1>4, <1>7, <1>9, PledgeLoop
  <1>12. Pledges(c, L) /\ work' = c \o Tail(work) BY <1>3, <1>8, <1>10, <1>11
  <1>13. L = Own(work[1]) \cup labels .. labels' - 1
    <2>1. Own(work[1]) = {} BY <1>3, OwnKinds
    <2>2. labels .. labels' - 1 = {labels, labels + 1} BY <1>3, <1>4
    <2> QED BY <1>8, <1>10, <2>1, <2>2
  <1>14. labels' \in Nat /\ labels' >= labels BY <1>3, <1>4
  <1> QED BY <1>3, <1>12, <1>13, <1>14, LabelsMade

\* A switch makes one label, for its end.
LEMMA LabelsCases ==
  ASSUME Typed, Labelling, AnalyzeCases
  PROVE  Labelling'
  <1>1. PICK items, n : items = work[1].items /\ n = Len(items) OBVIOUS
  <1>2. PICK a1, a2, b, d, x :
          /\ a1 = EmitOn("pop", 0, 0) /\ a2 = Emit("jmp", labels, 0) /\ b = [i \in DOMAIN items |-> Analyze(items[i])]
          /\ d = SetLabel(labels, depth - 1) /\ x = SetBreakLabel(breakIndex)
    OBVIOUS
  <1>3. work # <<>> /\ work[1].do = "cases" /\ work' = ((<<a1, a2>> \o b) \o <<d, x>>) \o Tail(work)
        /\ labels' = labels + 1 /\ UNCHANGED <<places, functions>>
    BY <1>1, <1>2 DEF AnalyzeCases, Doing, Then, tables
  <1>4. items \in Seq(Statements) /\ labels \in Nat /\ labels \in Int /\ depth \in Int /\ depth - 1 \in Int /\ breakIndex \in Int
    BY <1>1, <1>3, HeadParts, CallParts DEF Typed
  <1>5. \A l \in Int, m \in Int : SetLabel(l, m) \in Calls BY CallTypes
  <1>6. d \in Calls BY <1>2, <1>4, <1>5, Zenon
  <1>7. a1 \in Calls /\ a2 \in Calls /\ x \in Calls
    <2>1. \A l \in Int : EmitOn("pop", l, 0) \in Calls /\ Emit("jmp", l, 0) \in Calls BY CallTypes DEF Opcodes
    <2>2. \A l \in Int : SetBreakLabel(l) \in Calls BY CallTypes
    <2>3. 0 \in Int OBVIOUS
    <2> QED BY <1>2, <1>4, <2>1, <2>2, <2>3, Zenon
  <1>8. Own(d) = {labels} /\ Own(a1) = {} /\ Own(a2) = {} /\ Own(x) = {} BY <1>2, OwnKinds, PlainKinds DEF Own
  <1>9. Pledges(b, {})
    <2>1. n \in Nat /\ DOMAIN items = 1 .. n /\ \A i \in 1 .. n : items[i] \in Statements BY <1>1, <1>4
    <2>2. \A i \in 1 .. n : Analyze(items[i]) \in Calls BY <2>1, CallTypes
    <2>3. b \in [1 .. n -> Calls] BY <1>2, <2>1, <2>2
    <2>4. b \in Seq(Calls) /\ Len(b) = n BY <2>1, <2>3, Listed
    <2>5. \A i \in 1 .. n : ~Promising(b[i])
      <3> SUFFICES ASSUME NEW i \in 1 .. n PROVE ~Promising(b[i]) OBVIOUS
      <3>1. b[i] = Analyze(items[i]) BY <1>2, <2>1
      <3> QED BY <3>1, PlainKinds
    <2> QED BY <2>4, <2>5, PledgeNone
  <1>10. PICK a, e, N, L : a = <<a1, a2>> /\ e = <<d, x>> /\ N = {} /\ L = {labels} OBVIOUS
  <1>11. Pledges(a, N) BY <1>7, <1>8, <1>10, PledgeTwo
  <1>12. Pledges(e, L)
    <2>1. PICK y, z : y = <<d>> /\ z = <<x>> OBVIOUS
    <2>2. e = y \o z BY <1>10, <2>1, Paired
    <2>3. Pledges(y, L) /\ Pledges(z, N) /\ L \cap N = {} BY <1>6, <1>7, <1>8, <1>10, <2>1, PledgeOne
    <2>4. Pledges(e, L \cup N) BY ONLY <2>2, <2>3, PledgeJoined
    <2>5. L \cup N = L BY <1>10
    <2> QED BY <2>4, <2>5
  <1>13. PICK f : f = a \o b OBVIOUS
  <1>14. PICK c : c = f \o e OBVIOUS
  <1>15. N \cap N = {} /\ N \cap L = {} /\ Pledges(b, N) BY <1>9, <1>10
  <1>16. Pledges(f, N \cup N) BY ONLY <1>11, <1>13, <1>15, PledgeJoined
  <1>17. Pledges(f, N) BY <1>10, <1>16
  <1>18. Pledges(c, N \cup L) BY ONLY <1>12, <1>14, <1>15, <1>17, PledgeJoined
  <1>19. Pledges(c, L) /\ work' = c \o Tail(work) BY <1>3, <1>10, <1>13, <1>14, <1>18
  <1>20. L = Own(work[1]) \cup labels .. labels' - 1
    <2>1. Own(work[1]) = {} BY <1>3, OwnKinds
    <2>2. labels .. labels' - 1 = {labels} BY <1>3, <1>4
    <2> QED BY <1>10, <2>1, <2>2
  <1>21. labels' \in Nat /\ labels' >= labels BY <1>3, <1>4
  <1> QED BY <1>3, <1>19, <1>20, <1>21, LabelsMade

\* Calls that set no label in the end.
Mute == {x \in Calls : ~Promising(x)}

LEMMA PledgeMute ==
  ASSUME NEW w \in Seq(Mute)
  PROVE  w \in Seq(Calls) /\ Pledges(w, {})
  <1>1. w \in Seq(Calls) BY DEF Mute
  <1>2. \A i \in 1 .. Len(w) : w[i] \in Mute OBVIOUS
  <1>3. \A i \in 1 .. Len(w) : ~Promising(w[i]) BY <1>2 DEF Mute
  <1> QED BY <1>1, <1>3, PledgeNone

\* The calls of blocks and functions set no label.
LEMMA BodyMute ==
  ASSUME NEW s \in Statements, s.k = "block"
  PROVE  Body(s) \in Seq(Mute)
  <1>1. s.decls \in Seq(STRING) /\ s.items \in Seq(Statements) BY StatementParts
  <1> DEFINE a == [i \in DOMAIN s.decls |-> [do |-> "define", name |-> s.decls[i]]]
             do == IF s.decls = <<>> THEN "block" ELSE "alloc"
             x == [do |-> do, items |-> s.items]
  <1>2. a \in Seq(Mute)
    <2>1. Len(s.decls) \in Nat /\ DOMAIN s.decls = 1 .. Len(s.decls) /\ \A i \in 1 .. Len(s.decls) : s.decls[i] \in STRING
      BY <1>1
    <2>2. \A n \in STRING : [do |-> "define", name |-> n] \in Calls /\ ~Promising([do |-> "define", name |-> n])
      BY CallTypes DEF Promising
    <2>3. \A i \in 1 .. Len(s.decls) : [do |-> "define", name |-> s.decls[i]] \in Mute BY <2>1, <2>2 DEF Mute
    <2>4. a \in [1 .. Len(s.decls) -> Mute] BY <2>1, <2>3
    <2> HIDE DEF a
    <2> QED BY <2>1, <2>4, Listed
  <1>3. do \in {"alloc", "block"} OBVIOUS
  <1> HIDE DEF do
  <1>4. x \in Calls BY <1>1, <1>3, CallTypes
  <1>5. ~Promising(x) BY <1>3 DEF Promising
  <1>6. Body(s) = a \o <<x>> BY DEF Body, do
  <1> HIDE DEF x, a
  <1>7. <<x>> \in Seq(Mute) BY <1>4, <1>5 DEF Mute
  <1> QED BY <1>2, <1>6, <1>7

LEMMA MuteKinds == [do |-> "blockOut"] \in Mute /\ [do |-> "close"] \in Mute
BY PlainKinds, CallTypes DEF Mute

LEMMA FunctionMute ==
  ASSUME NEW f \in FunctionForms(Statements), NEW i \in Nat
  PROVE  FunctionCalls(f, i) \in Seq(Mute)
  <1>1. PICK p : p = ParameterCalls(f, i) OBVIOUS
  <1>2. /\ p \in Seq(Calls) /\ Len(p) = Len(f.params) /\ Len(f.params) \in Nat
        /\ \A j \in 1 .. Len(p) : p[j].do = "parameter"
    BY <1>1, ParameterTypes
  <1>3. p \in Seq(Mute)
    <2>1. \A j \in 1 .. Len(p) : p[j] \in Mute BY <1>2 DEF Mute, Promising
    <2>2. p \in [1 .. Len(p) -> Mute] BY <1>2, <2>1
    <2> QED BY <1>2, <2>2, Listed
  <1>4. PICK b : b = Body(f.body) OBVIOUS
  <1>5. b \in Seq(Mute)
    <2>1. f.body \in Statements /\ f.body.k = "block" BY DEF FunctionForms
    <2> QED BY <1>4, <2>1, BodyMute
  <1>6. PICK x, y : x = [do |-> "close"] /\ y = [do |-> "blockOut"] OBVIOUS
  <1>7. <<x, y>> \in Seq(Mute) BY <1>6, MuteKinds
  <1>8. b \o <<x, y>> \in Seq(Mute) BY <1>5, <1>7
  <1>9. FunctionCalls(f, i) = p \o (b \o <<x, y>>) BY <1>1, <1>4, <1>6 DEF FunctionCalls, RestCalls
  <1> QED BY <1>3, <1>8, <1>9

\* A step that puts calls that set no label in the place of one that sets none.
LEMMA LabelsMute ==
  ASSUME Typed, Labelling, work # <<>>, ~Promising(work[1]), NEW c \in Seq(Mute), work' = c \o Tail(work),
         UNCHANGED <<labels, places, functions>>
  PROVE  Labelling'
  <1>1. c \in Seq(Calls) /\ Pledges(c, {}) BY PledgeMute
  <1> QED BY <1>1, LabelsLeft

\* The steps that make no label and set none.
LEMMA LabelsBreakLabel ==
  ASSUME Typed, Labelling, SetBreakLabelNext
  PROVE  Labelling'
  <1>1. work # <<>> /\ work[1].do = "setBreakLabel" /\ work' = <<>> \o Tail(work) /\ UNCHANGED <<labels, places, functions>>
    BY DEF SetBreakLabelNext, Doing, Then, tables
  <1>2. PICK c : c = <<>> OBVIOUS
  <1>3. c \in Seq(Mute) /\ work' = c \o Tail(work) BY <1>1, <1>2
  <1>4. ~Promising(work[1]) BY <1>1 DEF Promising
  <1> QED BY <1>1, <1>3, <1>4, LabelsMute

LEMMA LabelsBlock ==
  ASSUME Typed, Labelling, AnalyzeBlock
  PROVE  Labelling'
  <1>1. PICK s, q, x : s = work[1].s /\ q = Body(s) /\ x = [do |-> "blockOut"] OBVIOUS
  <1>2. /\ work # <<>> /\ work[1].do = "analyze" /\ s.k = "block" /\ work' = (q \o <<x>>) \o Tail(work)
        /\ UNCHANGED <<labels, places, functions>>
    BY <1>1 DEF AnalyzeBlock, Doing, Then, labelled
  <1>3. s \in Statements BY <1>1, <1>2, HeadParts, CallParts
  <1>4. q \in Seq(Mute) /\ <<x>> \in Seq(Mute) BY <1>1, <1>2, <1>3, BodyMute, MuteKinds
  <1>5. PICK c : c = q \o <<x>> OBVIOUS
  <1>6. c \in Seq(Mute) /\ work' = c \o Tail(work) BY <1>2, <1>4, <1>5
  <1>7. ~Promising(work[1]) BY <1>2 DEF Promising
  <1> QED BY <1>2, <1>6, <1>7, LabelsMute

LEMMA LabelsBlockOut ==
  ASSUME Typed, Labelling, BlockOut
  PROVE  Labelling'
  <1>1. work # <<>> /\ work[1].do = "blockOut" /\ work' = <<>> \o Tail(work) /\ UNCHANGED <<labels, places, functions>>
    BY DEF BlockOut, Doing, Then, labelled
  <1>2. PICK c : c = <<>> OBVIOUS
  <1>3. c \in Seq(Mute) /\ work' = c \o Tail(work) BY <1>1, <1>2
  <1>4. ~Promising(work[1]) BY <1>1 DEF Promising
  <1> QED BY <1>1, <1>3, <1>4, LabelsMute

LEMMA LabelsStoreFails ==
  ASSUME Typed, Labelling, StoreFails
  PROVE  Labelling'
  <1>1. work # <<>> /\ work[1].do = "store" /\ UNCHANGED <<labels, places, functions>>
    BY DEF StoreFails, Doing, labelled, tables
  <1>2. work \in Seq(Calls) BY DEF Typed
  <1>3. PICK w, t : w = work /\ t = Tail(work) OBVIOUS
  <1>4. w \in Seq(Calls) /\ w # <<>> /\ Once(w) BY <1>1, <1>2, <1>3 DEF Labelling
  <1>5. Promised(w) = Own(w[1]) \cup Rest(w) /\ Pledges(t, Rest(w)) BY <1>3, <1>4, PledgeHead
  <1>6. Own(w[1]) = {} BY <1>1, <1>3 DEF Own, Promising
  <1>7. t \in Seq(Calls) /\ Once(t) /\ Promised(t) = Promised(w) BY <1>5, <1>6 DEF Pledges
  <1>8. Once(work') /\ Promised(work') = Promised(work)
    <2>1. CASE Len(work) > 1 /\ work[2].do = "block"
      <3>1. work' = Tail(t) BY <1>3, <2>1 DEF StoreFails
      <3>2. /\ Len(w) \in Nat /\ Len(t) = Len(w) - 1 /\ \A i \in 2 .. Len(w) : i - 1 \in DOMAIN t /\ t[i - 1] = w[i]
        BY <1>3, <1>4, Behind
      <3>3. 2 \in 2 .. Len(w) /\ 2 - 1 = 1 BY <1>3, <2>1, <3>2
      <3>4. t[1] = w[2] /\ t # <<>>
        <4>1. 2 - 1 \in DOMAIN t /\ t[2 - 1] = w[2] BY <3>2, <3>3
        <4> QED BY <3>3, <4>1
      <3>5. Own(t[1]) = {} BY <1>3, <2>1, <3>4 DEF Own, Promising
      <3>6. Promised(t) = Own(t[1]) \cup Rest(t) /\ Pledges(Tail(t), Rest(t)) BY <1>7, <3>4, PledgeHead
      <3> QED BY <1>3, <1>7, <3>1, <3>5, <3>6 DEF Pledges
    <2>2. CASE ~(Len(work) > 1 /\ work[2].do = "block")
      <3>1. work' = t BY <1>3, <2>2 DEF StoreFails
      <3> QED BY <1>3, <1>7, <3>1
    <2> QED BY <2>1, <2>2
  <1>9. Placed' = Placed /\ Owed' = Owed /\ Undefined' = Undefined BY <1>1 DEF Placed, Owed, Undefined
  <1>10. /\ \A i, j \in DOMAIN places' : places'[i].label = places'[j].label => i = j
         /\ \A i, j \in Undefined' : functions'[i].label = functions'[j].label => i = j
    BY <1>1, <1>9 DEF Labelling
  <1>11. /\ Placed \cap Promised(work) = {} /\ Placed \cap Owed = {} /\ Promised(work) \cap Owed = {}
         /\ Placed \cup Promised(work) \cup Owed = 0 .. labels - 1
    BY DEF Labelling
  <1>12. /\ Placed' \cap Promised(work') = {} /\ Placed' \cap Owed' = {} /\ Promised(work') \cap Owed' = {}
         /\ Placed' \cup Promised(work') \cup Owed' = 0 .. labels' - 1
    BY <1>1, <1>8, <1>9, <1>11
  <1> QED BY <1>8, <1>10, <1>12 DEF Labelling

\* A function that gets a tag makes a label and owes it.
LEMMA LabelsRegist ==
  ASSUME Typed, Bounded, Labelling, RegistFunction
  PROVE  Labelling'
  <1>1. PICK f : f = work[1].f OBVIOUS
  <1>2. PICK tag : tag = [name |-> Append(f.ns, f.name), arity |-> Len(f.params), ret |-> f.ret, label |-> labels,
                          isDefinition |-> FALSE]
    OBVIOUS
  <1>3. /\ work # <<>> /\ work[1].do = "regist" /\ work' = <<>> \o Tail(work) /\ places' = places
        /\ \/ functions' = functions /\ labels' = labels
           \/ functions' = Append(functions, tag) /\ labels' = labels + 1
    BY <1>1, <1>2 DEF RegistFunction, Doing, Then
  <1>4. ~Promising(work[1]) /\ Own(work[1]) = {} BY <1>3 DEF Promising, Own
  <1>5. work \in Seq(Calls) /\ labels \in Nat /\ functions \in Seq(FunctionTags) BY DEF Typed
  <1>6. CASE functions' = functions /\ labels' = labels
    <2>1. PICK c : c = <<>> OBVIOUS
    <2>2. c \in Seq(Mute) /\ work' = c \o Tail(work) BY <1>3, <2>1
    <2> QED BY <1>3, <1>4, <1>6, <2>2, LabelsMute
  <1>7. CASE functions' = Append(functions, tag) /\ labels' = labels + 1
    <2>1. PICK n : n = Len(functions) OBVIOUS
    <2>2. n \in Nat /\ DOMAIN functions = 1 .. n BY <1>5, <2>1
    <2>3. /\ DOMAIN functions' = 1 .. n + 1 /\ functions'[n + 1] = tag
          /\ \A i \in 1 .. n : functions'[i] = functions[i]
      BY <1>5, <1>7, <2>1, <2>2
    <2>4. tag.label = labels /\ ~tag.isDefinition BY <1>2
    <2>5. Undefined' = Undefined \cup {n + 1}
      <3>1. DOMAIN functions' = DOMAIN functions \cup {n + 1} BY <2>2, <2>3
      <3> QED BY <2>2, <2>3, <2>4, <3>1 DEF Undefined
    <2>6. \A i \in Undefined : i \in 1 .. n /\ functions'[i].label = functions[i].label /\ functions[i].label < labels
                               /\ functions[i].label \in Nat
      <3> SUFFICES ASSUME NEW i \in Undefined
                   PROVE  i \in 1 .. n /\ functions'[i].label = functions[i].label /\ functions[i].label < labels
                          /\ functions[i].label \in Nat
        OBVIOUS
      <3>1. i \in 1 .. n BY <2>2 DEF Undefined
      <3>2. functions[i] \in FunctionTags BY <1>5, <2>2, <3>1
      <3> QED BY <2>2, <2>3, <3>1, <3>2, TagParts DEF Bounded
    <2>7. functions'[n + 1].label = labels BY <2>3, <2>4
    <2>8. Owed' = Owed \cup {labels}
      <3>1. ASSUME NEW x \in Owed' PROVE x \in Owed \cup {labels}
        <4>1. PICK i \in Undefined' : x = functions'[i].label BY <3>1 DEF Owed
        <4>2. CASE i = n + 1 BY <2>7, <4>1, <4>2
        <4>3. CASE i \in Undefined BY <2>6, <4>1, <4>3 DEF Owed
        <4> QED BY <2>5, <4>1, <4>2, <4>3
      <3>2. ASSUME NEW x \in Owed PROVE x \in Owed'
        <4>1. PICK i \in Undefined : x = functions[i].label BY <3>2 DEF Owed
        <4> QED BY <2>5, <2>6, <4>1 DEF Owed
      <3>3. labels \in Owed' BY <2>5, <2>7 DEF Owed
      <3> QED BY <3>1, <3>2, <3>3
    <2>9. \A i, j \in Undefined' : functions'[i].label = functions'[j].label => i = j
      <3> SUFFICES ASSUME NEW i \in Undefined', NEW j \in Undefined', functions'[i].label = functions'[j].label
                   PROVE  i = j
        OBVIOUS
      <3>1. CASE i \in Undefined /\ j \in Undefined BY <2>6, <3>1 DEF Labelling
      <3>2. CASE i \in Undefined /\ j = n + 1 BY <1>5, <2>6, <2>7, <3>2
      <3>3. CASE i = n + 1 /\ j \in Undefined BY <1>5, <2>6, <2>7, <3>3
      <3> QED BY <2>5, <3>1, <3>2, <3>3
    <2>10. PICK w, r : w = work /\ r = work' OBVIOUS
    <2>11. w \in Seq(Calls) /\ w # <<>> /\ Once(w) BY <1>3, <1>5, <2>10 DEF Labelling
    <2>12. r = Tail(w) BY <1>3, <1>5, <2>10
    <2>13. Promised(w) = Own(w[1]) \cup Rest(w) /\ Pledges(r, Rest(w)) BY <2>11, <2>12, PledgeHead
    <2>14. Once(r) /\ Promised(r) = Promised(w) BY <1>4, <2>10, <2>13 DEF Pledges
    <2>15. Placed' = Placed BY <1>3 DEF Placed
    <2>16. /\ Placed \cap Promised(w) = {} /\ Placed \cap Owed = {} /\ Promised(w) \cap Owed = {}
           /\ Placed \cup Promised(w) \cup Owed = 0 .. labels - 1
      BY <2>10 DEF Labelling
    <2>17. labels \notin Placed /\ labels \notin Promised(w)
      <3>1. labels \notin 0 .. labels - 1 BY <1>5
      <3> QED BY <2>16, <3>1
    <2>18. 0 .. labels' - 1 = (0 .. labels - 1) \cup {labels} BY <1>5, <1>7
    <2>19. /\ Placed' \cap Promised(r) = {} /\ Placed' \cap Owed' = {} /\ Promised(r) \cap Owed' = {}
           /\ Placed' \cup Promised(r) \cup Owed' = 0 .. labels' - 1
      BY <2>8, <2>14, <2>15, <2>16, <2>17, <2>18
    <2>20. \A i, j \in DOMAIN places' : places'[i].label = places'[j].label => i = j BY <1>3 DEF Labelling
    <2> QED BY <2>9, <2>10, <2>14, <2>19, <2>20 DEF Labelling
  <1> QED BY <1>3, <1>6, <1>7

\* A place more, for a label that had none.
LEMMA PlacedMore ==
  ASSUME Typed, NEW l \in Int, l \notin Placed, NEW a,
         \A i, j \in DOMAIN places : places[i].label = places[j].label => i = j,
         places' = Append(places, [label |-> l, address |-> a])
  PROVE  /\ Placed' = Placed \cup {l}
         /\ \A i, j \in DOMAIN places' : places'[i].label = places'[j].label => i = j
  <1>1. PICK n : n = Len(places) OBVIOUS
  <1>2. places \in Seq([label : Int, address : Nat]) BY DEF Typed
  <1>3. n \in Nat /\ DOMAIN places = 1 .. n BY <1>1, <1>2
  <1>4. PICK p : p = [label |-> l, address |-> a] OBVIOUS
  <1>5. DOMAIN places' = 1 .. n + 1 /\ places'[n + 1] = p /\ \A i \in 1 .. n : places'[i] = places[i]
    BY <1>1, <1>2, <1>3, <1>4
  <1>6. p.label = l BY <1>4
  <1>7. Placed' = Placed \cup {l}
    <2>1. ASSUME NEW x \in Placed' PROVE x \in Placed \cup {l}
      <3>1. PICK i \in DOMAIN places' : x = places'[i].label BY <2>1 DEF Placed
      <3>2. CASE i = n + 1 BY <1>5, <1>6, <3>1, <3>2
      <3>3. CASE i \in 1 .. n BY <1>3, <1>5, <3>1, <3>3 DEF Placed
      <3> QED BY <1>3, <1>5, <3>1, <3>2, <3>3
    <2>2. ASSUME NEW x \in Placed PROVE x \in Placed'
      <3>1. PICK i \in 1 .. n : x = places[i].label BY <1>3, <2>2 DEF Placed
      <3>2. i \in DOMAIN places' /\ places'[i].label = x BY <1>3, <1>5, <3>1
      <3> QED BY <3>2 DEF Placed
    <2>3. l \in Placed'
      <3>1. n + 1 \in DOMAIN places' /\ places'[n + 1].label = l BY <1>3, <1>5, <1>6
      <3> QED BY <3>1 DEF Placed
    <2> QED BY <2>1, <2>2, <2>3
  <1>8. \A i, j \in DOMAIN places' : places'[i].label = places'[j].label => i = j
    <2> SUFFICES ASSUME NEW i \in DOMAIN places', NEW j \in DOMAIN places', places'[i].label = places'[j].label
                 PROVE  i = j
      OBVIOUS
    <2>1. \A h \in 1 .. n : places'[h].label = places[h].label /\ places[h].label # l BY <1>3, <1>5 DEF Placed
    <2>2. CASE i \in 1 .. n /\ j \in 1 .. n BY <1>3, <2>1, <2>2
    <2>3. CASE i \in 1 .. n /\ j = n + 1 BY <1>5, <1>6, <2>1, <2>3
    <2>4. CASE i = n + 1 /\ j \in 1 .. n BY <1>5, <1>6, <2>1, <2>4
    <2> QED BY <1>3, <1>5, <2>2, <2>3, <2>4
  <1> QED BY <1>7, <1>8

\* A function that is generated sets the label it owes.
LEMMA LabelsFunction ==
  ASSUME Typed, Labelling, FunctionStep
  PROVE  Labelling'
  <1>1. PICK f : f = work[1].f OBVIOUS
  <1>2. PICK i \in Registered(f) :
          \/ /\ functions[i].isDefinition /\ work' = Tail(work)
             /\ UNCHANGED <<functions, variables, places>>
          \/ /\ ~functions[i].isDefinition
             /\ functions' = [functions EXCEPT ![i].isDefinition = TRUE]
             /\ currentFunction' = [tag |-> i, ret |-> f.ret]
             /\ work' = FunctionCalls(f, i) \o Tail(work)
             /\ variables' = Append(variables, ValueTable(0))
             /\ places' = Append(places, [label |-> functions[i].label, address |-> Len(statement)])
    BY <1>1 DEF FunctionStep
  <1>3. work # <<>> /\ work[1].do = "function" /\ work \in Seq(Calls) /\ labels' = labels /\ labels \in Nat
    BY DEF FunctionStep, Typed
  <1>4. ~Promising(work[1]) /\ Own(work[1]) = {} BY <1>3 DEF Promising, Own
  <1>5. CASE /\ functions[i].isDefinition /\ work' = Tail(work)
             /\ UNCHANGED <<functions, variables, places>>
    <2>1. PICK c : c = <<>> OBVIOUS
    <2>2. c \in Seq(Mute) /\ work' = c \o Tail(work) BY <1>3, <1>5, <2>1
    <2> QED BY <1>3, <1>4, <1>5, <2>2, LabelsMute
  <1>6. CASE /\ ~functions[i].isDefinition
             /\ functions' = [functions EXCEPT ![i].isDefinition = TRUE]
             /\ currentFunction' = [tag |-> i, ret |-> f.ret]
             /\ work' = FunctionCalls(f, i) \o Tail(work)
             /\ variables' = Append(variables, ValueTable(0))
             /\ places' = Append(places, [label |-> functions[i].label, address |-> Len(statement)])
    <2>1. i \in DOMAIN functions /\ functions[i] \in FunctionTags /\ i \in Nat BY DEF Registered, Typed
    <2>2. PICK l : l = functions[i].label OBVIOUS
    <2>3. l \in Nat /\ l \in Int BY <2>1, <2>2, TagParts
    <2>4. i \in Undefined /\ l \in Owed BY <1>6, <2>1, <2>2 DEF Undefined, Owed
    <2>5. PICK v : v = [functions[i] EXCEPT !.isDefinition = TRUE] OBVIOUS
    <2>6. functions' = [functions EXCEPT ![i] = v] BY <1>6, <2>5
    <2>7. v.label = l /\ v.isDefinition BY <2>1, <2>2, <2>5 DEF FunctionTags
    <2>8. DOMAIN functions' = DOMAIN functions /\ functions'[i] = v /\ \A j \in DOMAIN functions : j # i => functions'[j] = functions[j]
      BY <2>1, <2>6
    <2>9. Undefined' = Undefined \ {i} BY <2>7, <2>8 DEF Undefined
    <2>10. \A j \in Undefined' : j \in Undefined /\ functions'[j] = functions[j] /\ functions[j].label # l
      <3> SUFFICES ASSUME NEW j \in Undefined' PROVE j \in Undefined /\ functions'[j] = functions[j] /\ functions[j].label # l
        OBVIOUS
      <3>1. j \in Undefined /\ j # i /\ j \in DOMAIN functions BY <2>9 DEF Undefined
      <3>2. functions[j].label # functions[i].label BY <2>4, <3>1 DEF Labelling
      <3> QED BY <2>2, <2>8, <3>1, <3>2
    <2>11. Owed' = Owed \ {l}
      <3>1. ASSUME NEW x \in Owed' PROVE x \in Owed \ {l}
        <4>1. PICK j \in Undefined' : x = functions'[j].label BY <3>1 DEF Owed
        <4> QED BY <2>10, <4>1 DEF Owed
      <3>2. ASSUME NEW x \in Owed \ {l} PROVE x \in Owed'
        <4>1. PICK j \in Undefined : x = functions[j].label BY <3>2 DEF Owed
        <4>2. j # i BY <2>2, <3>2, <4>1
        <4>3. j \in Undefined' BY <2>9, <4>1, <4>2
        <4> QED BY <2>10, <4>1, <4>3 DEF Owed
      <3> QED BY <3>1, <3>2
    <2>12. \A j, k \in Undefined' : functions'[j].label = functions'[k].label => j = k BY <2>10 DEF Labelling
    <2>13. PICK w, r, c : w = work /\ r = work' /\ c = FunctionCalls(f, i) OBVIOUS
    <2>14. f \in FunctionForms(Statements) BY <1>1, <1>3, HeadParts, CallParts
    <2>15. c \in Seq(Mute) BY <2>1, <2>13, <2>14, FunctionMute
    <2>16. Pledges(c, {}) BY <2>15, PledgeMute
    <2>17. w \in Seq(Calls) /\ w # <<>> /\ Once(w) BY <1>3, <2>13 DEF Labelling
    <2>18. Promised(w) = Own(w[1]) \cup Rest(w) /\ Pledges(Tail(w), Rest(w)) BY <2>17, PledgeHead
    <2>19. PICK N, L : N = {} /\ L = Rest(w) OBVIOUS
    <2>20. r = c \o Tail(w) /\ Pledges(c, N) /\ Pledges(Tail(w), L) /\ N \cap L = {}
      BY <1>6, <2>13, <2>16, <2>18, <2>19
    <2>21. Pledges(r, N \cup L) BY ONLY <2>20, PledgeJoined
    <2>22. Once(r) /\ Promised(r) = Promised(w) BY <1>4, <2>13, <2>18, <2>19, <2>21 DEF Pledges
    <2>23. /\ Placed \cap Promised(w) = {} /\ Placed \cap Owed = {} /\ Promised(w) \cap Owed = {}
           /\ Placed \cup Promised(w) \cup Owed = 0 .. labels - 1
           /\ \A j, k \in DOMAIN places : places[j].label = places[k].label => j = k
      BY <2>13 DEF Labelling
    <2>24. l \notin Placed /\ places' = Append(places, [label |-> l, address |-> Len(statement)])
      BY <1>6, <2>2, <2>4, <2>23
    <2>25. /\ Placed' = Placed \cup {l}
           /\ \A j, k \in DOMAIN places' : places'[j].label = places'[k].label => j = k
      BY <2>3, <2>23, <2>24, PlacedMore
    <2>26. /\ Placed' \cap Promised(r) = {} /\ Placed' \cap Owed' = {} /\ Promised(r) \cap Owed' = {}
           /\ Placed' \cup Promised(r) \cup Owed' = 0 .. labels' - 1
      BY <1>3, <2>4, <2>11, <2>22, <2>23, <2>25
    <2> QED BY <2>12, <2>13, <2>22, <2>25, <2>26 DEF Labelling
  <1> QED BY <1>2, <1>5, <1>6

-----------------------------------------------------------------------------
(* Labels: the theorem.                                                    *)

\* A case or a default makes a doubt, and doubts stay till the end of a script.
LEMMA DoubtsStay ==
  ASSUME Generate
  PROVE  doubts \subseteq doubts' /\ (AnalyzeCase => "label" \in doubts')
  <1>1. Expression => doubts \subseteq doubts'
    BY DEF Expression, PushOperation, PushValue, PushUnknown, Negate, PushRight, Operator, PushCall, PushArgument, SetArg,
       CallFunction, Expand, noted
  <1>2. QuietStatement => doubts \subseteq doubts'
    BY DEF QuietStatement, AnalyzeUnary, AnalyzeNop, AnalyzeAssign, Store, AnalyzeBreak, AnalyzeReturn, AnalyzeIf,
       AnalyzeSwitch, DefineValue, AllocStack, AnalyzeAll, Expand, noted
  <1>3. EmitNext => doubts \subseteq doubts' BY DEF EmitNext
  <1>4. ReturnType \/ AddArgument \/ CloseFunction \/ DefineGlobal => doubts \subseteq doubts'
    <2>1. ReturnType => doubts' = doubts BY DEF ReturnType, noted
    <2>2. AddArgument => doubts' = doubts BY DEF AddArgument
    <2>3. CloseFunction => doubts' = doubts BY DEF CloseFunction, noted
    <2>4. DefineGlobal => doubts' = doubts BY DEF DefineGlobal, noted
    <2> QED BY <2>1, <2>2, <2>3, <2>4
  <1>5. SetLabelNext \/ SetBreakLabelNext \/ StoreFails \/ AnalyzeThen \/ AnalyzeElse => doubts \subseteq doubts'
    <2>1. SetLabelNext => doubts' = doubts BY DEF SetLabelNext, noted
    <2>2. SetBreakLabelNext => doubts' = doubts BY DEF SetBreakLabelNext, noted
    <2>3. StoreFails => doubts' = doubts BY DEF StoreFails, noted
    <2>4. AnalyzeThen => doubts' = doubts BY DEF AnalyzeThen, noted
    <2>5. AnalyzeElse => doubts' = doubts BY DEF AnalyzeElse, noted
    <2> QED BY <2>1, <2>2, <2>3, <2>4, <2>5
  <1>6. AnalyzeLoop \/ AnalyzeCases \/ AnalyzeBlock \/ BlockOut => doubts \subseteq doubts'
    <2>1. AnalyzeLoop => doubts' = doubts BY DEF AnalyzeLoop, noted
    <2>2. AnalyzeCases => doubts' = doubts BY DEF AnalyzeCases, noted
    <2>3. AnalyzeBlock => doubts' = doubts BY DEF AnalyzeBlock, noted
    <2>4. BlockOut => doubts' = doubts BY DEF BlockOut, noted
    <2> QED BY <2>1, <2>2, <2>3, <2>4
  <1>7. AnalyzeCase => doubts' = doubts \cup {"label"} BY DEF AnalyzeCase
  <1>8. RegistFunction => doubts' = doubts BY DEF RegistFunction, noted
  <1>9. AnalyzeFunction => doubts' = doubts BY DEF AnalyzeFunction, noted
  <1> QED BY <1>1, <1>2, <1>3, <1>4, <1>5, <1>6, <1>7, <1>8, <1>9, GenerateKinds
          DEF PlainGenerate, QuietGenerate, LoudStatement

\* The account of the labels holds as long as no case and no default was met.
Labelled == "label" \notin doubts => Labelling

LEMMA LabelledGenerate ==
  ASSUME Sound, Labelled, Generate, Fixed
  PROVE  Labelled'
  <1> SUFFICES ASSUME "label" \notin doubts' PROVE Labelling' BY DEF Labelled
  <1>1. Typed /\ Stages /\ Callees /\ Registry /\ Bounded BY DEF Sound
  <1>2. InPlace BY <1>1, Generating
  <1>3. Labelling /\ ~AnalyzeCase BY DoubtsStay DEF Labelled
  <1>4. CASE QuietGenerate
    <2>1. QuietStep BY <1>1, <1>2, <1>4, KeptQuiet
    <2> QED BY <1>1, <1>3, <2>1, LabelsQuiet
  <1>5. CASE SetLabelNext BY <1>1, <1>3, <1>5, LabelsPlaced
  <1>6. CASE SetBreakLabelNext BY <1>1, <1>3, <1>6, LabelsBreakLabel
  <1>7. CASE StoreFails BY <1>1, <1>3, <1>7, LabelsStoreFails
  <1>8. CASE AnalyzeThen BY <1>1, <1>3, <1>8, LabelsThen
  <1>9. CASE AnalyzeElse BY <1>1, <1>3, <1>9, LabelsElse
  <1>10. CASE AnalyzeLoop BY <1>1, <1>3, <1>10, LabelsLoop
  <1>11. CASE AnalyzeCases BY <1>1, <1>3, <1>11, LabelsCases
  <1>12. CASE AnalyzeBlock BY <1>1, <1>3, <1>12, LabelsBlock
  <1>13. CASE BlockOut BY <1>1, <1>3, <1>13, LabelsBlockOut
  <1>14. CASE RegistFunction BY <1>1, <1>3, <1>14, LabelsRegist
  <1>15. CASE AnalyzeFunction
    <2>1. work # <<>> /\ work[1].do = "function" /\ 1 \in DOMAIN work BY <1>1, <1>15 DEF AnalyzeFunction, Doing, Typed
    <2>2. Registered(work[1].f) # {} BY <1>1, <2>1 DEF Registry
    <2>3. FunctionStep BY <1>1, <1>2, <1>15, <2>2, NextFunction
    <2> QED BY <1>1, <1>3, <2>3, LabelsFunction
  <1> QED BY <1>3, <1>4, <1>5, <1>6, <1>7, <1>8, <1>9, <1>10, <1>11, <1>12, <1>13, <1>14, <1>15, GenerateKinds
          DEF PlainGenerate, LoudStatement

\* Before the first function is registered no label is made.
LEMMA LabelsNone ==
  ASSUME places' = <<>>, functions' = <<>>, labels' = 0, Promises(work') = {}
  PROVE  Labelling'
  <1>1. Undefined' = {} /\ Owed' = {} BY DEF Undefined, Owed
  <1>2. Placed' = {} BY DEF Placed
  <1>3. Promised(work') = {} /\ Once(work') BY DEF Promised, Once
  <1>4. \A i, j \in DOMAIN places' : places'[i].label = places'[j].label => i = j OBVIOUS
  <1>5. 0 .. labels' - 1 = {} OBVIOUS
  <1> QED BY <1>1, <1>2, <1>3, <1>4, <1>5 DEF Labelling

\* A pass that begins makes no label.
LEMMA LabelsBetween ==
  ASSUME Labelling, Promises(work) = {}, Promises(work') = {}, UNCHANGED <<places, functions, labels>>
  PROVE  Labelling'
  <1>1. Promised(work) = {} /\ Promised(work') = {} /\ Once(work') BY DEF Promised, Once
  <1>2. Placed' = Placed /\ Owed' = Owed /\ Undefined' = Undefined BY DEF Placed, Owed, Undefined
  <1>3. /\ \A i, j \in DOMAIN places' : places'[i].label = places'[j].label => i = j
        /\ \A i, j \in Undefined' : functions'[i].label = functions'[j].label => i = j
    BY <1>2 DEF Labelling
  <1>4. Placed \cap Owed = {} /\ Placed \cup Owed = 0 .. labels - 1 BY <1>1 DEF Labelling
  <1> QED BY <1>1, <1>2, <1>3, <1>4 DEF Labelling

LEMMA LabelledPhases ==
  ASSUME Sound, Labelled,
         (\E s \in Scripts : Compile(s)) \/ DeclareFunctions \/ AnalyzeFunctions \/ LabelSetting \/ CreateData \/ Return
  PROVE  Labelled'
  <1> SUFFICES ASSUME "label" \notin doubts' PROVE Labelling' BY DEF Labelled
  <1>1. Typed /\ Stages BY DEF Sound
  <1>2. ASSUME NEW s \in Scripts, Compile(s) PROVE Labelling'
    <2>1. \A i \in DOMAIN work' : work'[i].do \in {"emit", "global"} BY <1>1, <1>2, Compiled
    <2>2. places' = <<>> /\ functions' = <<>> /\ labels' = 0 BY <1>2 DEF Compile, Clear
    <2>3. Promises(work') = {} BY <2>1 DEF Promises, Promising
    <2> QED BY <2>2, <2>3, LabelsNone
  <1>3. CASE DeclareFunctions
    <2>1. \A i \in DOMAIN work' : work'[i] = [do |-> "regist", f |-> script.functions[i]]
      BY <1>1, <1>3, DeclaredFunctions
    <2>2. work = <<>> /\ UNCHANGED <<places, functions, labels, doubts>> BY <1>3 DEF DeclareFunctions, labelled, tables, noted
    <2>3. Promises(work') = {}
      <3>1. \A g : ~Promising([do |-> "regist", f |-> g]) BY DEF Promising
      <3> QED BY <2>1, <3>1 DEF Promises
    <2>4. Promises(work) = {} BY <2>2 DEF Promises
    <2> QED BY <2>2, <2>3, <2>4, LabelsBetween DEF Labelled
  <1>4. CASE AnalyzeFunctions
    <2>1. DOMAIN work' = {1} /\ work'[1] = [do |-> "function", f |-> script.functions[analyzed + 1]]
      BY <1>1, <1>4, FunctionsBegun
    <2>2. work = <<>> /\ UNCHANGED <<places, functions, labels, doubts>> BY <1>4 DEF AnalyzeFunctions, labelled, tables, noted
    <2>3. Promises(work') = {}
      <3>1. \A g : ~Promising([do |-> "function", f |-> g]) BY DEF Promising
      <3> QED BY <2>1, <3>1 DEF Promises
    <2>4. Promises(work) = {} BY <2>2 DEF Promises
    <2> QED BY <2>2, <2>3, <2>4, LabelsBetween DEF Labelled
  <1>5. CASE LabelSetting \/ CreateData
    <2>1. work = <<>> /\ work' = work /\ UNCHANGED <<places, functions, labels, doubts>>
      <3>1. CASE LabelSetting BY <3>1 DEF LabelSetting, labelled, noted
      <3>2. CASE CreateData BY <1>1, <3>2 DEF CreateData, Stages, codegen, labelled, tables, noted
      <3> QED BY <1>5, <3>1, <3>2
    <2>2. Promises(work) = {} BY <2>1 DEF Promises
    <2> QED BY <2>1, <2>2, LabelsBetween DEF Labelled
  <1>6. CASE Return
    <2>1. work' = <<>> BY <1>1, <1>6, Returned
    <2>2. places' = <<>> /\ functions' = <<>> /\ labels' = 0 BY <1>6 DEF Return, Clear
    <2>3. Promises(work') = {} BY <2>1 DEF Promises
    <2> QED BY <2>2, <2>3, LabelsNone
  <1> QED BY <1>2, <1>3, <1>4, <1>5, <1>6

LEMMA LabelledInit == Init => Labelled
  <1> SUFFICES ASSUME Init PROVE Labelling BY DEF Labelled
  <1>1. places = <<>> /\ functions = <<>> /\ labels = 0 /\ work = <<>> BY DEF Init
  <1>2. Promised(work) = {} /\ Once(work) /\ Placed = {} BY <1>1 DEF Promised, Once, Promises, Placed
  <1>3. Undefined = {} /\ Owed = {} BY <1>1 DEF Undefined, Owed
  <1>4. 0 .. labels - 1 = {} BY <1>1
  <1> QED BY <1>1, <1>2, <1>3, <1>4 DEF Labelling

LEMMA LabelledNext == Sound /\ Labelled /\ [Next]_vars => Labelled'
  <1> SUFFICES ASSUME Sound, Labelled, [Next]_vars PROVE Labelled' OBVIOUS
  <1>1. CASE Generate /\ UNCHANGED <<phase, script, analyzed, positions, out>> BY <1>1, LabelledGenerate DEF Fixed
  <1>2. CASE (\E s \in Scripts : Compile(s)) \/ DeclareFunctions \/ AnalyzeFunctions \/ LabelSetting \/ CreateData \/ Return
    BY <1>2, LabelledPhases
  <1>3. CASE UNCHANGED vars
    <2>1. UNCHANGED <<work, places, functions, labels, doubts>>
      BY <1>3 DEF vars, codegen, labelled, tables, noted
    <2>2. UNCHANGED <<Placed, Undefined, Owed>> BY <2>1 DEF Placed, Undefined, Owed
    <2>3. Once(work)' = Once(work) /\ Promised(work)' = Promised(work) BY <2>1
    <2>4. Labelling' = Labelling BY <2>1, <2>2, <2>3 DEF Labelling
    <2> QED BY <2>1, <2>4 DEF Labelled
  <1> QED BY <1>1, <1>2, <1>3 DEF Next

\* When all functions of a script are generated, and none has a case or a default,
\* every label that was made is set, at one place (MakeLabel, SetLabel, CalcAddress).
THEOREM LabelsSetOnceHolds == Spec => []LabelsSetOnce
  <1>1. Sound /\ Labelled => LabelsSetOnce
    <2> SUFFICES ASSUME Sound, Labelled, phase = "functions", analyzed = Len(script.functions), work = <<>>,
                        "label" \notin doubts, NEW l \in 0 .. labels - 1
                 PROVE  \E i \in DOMAIN places : \A j \in DOMAIN places : places[j].label = l <=> j = i
      BY DEF LabelsSetOnce
    <2>1. Typed /\ Registry /\ Labelling BY DEF Sound, Labelled
    <2>2. Undefined = {}
      <3> SUFFICES ASSUME NEW i \in Undefined PROVE FALSE OBVIOUS
      <3>1. i \in DOMAIN functions /\ ~functions[i].isDefinition BY DEF Undefined
      <3>2. Awaited(i) BY <2>1, <3>1 DEF Registry
      <3>3. analyzed + 1 .. Len(script.functions) = {}
        <4>1. Len(script.functions) \in Nat BY <2>1 DEF Typed
        <4> QED BY <4>1
      <3> QED BY <3>2, <3>3 DEF Awaited
    <2>3. Owed = {} BY <2>2 DEF Owed
    <2>4. Promised(work) = {} BY DEF Promised, Promises
    <2>5. l \in Placed BY <2>1, <2>3, <2>4 DEF Labelling
    <2>6. PICK i \in DOMAIN places : places[i].label = l BY <2>5 DEF Placed
    <2> QED BY <2>1, <2>6 DEF Labelling
  <1> QED BY <1>1, LabelledInit, LabelledNext, AlwaysSound, PTL DEF Spec

-----------------------------------------------------------------------------
(* The addresses of parameters.                                            *)

\* The steps that define nothing and open or close no block.
LEMMA VariablesKept ==
  ASSUME Generate, ~DefineValue, ~AddArgument, ~DefineGlobal, ~AnalyzeBlock, ~BlockOut, ~AnalyzeFunction
  PROVE  variables' = variables
  <1>1. Expression => variables' = variables
    BY DEF Expression, PushOperation, PushValue, PushUnknown, Negate, PushRight, Operator, PushCall, PushArgument, SetArg,
       CallFunction, Expand, tables
  <1>2. QuietStatement => variables' = variables
    BY DEF QuietStatement, AnalyzeUnary, AnalyzeNop, AnalyzeAssign, Store, AnalyzeBreak, AnalyzeReturn, AnalyzeIf,
       AnalyzeSwitch, AllocStack, AnalyzeAll, Expand, tables
  <1>3. EmitNext \/ ReturnType \/ CloseFunction \/ RegistFunction => variables' = variables
    <2>1. EmitNext => variables' = variables BY DEF EmitNext, tables
    <2>2. ReturnType => variables' = variables BY DEF ReturnType, tables
    <2>3. CloseFunction => variables' = variables BY DEF CloseFunction, tables
    <2>4. RegistFunction => variables' = variables BY DEF RegistFunction
    <2> QED BY <2>1, <2>2, <2>3, <2>4
  <1>4. SetLabelNext \/ SetBreakLabelNext \/ StoreFails \/ AnalyzeThen \/ AnalyzeElse => variables' = variables
    <2>1. SetLabelNext => variables' = variables BY DEF SetLabelNext, tables
    <2>2. SetBreakLabelNext => variables' = variables BY DEF SetBreakLabelNext, tables
    <2>3. StoreFails => variables' = variables BY DEF StoreFails, tables
    <2>4. AnalyzeThen => variables' = variables BY DEF AnalyzeThen, tables
    <2>5. AnalyzeElse => variables' = variables BY DEF AnalyzeElse, tables
    <2> QED BY <2>1, <2>2, <2>3, <2>4, <2>5
  <1>5. AnalyzeLoop \/ AnalyzeCases \/ AnalyzeCase => variables' = variables
    <2>1. AnalyzeLoop => variables' = variables BY DEF AnalyzeLoop, tables
    <2>2. AnalyzeCases => variables' = variables BY DEF AnalyzeCases, tables
    <2>3. AnalyzeCase => variables' = variables BY DEF AnalyzeCase, tables
    <2> QED BY <2>1, <2>2, <2>3
  <1> QED BY <1>1, <1>2, <1>3, <1>4, <1>5, GenerateKinds DEF PlainGenerate, QuietGenerate, LoudStatement

\* What a definition does to the innermost table.
LEMMA Extended ==
  ASSUME Typed, variables # <<>>, NEW key, NEW address, NEW isLocal, Define(key, address, isLocal), NEW n, n = Len(variables)
  PROVE  /\ n \in DOMAIN variables /\ n \in Nat
         /\ \/ variables' = variables
            \/ /\ Len(variables') = n
               /\ \A k \in 1 .. n : k # n => variables'[k] = variables[k]
               /\ variables'[n].start = variables[n].start
               /\ variables'[n].next = IF isLocal THEN variables[n].next + 1 ELSE variables[n].next
               /\ \E tag : tag.address = address /\ variables'[n].vars = variables[n].vars \cup {tag}
  <1>1. variables \in Seq(ValueTables) /\ n \in Nat /\ n \in DOMAIN variables /\ DOMAIN variables = 1 .. n BY DEF Typed
  <1>2. PICK t, tag : t = variables[n] /\ tag = [name |-> key, address |-> address, isGlobal |-> n = 1] OBVIOUS
  <1>3. PICK v : v = [start |-> t.start, next |-> IF isLocal THEN t.next + 1 ELSE t.next, vars |-> t.vars \cup {tag}]
    OBVIOUS
  <1>4. variables' = variables \/ variables' = [variables EXCEPT ![n] = v] BY <1>2, <1>3 DEF Define
  <1>5. CASE variables' = variables BY <1>1, <1>5
  <1>6. CASE variables' = [variables EXCEPT ![n] = v]
    <2>1. tag.address = address BY <1>2
    <2>2. v.start = t.start /\ v.next = (IF isLocal THEN t.next + 1 ELSE t.next) /\ v.vars = t.vars \cup {tag} BY <1>3
    <2>3. DOMAIN variables' = DOMAIN variables /\ variables'[n] = v /\ \A k \in 1 .. n : k # n => variables'[k] = variables[k]
      BY <1>1, <1>6
    <2>4. Len(variables') = n BY <1>1, <1>6
    <2> QED BY <1>1, <1>2, <2>1, <2>2, <2>3, <2>4
  <1> QED BY <1>4, <1>5, <1>6

LEMMA TableTypes ==
  ASSUME Typed, NEW k \in DOMAIN variables
  PROVE  /\ variables[k].start \in Nat /\ variables[k].next \in Nat
         /\ \A v \in variables[k].vars : v.address \in Int
  <1>1. variables \in Seq(ValueTables) BY DEF Typed
  <1>2. variables[k] \in ValueTables BY <1>1
  <1>3. variables[k].vars \in SUBSET Variables BY <1>2 DEF ValueTables
  <1>4. \A v \in Variables : v.address \in Int BY DEF Variables
  <1> QED BY <1>2, <1>3, <1>4 DEF ValueTables

\* The parameters that are left are the next calls.
LEMMA ParametersFirst ==
  ASSUME Typed, Parameters, work # <<>>, work[1].do # "parameter"
  PROVE  \A i \in DOMAIN work : work[i].do # "parameter"
  <1> SUFFICES ASSUME NEW i \in DOMAIN work, work[i].do = "parameter" PROVE FALSE OBVIOUS
  <1>1. work \in Seq(Calls) BY DEF Typed
  <1>2. i \in 1 .. Len(work) /\ Len(work) \in Nat BY <1>1
  <1>3. i = 1 \/ 1 \in 1 .. i - 1 BY <1>2
  <1> QED BY <1>3 DEF Parameters

\* Where no parameter is left there is nothing to say of them.
LEMMA ParametersNone ==
  ASSUME \A i \in DOMAIN work' : work'[i].do # "parameter"
  PROVE  Parameters'
BY DEF Parameters

LEMMA ParametersPlain ==
  ASSUME Typed, Parameters, PlainStep, work[1].do # "parameter"
  PROVE  Parameters'
  <1>1. work # <<>> /\ work \in Seq(Calls) BY DEF PlainStep, Typed
  <1>2. PICK c : /\ Sober(c)
                 /\ \A j \in DOMAIN work' : \/ j \in DOMAIN c /\ work'[j] = c[j]
                                            \/ \E i \in 2 .. Len(work) : work'[j] = work[i]
    BY Carried
  <1>3. \A j \in DOMAIN c : c[j].do # "parameter" BY <1>2 DEF Sober, Declared
  <1>4. \A i \in DOMAIN work : work[i].do # "parameter" BY <1>1, ParametersFirst
  <1>5. 2 .. Len(work) \subseteq DOMAIN work BY <1>1
  <1>6. \A j \in DOMAIN work' : work'[j].do # "parameter" BY <1>2, <1>3, <1>4, <1>5
  <1> QED BY <1>6, ParametersNone

\* The next parameter gets an address below all the others'.
LEMMA ParametersArgument ==
  ASSUME Typed, InPlace, Callees, Parameters, AddArgument
  PROVE  Parameters'
  <1>1. PICK p, a, n : p = work[1] /\ a = Address(work[1]) /\ n = Len(variables) OBVIOUS
  <1>2. /\ work # <<>> /\ p.do = "parameter" /\ work' = <<>> \o Tail(work) /\ functions' = functions
        /\ Define(<<p.name>>, a, FALSE)
    BY <1>1 DEF AddArgument, Doing, Then, Address
  <1>3. work \in Seq(Calls) BY DEF Typed
  <1>4. /\ Len(work) \in Nat /\ DOMAIN work = 1 .. Len(work)
        /\ \A j \in DOMAIN work' : work'[j] = work[j + 1] /\ j + 1 \in 2 .. Len(work)
        /\ DOMAIN work' = 1 .. Len(work') /\ Len(work') = Len(work) - 1
    BY <1>2, <1>3, Behind
  <1>5. variables # <<>> BY NotEmpty
  <1>6. /\ n \in Nat
        /\ \/ variables' = variables
           \/ /\ Len(variables') = n
              /\ \E tag : tag.address = a /\ variables'[n].vars = variables[n].vars \cup {tag}
    <2>1. PICK key : key = <<p.name>> OBVIOUS
    <2>2. Define(key, a, FALSE) /\ n = Len(variables) BY <1>1, <1>2, <2>1
    <2>3. PICK no : no = FALSE OBVIOUS
    <2>4. Define(key, a, no) BY <2>2, <2>3
    <2> QED BY <1>5, <2>2, <2>4, Extended
  <1>7. Len(variables') = n BY <1>1, <1>6
  <1>8. SUFFICES ASSUME NEW j \in DOMAIN work', work'[j].do = "parameter"
                 PROVE  /\ work'[j].is <= functions'[work'[j].f].arity
                        /\ \A h \in 1 .. j - 1 : /\ work'[h].do = "parameter" /\ work'[h].f = work'[j].f
                                                 /\ work'[h].is > work'[j].is
                        /\ \A v \in variables'[n].vars : v.address > Address(work[j])'
    BY <1>7 DEF Parameters
  <1>9. PICK q : q = work[j + 1] OBVIOUS
  <1>10. work'[j] = q /\ j + 1 \in DOMAIN work /\ j \in Nat /\ j >= 1 BY <1>4, <1>9
  <1>11. /\ q.do = "parameter" /\ q.is <= functions[q.f].arity
         /\ \A h \in 1 .. j + 1 - 1 : work[h].do = "parameter" /\ work[h].f = q.f /\ work[h].is > q.is
         /\ \A v \in variables[n].vars : v.address > Address(q)
    <2>1. q.do = "parameter" BY <1>8, <1>10
    <2> QED BY <1>1, <1>9, <1>10, <2>1 DEF Parameters
  <1>12. \A h \in 1 .. j - 1 : work'[h].do = "parameter" /\ work'[h].f = q.f /\ work'[h].is > q.is
    <2> SUFFICES ASSUME NEW h \in 1 .. j - 1
                 PROVE  work'[h].do = "parameter" /\ work'[h].f = q.f /\ work'[h].is > q.is
      OBVIOUS
    <2>1. h \in DOMAIN work' /\ h + 1 \in 1 .. j + 1 - 1 BY <1>4, <1>10
    <2>2. work'[h] = work[h + 1] BY <1>4, <2>1
    <2> QED BY <1>11, <2>1, <2>2
  <1>13. a > Address(q)
    <2>1. 1 \in 1 .. j + 1 - 1 BY <1>10
    <2>2. p.f = q.f /\ p.is > q.is BY <1>1, <1>11, <2>1
    <2>3. q \in Calls /\ p \in Calls
      <3>1. 1 \in DOMAIN work BY <1>2, <1>3
      <3> QED BY <1>1, <1>3, <1>9, <1>10, <3>1, Member
    <2>4. p.is \in Nat /\ q.is \in Nat /\ p.f \in Nat BY <1>2, <1>11, <2>3, CallParts
    <2>5. Callee(q) BY <1>9, <1>10 DEF Callees
    <2>6. q.f \in DOMAIN functions BY <1>11, <2>5 DEF Callee
    <2>7. functions[q.f] \in FunctionTags BY <2>6, Member DEF Typed
    <2>8. functions[q.f].arity \in Nat BY <2>7, TagParts
    <2> QED BY <1>1, <2>2, <2>4, <2>8 DEF Address
  <1>14. Address(work[j])' = Address(q) BY <1>2, <1>10 DEF Address
  <1>15. \A v \in variables'[n].vars : v.address > Address(q)
    <2>1. CASE variables' = variables BY <1>11, <2>1
    <2>2. CASE \E tag : tag.address = a /\ variables'[n].vars = variables[n].vars \cup {tag} BY <1>11, <1>13, <2>2
    <2> QED BY <1>6, <2>1, <2>2
  <1> QED BY <1>2, <1>10, <1>11, <1>12, <1>14, <1>15

\* Function::Analyze begins with the last parameter.
LEMMA ParametersFunction ==
  ASSUME Typed, Registry, FunctionStep
  PROVE  Parameters'
  <1>1. PICK f : f = work[1].f OBVIOUS
  <1>2. PICK i \in Registered(f) :
          \/ /\ functions[i].isDefinition /\ work' = Tail(work)
             /\ UNCHANGED <<functions, variables, places>>
          \/ /\ ~functions[i].isDefinition
             /\ functions' = [functions EXCEPT ![i].isDefinition = TRUE]
             /\ currentFunction' = [tag |-> i, ret |-> f.ret]
             /\ work' = FunctionCalls(f, i) \o Tail(work)
             /\ variables' = Append(variables, ValueTable(0))
             /\ places' = Append(places, [label |-> functions[i].label, address |-> Len(statement)])
    BY <1>1 DEF FunctionStep
  <1>3. work # <<>> /\ work[1].do = "function" /\ work \in Seq(Calls) /\ Len(variables) = 1
        /\ variables \in Seq(ValueTables)
    BY DEF FunctionStep, Typed
  <1>4. Len(work) = 1
    <2>1. 1 \in DOMAIN work BY <1>3
    <2> QED BY <1>3, <2>1 DEF Registry
  <1>5. Tail(work) = <<>>
    <2>1. work \in Seq(Calls) /\ work # <<>> BY <1>3
    <2>2. Len(Tail(work)) = 0 /\ Tail(work) \in Seq(Calls) BY <1>4, <2>1, HeadTailProperties
    <2> QED BY <2>2, EmptySeq
  <1>6. CASE work' = Tail(work)
    <2>1. DOMAIN work' = {} BY <1>5, <1>6
    <2> QED BY <2>1, ParametersNone
  <1>7. CASE /\ functions' = [functions EXCEPT ![i].isDefinition = TRUE]
             /\ work' = FunctionCalls(f, i) \o Tail(work)
             /\ variables' = Append(variables, ValueTable(0))
    <2>1. f \in FunctionForms(Statements) BY <1>1, <1>3, HeadParts, CallParts
    <2>2. i \in DOMAIN functions /\ functions[i].arity = Len(f.params) /\ functions[i] \in FunctionTags
      BY DEF Registered, Typed
    <2>3. PICK r, m : r = FunctionCalls(f, i) /\ m = Len(f.params) OBVIOUS
    <2>4. /\ r \in Seq(Calls)
          /\ \A j \in DOMAIN r : r[j].do = "parameter" => j \in 1 .. m
          /\ \A j \in 1 .. m : j \in DOMAIN r /\ r[j].do = "parameter" /\ r[j].f = i /\ r[j].is = m + 1 - j
      BY <2>1, <2>2, <2>3, FunctionCallKinds
    <2>5. work' = r BY <1>5, <1>7, <2>3, <2>4
    <2>6. m \in Nat
      <3>1. f.params \in Seq(STRING) BY <2>1 DEF FunctionForms
      <3> QED BY <2>3, <3>1
    <2>7. functions'[i].arity = m
      <3>1. PICK v : v = [functions[i] EXCEPT !.isDefinition = TRUE] OBVIOUS
      <3>2. functions' = [functions EXCEPT ![i] = v] BY <1>7, <3>1
      <3>3. v.arity = functions[i].arity BY <2>2, <3>1 DEF FunctionTags
      <3> QED BY <2>2, <2>3, <3>2, <3>3
    <2>8. Len(variables') = 2 /\ variables'[2].vars = {}
      <3>1. PICK t : t = ValueTable(0) OBVIOUS
      <3>2. t.vars = {} BY <3>1 DEF ValueTable
      <3>3. Len(variables') = 2 /\ variables'[2] = t
        <4>1. variables \in Seq(ValueTables) /\ Len(variables) = 1 /\ variables' = Append(variables, t) BY <1>3, <1>7, <3>1
        <4>2. t \in ValueTables BY <3>1 DEF ValueTable, ValueTables
        <4>3. Len(Append(variables, t)) = Len(variables) + 1 /\ Append(variables, t)[Len(variables) + 1] = t
          BY ONLY <4>1, <4>2, AppendProperties
        <4> QED BY <4>1, <4>3
      <3> QED BY <3>2, <3>3
    <2>9. SUFFICES ASSUME NEW j \in DOMAIN r, r[j].do = "parameter"
                   PROVE  /\ r[j].is <= functions'[r[j].f].arity
                          /\ \A h \in 1 .. j - 1 : r[h].do = "parameter" /\ r[h].f = r[j].f /\ r[h].is > r[j].is
      BY <2>5, <2>8 DEF Parameters
    <2>10. j \in 1 .. m BY <2>4, <2>9
    <2>11. r[j].is = m + 1 - j /\ r[j].f = i BY <2>4, <2>10
    <2>12. r[j].is <= functions'[r[j].f].arity BY <2>6, <2>7, <2>10, <2>11
    <2>13. \A h \in 1 .. j - 1 : r[h].do = "parameter" /\ r[h].f = r[j].f /\ r[h].is > r[j].is
      <3> SUFFICES ASSUME NEW h \in 1 .. j - 1 PROVE r[h].do = "parameter" /\ r[h].f = r[j].f /\ r[h].is > r[j].is OBVIOUS
      <3>1. h \in 1 .. m BY <2>6, <2>10
      <3>2. r[h].do = "parameter" /\ r[h].f = i /\ r[h].is = m + 1 - h BY <2>4, <3>1
      <3> QED BY <2>6, <2>10, <2>11, <3>1, <3>2
    <2> QED BY <2>12, <2>13
  <1> QED BY <1>2, <1>6, <1>7

\* All steps of Codegen keep the order of the parameters.
LEMMA ParametersGenerate ==
  ASSUME Sound, Parameters, Generate, Fixed
  PROVE  Parameters'
  <1>1. Typed /\ Stages /\ Callees /\ Registry BY DEF Sound
  <1>2. InPlace /\ work # <<>> BY <1>1, Generating
  <1>3. CASE AddArgument BY <1>1, <1>2, <1>3, ParametersArgument
  <1>4. CASE PlainGenerate /\ ~AddArgument
    <2>1. PlainStep BY <1>1, <1>2, <1>4, KeptPlain DEF Kept
    <2>2. CASE work[1].do # "parameter" BY <1>1, <2>1, <2>2, ParametersPlain
    <2>3. CASE work[1].do = "parameter"
      <3>1. ~EmitNext /\ ~ReturnType /\ ~CloseFunction /\ ~DefineGlobal
        BY <2>3 DEF EmitNext, ReturnType, CloseFunction, DefineGlobal, Doing
      <3>2. ~SetLabelNext /\ ~SetBreakLabelNext BY <2>3 DEF SetLabelNext, SetBreakLabelNext, Doing
      <3>3. ~Expression
        BY <2>3 DEF Expression, PushOperation, PushValue, PushUnknown, Negate, PushRight, Operator, PushCall, PushArgument,
           SetArg, CallFunction, Doing
      <3>4. ~QuietStatement
        BY <2>3 DEF QuietStatement, AnalyzeUnary, AnalyzeNop, AnalyzeAssign, Store, AnalyzeBreak, AnalyzeReturn, AnalyzeIf,
           AnalyzeSwitch, DefineValue, AllocStack, AnalyzeAll, Doing
      <3>5. ~LoudStatement
        BY <2>3 DEF LoudStatement, StoreFails, AnalyzeThen, AnalyzeElse, AnalyzeLoop, AnalyzeCases, AnalyzeCase, AnalyzeBlock,
           BlockOut, Doing
      <3> QED BY <1>4, <3>1, <3>2, <3>3, <3>4, <3>5 DEF PlainGenerate, QuietGenerate
    <2> QED BY <2>2, <2>3
  <1>5. CASE RegistFunction
    <2>1. work[1].do = "regist" /\ work' = <<>> \o Tail(work) BY <1>5 DEF RegistFunction, Doing, Then
    <2>2. \A i \in DOMAIN work : work[i].do # "parameter" BY <1>1, <1>2, <2>1, ParametersFirst
    <2>3. work \in Seq(Calls) BY <1>1 DEF Typed
    <2>4. /\ \A j \in DOMAIN work' : work'[j] = work[j + 1] /\ j + 1 \in 2 .. Len(work)
          /\ DOMAIN work = 1 .. Len(work) /\ Len(work) \in Nat
      BY <1>2, <2>1, <2>3, Behind
    <2>5. \A j \in DOMAIN work' : work'[j].do # "parameter" BY <2>2, <2>4
    <2> QED BY <2>5, ParametersNone
  <1>6. CASE AnalyzeFunction
    <2>1. work[1].do = "function" /\ 1 \in DOMAIN work BY <1>1, <1>2, <1>6 DEF AnalyzeFunction, Doing, Typed
    <2>2. Registered(work[1].f) # {} BY <1>1, <2>1 DEF Registry
    <2>3. FunctionStep BY <1>1, <1>2, <1>6, <2>2, NextFunction
    <2> QED BY <1>1, <2>3, ParametersFunction
  <1> QED BY <1>3, <1>4, <1>5, <1>6, GenerateKinds

-----------------------------------------------------------------------------
(* The addresses of variables.                                             *)

\* A variable gets an address behind those of its table (ValueTable::Add).
LEMMA ApartValue ==
  ASSUME Typed, InPlace, Apart, DefineValue
  PROVE  Apart'
  <1>1. PICK n : n = Len(variables) OBVIOUS
  <1>2. PICK key, a, yes : key = Append(currentNameSpace, work[1].name) /\ a = variables[n].next /\ yes = TRUE OBVIOUS
  <1>3. work # <<>> /\ work[1].do = "define" /\ Define(key, a, yes) BY <1>1, <1>2 DEF DefineValue, Doing, AddValue
  <1>4. variables # <<>> BY NotEmpty
  <1>5. /\ n \in DOMAIN variables /\ n \in Nat
        /\ \/ variables' = variables
           \/ /\ Len(variables') = n
              /\ \A k \in 1 .. n : k # n => variables'[k] = variables[k]
              /\ variables'[n].start = variables[n].start
              /\ variables'[n].next = IF yes THEN variables[n].next + 1 ELSE variables[n].next
              /\ \E tag : tag.address = a /\ variables'[n].vars = variables[n].vars \cup {tag}
    BY <1>1, <1>3, <1>4, Extended
  <1>6. CASE variables' = variables
    <2>1. \A k : Table(k)' = Table(k) BY <1>6 DEF Table
    <2> QED BY <1>6, <2>1 DEF Apart
  <1>7. CASE /\ Len(variables') = n
             /\ \A k \in 1 .. n : k # n => variables'[k] = variables[k]
             /\ variables'[n].start = variables[n].start
             /\ variables'[n].next = variables[n].next + 1
             /\ \E tag : tag.address = a /\ variables'[n].vars = variables[n].vars \cup {tag}
    <2>1. n >= 2
      <3>1. work \in Seq(Calls) BY DEF Typed
      <3> QED BY <1>1, <1>3, <3>1, HeadFits DEF InPlace, Fits
    <2>2. PICK tag : tag.address = a /\ variables'[n].vars = variables[n].vars \cup {tag} BY <1>7
    <2>3. /\ variables[n].start \in Nat /\ variables[n].next \in Nat /\ a \in Nat /\ a = variables[n].next
          /\ \A v \in variables[n].vars : v.address \in Int
      BY <1>2, <1>5, TableTypes
    <2>4. n \in 2 .. n BY <1>5, <2>1
    <2>5. /\ variables[n].start <= variables[n].next
          /\ \A v \in variables[n].vars : v.address \in variables[n].start .. variables[n].next - 1 \/ (n = 2 /\ v.address <= -4)
          /\ \A v, w \in variables[n].vars : v.address = w.address => v = w
      BY <1>1, <2>4 DEF Apart, Table
    <2>6. \A v \in variables[n].vars : v.address < a
      <3> SUFFICES ASSUME NEW v \in variables[n].vars PROVE v.address < a OBVIOUS
      <3>1. v.address \in Int BY <2>3
      <3>2. CASE v.address \in variables[n].start .. variables[n].next - 1 BY <2>3, <3>2
      <3>3. CASE v.address <= -4 BY <2>3, <3>1, <3>3
      <3> QED BY <2>5, <3>2, <3>3
    <2>7. Table(n)'
      <3>1. variables'[n].start <= variables'[n].next BY <1>7, <2>3, <2>5
      <3>2. \A v \in variables'[n].vars :
              v.address \in variables'[n].start .. variables'[n].next - 1 \/ (n = 2 /\ v.address <= -4)
        <4> SUFFICES ASSUME NEW v \in variables'[n].vars
                     PROVE  v.address \in variables'[n].start .. variables'[n].next - 1 \/ (n = 2 /\ v.address <= -4)
          OBVIOUS
        <4>1. CASE v \in variables[n].vars BY <1>7, <2>3, <2>5, <4>1
        <4>2. CASE v = tag BY <1>7, <2>2, <2>3, <2>5, <4>2
        <4> QED BY <2>2, <4>1, <4>2
      <3>3. \A v, w \in variables'[n].vars : v.address = w.address => v = w
        <4> SUFFICES ASSUME NEW v \in variables'[n].vars, NEW w \in variables'[n].vars, v.address = w.address PROVE v = w
          OBVIOUS
        <4>1. CASE v \in variables[n].vars /\ w \in variables[n].vars BY <2>5, <4>1
        <4>2. CASE v \in variables[n].vars /\ w = tag BY <2>2, <2>3, <2>6, <4>2
        <4>3. CASE v = tag /\ w \in variables[n].vars BY <2>2, <2>3, <2>6, <4>3
        <4> QED BY <2>2, <4>1, <4>2, <4>3
      <3> QED BY <3>1, <3>2, <3>3 DEF Table
    <2>8. \A k \in 2 .. n : k # n => Table(k)'
      <3> SUFFICES ASSUME NEW k \in 2 .. n, k # n PROVE Table(k)' OBVIOUS
      <3>1. variables'[k] = variables[k] BY <1>5, <1>7
      <3>2. Table(k) BY <1>1 DEF Apart
      <3> QED BY <3>1, <3>2 DEF Table
    <2>9. \A k \in 2 .. n : \A l \in k + 1 .. n : variables'[k].next <= variables'[l].start
      <3> SUFFICES ASSUME NEW k \in 2 .. n, NEW l \in k + 1 .. n PROVE variables'[k].next <= variables'[l].start OBVIOUS
      <3>1. k # n /\ k \in 1 .. n /\ l \in 1 .. n BY <1>5
      <3>2. variables'[k] = variables[k] BY <1>7, <3>1
      <3>3. variables'[l].start = variables[l].start BY <1>7, <3>1
      <3>4. variables[k].next <= variables[l].start BY <1>1 DEF Apart
      <3> QED BY <3>2, <3>3, <3>4
    <2> QED BY <1>7, <2>7, <2>8, <2>9 DEF Apart
  <1> QED BY <1>2, <1>5, <1>6, <1>7

\* The addresses of parameters are below those of variables.
LEMMA ApartArgument ==
  ASSUME Typed, InPlace, Callees, Parameters, Apart, AddArgument
  PROVE  Apart'
  <1>1. PICK p, key, a, no : p = work[1] /\ key = <<p.name>> /\ a = Address(work[1]) /\ no = FALSE OBVIOUS
  <1>2. work # <<>> /\ p.do = "parameter" /\ Define(key, a, no) BY <1>1 DEF AddArgument, Doing, Address
  <1>3. variables # <<>> BY NotEmpty
  <1>4. PICK n : n = Len(variables) OBVIOUS
  <1>5. /\ n \in DOMAIN variables /\ n \in Nat
        /\ \/ variables' = variables
           \/ /\ Len(variables') = n
              /\ \A k \in 1 .. n : k # n => variables'[k] = variables[k]
              /\ variables'[n].start = variables[n].start
              /\ variables'[n].next = IF no THEN variables[n].next + 1 ELSE variables[n].next
              /\ \E tag : tag.address = a /\ variables'[n].vars = variables[n].vars \cup {tag}
    BY <1>2, <1>3, <1>4, Extended
  <1>6. CASE variables' = variables
    <2>1. \A k : Table(k)' = Table(k) BY <1>6 DEF Table
    <2> QED BY <1>6, <2>1 DEF Apart
  <1>7. CASE /\ Len(variables') = n
             /\ variables'[n].start = variables[n].start
             /\ variables'[n].next = variables[n].next
             /\ \E tag : tag.address = a /\ variables'[n].vars = variables[n].vars \cup {tag}
    <2>1. work \in Seq(Calls) /\ 1 \in DOMAIN work /\ p \in Calls BY <1>1, <1>2, HeadParts DEF Typed
    <2>2. n = 2
      <3>1. Fits(work[1].do, n) BY <1>2, <1>4, <2>1, HeadFits DEF InPlace
      <3> QED BY <1>1, <1>2, <3>1 DEF Fits
    <2>3. PICK tag : tag.address = a /\ variables'[2].vars = variables[2].vars \cup {tag} BY <1>7, <2>2
    <2>4. 2 \in DOMAIN variables BY <1>5, <2>2
    <2>5. /\ variables[2].start \in Nat /\ variables[2].next \in Nat /\ \A v \in variables[2].vars : v.address \in Int
      BY <2>4, TableTypes
    <2>6. p.is <= functions[p.f].arity /\ \A v \in variables[2].vars : v.address > a
      BY <1>1, <1>2, <1>4, <2>1, <2>2 DEF Parameters
    <2>7. a \in Int /\ a <= -4
      <3>1. p.is \in Nat BY <1>2, <2>1, CallParts
      <3>2. Callee(p) BY <1>1, <2>1 DEF Callees
      <3>3. functions[p.f] \in FunctionTags BY <1>2, <3>2, Member DEF Callee, Typed
      <3>4. functions[p.f].arity \in Nat BY <3>3, TagParts
      <3> QED BY <1>1, <2>6, <3>1, <3>4 DEF Address
    <2>8. 2 \in 2 .. Len(variables) BY <1>4, <2>2
    <2>9. /\ variables[2].start <= variables[2].next
          /\ \A v \in variables[2].vars : v.address \in variables[2].start .. variables[2].next - 1 \/ (2 = 2 /\ v.address <= -4)
          /\ \A v, w \in variables[2].vars : v.address = w.address => v = w
      BY <2>8 DEF Apart, Table
    <2>10. Table(2)'
      <3>1. variables'[2].start <= variables'[2].next BY <1>7, <2>2, <2>9
      <3>2. \A v \in variables'[2].vars :
              v.address \in variables'[2].start .. variables'[2].next - 1 \/ (2 = 2 /\ v.address <= -4)
        BY <1>7, <2>2, <2>3, <2>7, <2>9
      <3>3. \A v, w \in variables'[2].vars : v.address = w.address => v = w
        <4> SUFFICES ASSUME NEW v \in variables'[2].vars, NEW w \in variables'[2].vars, v.address = w.address PROVE v = w
          OBVIOUS
        <4>1. CASE v \in variables[2].vars /\ w \in variables[2].vars BY <2>9, <4>1
        <4>2. CASE v \in variables[2].vars /\ w = tag BY <2>3, <2>5, <2>6, <2>7, <4>2
        <4>3. CASE v = tag /\ w \in variables[2].vars BY <2>3, <2>5, <2>6, <2>7, <4>3
        <4> QED BY <2>3, <4>1, <4>2, <4>3
      <3> QED BY <3>1, <3>2, <3>3 DEF Table
    <2>11. Len(variables') = 2 BY <1>7, <2>2
    <2>12. \A k \in 2 .. Len(variables') : k = 2 BY <2>11
    <2> QED BY <2>10, <2>11, <2>12 DEF Apart
  <1> QED BY <1>1, <1>5, <1>6, <1>7

\* A table more: its first address is the next of the table around it.
LEMMA ApartBlock ==
  ASSUME Typed, InPlace, Apart, AnalyzeBlock
  PROVE  Apart'
  <1>1. PICK n, m, t : n = Len(variables) /\ m = variables[n].next /\ t = ValueTable(m) OBVIOUS
  <1>2. work # <<>> /\ work[1].do = "analyze" /\ BlockIn(FALSE) BY DEF AnalyzeBlock, Doing
  <1>3. variables \in Seq(ValueTables) /\ n \in Nat /\ work \in Seq(Calls) BY <1>1 DEF Typed
  <1>4. n >= 2 BY <1>1, <1>2, <1>3, HeadFits DEF InPlace, Fits
  <1>5. variables' = Append(variables, t) BY <1>1, <1>2, <1>3, <1>4 DEF BlockIn
  <1>6. n \in DOMAIN variables /\ n \in 2 .. n BY <1>1, <1>3, <1>4
  <1>7. m \in Nat BY <1>1, <1>6, TableTypes
  <1>8. t.start = m /\ t.next = m /\ t.vars = {} /\ t \in ValueTables BY <1>1, <1>7 DEF ValueTable, ValueTables
  <1>9. Len(variables') = n + 1 /\ variables'[n + 1] = t /\ \A k \in 1 .. n : variables'[k] = variables[k]
    BY <1>1, <1>3, <1>5, <1>8, AppendProperties
  <1>10. \A k \in 2 .. n : Table(k)'
    <2> SUFFICES ASSUME NEW k \in 2 .. n PROVE Table(k)' OBVIOUS
    <2>1. variables'[k] = variables[k] BY <1>3, <1>9
    <2>2. Table(k) BY <1>1 DEF Apart
    <2> QED BY <2>1, <2>2 DEF Table
  <1>11. Table(n + 1)' BY <1>7, <1>8, <1>9 DEF Table
  <1>12. \A k \in 2 .. n : variables[k].next <= m
    <2> SUFFICES ASSUME NEW k \in 2 .. n PROVE variables[k].next <= m OBVIOUS
    <2>1. CASE k = n BY <1>1, <1>7, <2>1
    <2>2. CASE k # n
      <3>1. n \in k + 1 .. n /\ k \in DOMAIN variables BY <1>1, <1>3, <2>2
      <3>2. variables[k].next <= variables[n].start BY <1>1, <3>1 DEF Apart
      <3>3. variables[n].start <= variables[n].next BY <1>1, <1>6 DEF Apart, Table
      <3>4. variables[k].next \in Nat /\ variables[n].start \in Nat /\ variables[n].next \in Nat BY <1>6, <3>1, TableTypes
      <3> QED BY <1>1, <3>2, <3>3, <3>4
    <2> QED BY <2>1, <2>2
  <1>13. \A k \in 2 .. n + 1 : \A l \in k + 1 .. n + 1 : variables'[k].next <= variables'[l].start
    <2> SUFFICES ASSUME NEW k \in 2 .. n + 1, NEW l \in k + 1 .. n + 1 PROVE variables'[k].next <= variables'[l].start OBVIOUS
    <2>1. k \in 2 .. n /\ k \in 1 .. n /\ variables'[k] = variables[k] BY <1>3, <1>9
    <2>2. CASE l = n + 1 BY <1>8, <1>9, <1>12, <2>1, <2>2
    <2>3. CASE l # n + 1
      <3>1. l \in k + 1 .. n /\ l \in 1 .. n BY <1>3, <2>3
      <3>2. variables'[l] = variables[l] BY <1>9, <3>1
      <3> QED BY <1>1, <2>1, <3>1, <3>2 DEF Apart
    <2> QED BY <2>2, <2>3
  <1>14. \A k \in 2 .. n + 1 : k \in 2 .. n \/ k = n + 1 BY <1>3
  <1> QED BY <1>9, <1>10, <1>11, <1>13, <1>14 DEF Apart

\* A block that is left takes its range with it.
LEMMA ApartBlockOut ==
  ASSUME Typed, InPlace, Apart, BlockOut
  PROVE  Apart'
  <1>1. PICK n : n = Len(variables) OBVIOUS
  <1>2. work # <<>> /\ work[1].do = "blockOut" /\ variables' = Front(variables) BY DEF BlockOut, Doing
  <1>3. variables \in Seq(ValueTables) /\ n \in Nat /\ work \in Seq(Calls) BY <1>1 DEF Typed
  <1>4. n >= 2 BY <1>1, <1>2, <1>3, HeadFits DEF InPlace, Fits
  <1>5. Len(variables') = n - 1 /\ \A k \in 1 .. n - 1 : variables'[k] = variables[k]
    BY <1>1, <1>2, <1>3, <1>4 DEF Front
  <1>6. \A k \in 2 .. n - 1 : Table(k)'
    <2> SUFFICES ASSUME NEW k \in 2 .. n - 1 PROVE Table(k)' OBVIOUS
    <2>1. variables'[k] = variables[k] /\ k \in 2 .. n BY <1>3, <1>5
    <2>2. Table(k) BY <1>1, <2>1 DEF Apart
    <2> QED BY <2>1, <2>2 DEF Table
  <1>7. \A k \in 2 .. n - 1 : \A l \in k + 1 .. n - 1 : variables'[k].next <= variables'[l].start
    <2> SUFFICES ASSUME NEW k \in 2 .. n - 1, NEW l \in k + 1 .. n - 1 PROVE variables'[k].next <= variables'[l].start OBVIOUS
    <2>1. k \in 2 .. n /\ l \in k + 1 .. n /\ variables'[k] = variables[k] /\ variables'[l] = variables[l] BY <1>3, <1>5
    <2> QED BY <1>1, <2>1 DEF Apart
  <1> QED BY <1>5, <1>6, <1>7 DEF Apart

\* What leaves the tables alone keeps them apart.
LEMMA ApartSame ==
  ASSUME Apart, variables' = variables
  PROVE  Apart'
  <1>1. \A k : Table(k)' = Table(k) BY DEF Table
  <1> QED BY <1>1 DEF Apart

\* With no more than the globals' table nothing is asked.
LEMMA ApartGlobals ==
  ASSUME Len(variables') \in {0, 1}
  PROVE  Apart'
  <1>1. PICK n : n = Len(variables') OBVIOUS
  <1>2. n = 0 \/ n = 1 BY <1>1
  <1>3. 2 .. n = {} BY <1>2
  <1> QED BY <1>1, <1>3 DEF Apart

\* A function starts at 0, where no other table is.
LEMMA ApartFunction ==
  ASSUME Typed, Apart, FunctionStep
  PROVE  Apart'
  <1>1. Len(variables) = 1 /\ variables \in Seq(ValueTables) BY DEF FunctionStep, Typed
  <1>2. variables' = variables \/ variables' = Append(variables, ValueTable(0)) BY DEF FunctionStep
  <1>3. CASE variables' = variables BY <1>3, ApartSame
  <1>4. CASE variables' = Append(variables, ValueTable(0))
    <2>1. PICK t, n : t = ValueTable(0) /\ n = Len(variables) OBVIOUS
    <2>2. t.start = 0 /\ t.next = 0 /\ t.vars = {} /\ t \in ValueTables BY <2>1 DEF ValueTable, ValueTables
    <2>3. Len(variables') = n + 1 /\ variables'[n + 1] = t
      <3>1. variables \in Seq(ValueTables) /\ variables' = Append(variables, t) BY <1>1, <1>4, <2>1
      <3>2. Len(Append(variables, t)) = Len(variables) + 1 /\ Append(variables, t)[Len(variables) + 1] = t
        BY ONLY <2>2, <3>1, AppendProperties
      <3> QED BY <2>1, <3>1, <3>2
    <2>4. Len(variables') = 2 /\ variables'[2] = t BY <1>1, <2>1, <2>3
    <2>5. Table(2)' BY <2>2, <2>4 DEF Table
    <2>6. \A k \in 2 .. Len(variables') : k = 2 /\ k + 1 .. Len(variables') = {} BY <2>4
    <2> QED BY <2>5, <2>6 DEF Apart
  <1> QED BY <1>2, <1>3, <1>4

\* All steps of Codegen keep the tables apart.
LEMMA ApartGenerate ==
  ASSUME Sound, Parameters, Apart, Generate, Fixed
  PROVE  Apart'
  <1>1. Typed /\ Stages /\ Callees /\ Registry BY DEF Sound
  <1>2. InPlace /\ work # <<>> BY <1>1, Generating
  <1>3. CASE DefineValue BY <1>1, <1>2, <1>3, ApartValue
  <1>4. CASE AddArgument BY <1>1, <1>2, <1>4, ApartArgument
  <1>5. CASE DefineGlobal
    <2>1. work[1].do = "global" BY <1>5 DEF DefineGlobal, Doing
    <2>2. work \in Seq(Calls) BY <1>1 DEF Typed
    <2>3. Len(variables) = 1 BY <1>2, <2>1, <2>2, HeadFits DEF InPlace, Fits
    <2>4. Len(variables') = Len(variables)
      <3>1. QuietStep BY <1>1, <1>2, <1>5, KeptQuiet DEF QuietGenerate
      <3> QED BY <3>1 DEF QuietStep
    <2> QED BY <2>3, <2>4, ApartGlobals
  <1>6. CASE AnalyzeBlock BY <1>1, <1>2, <1>6, ApartBlock
  <1>7. CASE BlockOut BY <1>1, <1>2, <1>7, ApartBlockOut
  <1>8. CASE AnalyzeFunction
    <2>1. work[1].do = "function" /\ 1 \in DOMAIN work BY <1>1, <1>2, <1>8 DEF AnalyzeFunction, Doing, Typed
    <2>2. Registered(work[1].f) # {} BY <1>1, <2>1 DEF Registry
    <2>3. FunctionStep BY <1>1, <1>2, <1>8, <2>2, NextFunction
    <2> QED BY <1>1, <2>3, ApartFunction
  <1>9. CASE ~DefineValue /\ ~AddArgument /\ ~DefineGlobal /\ ~AnalyzeBlock /\ ~BlockOut /\ ~AnalyzeFunction
    BY <1>9, VariablesKept, ApartSame
  <1> QED BY <1>3, <1>4, <1>5, <1>6, <1>7, <1>8, <1>9

\* The two together: how variables get their addresses.
Numbered == Parameters /\ Apart

LEMMA NumberedInit == Init => Numbered
  <1> SUFFICES ASSUME Init PROVE Numbered OBVIOUS
  <1>1. work = <<>> /\ variables = <<>> BY DEF Init
  <1>2. 2 .. Len(variables) = {} BY <1>1
  <1> QED BY <1>1, <1>2 DEF Numbered, Parameters, Apart

LEMMA NumberedPhases ==
  ASSUME Sound, Numbered,
         (\E s \in Scripts : Compile(s)) \/ DeclareFunctions \/ AnalyzeFunctions \/ LabelSetting \/ CreateData \/ Return
  PROVE  Numbered'
  <1>1. Typed /\ Stages BY DEF Sound
  <1>2. ASSUME NEW s \in Scripts, Compile(s) PROVE Numbered'
    <2>1. \A i \in DOMAIN work' : work'[i].do \in {"emit", "global"} BY <1>1, <1>2, Compiled
    <2>2. Len(variables') = 1 BY <1>2 DEF Compile
    <2> QED BY <2>1, <2>2, ParametersNone, ApartGlobals DEF Numbered
  <1>3. CASE DeclareFunctions
    <2>1. \A i \in DOMAIN work' : work'[i] = [do |-> "regist", f |-> script.functions[i]]
      BY <1>1, <1>3, DeclaredFunctions
    <2>2. \A i \in DOMAIN work' : work'[i].do # "parameter"
      <3>1. \A g : [do |-> "regist", f |-> g].do = "regist" OBVIOUS
      <3> QED BY <2>1, <3>1
    <2>3. variables' = variables BY <1>3 DEF DeclareFunctions, tables
    <2> QED BY <2>2, <2>3, ParametersNone, ApartSame DEF Numbered
  <1>4. CASE AnalyzeFunctions
    <2>1. DOMAIN work' = {1} /\ work'[1] = [do |-> "function", f |-> script.functions[analyzed + 1]]
      BY <1>1, <1>4, FunctionsBegun
    <2>2. \A i \in DOMAIN work' : work'[i].do # "parameter"
      <3>1. \A g : [do |-> "function", f |-> g].do = "function" OBVIOUS
      <3> QED BY <2>1, <3>1
    <2>3. variables' = variables BY <1>4 DEF AnalyzeFunctions, tables
    <2> QED BY <2>2, <2>3, ParametersNone, ApartSame DEF Numbered
  <1>5. CASE LabelSetting \/ CreateData
    <2>1. work' = <<>> /\ variables' = variables
      <3>1. CASE LabelSetting BY <3>1 DEF LabelSetting
      <3>2. CASE CreateData BY <1>1, <3>2 DEF CreateData, Stages, codegen, tables
      <3> QED BY <1>5, <3>1, <3>2
    <2> QED BY <2>1, ParametersNone, ApartSame DEF Numbered
  <1>6. CASE Return
    <2>1. work' = <<>> BY <1>1, <1>6, Returned
    <2>2. Len(variables') = 0 BY <1>6 DEF Return
    <2> QED BY <2>1, <2>2, ParametersNone, ApartGlobals DEF Numbered
  <1> QED BY <1>2, <1>3, <1>4, <1>5, <1>6

LEMMA NumberedNext == Sound /\ Numbered /\ [Next]_vars => Numbered'
  <1> SUFFICES ASSUME Sound, Numbered, [Next]_vars PROVE Numbered' OBVIOUS
  <1>1. CASE Generate /\ UNCHANGED <<phase, script, analyzed, positions, out>>
    BY <1>1, ParametersGenerate, ApartGenerate DEF Fixed, Numbered
  <1>2. CASE (\E s \in Scripts : Compile(s)) \/ DeclareFunctions \/ AnalyzeFunctions \/ LabelSetting \/ CreateData \/ Return
    BY <1>2, NumberedPhases
  <1>3. CASE UNCHANGED vars
    <2>1. UNCHANGED <<work, variables, functions>> BY <1>3 DEF vars, codegen, tables
    <2>2. \A p : Address(p)' = Address(p) BY <2>1 DEF Address
    <2>3. Parameters' = Parameters BY <2>1, <2>2 DEF Parameters
    <2> QED BY <2>1, <2>3, ApartSame DEF Numbered
  <1> QED BY <1>1, <1>2, <1>3 DEF Next

\* Variables that code may name at the same time, parameters among them, have
\* different addresses, however blocks are nested and whatever errors were met
\* (BlockIn, ValueTable::Add, Function::Analyze).
THEOREM LiveVariablesDistinctHolds == Spec => []LiveVariablesDistinct
  <1>1. Sound /\ Numbered => LiveVariablesDistinct
    <2> SUFFICES ASSUME Sound, Numbered, NEW i \in 2 .. Len(variables), NEW j \in 2 .. Len(variables),
                        NEW v \in variables[i].vars, NEW w \in variables[j].vars, v.address = w.address
                 PROVE  i = j /\ v = w
      BY DEF LiveVariablesDistinct
    <2>1. Typed /\ Apart BY DEF Sound, Numbered
    <2>2. variables \in Seq(ValueTables) /\ Len(variables) \in Nat /\ DOMAIN variables = 1 .. Len(variables) BY <2>1 DEF Typed
    <2>3. ASSUME NEW k \in 2 .. Len(variables), NEW l \in 2 .. Len(variables), k < l,
                 NEW x \in variables[k].vars, NEW y \in variables[l].vars
          PROVE  x.address < y.address
      <3>1. k \in DOMAIN variables /\ l \in DOMAIN variables /\ l \in k + 1 .. Len(variables) BY <2>2, <2>3
      <3>2. /\ variables[k].next \in Nat /\ variables[l].start \in Nat /\ variables[k].start \in Nat
            /\ variables[l].next \in Nat /\ x.address \in Int /\ y.address \in Int
        BY <2>1, <3>1, TableTypes
      <3>3. variables[k].next <= variables[l].start BY <2>1, <3>1 DEF Apart
      <3>4. y.address \in variables[l].start .. variables[l].next - 1 BY <2>1, <2>2, <2>3 DEF Apart, Table
      <3>5. x.address < variables[k].next
        <4>1. x.address \in variables[k].start .. variables[k].next - 1 \/ x.address <= -4 BY <2>1 DEF Apart, Table
        <4> QED BY <3>2, <4>1
      <3> QED BY <3>2, <3>3, <3>4, <3>5
    <2>4. v.address \in Int BY <2>1, <2>2, TableTypes
    <2>5. i = j
      <3>1. ~(i < j) BY <2>3, <2>4
      <3>2. ~(j < i) BY <2>3, <2>4
      <3> QED BY <2>2, <3>1, <3>2
    <2>6. v = w BY <2>1, <2>5 DEF Apart, Table
    <2> QED BY <2>5, <2>6
  <1> QED BY <1>1, NumberedInit, NumberedNext, AlwaysSound, PTL DEF Spec
=============================================================================
