--------------------------- MODULE SharedGlobals ----------------------------
(***************************************************************************)
(* What a script may think of a task: it has globals of its own, which     *)
(* start with the values they had when PushTask was called.  But the       *)
(* variables of machines that have been cloned from each other may be one  *)
(* object, and then a change of the object shows in all of them.  Machines *)
(* that have no object in common see nothing of each other, and stay       *)
(* apart.                                                                  *)
(***************************************************************************)
CONSTANTS Machines, Globals, Values

VARIABLES
  globals,   \* of the machines that exist: their globals' values
  common     \* pairs of machines that may have an object in common

vars == <<globals, common>>

Init ==
  \E m \in Machines : globals \in [{m} -> [Globals -> Values]] /\ common = {<<m, m>>}

\* A machine of a new script has nothing in common with any other.
Construct(m) ==
  /\ m \in Machines \ DOMAIN globals
  /\ \E initial \in [Globals -> Values] :
       globals' = [n \in DOMAIN globals \cup {m} |-> IF n = m THEN initial ELSE globals[n]]
  /\ common' = common \cup {<<m, m>>}

\* A clone has the values of its machine, and in common with others at most what
\* that has.
Clone(m, n) ==
  /\ m \in DOMAIN globals /\ n \in Machines \ DOMAIN globals
  /\ globals' = [k \in DOMAIN globals \cup {n} |-> IF k = n THEN globals[m] ELSE globals[k]]
  /\ common \subseteq common'
  /\ \A p \in common' \ common :
       \/ p = <<n, n>>
       \/ p[1] = n /\ <<m, p[2]>> \in common
       \/ p[2] = n /\ <<p[1], m>> \in common

\* Machine m changes a variable or an object: variables become v, its own or
\* of machines that have something in common with it.
Change(m, v) ==
  /\ m \in DOMAIN globals
  /\ globals' \in [DOMAIN globals -> [Globals -> Values]]
  /\ \A n \in DOMAIN globals, g \in Globals :
       globals'[n][g] # globals[n][g] => globals'[n][g] = v /\ <<m, n>> \in common
  /\ common' \subseteq common

\* Machines come apart.
Part ==
  /\ UNCHANGED globals
  /\ common' \subseteq common

Delete(m) ==
  /\ m \in DOMAIN globals
  /\ globals' = [n \in DOMAIN globals \ {m} |-> globals[n]]
  /\ common' = {p \in common : m \notin {p[1], p[2]}}

Next ==
  \/ \E m \in Machines : Construct(m) \/ Delete(m)
  \/ \E m, n \in Machines : Clone(m, n)
  \/ \E m \in Machines, v \in Values : Change(m, v)
  \/ Part

Spec == Init /\ [][Next]_vars
=============================================================================
