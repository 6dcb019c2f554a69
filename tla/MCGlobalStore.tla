--------------------------- MODULE MCGlobalStore ---------------------------
(***************************************************************************)
(* Programs for GlobalStore.  Type 0 is an integer, 1 a class, 2 an enum of *)
(* the host, 3 a function type, 4 an enum of the script (where it has it). *)
(***************************************************************************)
EXTENDS GlobalStore

Var(t) == [type |-> t, ref |-> FALSE]
Ref(t) == [type |-> t, ref |-> TRUE]

\* base; patched: the same with another function body; retyped: another type
\* in front; relaid: another class layout; plain: no enum, a reference,
\* one global less.
ReloadPrograms == {"base", "patched", "retyped", "relaid", "plain"}
ReloadGlobals == [p \in ReloadPrograms |->
  CASE p = "retyped" -> <<Var(3), Var(2), Var(1)>>
    [] p = "plain" -> <<Ref(0), Var(1)>>
    [] OTHER -> <<Var(4), Var(2), Var(1)>>]
ReloadKind == [p \in ReloadPrograms |-> [t \in 0 .. 4 |->
  CASE t = 0 -> "plain" [] t = 1 -> "class" [] t = 2 -> "enum" [] t = 3 -> "function"
    [] OTHER -> IF p = "plain" THEN "plain" ELSE "scriptEnum"]]
ReloadClasses == [p \in ReloadPrograms |-> IF p = "relaid" THEN "wide" ELSE "narrow"]
ReloadBody == [p \in ReloadPrograms |->
  IF p = "patched" THEN <<"b", "b", "b", "b">> ELSE <<"a", "a", "a", "a">>]

\* A reload from the second to the first removes the last global.
ResizedPrograms == {"one", "two"}
ResizedGlobals == [p \in ResizedPrograms |->
  IF p = "one" THEN <<Var(0)>> ELSE <<Var(0), Var(0)>>]
ResizedKind == [p \in ResizedPrograms |-> [t \in {0} |-> "plain"]]
ResizedClasses == [p \in ResizedPrograms |-> "none"]
ResizedBody == [p \in ResizedPrograms |-> <<"a", "a", "a", "a", "a", "a">>]
=============================================================================
