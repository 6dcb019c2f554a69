---------------------------- MODULE MCTypeTable ----------------------------
(***************************************************************************)
(* Names for TypeTable.                                                    *)
(***************************************************************************)
EXTENDS TypeTable

SmallDefaults == <<"int", "void">>
CppTypeOf == [n \in {"int", "void", "vec", "number"} |-> IF n = "number" THEN "int" ELSE n]

Of(t) == [type |-> t, ref |-> FALSE]
To(t) == [type |-> t, ref |-> TRUE]

\* Members of every kind: C++ types, classes by value and by reference, enums.
SmallBodies ==
  { <<>>, <<Of("int")>>, <<To("C"), Of("D")>>, <<Of("C")>>, <<Of("E"), Of("vec")>> }

\* Nothing is claimed of what follows a name registered twice.
StopAtDisorder == orderly
NoBodies == { <<>> }
CircleBodies == { <<>>, <<Of("C")>>, <<Of("D")>> }
=============================================================================
