----------------------------- MODULE Execution -----------------------------
(***************************************************************************)
(* What Compiler makes, run as module Running says, against what the       *)
(* script means, which is module Script.                                   *)
(***************************************************************************)
EXTENDS Compiler, Running

CONSTANTS
  Inputs,       \* what a script may be given to read
  Fuel          \* bound on the instructions one run of a script executes

\* Started by the host and given numbers to read, a function prints what the
\* script says, reads as much, and ends if the script says so.
ComputesAsWritten ==
  Correct =>
    \A i \in DOMAIN script.functions :
      script.functions[i].params = <<>> =>
        \A input \in Inputs :
          Behaviour(out.bytecode, out.address[i], input, Fuel)
            = Meaning(script.functions, script.functions[i], input)
=============================================================================
