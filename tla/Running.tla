------------------------------- MODULE Running -------------------------------
(***************************************************************************)
(* What compiled code does when the machine of module VMStack runs it,     *)
(* with the values a condition depends on: numbers that were read, and     *)
(* constants.  A state of the run is                                       *)
(*   pc, stack (the cells above the globals), base (how many of them are   *)
(*   below the running function's own), in (left to read), out (printed),  *)
(*   status: "runs", "halted" or "stuck" on a read.                        *)
(***************************************************************************)
EXTENDS Script

LOCAL INSTANCE SequencesExt

\* Execute(f): the function's links, and nothing to return to but VM_HALT.
Launch(f, input) ==
  [pc |-> f, stack |-> <<0, 0, 0>>, base |-> 3, in |-> input, out |-> <<>>, status |-> "runs"]

Push1(m, v) == [m EXCEPT !.stack = Append(@, v), !.pc = @ + 1]
Drop(m, k) == [m EXCEPT !.stack = SubSeq(@, 1, Len(@) - k)]
Top(m) == m.stack[Len(m.stack)]

\* The frame, its links and the arguments come off, result comes on.
Leave(m, result) ==
  [m EXCEPT !.pc = m.stack[m.base],
            !.base = m.stack[m.base - 1],
            !.stack = SubSeq(@, 1, m.base - 3 - m.stack[m.base - 2]) \o result]

\* One instruction.
Executed(m, i) ==
  CASE i.op = "halt" -> [m EXCEPT !.status = "halted"]
    [] i.op = "pushConst" -> Push1(m, i.arg)
    [] i.op = "pushLocal" -> Push1(m, m.stack[m.base + 1 + i.arg])
    [] i.op \in {"pushGlobal", "alloc"} -> Push1(m, Unknown)
    [] i.op = "popLocal" ->
         Drop([m EXCEPT !.stack[m.base + 1 + i.arg] = Top(m), !.pc = @ + 1], 1)
    [] i.op \in {"popGlobal", "pop"} -> Drop([m EXCEPT !.pc = @ + 1], 1)
    [] i.op = "oper" ->
         Push1(Drop(m, i.arg), IF i.n = 0 THEN Unknown ELSE IF Top(m) = 0 THEN 1 ELSE 0)
    [] i.op = "sysCall" /\ i.n = 0 ->
         Drop([m EXCEPT !.out = Append(@, m.stack[Len(m.stack) - 1]), !.pc = @ + 1], 2)
    [] i.op = "sysCall" /\ i.n = 1 ->
         IF m.in = <<>> THEN [m EXCEPT !.status = "stuck"]
         ELSE Push1(Drop([m EXCEPT !.in = Tail(@)], 1), Head(m.in))
    [] i.op = "jmp" -> [m EXCEPT !.pc = i.arg]
    [] i.op = "jmpnc" -> Drop([m EXCEPT !.pc = IF Top(m) = 0 THEN i.arg ELSE @ + 1], 1)
    [] i.op = "call" ->
         [m EXCEPT !.stack = @ \o <<m.base, m.pc + 1>>, !.base = Len(m.stack) + 2, !.pc = i.arg]
    [] i.op = "ret" -> Leave(m, <<>>)
    [] i.op = "retv" -> Leave(m, <<Top(m)>>)

\* At most fuel instructions.
RECURSIVE RunFor(_, _, _)
RunFor(code, m, fuel) ==
  IF fuel = 0 \/ m.status # "runs" THEN m
  ELSE RunFor(code, Executed(m, code[m.pc]), fuel - 1)

Behaviour(code, f, input, fuel) ==
  LET m == RunFor(code, Launch(f, input), fuel)
  IN [out |-> m.out, left |-> m.in, ended |-> m.status = "halted"]
=============================================================================
