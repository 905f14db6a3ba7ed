----------------------------- MODULE MCToolCall -----------------------------
(* Six scenarios over two replicas: one call of every job while the vendor       *)
(* revokes tokens; two calls that share a cached token; a call past the approval *)
(* gate while two administrators edit three times, and past every other kind of  *)
(* hook while they edit twice; past every kind while one edits and something     *)
(* fails; and three calls whose books race.                                      *)
EXTENDS ToolCall

CONSTANTS c1, c2, c3

Gate   == StepOf(ApprovalGate, "onToolCall")
Steps  == StepsAt("onToolCall") \cup StepsAt("onToolResult")

Vendor == [calls |-> {c1}, jobs |-> Jobs, edits |-> 0, revocations |-> 2, upsets |-> 1,
           hooks |-> {Gate}]
Hooks  == [calls |-> {c1}, jobs |-> {j \in Jobs : j.held /\ ~j.cached /\ j.plan = <<Write>>},
           edits |-> 2, revocations |-> 0, upsets |-> 0, hooks |-> Steps \ {Gate}]
Stale  == [Hooks EXCEPT !.edits = 3, !.hooks = {Gate}]
Torn   == [Hooks EXCEPT !.edits = 1, !.upsets = 1, !.hooks = Steps]
Books  == [calls |-> {c1, c2, c3},
           jobs |-> {j \in Jobs : ~j.documented /\ ~j.cached /\ ~j.throws /\ j.plan = <<Write>>},
           edits |-> 0, revocations |-> 0, upsets |-> 1, hooks |-> {Gate}]
Shared == [calls |-> {c2, c3},
           jobs |-> {j \in Jobs : j.documented /\ j.cached /\ j.plan \in {<<Write>>, <<Check, Write>>}},
           edits |-> 0, revocations |-> 2, upsets |-> 0, hooks |-> {Gate}]
MCScenarios == {Vendor, Shared, Hooks, Stale, Torn, Books}
MCSymmetry == Permutations(Replicas) \cup Permutations(Editors) \cup Permutations({c2, c3})
=============================================================================
