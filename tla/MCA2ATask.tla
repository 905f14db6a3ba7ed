----------------------------- MODULE MCA2ATask -----------------------------
(* A delegated task with cancellations, a stream and pushes, and no edits;     *)
(* a request or chat of the caller while two administrators edit, for a caller *)
(* of either role; one edit that may stop halfway; and a delegated task while  *)
(* an administrator edits.                                                     *)
EXTENDS Delegation

CONSTANTS alice, t1, q1, e1, ta, tb, x, y

MCOwner == [t \in Tasks |-> alice]

MCForms == [access : {"public", "authenticated", "restricted"}, teams : {{}, {ta, tb}},
            tools : {{x, y}}, enabled : {TRUE}] \cup {NoForm}

(* e1 is there; team ta, the caller's, is granted tool x of it *)
Start(kind, consumers, edits, stops, admin) ==
  [endpoint |-> [e \in Endpoints |-> IF e = e1
                   THEN Row("here", [access |-> kind, teams |-> {ta}, tools |-> {x, y}, enabled |-> TRUE])
                   ELSE NoRow],
   subset |-> [t \in Teams |-> [e \in Endpoints |-> IF t = ta /\ e = e1 THEN {x} ELSE {}]],
   member |-> {ta}, consumers |-> consumers, edits |-> edits, stops |-> stops, admin |-> admin]

MCAccess == {Start("authenticated", {t1}, 0, 0, FALSE), Start("restricted", {q1}, 2, 0, FALSE),
             Start("public", {q1}, 1, 1, TRUE), Start("restricted", {t1}, 1, 0, FALSE)}
=============================================================================
