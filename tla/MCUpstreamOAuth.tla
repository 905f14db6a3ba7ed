--------------------------- MODULE MCUpstreamOAuth ---------------------------
(* Two authorizations whose redirects may be loaded twice and two connections:   *)
(* in the first scenario alone, over two expiries; then with a failure; then   *)
(* with forms that name another issuer or an app registered by hand, and edits.  *)
EXTENDS UpstreamOAuth, TLC

Forms == {NoForm, [issuer |-> "other", app |-> FALSE], [issuer |-> None, app |-> TRUE]}
Alone  == [policies |-> Policies, asked |-> {NoForm}, expiries |-> 2, edits |-> 0, upsets |-> 0]
Faulty == [Alone EXCEPT !.policies = {"rotates"}, !.expiries = 1, !.upsets = 1]
Edited == [Alone EXCEPT !.policies = {"keeps", "rotates"}, !.expiries = 1, !.edits = 1, !.asked = Forms]
MCScenarios == {Alone, Faulty, Edited}
MCSymmetry == Permutations(Starts) \cup Permutations(Callbacks) \cup Permutations(Connections)
=============================================================================
