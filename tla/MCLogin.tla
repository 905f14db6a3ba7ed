------------------------------ MODULE MCLogin -------------------------------
(* Small instances of Login for TLC.                                       *)
EXTENDS Login, TLC

Nothing == [k \in Kinds |-> 0]

\* A behaviour is about passwords, about single sign-on or about sessions:
\* they meet in the shared store only by using up its outages.
OneOfEach == {
  [Nothing EXCEPT !["wrong"] = 5, !["right"] = 1, !["outages"] = 1],
  [Nothing EXCEPT !["logins"] = 1, !["callbacks"] = 4, !["outages"] = 2],
  [Nothing EXCEPT !["sessions"] = 2, !["requests"] = 3, !["upsets"] = 1],
  [Nothing EXCEPT !["sessions"] = 1, !["requests"] = 3, !["upsets"] = 1, !["lapses"] = 1],
  [Nothing EXCEPT !["sessions"] = 1, !["requests"] = 2, !["disable"] = 1] }

Symmetry ==
  UNION { Permutations(S) : S \in {Replicas, Jtis, Requests, Attempts, Callbacks} }
=============================================================================
