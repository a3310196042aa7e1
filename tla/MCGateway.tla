---- MODULE MCGateway ----
(***************************************************************************)
(* Checks Gateway on small instances.                                      *)
(***************************************************************************)
EXTENDS Gateway, TLC

(* Requests are interchangeable until they have arrived.                   *)
Symmetry == Permutations(Requests)

(* Only fairness asks who has hung up, and only TimeoutsAreOfRuns when a    *)
(* turn began.                                                             *)
View == <<backend, sessions, state, mu, now, exits,
          [q \in Requests |-> [req[q] EXCEPT !.gone = FALSE, !.began = 0]]>>

(* One line, as IDs are as a rule, or two: <<a>> of <<b, c>> and <<a, b>>  *)
(* of <<c>> have the same key.                                             *)
OneUser   == {<<"a">>}
OneConv   == {<<"c">>}
TwoConvs  == {<<"c">>, <<"d">>}
SomeUsers == {<<"a">>, <<"b">>, <<"a", "b">>}
SomeConvs == {<<"c">>, <<"b", "c">>}
====
