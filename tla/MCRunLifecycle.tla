--------------------------- MODULE MCRunLifecycle ---------------------------
(* Instances of RunLifecycle for TLC.  Runs are numbers, a request is a tuple *)
(* <<kind, run, serial>>.                                                     *)
EXTENDS RunLifecycle

Spread == [r \in Runs |-> IF r \in Backends THEN r ELSE 1]
WantAll == [r \in Runs |-> Files]
WantOddly == [r \in Runs |-> IF r = 1 THEN Files ELSE {}]
WantNone == [r \in Runs |-> {}]
ProduceAll == [r \in Runs |-> Files]

KindOf == [q \in Requests |-> q[1]]
TargetOf == [q \in Requests |-> q[2]]

CreateGetCancel == {<<"create", 1, 1>>, <<"get", 1, 1>>, <<"cancel", 1, 1>>}
GetRemove == {<<"get", 1, 1>>, <<"remove", 1, 1>>}
RemoveFirst == {<<"remove", 1, 1>>}
NoRequests == {}
=============================================================================
