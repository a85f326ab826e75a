-------------------------- MODULE MCLocalNetworks --------------------------
(* Instance of LocalNetworks for TLC: two stored networks; a behaviour is  *)
(* either about records (two more registrations, two deletions, no views)  *)
(* or about views (four of them while time passes), to keep it small.      *)
EXTENDS LocalNetworks, TLC

CONSTANTS p1, p2, k1, k2, k3
VARIABLE about

\* A call is <<what, path, number>>; the views of p1 are interchangeable.
Earlier == {<<"register", p1, 1>>, <<"register", p2, 2>>}
Register4 == Earlier \cup {<<"register", p1, 3>>, <<"register", p1, 4>>}
Delete2 == {<<"delete", p1, 5>>, <<"delete", p1, 6>>}
RemoveOne == {<<"delete", p1, 5>>}
View4 == {<<"view", p1, k1>>, <<"view", p1, k2>>, <<"view", p1, k3>>, <<"view", p2, 7>>}
Interchangeable == Permutations({k1, k2, k3})
PathOfCall == [c \in Calls |-> c[2]]

MCInit == Init /\ about \in {"records", "views"}
MCNext ==
    /\ Next /\ UNCHANGED about
    /\ IF about = "records" THEN now' = 0 /\ \A v \in Views : call'[v].pc = "new"
         ELSE edits' < MaxEdits /\ \A c \in Calls \ (Views \cup Stored) : call'[c].pc = "new"
MCSpec == MCInit /\ [][MCNext]_<<vars, about>>
=============================================================================
