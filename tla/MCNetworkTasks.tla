-------------------------- MODULE MCNetworkTasks --------------------------
(* Instance of NetworkTasks for TLC: three imports, of which an upload and *)
(* a download bring the same content, or two plots of a stored network.    *)
EXTENDS NetworkTasks
CONSTANTS e, u, w, l, p, q
MCSessions == {{u, l}, {w, l}, {p, q}}
MCContent == [j \in Imports |-> CASE j \in {u, l} -> "a" [] j = w -> "broken" [] j = e -> "b"]
MCNetworkOf == [j \in Plots |-> e]
=============================================================================
