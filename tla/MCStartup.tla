------------------------------ MODULE MCStartup ------------------------------
(* Two names and two URLs: enough to swap them, to rename a backend and to   *)
(* configure one twice.  Both are interchangeable.                           *)
EXTENDS Startup

CONSTANTS a, b, u, v, admin, member

MCNames == {a, b}
MCUrls == {u, v}
MCAdmins == {admin}
MCMembers == {member}
MCSymmetry == Permutations(MCNames) \cup Permutations(MCUrls)
=============================================================================
