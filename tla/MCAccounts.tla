----------------------------- MODULE MCAccounts -----------------------------
(* Two people, one of whom has the username of a bot.                       *)
EXTENDS Accounts, TLC

CONSTANTS p, q, s1, s2

MCPeople == {p, q}
MCBots == {p}
MCSlots == {s1, s2}
MCSymmetry == Permutations(MCSlots)
============================================================================
