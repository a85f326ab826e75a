---------------------------- MODULE MCListPages ----------------------------
EXTENDS ListPages
MCRows == 1..3
MCSortKey == <<1, 1, 2>>
MCAtFirst == [r \in MCRows |-> CASE r = 1 -> [owner |-> "me", visibility |-> "private"]
                                   [] r = 2 -> [owner |-> "you", visibility |-> "public"]
                                   [] r = 3 -> [owner |-> "you", visibility |-> "private"]]
=============================================================================
