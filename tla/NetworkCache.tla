---------------------------- MODULE NetworkCache ----------------------------
(***************************************************************************)
(* NetworkCache of services/network.py: loaded networks by file path, with *)
(* a time to live and eviction of the least recently used.  Every method   *)
(* holds the lock of the cache and is one step.                            *)
(*                                                                         *)
(* A network is known by the version of the file it was read from and the  *)
(* time it was read.  The order of the OrderedDict is the relation "older".*)
(***************************************************************************)
EXTENDS Naturals, FiniteSets

CONSTANTS Paths, TTL, MaxSize

ASSUME CacheAssumption == TTL \in Nat /\ MaxSize \in Nat \ {0}

VARIABLES entries,  \* cached path -> [ver, read: the network, at: time it was put]
          older,    \* <<p, q>>: p is nearer to eviction than q
          now

cacheVars == <<entries, older>>
Cached == DOMAIN entries

CacheInit == entries = [p \in {} |-> {}] /\ older = {} /\ now = 0

Expired(p) == now - entries[p].at > TTL

\* The order among the keys of a set, and with one of them moved to the end.
Among(keys) == {pair \in older : pair[1] \in keys /\ pair[2] \in keys}
LastAmong(keys, p) == Among(keys \ {p}) \cup ((keys \ {p}) \X {p})

Oldest(p) == p \in Cached /\ \A q \in Cached \ {p} : <<p, q>> \in older

\* get
RenewsOnHit(p) ==
    /\ p \in Cached /\ ~Expired(p)
    /\ entries' = [entries EXCEPT ![p].at = now]
    /\ older' = LastAmong(Cached, p)
Hit(p) ==
    /\ p \in Cached /\ ~Expired(p)
    /\ older' = LastAmong(Cached, p)
    /\ UNCHANGED entries

Miss(p) ==
    \/ p \notin Cached /\ UNCHANGED cacheVars
    \/ /\ p \in Cached /\ Expired(p)
       /\ entries' = [q \in Cached \ {p} |-> entries[q]]
       /\ older' = Among(Cached \ {p})

\* put: "keys" are those that stay or come.
KeptOneMore(p, keys) ==
    IF p \notin Cached /\ Cardinality(Cached) > MaxSize
      THEN \E q \in Cached : Oldest(q) /\ keys = (Cached \ {q}) \cup {p}
      ELSE keys = Cached \cup {p}
Kept(p, keys) ==
    IF p \notin Cached /\ Cardinality(Cached) >= MaxSize
      THEN \E q \in Cached : Oldest(q) /\ keys = (Cached \ {q}) \cup {p}
      ELSE keys = Cached \cup {p}

PutsOnce(p, network) ==
    \E keys \in SUBSET (Cached \cup {p}) :
        /\ Kept(p, keys)
        /\ entries' = [q \in keys |-> IF q \in Cached THEN entries[q]
                          ELSE [ver |-> network.ver, read |-> network.read, at |-> now]]
        /\ older' = LastAmong(keys, p)
Put(p, network) ==
    \E keys \in SUBSET (Cached \cup {p}) :
        /\ Kept(p, keys)
        /\ entries' = [q \in keys |-> IF q # p THEN entries[q]
                          ELSE [ver |-> network.ver, read |-> network.read, at |-> now]]
        /\ older' = LastAmong(keys, p)

\* clear
Clear == entries' = [p \in {} |-> {}] /\ older' = {}

----------------------------------------------------------------------------
CacheTypeOK ==
    /\ Cached \subseteq Paths
    /\ entries \in [Cached -> [ver : Nat, read : Nat, at : Nat]]
    /\ older \subseteq {pair \in Cached \X Cached : pair[1] # pair[2]}
    /\ now \in Nat

\* The cache never outgrows its limit, and its keys are in one order, so that there is
\* always exactly one entry to evict (NetworkCache.put).
CacheIsBounded ==
    /\ Cardinality(Cached) <= MaxSize
    /\ \A p, q \in Cached : p # q => (<<p, q>> \in older <=> <<q, p>> \notin older)
=============================================================================
