------------------------ MODULE LocalNetworks_proofs ------------------------
(***************************************************************************)
(* Theorems about the networks of the local mode, for any files, calls and *)
(* limits of the cache.                                                    *)
(***************************************************************************)
EXTENDS LocalNetworks, FiniteSetTheorems, TLAPS

Entry == [ver : Nat, read : Nat, at : Nat]
Pcs == {"new", "hashed", "unknown", "found", "read", "open", "missed", "loaded",
        "deleted", "done", "failed"}

(* Types.                                                                  *)

LEMMA HitType == ASSUME NEW p \in Paths, CacheTypeOK, Hit(p), now' = now PROVE CacheTypeOK'
  BY DEF CacheTypeOK, Hit, LastAmong, Among, Cached

LEMMA MissType == ASSUME NEW p \in Paths, CacheTypeOK, Miss(p), now' = now PROVE CacheTypeOK'
<1>1. CASE UNCHANGED cacheVars BY <1>1 DEF CacheTypeOK, cacheVars, Cached
<1>2. CASE /\ p \in Cached
           /\ entries' = [q \in Cached \ {p} |-> entries[q]]
           /\ older' = Among(Cached \ {p})
  BY <1>2 DEF CacheTypeOK, Among, Cached
<1> QED BY <1>1, <1>2 DEF Miss

LEMMA PutKeys ==
  ASSUME NEW p, NEW network, Put(p, network)
  PROVE  \E keys \in SUBSET (Cached \cup {p}) :
           /\ Kept(p, keys) /\ p \in keys /\ Cached' = keys
           /\ entries' = [q \in keys |-> IF q # p THEN entries[q]
                             ELSE [ver |-> network.ver, read |-> network.read, at |-> now]]
           /\ older' = LastAmong(keys, p)
<1>1. PICK keys \in SUBSET (Cached \cup {p}) :
           /\ Kept(p, keys)
           /\ entries' = [q \in keys |-> IF q # p THEN entries[q]
                             ELSE [ver |-> network.ver, read |-> network.read, at |-> now]]
           /\ older' = LastAmong(keys, p)
  BY DEF Put
<1>2. p \in keys BY <1>1 DEF Kept
<1>3. Cached' = keys BY <1>1 DEF Cached
<1> QED BY <1>1, <1>2, <1>3

LEMMA PutType ==
  ASSUME NEW p \in Paths, NEW network \in Call, CacheTypeOK, Put(p, network), now' = now
  PROVE  CacheTypeOK'
<1>1. PICK keys \in SUBSET (Cached \cup {p}) :
           /\ Kept(p, keys) /\ p \in keys /\ Cached' = keys
           /\ entries' = [q \in keys |-> IF q # p THEN entries[q]
                             ELSE [ver |-> network.ver, read |-> network.read, at |-> now]]
           /\ older' = LastAmong(keys, p)
  BY PutKeys
<1>2. [ver |-> network.ver, read |-> network.read, at |-> now] \in Entry
  BY DEF Call, Entry, CacheTypeOK
<1>3. \A q \in keys : q # p => entries[q] \in Entry BY DEF CacheTypeOK, Entry
<1>4. entries' \in [keys -> Entry] BY <1>1, <1>2, <1>3
<1>5. older' \subseteq {pair \in keys \X keys : pair[1] # pair[2]}
  BY <1>1 DEF LastAmong, Among, CacheTypeOK
<1> QED BY <1>1, <1>4, <1>5 DEF CacheTypeOK, Entry

LEMMA ClearType == ASSUME CacheTypeOK, Clear, now' = now PROVE CacheTypeOK'
  BY DEF CacheTypeOK, Clear, Cached

LEMMA FoundType ==
  ASSUME call \in [Calls -> Call], NEW c \in Calls, NEW pc \in Pcs,
         NEW found \in SUBSET Registrations,
         call' = [call EXCEPT ![c].pc = pc, ![c].found = found]
  PROVE  call' \in [Calls -> Call]
<1>1. call[c] \in Call OBVIOUS
<1>2. [call[c] EXCEPT !.pc = pc] \in Call BY <1>1 DEF Call, Pcs
<1>3. \A k \in Call : [k EXCEPT !.found = found] \in Call BY Zenon DEF Call
<1>4. [[call[c] EXCEPT !.pc = pc] EXCEPT !.found = found] \in Call BY <1>2, <1>3
<1>5. call' = [call EXCEPT ![c] = [[call[c] EXCEPT !.pc = pc] EXCEPT !.found = found]]
  OBVIOUS
<1> QED BY <1>4, <1>5

LEMMA LoadedType ==
  ASSUME call \in [Calls -> Call], NEW c \in Calls, NEW ver \in Nat, NEW read \in Nat,
         call' = [call EXCEPT ![c].pc = "loaded", ![c].ver = ver, ![c].read = read]
  PROVE  call' \in [Calls -> Call]
<1>1. call[c] \in Call OBVIOUS
<1>2. [call[c] EXCEPT !.pc = "loaded", !.ver = ver, !.read = read] \in Call BY <1>1 DEF Call
<1> QED BY <1>2

LEMMA RegisterType ==
  ASSUME LocalAssumption, TypeOK, NEW r \in Registrations, Register(r) PROVE TypeOK'
<1> USE DEF LocalAssumption, TypeOK, Files, At, table
<1>0. CacheTypeOK' /\ r \in Calls /\ File(r) \in Files
  BY DEF Register, HashFile, FindContent, FindPath, ReadMetadata, UpdateRow, InsertRow,
         CacheTypeOK, Cached, Calls, File
<1>1. CASE HashFile(r)
  <2>3. File(r) = NoFile => call' = [call EXCEPT ![r].pc = "failed"]
    BY <1>1 DEF HashFile, Ends, Goes
  <2>4. File(r) # NoFile =>
          call' = [call EXCEPT ![r].pc = "hashed", ![r].hash = File(r)]
    BY <1>1 DEF HashFile
  <2>1. call' \in [Calls -> Call] BY <1>0, <2>3, <2>4 DEF Call
  <2>2. met' \subseteq Meetings BY <1>1 DEF HashFile, Meets, Meetings
  <2> QED BY <1>0, <1>1, <2>1, <2>2 DEF HashFile
<1>2. CASE FindContent(r) BY <1>0, <1>2 DEF FindContent, Goes, Call
<1>3. CASE FindPath(r)
  <2>1. PICK found \in SUBSET Registrations :
          call' = [call EXCEPT ![r].pc = "found", ![r].found = found]
    BY <1>3 DEF FindPath
  <2>2. call' \in [Calls -> Call] BY <1>0, <2>1, FoundType DEF Pcs
  <2> QED BY <1>0, <1>3, <2>2 DEF FindPath
<1>4. CASE ReadMetadata(r) BY <1>0, <1>4 DEF ReadMetadata, Ends, Goes, Call
<1>5. ASSUME NEW i \in Registrations, Refreshed(i, r)
      PROVE  hash' \in [Registrations -> Files] /\ meta' \in [Registrations -> Files]
  BY <1>0, <1>5 DEF Refreshed, Call
<1>6. CASE UpdateRow(r)
  <2>1. call' \in [Calls -> Call] BY <1>0, <1>6 DEF UpdateRow, Ends, Goes, Call
  <2>2. call[r].found \subseteq Registrations BY <1>0 DEF Call
  <2>3. hash' \in [Registrations -> Files] /\ meta' \in [Registrations -> Files]
    BY <1>5, <1>6, <2>2 DEF UpdateRow
  <2> QED BY <1>0, <1>6, <2>1, <2>3 DEF UpdateRow
<1>7. CASE InsertRow(r)
  <2>1. call' \in [Calls -> Call] BY <1>0, <1>7 DEF InsertRow, Ends, Goes, Call
  <2>2. hash' \in [Registrations -> Files] /\ meta' \in [Registrations -> Files]
    BY <1>5, <1>7 DEF InsertRow
  <2> QED BY <1>0, <1>7, <2>1, <2>2 DEF InsertRow
<1> QED BY <1>1, <1>2, <1>3, <1>4, <1>6, <1>7 DEF Register

LEMMA ViewType ==
  ASSUME LocalAssumption, TypeOK, NEW v \in Views, View(v) PROVE TypeOK'
<1> USE DEF LocalAssumption, TypeOK, At, table
<1>0. v \in Calls /\ PathOf[v] \in Paths /\ call[v] \in Call /\ now \in Nat
  BY DEF Calls, CacheTypeOK
<1>1. CASE OpenNetwork(v)
  BY <1>0, <1>1 DEF OpenNetwork, Goes, Call, CacheTypeOK, Cached
<1>2. CASE LookInCache(v)
  <2>1. CASE File(v) = NoFile
    <3>1. Ends(v) /\ UNCHANGED cacheVars BY <1>2, <2>1 DEF LookInCache
    <3>2. call' \in [Calls -> Call] BY <1>0, <3>1 DEF Ends, Goes, Call
    <3>3. CacheTypeOK' BY <1>2, <3>1 DEF LookInCache, CacheTypeOK, Cached, cacheVars
    <3> QED BY <1>2, <3>2, <3>3 DEF LookInCache
  <2>2. CASE Hit(PathOf[v]) /\ call' = [call EXCEPT ![v].pc = "done", ![v].at = now,
                        ![v].ver = entries[PathOf[v]].ver, ![v].read = entries[PathOf[v]].read]
    <3>1. CacheTypeOK' BY <1>0, <1>2, <2>2, HitType DEF LookInCache
    <3>2. entries[PathOf[v]] \in Entry BY <2>2 DEF Hit, CacheTypeOK, Entry
    <3>3. call' \in [Calls -> Call] BY <1>0, <2>2, <3>2 DEF Call, Entry
    <3> QED BY <1>2, <3>1, <3>3 DEF LookInCache
  <2>3. CASE Miss(PathOf[v]) /\ Goes(v, "missed")
    <3>1. CacheTypeOK' BY <1>0, <1>2, <2>3, MissType DEF LookInCache
    <3>2. call' \in [Calls -> Call] BY <1>0, <2>3 DEF Call, Goes
    <3> QED BY <1>2, <3>1, <3>2 DEF LookInCache
  <2> QED BY <1>2, <2>1, <2>2, <2>3 DEF LookInCache
<1>3. CASE ReadFile(v)
  <2>0. File(v) = NoFile => call' = [call EXCEPT ![v].pc = "failed"]
    BY <1>3 DEF ReadFile, Ends, Goes
  <2>3. File(v) # NoFile =>
          call' = [call EXCEPT ![v].pc = "loaded", ![v].ver = edits, ![v].read = now]
    BY <1>3 DEF ReadFile
  <2>4. edits \in Nat OBVIOUS
  <2>5. \A k \in Call : [k EXCEPT !.pc = "failed"] \in Call
    BY Zenon DEF Call
  <2>6. File(v) = NoFile => call' \in [Calls -> Call] BY <1>0, <2>0, <2>5
  <2>8. File(v) # NoFile => call' \in [Calls -> Call] BY <1>0, <2>3, <2>4, LoadedType
  <2>1. call' \in [Calls -> Call] BY <2>6, <2>8
  <2>2. met' \subseteq Meetings BY <1>3 DEF ReadFile, Meets, Meetings
  <2> QED BY <1>3, <2>1, <2>2 DEF ReadFile, CacheTypeOK, Cached
<1>4. CASE CachePut(v)
  <2>1. CacheTypeOK' BY <1>0, <1>4, PutType DEF CachePut
  <2>2. call' \in [Calls -> Call] BY <1>0, <1>4 DEF CachePut, Call
  <2> QED BY <1>4, <2>1, <2>2 DEF CachePut
<1> QED BY <1>1, <1>2, <1>3, <1>4 DEF View

LEMMA DeleteType ==
  ASSUME LocalAssumption, TypeOK, NEW d \in Deletions, Delete(d) PROVE TypeOK'
<1> USE DEF LocalAssumption, TypeOK, At, table, Goes
<1>0. d \in Calls /\ PathOf[d] \in Paths /\ CacheTypeOK'
  BY DEF Calls, Delete, LoadNetwork, DeleteRow, Unlink, CacheTypeOK, Cached
<1>1. CASE LoadNetwork(d)
  <2>0. PICK found \in SUBSET Registrations :
          call' = [call EXCEPT ![d].pc = "open", ![d].found = found]
    BY <1>1 DEF LoadNetwork
  <2>1. call' \in [Calls -> Call] BY <1>0, <2>0, FoundType DEF Pcs
  <2>2. met' \subseteq Meetings BY <1>1 DEF LoadNetwork, Meets, Meetings
  <2> QED BY <1>0, <1>1, <2>1, <2>2 DEF LoadNetwork
<1>2. CASE DeleteRow(d) BY <1>0, <1>2 DEF DeleteRow, Call
<1>3. CASE Unlink(d) BY <1>0, <1>3 DEF Unlink, Call, Files
<1> QED BY <1>1, <1>2, <1>3 DEF Delete

LEMMA TypeStep == ASSUME LocalAssumption, TypeOK, [Next]_vars PROVE TypeOK'
<1>1. ASSUME NEW p \in Paths, NEW content \in Files, EditFile(p, content) PROVE TypeOK'
  <2>1. met' \subseteq Meetings BY <1>1 DEF EditFile, Meets, Meetings, TypeOK
  <2> QED BY <1>1, <2>1 DEF EditFile, TypeOK, table, CacheTypeOK, Cached, LocalAssumption
<1>2. CASE Tick BY <1>2 DEF Tick, TypeOK, table, CacheTypeOK, Cached
<1>3. CASE ClearNetworkCache
  BY <1>3, ClearType DEF ClearNetworkCache, TypeOK, table
<1>4. CASE UNCHANGED vars BY <1>4 DEF vars, TypeOK, CacheTypeOK, Cached
<1> QED BY <1>1, <1>2, <1>3, <1>4, RegisterType, ViewType, DeleteType DEF Next

\* Files, table, cache and calls keep their types in every behaviour.
THEOREM LocalTypes == Spec => []TypeOK
<1>1. ASSUME Init PROVE TypeOK
  <2>1. CacheTypeOK BY <1>1 DEF Init, CacheInit, CacheTypeOK, Cached
  <2>2. hash \in [Registrations -> Files]
    BY <1>1, LocalAssumption DEF Init, Files, File, LocalAssumption, Calls
  <2>3. NewCall \in Call BY DEF NewCall, Call, Files
  <2>4. call \in [Calls -> Call]
    BY <1>1, <2>3, LocalAssumption DEF Init, Call, LocalAssumption
  <2>5. disk \in [Paths -> Files] BY <1>1 DEF Init, Files
  <2>6. edits = 0 BY <1>1 DEF Init
  <2>8. 0 \in 0..MaxEdits BY LocalAssumption DEF LocalAssumption
  <2>7. rows \subseteq Registrations BY <1>1, LocalAssumption DEF Init, LocalAssumption
  <2> QED BY <1>1, <2>1, <2>2, <2>4, <2>5, <2>6, <2>7, <2>8 DEF Init, TypeOK
<1>2. TypeOK /\ [Next]_vars => TypeOK' BY LocalAssumption, TypeStep
<1> QED BY <1>1, <1>2, PTL DEF Spec
----------------------------------------------------------------------------
(* The cache.                                                              *)

Ordered(keys, order) == \A p, q \in keys : p # q => (<<p, q>> \in order <=> <<q, p>> \notin order)

LEMMA LastIsOrdered ==
  ASSUME NEW keys, NEW p, Ordered(keys \ {p}, older) PROVE Ordered(keys, LastAmong(keys, p))
<1> SUFFICES ASSUME NEW a \in keys, NEW b \in keys, a # b
    PROVE <<a, b>> \in LastAmong(keys, p) <=> <<b, a>> \notin LastAmong(keys, p)
  BY DEF Ordered
<1>1. CASE a # p /\ b # p BY <1>1 DEF Ordered, LastAmong, Among
<1>2. CASE a = p \/ b = p BY <1>2 DEF LastAmong, Among
<1> QED BY <1>1, <1>2

BoundedInv == IsFiniteSet(Cached) /\ CacheIsBounded

LEMMA PutBounded ==
  ASSUME CacheAssumption, BoundedInv, NEW p, NEW network, Put(p, network)
  PROVE  BoundedInv'
<1>1. PICK keys \in SUBSET (Cached \cup {p}) :
           Kept(p, keys) /\ p \in keys /\ Cached' = keys /\ older' = LastAmong(keys, p)
  BY PutKeys
<1>2. Ordered(keys, older')
  BY <1>1, LastIsOrdered DEF Ordered, BoundedInv, CacheIsBounded
<1>3. Cardinality(Cached) \in Nat BY FS_CardinalityType DEF BoundedInv
<1>4. IsFiniteSet(keys) /\ Cardinality(keys) <= MaxSize
  <2>1. CASE p \in Cached
    <3>1. keys = Cached BY <1>1, <2>1 DEF Kept
    <3> QED BY <3>1 DEF BoundedInv, CacheIsBounded
  <2>2. CASE p \notin Cached /\ Cardinality(Cached) >= MaxSize
    <3>1. PICK q \in Cached : keys = (Cached \ {q}) \cup {p} BY <1>1, <2>2 DEF Kept
    <3>2. IsFiniteSet(Cached \ {q}) /\ Cardinality(Cached \ {q}) = Cardinality(Cached) - 1
      BY FS_RemoveElement DEF BoundedInv
    <3>3. IsFiniteSet(keys) /\ Cardinality(keys) = Cardinality(Cached \ {q}) + 1
      BY <2>2, <3>1, <3>2, FS_AddElement
    <3> QED BY <1>3, <3>2, <3>3 DEF BoundedInv, CacheIsBounded
  <2>3. CASE p \notin Cached /\ ~(Cardinality(Cached) >= MaxSize)
    <3>1. keys = Cached \cup {p} BY <1>1, <2>3 DEF Kept
    <3>2. IsFiniteSet(keys) /\ Cardinality(keys) = Cardinality(Cached) + 1
      BY <2>3, <3>1, FS_AddElement DEF BoundedInv
    <3> QED BY <1>3, <2>3, <3>2, CacheAssumption DEF CacheAssumption
  <2> QED BY <2>1, <2>2, <2>3
<1> QED BY <1>1, <1>2, <1>4 DEF BoundedInv, CacheIsBounded, Ordered

LEMMA HitBounded ==
  ASSUME CacheTypeOK, BoundedInv, NEW p, Hit(p) PROVE BoundedInv'
<1>1. Cached' = Cached BY DEF Hit, Cached
<1>2. Ordered(Cached, older') BY LastIsOrdered DEF Hit, Ordered, BoundedInv, CacheIsBounded
<1> QED BY <1>1, <1>2 DEF BoundedInv, CacheIsBounded, Ordered

LEMMA MissBounded ==
  ASSUME CacheAssumption, BoundedInv, NEW p, Miss(p) PROVE BoundedInv'
<1>1. CASE UNCHANGED cacheVars
  BY <1>1 DEF BoundedInv, CacheIsBounded, cacheVars, Cached
<1>2. CASE /\ p \in Cached
           /\ entries' = [q \in Cached \ {p} |-> entries[q]]
           /\ older' = Among(Cached \ {p})
  <2>1. Cached' = Cached \ {p} BY <1>2 DEF Cached
  <2>2. IsFiniteSet(Cached') /\ Cardinality(Cached') = Cardinality(Cached) - 1
    BY <1>2, <2>1, FS_RemoveElement DEF BoundedInv
  <2>3. Cardinality(Cached) \in Nat BY FS_CardinalityType DEF BoundedInv
  <2>4. Cardinality(Cached') <= MaxSize
    BY <2>2, <2>3, CacheAssumption DEF CacheAssumption, BoundedInv, CacheIsBounded
  <2>5. Ordered(Cached', older')
    BY <1>2, <2>1 DEF Ordered, Among, BoundedInv, CacheIsBounded
  <2> QED BY <2>2, <2>4, <2>5 DEF BoundedInv, CacheIsBounded, Ordered
<1> QED BY <1>1, <1>2 DEF Miss

LEMMA EmptyBounded == ASSUME CacheAssumption, Cached = {} PROVE BoundedInv
  BY FS_EmptySet, CacheAssumption DEF CacheAssumption, BoundedInv, CacheIsBounded

LEMMA BoundedStep ==
  ASSUME CacheAssumption, TypeOK, BoundedInv, [Next]_vars PROVE BoundedInv'
<1>1. ASSUME UNCHANGED cacheVars PROVE BoundedInv'
  BY <1>1 DEF BoundedInv, CacheIsBounded, cacheVars, Cached
<1>2. ASSUME NEW v \in Views, View(v) PROVE BoundedInv'
  <2>1. CASE LookInCache(v)
    BY <1>1, <2>1, HitBounded, MissBounded DEF LookInCache, TypeOK
  <2>2. CASE CachePut(v) BY <2>2, PutBounded DEF CachePut
  <2> QED BY <1>1, <1>2, <2>1, <2>2 DEF View, OpenNetwork, ReadFile, cacheVars
<1>3. CASE ClearNetworkCache
  <2>1. Cached' = {} BY <1>3 DEF ClearNetworkCache, Clear, Cached
  <2> QED BY <2>1, FS_EmptySet, CacheAssumption
          DEF CacheAssumption, BoundedInv, CacheIsBounded
<1> QED BY <1>1, <1>2, <1>3 DEF Next, vars, cacheVars, Register, Delete, EditFile, Tick,
           HashFile, FindContent, FindPath, ReadMetadata, UpdateRow, InsertRow,
           LoadNetwork, DeleteRow, Unlink

\* The cache keeps its limit and its order of eviction for any limit, number of files and
\* of threads (NetworkCache.put).
THEOREM CacheBounded == Spec => []CacheIsBounded
<1>1. Init => BoundedInv
  BY EmptyBounded, CacheAssumption DEF Init, CacheInit, Cached
<1>2. TypeOK /\ BoundedInv /\ [Next]_vars => BoundedInv' BY CacheAssumption, BoundedStep
<1>3. BoundedInv => CacheIsBounded BY DEF BoundedInv
<1> QED BY <1>1, <1>2, <1>3, LocalTypes, PTL DEF Spec
----------------------------------------------------------------------------
\* ShownIsRecent holds because an entry is put within one load after its file was read and
\* nothing but a put touches its time.
RecentEntry(e) == e.at <= e.read + MaxLoad /\ e.at <= now
RecentCall(k) ==
    /\ k.pc = "loaded" => k.read <= now /\ now <= k.read + MaxLoad
    /\ k.pc = "done" => k.at <= k.read + TTL + MaxLoad
RecentInv ==
    /\ \A p \in Cached : RecentEntry(entries[p])
    /\ \A v \in Views : RecentCall(call[v])

LEMMA ViewRecent ==
  ASSUME LocalAssumption, CacheAssumption, TypeOK, RecentInv, NEW v \in Views, View(v)
  PROVE  RecentInv'
<1> USE DEF LocalAssumption, CacheAssumption
<1>0. /\ v \in Calls /\ PathOf[v] \in Paths /\ now \in Nat /\ now' = now
      /\ call[v].read \in Nat /\ call[v].at \in Nat
      /\ \A p \in Cached : entries[p] \in Entry
      /\ \A w \in Views \ {v} : call'[w] = call[w]
  BY DEF TypeOK, CacheTypeOK, Call, Entry, Calls, View, OpenNetwork, LookInCache, ReadFile,
         CachePut, Goes, Ends
<1>1. (\A p \in Cached' : RecentEntry(entries'[p])) /\ RecentCall(call'[v]) => RecentInv'
  BY <1>0 DEF RecentInv, RecentCall, RecentEntry
<1>2. CASE OpenNetwork(v)
  <2>1. Cached' = Cached /\ entries' = entries /\ call'[v].pc = "open"
    BY <1>0, <1>2 DEF OpenNetwork, Goes, Cached, TypeOK, Call
  <2> QED BY <1>1, <2>1 DEF RecentInv, RecentCall
<1>3. CASE LookInCache(v)
  <2>1. CASE /\ Hit(PathOf[v])
             /\ call' = [call EXCEPT ![v].pc = "done", ![v].at = now,
                        ![v].ver = entries[PathOf[v]].ver, ![v].read = entries[PathOf[v]].read]
    <3>1. Cached' = Cached /\ entries' = entries BY <2>1 DEF Hit, Cached
    <3>2. /\ call'[v].pc = "done" /\ call'[v].at = now
          /\ call'[v].read = entries[PathOf[v]].read
      BY <1>0, <2>1 DEF TypeOK, Call
    <3>3. /\ entries[PathOf[v]] \in Entry /\ RecentEntry(entries[PathOf[v]])
          /\ ~(now - entries[PathOf[v]].at > TTL)
      BY <1>0, <2>1 DEF Hit, Expired, RecentInv
    <3>4. now <= entries[PathOf[v]].read + TTL + MaxLoad
      BY <1>0, <3>3 DEF Entry, RecentEntry
    <3> QED BY <1>1, <3>1, <3>2, <3>4 DEF RecentInv, RecentCall
  <2>2. CASE /\ \A p \in Cached' : p \in Cached /\ entries'[p] = entries[p]
             /\ call'[v].pc \in {"missed", "failed"}
    BY <1>1, <2>2 DEF RecentInv, RecentCall
  <2>3. Miss(PathOf[v]) => \A p \in Cached' : p \in Cached /\ entries'[p] = entries[p]
    BY DEF Miss, Cached, cacheVars
  <2>4. Goes(v, "missed") \/ Ends(v) => call'[v].pc \in {"missed", "failed"}
    BY <1>0 DEF Goes, Ends, TypeOK, Call
  <2>5. UNCHANGED cacheVars => \A p \in Cached' : p \in Cached /\ entries'[p] = entries[p]
    BY DEF cacheVars, Cached
  <2> QED BY <1>3, <2>1, <2>2, <2>3, <2>4, <2>5 DEF LookInCache
<1>4. CASE ReadFile(v)
  <2>1. Cached' = Cached /\ entries' = entries BY <1>4 DEF ReadFile, Cached
  <2>2. call'[v].pc = "failed" \/ (call'[v].pc = "loaded" /\ call'[v].read = now)
    BY <1>0, <1>4 DEF ReadFile, Ends, Goes, TypeOK, Call
  <2> QED BY <1>0, <1>1, <2>1, <2>2 DEF RecentInv, RecentCall
<1>5. CASE CachePut(v)
  <2>1. call[v].pc = "loaded" /\ call'[v].pc = "done" /\ call'[v].at = now
        /\ call'[v].read = call[v].read
    BY <1>0, <1>5 DEF CachePut, At, TypeOK, Call
  <2>2. call[v].read <= now /\ now <= call[v].read + MaxLoad
    BY <2>1 DEF RecentInv, RecentCall
  <2>3. RecentCall(call'[v]) BY <1>0, <2>1, <2>2 DEF RecentCall
  <2>4. PICK keys \in SUBSET (Cached \cup {PathOf[v]}) :
           /\ Cached' = keys
           /\ entries' = [q \in keys |-> IF q # PathOf[v] THEN entries[q]
                             ELSE [ver |-> call[v].ver, read |-> call[v].read, at |-> now]]
    BY <1>5, PutKeys DEF CachePut
  <2>5. ASSUME NEW p \in Cached' PROVE RecentEntry(entries'[p])
    BY <1>0, <2>2, <2>4, <2>5 DEF RecentInv, RecentEntry
  <2> QED BY <1>1, <2>3, <2>5
<1> QED BY <1>2, <1>3, <1>4, <1>5 DEF View

LEMMA RecentStep ==
  ASSUME LocalAssumption, CacheAssumption, TypeOK, RecentInv, [Next]_vars PROVE RecentInv'
<1>1. ASSUME Cached' = Cached, entries' = entries, now' = now,
             \A v \in Views : call'[v] = call[v]
      PROVE  RecentInv'
  BY <1>1 DEF RecentInv, RecentEntry, RecentCall
<1>2. ASSUME NEW r \in Registrations, Register(r) PROVE RecentInv'
  <2>1. r \notin Views BY DEF LocalAssumption
  <2>2. \A v \in Views : call'[v] = call[v]
    BY <1>2, <2>1 DEF TypeOK, Calls, Register, HashFile, FindContent, FindPath, ReadMetadata,
                      UpdateRow, InsertRow, Goes, Ends
  <2> QED BY <1>1, <1>2, <2>2 DEF Cached, Register, HashFile, FindContent, FindPath,
                      ReadMetadata, UpdateRow, InsertRow
<1>3. ASSUME NEW d \in Deletions, Delete(d) PROVE RecentInv'
  <2>1. d \notin Views BY DEF LocalAssumption
  <2>2. \A v \in Views : call'[v] = call[v]
    BY <1>3, <2>1 DEF TypeOK, Calls, Delete, LoadNetwork, DeleteRow, Unlink, Goes
  <2> QED BY <1>1, <1>3, <2>2 DEF Cached, Delete, LoadNetwork, DeleteRow, Unlink
<1>4. ASSUME NEW p \in Paths, NEW content \in Files, EditFile(p, content) PROVE RecentInv'
  BY <1>1, <1>4 DEF EditFile, Cached
<1>5. CASE Tick
  <2>1. now \in Nat /\ now' = now + 1 /\ entries' = entries /\ call' = call /\ Cached' = Cached
    BY <1>5 DEF Tick, TypeOK, CacheTypeOK, Cached
  <2>2. \A p \in Cached : entries[p] \in Entry BY DEF TypeOK, CacheTypeOK, Entry
  <2>3. ASSUME NEW p \in Cached
        PROVE  entries[p].at <= entries[p].read + MaxLoad /\ entries[p].at <= now + 1
    BY <2>1, <2>2 DEF RecentInv, RecentEntry, Entry
  <2>4. ASSUME NEW v \in Views
        PROVE  /\ call[v].pc = "loaded" =>
                    call[v].read <= now + 1 /\ now + 1 <= call[v].read + MaxLoad
               /\ call[v].pc = "done" => call[v].at <= call[v].read + TTL + MaxLoad
    <3>1. call[v].read \in Nat /\ call[v].at \in Nat BY DEF TypeOK, Calls, Call
    <3>2. call[v].pc = "loaded" => now - call[v].read < MaxLoad BY <1>5 DEF Tick
    <3>3. RecentCall(call[v]) BY DEF RecentInv
    <3> QED BY <2>1, <3>1, <3>2, <3>3 DEF LocalAssumption, RecentCall
  <2> QED BY <2>1, <2>3, <2>4 DEF RecentInv, RecentEntry, RecentCall
<1>6. CASE ClearNetworkCache
  <2>1. Cached' = {} /\ call' = call /\ now' = now BY <1>6 DEF ClearNetworkCache, Clear, Cached
  <2> QED BY <2>1 DEF RecentInv, RecentCall
<1>7. CASE UNCHANGED vars BY <1>1, <1>7 DEF vars, Cached
<1> QED BY <1>2, <1>3, <1>4, <1>5, <1>6, <1>7, ViewRecent DEF Next

\* What a view shows was read from its file at most the time to live and one load ago, for
\* any number of files and threads and any eviction (NetworkCache.get, NetworkService).
THEOREM RecentViews == Spec => []ShownIsRecent
<1>1. ASSUME Init PROVE RecentInv
  <2>1. \A v \in Views : call[v] = NewCall
    BY <1>1, LocalAssumption DEF Init, Calls, LocalAssumption
  <2>2. NewCall.pc = "new" BY DEF NewCall
  <2> QED BY <1>1, <2>1, <2>2 DEF Init, CacheInit, Cached, RecentInv, RecentCall
<1>2. TypeOK /\ RecentInv /\ [Next]_vars => RecentInv'
  BY LocalAssumption, CacheAssumption, RecentStep
<1>3. RecentInv => ShownIsRecent BY DEF RecentInv, RecentCall, ShownIsRecent
<1> QED BY <1>1, <1>2, <1>3, LocalTypes, PTL DEF Spec
----------------------------------------------------------------------------
\* RecordsAgree holds because a registration on its own hashes and reads one content, and
\* once it has looked for the content no network has it until its own commit.
Alone == met \cap {"edited", "together"} = {}
Busy(r) == call[r].pc \notin {"new", "done", "failed"}
OneContent(r) ==
    /\ File(r) \in {call[r].hash, NoFile}
    /\ call[r].pc = "read" => call[r].meta = call[r].hash
    /\ call[r].pc \in {"unknown", "found", "read"} => \A i \in rows : hash[i] # call[r].hash
AgreeInv ==
    Alone =>
      /\ \A r, s \in Registrations : Busy(r) /\ Busy(s) => r = s
      /\ \A r \in Registrations : Busy(r) => OneContent(r)
      /\ \A i \in rows : meta[i] = hash[i]
      /\ \A i, j \in rows : hash[i] = hash[j] => i = j

LEMMA MetGrows == ASSUME [Next]_vars PROVE met \subseteq met'
  BY DEF Next, Register, View, Delete, HashFile, FindContent, FindPath, ReadMetadata,
         UpdateRow, InsertRow, OpenNetwork, LookInCache, ReadFile, CachePut, LoadNetwork,
         DeleteRow, Unlink, EditFile, Tick, ClearNetworkCache, Meets, vars

LEMMA AgreeRegister ==
  ASSUME LocalAssumption, TypeOK, AgreeInv, Alone, Alone',
         NEW r \in Registrations, Register(r)
  PROVE  AgreeInv'
<1> USE DEF LocalAssumption
<1>0. /\ r \in Calls /\ disk' = disk /\ call[r] \in Call
      /\ \A s \in Registrations \ {r} : call'[s] = call[s] /\ File(s)' = File(s)
      /\ File(r)' = File(r)
  BY DEF TypeOK, Calls, Register, HashFile, FindContent, FindPath, ReadMetadata, UpdateRow,
         InsertRow, Goes, Ends, File
<1>1. /\ \A i \in rows : meta[i] = hash[i]
      /\ \A i, j \in rows : hash[i] = hash[j] => i = j
      /\ \A s \in Registrations : Busy(s) => OneContent(s)
      /\ \A s, t \in Registrations : Busy(s) /\ Busy(t) => s = t
  BY DEF AgreeInv
<1>2. ASSUME UNCHANGED <<rows, hash, meta>>, ~Busy(r)' \/ (Busy(r) /\ OneContent(r)')
      PROVE  AgreeInv'
  <2>1. \A s \in Registrations : Busy(s)' => Busy(s) BY <1>0, <1>2 DEF Busy
  <2>2. \A s \in Registrations : Busy(s)' => OneContent(s)'
    BY <1>0, <1>1, <1>2, <2>1 DEF Busy, OneContent
  <2> QED BY <1>1, <1>2, <2>1, <2>2 DEF AgreeInv
<1>3. CASE HashFile(r)
  <2>1. CASE File(r) = NoFile
    <3>1. call'[r].pc = "failed" BY <1>0, <1>3, <2>1 DEF HashFile, Ends, Goes, TypeOK, Call
    <3> QED BY <1>2, <1>3, <3>1 DEF HashFile, Busy, table
  <2>2. CASE File(r) # NoFile
    <3>1. call'[r].pc = "hashed" /\ call'[r].hash = File(r)
      BY <1>0, <1>3, <2>2 DEF HashFile, TypeOK, Call
    <3>2. Registering = {} BY <1>3 DEF HashFile, Meets, Alone
    <3>3. \A s \in Registrations \ {r} : ~Busy(s)' BY <1>0, <3>2 DEF Registering, Busy
    <3>4. OneContent(r)' BY <1>0, <3>1 DEF OneContent
    <3>5. UNCHANGED <<rows, hash, meta>> BY <1>3 DEF HashFile, table
    <3> QED BY <1>1, <3>3, <3>4, <3>5 DEF AgreeInv
  <2> QED BY <2>1, <2>2
<1>4. CASE FindContent(r)
  <2>1. UNCHANGED <<rows, hash, meta>> /\ Busy(r) BY <1>4 DEF FindContent, At, Busy, table
  <2>2. \/ call'[r].pc = "done"
        \/ /\ call'[r].pc = "unknown" /\ call'[r].hash = call[r].hash
           /\ \A i \in rows : hash[i] # call[r].hash
    BY <1>0, <1>4 DEF FindContent, Goes, TypeOK, Call
  <2>3. OneContent(r) BY <1>1, <2>1
  <2> QED BY <1>0, <1>2, <2>1, <2>2, <2>3 DEF OneContent, Busy
<1>5. CASE FindPath(r)
  <2>1. UNCHANGED <<rows, hash, meta>> /\ Busy(r) /\ call[r].pc = "unknown"
    BY <1>5 DEF FindPath, At, Busy, table
  <2>2. call'[r].pc = "found" /\ call'[r].hash = call[r].hash
    BY <1>0, <1>5 DEF FindPath, TypeOK, Call
  <2>3. OneContent(r) BY <1>1, <2>1
  <2> QED BY <1>0, <1>2, <2>1, <2>2, <2>3 DEF OneContent, Busy
<1>6. CASE ReadMetadata(r)
  <2>1. UNCHANGED <<rows, hash, meta>> /\ Busy(r) /\ call[r].pc = "found"
    BY <1>6 DEF ReadMetadata, At, Busy, table
  <2>2. OneContent(r) BY <1>1, <2>1
  <2>3. \/ call'[r].pc = "failed"
        \/ /\ call'[r].pc = "read" /\ call'[r].hash = call[r].hash
           /\ call'[r].meta = File(r) /\ File(r) # NoFile
    BY <1>0, <1>6 DEF ReadMetadata, Ends, Goes, TypeOK, Call
  <2> QED BY <1>0, <1>2, <2>1, <2>2, <2>3 DEF OneContent, Busy
<1>7. ASSUME NEW i \in Registrations, Refreshed(i, r), rows' \subseteq rows \cup {i},
             call[r].pc = "read", call'[r].pc = "done"
      PROVE  AgreeInv'
  <2>1. \A s \in Registrations : ~Busy(s)' BY <1>0, <1>1, <1>7 DEF Busy
  <2>2. OneContent(r) BY <1>1, <1>7 DEF Busy
  <2>3. /\ hash'[i] = call[r].hash /\ meta'[i] = call[r].hash
        /\ \A j \in rows \ {i} : hash'[j] = hash[j] /\ meta'[j] = meta[j]
    BY <1>7, <2>2 DEF Refreshed, OneContent, TypeOK
  <2>4. \A j \in rows \ {i} : hash[j] # call[r].hash BY <1>7, <2>2 DEF OneContent
  <2> QED BY <1>1, <1>7, <2>1, <2>3, <2>4 DEF AgreeInv
<1>8. CASE UpdateRow(r)
  <2>1. PICK i \in call[r].found :
          IF i \in rows THEN Refreshed(i, r) /\ Goes(r, "done") /\ UNCHANGED rows
            ELSE Ends(r) /\ UNCHANGED table
    BY <1>8 DEF UpdateRow
  <2>2. call[r].pc = "read" /\ i \in Registrations
    BY <1>0, <1>8 DEF UpdateRow, At, TypeOK, Call
  <2>3. CASE i \in rows
    <3>1. call'[r].pc = "done" BY <1>0, <2>1, <2>3 DEF Goes, TypeOK, Call
    <3> QED BY <1>7, <2>1, <2>2, <2>3, <3>1
  <2>4. CASE i \notin rows
    <3>1. call'[r].pc = "failed" /\ UNCHANGED <<rows, hash, meta>>
      BY <1>0, <2>1, <2>4 DEF Ends, Goes, TypeOK, Call, table
    <3> QED BY <1>2, <3>1 DEF Busy
  <2> QED BY <2>3, <2>4
<1>9. CASE InsertRow(r)
  <2>1. CASE \E i \in rows : PathOf[i] = PathOf[r]
    <3>1. call'[r].pc = "failed" /\ UNCHANGED <<rows, hash, meta>>
      BY <1>0, <1>9, <2>1 DEF InsertRow, Ends, Goes, TypeOK, Call, table
    <3> QED BY <1>2, <3>1 DEF Busy
  <2>2. CASE ~\E i \in rows : PathOf[i] = PathOf[r]
    <3>1. /\ rows' = rows \cup {r} /\ Refreshed(r, r) /\ call[r].pc = "read"
          /\ call'[r].pc = "done"
      BY <1>0, <1>9, <2>2 DEF InsertRow, At, TypeOK, Call
    <3> QED BY <1>7, <3>1
  <2> QED BY <2>1, <2>2
<1> QED BY <1>3, <1>4, <1>5, <1>6, <1>8, <1>9 DEF Register

LEMMA AgreeStep ==
  ASSUME LocalAssumption, TypeOK, AgreeInv, [Next]_vars PROVE AgreeInv'
<1> SUFFICES ASSUME Alone' PROVE AgreeInv' BY DEF AgreeInv
<1>0. Alone BY MetGrows DEF Alone
<1>1. ASSUME rows' \subseteq rows, hash' = hash, meta' = meta,
             \A r \in Registrations :
               call'[r] = call[r] /\ (Busy(r) => File(r)' \in {File(r), NoFile})
      PROVE  AgreeInv'
  BY <1>0, <1>1 DEF AgreeInv, Busy, OneContent
<1>2. ASSUME NEW v \in Views, View(v) PROVE AgreeInv'
  <2>1. v \notin Registrations BY DEF LocalAssumption
  <2>2. \A r \in Registrations : call'[r] = call[r]
    BY <1>2, <2>1 DEF TypeOK, Calls, View, OpenNetwork, LookInCache, ReadFile, CachePut,
                      Goes, Ends
  <2> QED BY <1>1, <1>2, <2>2
          DEF View, OpenNetwork, LookInCache, ReadFile, CachePut, File, table
<1>3. ASSUME NEW d \in Deletions, Delete(d) PROVE AgreeInv'
  <2>1. d \notin Registrations BY DEF LocalAssumption
  <2>2. \A r \in Registrations : call'[r] = call[r]
    BY <1>3, <2>1 DEF TypeOK, Calls, Delete, LoadNetwork, DeleteRow, Unlink, Goes
  <2>3. \A r \in Registrations : File(r)' \in {File(r), NoFile}
    BY <1>3 DEF Delete, LoadNetwork, DeleteRow, Unlink, File, TypeOK, LocalAssumption, Calls
  <2>4. rows' \subseteq rows /\ hash' = hash /\ meta' = meta
    BY <1>3 DEF Delete, LoadNetwork, DeleteRow, Unlink, table
  <2> QED BY <1>1, <2>2, <2>3, <2>4
<1>4. ASSUME NEW p \in Paths, NEW content \in Files, EditFile(p, content) PROVE AgreeInv'
  <2>1. \A r \in Registering : PathOf[r] # p BY <1>4 DEF EditFile, Meets, Alone
  <2>2. \A r \in Registrations : Busy(r) => File(r)' = File(r)
    BY <1>4, <2>1 DEF EditFile, Registering, Busy, File, TypeOK, LocalAssumption, Calls
  <2> QED BY <1>1, <1>4, <2>2 DEF EditFile, table
<1>5. CASE Tick \/ ClearNetworkCache \/ UNCHANGED vars
  BY <1>1, <1>5 DEF Tick, ClearNetworkCache, vars, table, File
<1> QED BY <1>0, <1>2, <1>3, <1>4, <1>5, AgreeRegister DEF Next

\* Metadata and hash of a network are of one content, and no content is stored twice, for
\* any number of files, registrations, deletions and edits between registrations
\* (import_network_file).
THEOREM RecordsStayTrue == Spec => []RecordsAgree
<1>1. ASSUME Init PROVE AgreeInv
  <2>1. \A r \in Registrations : ~Busy(r)
    BY <1>1 DEF Init, Calls, NewCall, Busy
  <2>0. Stored \subseteq Registrations BY LocalAssumption DEF LocalAssumption
  <2>2. rows = Stored /\ meta = hash /\ \A i \in Stored : hash[i] = File(i)
    BY <1>1, <2>0 DEF Init
  <2>4. \A i, j \in Stored : File(i) = File(j) => i = j BY <1>1 DEF Init
  <2>3. \A i, j \in rows : hash[i] = hash[j] => i = j BY <2>2, <2>4
  <2> QED BY <2>1, <2>2, <2>3 DEF AgreeInv
<1>2. TypeOK /\ AgreeInv /\ [Next]_vars => AgreeInv' BY LocalAssumption, AgreeStep
<1>3. AgreeInv => RecordsAgree BY DEF AgreeInv, Alone, RecordsAgree
<1> QED BY <1>1, <1>2, <1>3, LocalTypes, PTL DEF Spec
----------------------------------------------------------------------------
\* FilesStay holds because a deletion that no registration of its path crosses knows every
\* network of the path, and after its commit there is none whose file it could unlink.
Apart == met \cap {"removed", "crossed"} = {}
OnePath == \A i, j \in rows : PathOf[i] = PathOf[j] => i = j
ToldTo == \A d \in Deletions : call[d].pc = "deleted" => d \in RemovesFile
Explained ==
    "removed" \notin met => \A p \in Paths :
      disk[p] = NoFile => \E d \in RemovesFile : PathOf[d] = p /\ call[d].pc = "done"
NeverCross ==
    \A r \in Registrations, d \in Deletions : Busy(r) /\ Busy(d) => PathOf[r] # PathOf[d]
Knows(d) ==
    \A i \in rows : PathOf[i] = PathOf[d] =>
        call[d].pc # "deleted" /\ (call[d].pc = "open" => i \in call[d].found)
StayInv ==
    /\ OnePath /\ ToldTo /\ Explained
    /\ Apart => /\ NeverCross
                /\ \A d \in Deletions : Knows(d)
                /\ \A r \in Registrations : Busy(r) => File(r) # NoFile
                /\ \A i \in rows : File(i) # NoFile

LEMMA StayRegister ==
  ASSUME LocalAssumption, TypeOK, StayInv, NEW r \in Registrations, Register(r)
  PROVE  StayInv'
<1> USE DEF LocalAssumption
<1>0. /\ r \in Calls /\ disk' = disk /\ call[r] \in Call
      /\ \A c \in Calls \ {r} : call'[c] = call[c]
      /\ \A d \in Deletions : d \in Calls \ {r} /\ call'[d] = call[d]
  BY DEF TypeOK, Calls, Register, HashFile, FindContent, FindPath, ReadMetadata, UpdateRow,
         InsertRow, Goes, Ends
<1>1. ToldTo' BY <1>0 DEF StayInv, ToldTo
<1>2. met \subseteq met' BY DEF Register, HashFile, FindContent, FindPath, ReadMetadata,
         UpdateRow, InsertRow, Meets
<1>3. Explained' BY <1>0, <1>2 DEF StayInv, Explained
<1>4. ASSUME rows' = rows, Busy(r)' => Busy(r) PROVE StayInv'
  <2>1. OnePath' BY <1>4 DEF StayInv, OnePath
  <2>2. ASSUME Apart' PROVE Apart BY <1>2, <2>2 DEF Apart
  <2>3. Apart' => NeverCross' BY <1>0, <1>4, <2>2 DEF StayInv, NeverCross, Busy, Calls
  <2>4. Apart' => \A d \in Deletions : Knows(d)' BY <1>0, <1>4, <2>2 DEF StayInv, Knows
  <2>5. Apart' => \A s \in Registrations : Busy(s)' => File(s)' # NoFile
    BY <1>0, <1>4, <2>2 DEF StayInv, Busy, File, Calls
  <2>6. Apart' => \A i \in rows' : File(i)' # NoFile
    BY <1>0, <1>4, <2>2 DEF StayInv, File
  <2> QED BY <1>1, <1>3, <2>1, <2>3, <2>4, <2>5, <2>6 DEF StayInv
<1>5. CASE HashFile(r)
  <2>0. rows' = rows BY <1>5 DEF HashFile, table
  <2>1. CASE File(r) = NoFile
    <3>1. call'[r].pc = "failed" BY <1>0, <1>5, <2>1 DEF HashFile, Ends, Goes, TypeOK, Call
    <3> QED BY <1>4, <2>0, <3>1 DEF Busy
  <2>2. CASE File(r) # NoFile
    <3>1. OnePath' BY <2>0 DEF StayInv, OnePath
    <3>2. Apart' => Apart BY <1>2 DEF Apart
    <3>3. Apart' => Under(r, Deletions) = {} BY <1>5 DEF HashFile, Meets, Apart
    <3>4. Apart' => \A d \in Deletions : Busy(d) => PathOf[r] # PathOf[d]
      BY <1>0, <3>3 DEF Under, Busy
    <3>5. Apart' => NeverCross' BY <1>0, <3>2, <3>4 DEF StayInv, NeverCross, Busy, Calls
    <3>6. Apart' => \A d \in Deletions : Knows(d)'
      BY <1>0, <2>0, <3>2 DEF StayInv, Knows
    <3>7. Apart' => \A s \in Registrations : Busy(s)' => File(s)' # NoFile
      BY <1>0, <2>2, <3>2 DEF StayInv, Busy, File, Calls
    <3>8. Apart' => \A i \in rows' : File(i)' # NoFile
      BY <1>0, <2>0, <3>2 DEF StayInv, File
    <3> QED BY <1>1, <1>3, <3>1, <3>5, <3>6, <3>7, <3>8 DEF StayInv
  <2> QED BY <2>1, <2>2
<1>6. CASE FindContent(r) \/ FindPath(r) \/ ReadMetadata(r) \/ UpdateRow(r)
  <2>1. Busy(r) /\ rows' = rows
    BY <1>6 DEF FindContent, FindPath, ReadMetadata, UpdateRow, At, Busy, table
  <2> QED BY <1>4, <2>1
<1>7. CASE InsertRow(r)
  <2>0. Busy(r) BY <1>7 DEF InsertRow, At, Busy
  <2>1. CASE \E i \in rows : PathOf[i] = PathOf[r]
    BY <1>4, <1>7, <2>0, <2>1 DEF InsertRow, table
  <2>2. CASE ~\E i \in rows : PathOf[i] = PathOf[r]
    <3>1. rows' = rows \cup {r} /\ call'[r].pc = "done" /\ met' = met
      BY <1>0, <1>7, <2>2 DEF InsertRow, TypeOK, Call
    <3>2. OnePath' BY <2>2, <3>1 DEF StayInv, OnePath
    <3>3. Apart' => Apart BY <1>2 DEF Apart
    <3>4. Apart' => NeverCross' BY <1>0, <3>1, <3>3 DEF StayInv, NeverCross, Busy, Calls
    <3>5. Apart' => \A d \in Deletions : Busy(d) => PathOf[r] # PathOf[d]
      BY <2>0, <3>3 DEF StayInv, NeverCross
    <3>6. Apart' => \A d \in Deletions : Knows(d)'
      BY <1>0, <3>1, <3>3, <3>5 DEF StayInv, Knows, Busy
    <3>7. Apart' => \A s \in Registrations : Busy(s)' => File(s)' # NoFile
      BY <1>0, <3>1, <3>3 DEF StayInv, Busy, File, Calls
    <3>8. Apart' => \A i \in rows' : File(i)' # NoFile
      BY <1>0, <2>0, <3>1, <3>3 DEF StayInv, File
    <3> QED BY <1>1, <1>3, <3>2, <3>4, <3>6, <3>7, <3>8 DEF StayInv
  <2> QED BY <2>1, <2>2
<1> QED BY <1>5, <1>6, <1>7 DEF Register

LEMMA StayDelete ==
  ASSUME LocalAssumption, TypeOK, StayInv, NEW d \in Deletions, Delete(d)
  PROVE  StayInv'
<1> USE DEF LocalAssumption
<1>0. /\ d \in Calls /\ call[d] \in Call
      /\ \A c \in Calls \ {d} : call'[c] = call[c]
      /\ \A r \in Registrations : r \in Calls \ {d} /\ call'[r] = call[r]
      /\ rows' \subseteq rows /\ met \subseteq met' /\ rows \subseteq Registrations
  BY DEF TypeOK, Calls, Delete, LoadNetwork, DeleteRow, Unlink, Goes, Meets, table
<1>1. OnePath' BY <1>0 DEF StayInv, OnePath
<1>2. Apart' => Apart BY <1>0 DEF Apart
<1>3. CASE LoadNetwork(d)
  <2>1. PICK i \in rows :
          PathOf[i] = PathOf[d] /\ call' = [call EXCEPT ![d].pc = "open", ![d].found = {i}]
    BY <1>3 DEF LoadNetwork
  <2>2. call'[d].pc = "open" /\ call'[d].found = {i} BY <1>0, <2>1 DEF TypeOK, Call
  <2>3. disk' = disk /\ rows' = rows /\ call[d].pc = "new"
    BY <1>3 DEF LoadNetwork, table, At
  <2>4. ToldTo' BY <1>0, <2>2 DEF StayInv, ToldTo, Calls
  <2>5. Explained'
    BY <1>0, <2>3 DEF StayInv, Explained, Calls
  <2>6. Apart' => Under(d, Registrations) = {} BY <1>3 DEF LoadNetwork, Meets, Apart
  <2>7. Apart' => \A r \in Registrations : Busy(r) => PathOf[r] # PathOf[d]
    BY <1>0, <2>6 DEF Under, Busy
  <2>8. Apart' => NeverCross' BY <1>0, <1>2, <2>7 DEF StayInv, NeverCross, Busy, Calls
  <2>9. Knows(d)' BY <2>1, <2>2, <2>3 DEF StayInv, OnePath, Knows
  <2>10. Apart' => \A e \in Deletions : Knows(e)'
    BY <1>0, <1>2, <2>3, <2>9 DEF StayInv, Knows, Calls
  <2>11. Apart' => \A r \in Registrations : Busy(r)' => File(r)' # NoFile
    BY <1>0, <1>2, <2>3 DEF StayInv, Busy, File
  <2>12. Apart' => \A j \in rows' : File(j)' # NoFile
    BY <1>2, <2>3 DEF StayInv, File
  <2> QED BY <1>1, <2>4, <2>5, <2>8, <2>10, <2>11, <2>12 DEF StayInv
<1>4. CASE DeleteRow(d)
  <2>1. /\ rows' = rows \ call[d].found /\ disk' = disk /\ call[d].pc = "open"
        /\ call'[d].pc = IF Unlinks(d) THEN "deleted" ELSE "done"
        /\ met' = met
    BY <1>0, <1>4 DEF DeleteRow, At, Goes, TypeOK, Call
  <2>2. ToldTo' BY <1>0, <2>1 DEF StayInv, ToldTo, Calls, Unlinks
  <2>3. Explained' BY <1>0, <2>1 DEF StayInv, Explained, Calls
  <2>4. Apart' => NeverCross' BY <1>0, <1>2, <2>1 DEF StayInv, NeverCross, Busy, Calls
  <2>5. Apart' => Knows(d)' BY <1>2, <2>1 DEF StayInv, Knows
  <2>6. Apart' => \A e \in Deletions : Knows(e)'
    BY <1>0, <1>2, <2>5 DEF StayInv, Knows, Calls
  <2>7. Apart' => \A r \in Registrations : Busy(r)' => File(r)' # NoFile
    BY <1>0, <1>2, <2>1 DEF StayInv, Busy, File
  <2>8. Apart' => \A j \in rows' : File(j)' # NoFile
    BY <1>0, <1>2, <2>1 DEF StayInv, File
  <2> QED BY <1>1, <2>2, <2>3, <2>4, <2>6, <2>7, <2>8 DEF StayInv
<1>5. CASE Unlink(d)
  <2>1. /\ rows' = rows /\ call[d].pc = "deleted" /\ call'[d].pc = "done" /\ met' = met
        /\ disk' = [disk EXCEPT ![PathOf[d]] = NoFile]
    BY <1>0, <1>5 DEF Unlink, At, Goes, TypeOK, Call, table
  <2>2. ToldTo' BY <1>0, <2>1 DEF StayInv, ToldTo, Calls
  <2>3. d \in RemovesFile BY <2>1 DEF StayInv, ToldTo
  <2>4. \A p \in Paths : p # PathOf[d] => disk'[p] = disk[p] BY <2>1 DEF TypeOK
  <2>5. Explained' BY <1>0, <2>1, <2>3, <2>4 DEF StayInv, Explained, Calls
  <2>6. Apart' => NeverCross' BY <1>0, <1>2, <2>1 DEF StayInv, NeverCross, Busy, Calls
  <2>7. Apart' => \A e \in Deletions : Knows(e)'
    BY <1>0, <1>2, <2>1 DEF StayInv, Knows, Calls
  <2>8. Apart' => \A r \in Registrations : Busy(r)' => PathOf[r] # PathOf[d]
    BY <1>0, <1>2, <2>1 DEF StayInv, NeverCross, Busy
  <2>9. Apart' => \A r \in Registrations : Busy(r)' => File(r)' # NoFile
    BY <1>0, <1>2, <2>4, <2>8 DEF StayInv, Busy, File
  <2>10. Apart' => \A i \in rows' : PathOf[i] # PathOf[d]
    BY <1>2, <2>1 DEF StayInv, Knows
  <2>11. Apart' => \A i \in rows' : File(i)' # NoFile
    BY <1>0, <1>2, <2>1, <2>4, <2>10 DEF StayInv, File
  <2> QED BY <1>1, <2>2, <2>5, <2>6, <2>7, <2>9, <2>11 DEF StayInv
<1> QED BY <1>3, <1>4, <1>5 DEF Delete

LEMMA StayStep ==
  ASSUME LocalAssumption, TypeOK, StayInv, [Next]_vars PROVE StayInv'
<1>0. Apart' => Apart BY MetGrows DEF Apart
<1>1. ASSUME rows' = rows, disk' = disk,
             \A c \in Registrations \cup Deletions : call'[c] = call[c]
      PROVE  StayInv'
  <2>1. OnePath' /\ ToldTo' BY <1>1 DEF StayInv, OnePath, ToldTo
  <2>2. Explained' BY <1>1, MetGrows DEF StayInv, Explained, LocalAssumption
  <2>3. Apart' => NeverCross' /\ \A d \in Deletions : Knows(d)'
    BY <1>0, <1>1 DEF StayInv, NeverCross, Knows, Busy
  <2>4. Apart' => \A r \in Registrations : Busy(r)' => File(r)' # NoFile
    BY <1>0, <1>1 DEF StayInv, Busy, File
  <2>5. Apart' => \A i \in rows' : File(i)' # NoFile BY <1>0, <1>1 DEF StayInv, File
  <2> QED BY <2>1, <2>2, <2>3, <2>4, <2>5 DEF StayInv
<1>2. ASSUME NEW v \in Views, View(v) PROVE StayInv'
  <2>1. v \notin Registrations \cup Deletions BY DEF LocalAssumption
  <2>2. \A c \in Registrations \cup Deletions : call'[c] = call[c]
    BY <1>2, <2>1 DEF TypeOK, Calls, View, OpenNetwork, LookInCache, ReadFile, CachePut,
                      Goes, Ends
  <2> QED BY <1>1, <1>2, <2>2
          DEF View, OpenNetwork, LookInCache, ReadFile, CachePut, table
<1>3. ASSUME NEW p \in Paths, NEW content \in Files, EditFile(p, content) PROVE StayInv'
  <2>1. /\ rows' = rows /\ call' = call /\ disk' = [disk EXCEPT ![p] = content]
        /\ content = NoFile => "removed" \in met'
    BY <1>3 DEF EditFile, table, Meets
  <2>2. OnePath' /\ ToldTo' BY <2>1 DEF StayInv, OnePath, ToldTo
  <2>3. \A q \in Paths : disk'[q] = IF q = p THEN content ELSE disk[q] BY <2>1 DEF TypeOK
  <2>4. Explained' BY <2>1, <2>3, MetGrows DEF StayInv, Explained
  <2>5. Apart' => content # NoFile BY <2>1 DEF Apart
  <2>6. Apart' => NeverCross' /\ \A d \in Deletions : Knows(d)'
    BY <1>0, <2>1 DEF StayInv, NeverCross, Knows, Busy
  <2>7. \A c \in Calls : File(c)' = IF PathOf[c] = p THEN content ELSE File(c)
    BY <2>3 DEF File, LocalAssumption
  <2>8. Apart' => \A r \in Registrations : Busy(r)' => File(r)' # NoFile
    BY <1>0, <2>1, <2>5, <2>7 DEF StayInv, Busy, Calls
  <2>9. Apart' => \A i \in rows' : File(i)' # NoFile
    BY <1>0, <2>1, <2>5, <2>7 DEF StayInv, Calls, TypeOK
  <2> QED BY <2>2, <2>4, <2>6, <2>8, <2>9 DEF StayInv
<1>4. CASE Tick \/ ClearNetworkCache \/ UNCHANGED vars
  BY <1>1, <1>4 DEF Tick, ClearNetworkCache, vars, table
<1> QED BY <1>2, <1>3, <1>4, StayRegister, StayDelete DEF Next

\* Only the user or a deletion told to removes a file, and a network keeps its file through
\* any number of registrations, deletions and edits that do not cross (delete_network).
THEOREM FilesKept == Spec => []FilesStay
<1>1. ASSUME Init PROVE StayInv
  <2>1. /\ rows = Stored /\ Stored \subseteq Registrations
        /\ \A i, j \in Stored : File(i) = File(j) => i = j
    BY <1>1, LocalAssumption DEF Init, LocalAssumption
  <2>0. NoFile \notin Contents BY LocalAssumption DEF LocalAssumption
  <2>2. \A p \in Paths : disk[p] # NoFile BY <1>1, <2>0 DEF Init
  <2>3. \A c \in Registrations \cup Deletions : ~Busy(c)
    BY <1>1, LocalAssumption DEF Init, Calls, NewCall, Busy, LocalAssumption
  <2>4. \A d \in Deletions : call[d].pc = "new"
    BY <1>1, LocalAssumption DEF Init, Calls, NewCall, LocalAssumption
  <2>5. \A i \in rows : File(i) # NoFile
    BY <2>1, <2>2, LocalAssumption DEF File, Calls, LocalAssumption
  <2>6. OnePath BY <2>1 DEF OnePath, File
  <2>7. ToldTo /\ Explained /\ NeverCross /\ \A d \in Deletions : Knows(d)
    BY <2>2, <2>3, <2>4 DEF ToldTo, Explained, NeverCross, Knows
  <2> QED BY <2>3, <2>5, <2>6, <2>7 DEF StayInv
<1>2. TypeOK /\ StayInv /\ [Next]_vars => StayInv' BY LocalAssumption, StayStep
<1>3. StayInv => FilesStay BY DEF StayInv, Explained, Apart, FilesStay
<1> QED BY <1>1, <1>2, <1>3, LocalTypes, PTL DEF Spec

----------------------------------------------------------------------------
\* ViewsGoForward holds because the cached version of a file is at least as new as all that
\* was seen of it, and the one load under way is at least as new as both: it read the file
\* after them.
VersionsExist ==
    /\ \A p \in Cached : entries[p].ver <= edits
    /\ \A v \in Views : call[v].ver <= edits
OneLoads ==
    \A v, w \in Views :
        call[v].pc = "loaded" /\ call[w].pc = "loaded" /\ PathOf[v] = PathOf[w] => v = w
CacheIsNewest ==
    \A v \in Views : call[v].pc = "done" /\ PathOf[v] \in Cached =>
        call[v].ver <= entries[PathOf[v]].ver
LoadIsNewest ==
    \A v \in Views : call[v].pc = "loaded" =>
        /\ PathOf[v] \in Cached => entries[PathOf[v]].ver <= call[v].ver
        /\ \A w \in Views : call[w].pc = "done" /\ PathOf[w] = PathOf[v] =>
              call[w].ver <= call[v].ver
ForwardInv ==
    /\ VersionsExist
    /\ "loads" \notin met => OneLoads /\ CacheIsNewest /\ LoadIsNewest

\* What a step may never do that ends a view.
Forward(v) ==
    "loads" \notin met' =>
        \A w \in Views : call[w].pc = "done" /\ PathOf[w] = PathOf[v] => call[w].ver <= call'[v].ver

\* A step that neither caches nor shows nor loads anything.
LEMMA ForwardFrame ==
  ASSUME TypeOK, ForwardInv, met \subseteq met', edits' \in Nat, edits <= edits',
         \A p \in Cached' : p \in Cached /\ entries'[p] = entries[p],
         \A v \in Views : /\ call'[v].ver = call[v].ver
                          /\ call'[v].pc \in {"done", "loaded"} => call'[v].pc = call[v].pc
  PROVE  ForwardInv'
<1>1. edits \in Nat /\ (\A p \in Cached : entries[p].ver \in Nat)
      /\ \A v \in Views : call[v].ver \in Nat
  BY DEF TypeOK, CacheTypeOK, Calls, Call
<1>2. VersionsExist'
  BY <1>1 DEF ForwardInv, VersionsExist
<1>3. ASSUME "loads" \notin met' PROVE OneLoads' /\ CacheIsNewest' /\ LoadIsNewest'
  <2>1. OneLoads /\ CacheIsNewest /\ LoadIsNewest
    BY <1>3 DEF ForwardInv
  <2>2. OneLoads'
    BY <2>1 DEF OneLoads
  <2>3. CacheIsNewest'
    BY <2>1 DEF CacheIsNewest
  <2>4. LoadIsNewest'
    BY <2>1 DEF LoadIsNewest
  <2> QED
    BY <2>2, <2>3, <2>4
<1> QED
  BY <1>2, <1>3 DEF ForwardInv

LEMMA ForwardView ==
  ASSUME LocalAssumption, TypeOK, ForwardInv, NEW v \in Views, View(v)
  PROVE  ForwardInv' /\ (call'[v].pc = "done" => Forward(v))
<1>0. /\ v \in Calls /\ PathOf[v] \in Paths /\ edits \in Nat /\ edits' = edits /\ met \subseteq met'
      /\ \A p \in Cached : entries[p].ver \in Nat
      /\ \A w \in Views : call[w].ver \in Nat
      /\ \A w \in Views \ {v} : call'[w] = call[w]
  BY DEF LocalAssumption, TypeOK, CacheTypeOK, Call, Calls, View, OpenNetwork, LookInCache,
         ReadFile, CachePut, Goes, Ends, Meets
<1>1. ASSUME NEW pc \in {"open", "missed", "failed"}, Goes(v, pc)
      PROVE  /\ call'[v].pc = pc
             /\ \A w \in Views : /\ call'[w].ver = call[w].ver
                                 /\ call'[w].pc \in {"done", "loaded"} => call'[w].pc = call[w].pc
  BY <1>0, <1>1 DEF Goes, TypeOK, Call
<1>2. UNCHANGED cacheVars \/ Miss(PathOf[v]) =>
        \A p \in Cached' : p \in Cached /\ entries'[p] = entries[p]
  BY DEF Miss, Cached, cacheVars
<1>3. CASE OpenNetwork(v)
  <2>1. Goes(v, "open") /\ UNCHANGED cacheVars
    BY <1>3 DEF OpenNetwork, cacheVars
  <2> QED
    BY <1>0, <1>1, <1>2, <2>1, ForwardFrame
<1>4. CASE LookInCache(v)
  <2>1. CASE (UNCHANGED cacheVars \/ Miss(PathOf[v])) /\ (Ends(v) \/ Goes(v, "missed"))
    BY <1>0, <1>1, <1>2, <2>1, ForwardFrame DEF Ends
  <2>2. CASE /\ Hit(PathOf[v])
             /\ call' = [call EXCEPT ![v].pc = "done", ![v].at = now,
                        ![v].ver = entries[PathOf[v]].ver, ![v].read = entries[PathOf[v]].read]
    <3>1. Cached' = Cached /\ entries' = entries /\ PathOf[v] \in Cached /\ met' = met
      BY <1>4, <2>2 DEF Hit, Cached, LookInCache
    <3>2. call'[v].pc = "done" /\ call'[v].ver = entries[PathOf[v]].ver
      BY <1>0, <2>2 DEF TypeOK, Call
    <3>3. VersionsExist'
      BY <1>0, <3>1, <3>2 DEF ForwardInv, VersionsExist
    <3>4. ASSUME "loads" \notin met' PROVE OneLoads' /\ CacheIsNewest' /\ LoadIsNewest'
      <4>1. OneLoads /\ CacheIsNewest /\ LoadIsNewest
        BY <3>1, <3>4 DEF ForwardInv
      <4>2. OneLoads'
        BY <1>0, <3>2, <4>1 DEF OneLoads
      <4>3. CacheIsNewest'
        BY <1>0, <3>1, <3>2, <4>1 DEF CacheIsNewest
      <4>4. LoadIsNewest'
        BY <1>0, <3>1, <3>2, <4>1 DEF LoadIsNewest
      <4> QED
        BY <4>2, <4>3, <4>4
    <3>5. Forward(v)
      BY <3>1, <3>2 DEF Forward, ForwardInv, CacheIsNewest
    <3> QED
      BY <3>3, <3>4, <3>5 DEF ForwardInv
  <2> QED
    BY <1>4, <2>1, <2>2 DEF LookInCache
<1>5. CASE ReadFile(v)
  <2>1. Cached' = Cached /\ entries' = entries /\ UNCHANGED cacheVars
    BY <1>5 DEF ReadFile, Cached, cacheVars
  <2>2. CASE File(v) = NoFile
    BY <1>0, <1>1, <1>2, <1>5, <2>1, <2>2, ForwardFrame DEF ReadFile, Ends
  <2>3. CASE File(v) # NoFile
    <3>1. call'[v].pc = "loaded" /\ call'[v].ver = edits
      BY <1>0, <1>5, <2>3 DEF ReadFile, TypeOK, Call
    <3>2. VersionsExist'
      BY <1>0, <2>1, <3>1 DEF ForwardInv, VersionsExist
    <3>3. ASSUME "loads" \notin met' PROVE OneLoads' /\ CacheIsNewest' /\ LoadIsNewest'
      <4>1. OneLoads /\ CacheIsNewest /\ LoadIsNewest
        BY <1>0, <3>3 DEF ForwardInv
      <4>2. \A w \in Views \ {v} : PathOf[w] = PathOf[v] => call[w].pc # "loaded"
        BY <1>5, <3>3 DEF ReadFile, Meets, Under
      <4>3. OneLoads'
        BY <1>0, <4>1, <4>2 DEF OneLoads
      <4>4. CacheIsNewest'
        BY <1>0, <2>1, <3>1, <4>1 DEF CacheIsNewest
      <4>5. LoadIsNewest'
        BY <1>0, <2>1, <3>1, <4>1 DEF LoadIsNewest, ForwardInv, VersionsExist
      <4> QED
        BY <4>3, <4>4, <4>5
    <3> QED
      BY <3>1, <3>2, <3>3 DEF ForwardInv
  <2> QED
    BY <2>2, <2>3
<1>6. CASE CachePut(v)
  <2>1. call[v].pc = "loaded" /\ call'[v].pc = "done" /\ call'[v].ver = call[v].ver /\ met' = met
    BY <1>0, <1>6 DEF CachePut, At, TypeOK, Call
  <2>2. PICK keys \in SUBSET (Cached \cup {PathOf[v]}) :
           /\ Cached' = keys
           /\ entries' = [q \in keys |-> IF q # PathOf[v] THEN entries[q]
                             ELSE [ver |-> call[v].ver, read |-> call[v].read, at |-> now]]
    BY <1>6, PutKeys DEF CachePut
  <2>3. \A p \in Cached' : IF p = PathOf[v] THEN entries'[p].ver = call[v].ver
                                            ELSE p \in Cached /\ entries'[p] = entries[p]
    BY <2>2
  <2>4. VersionsExist'
    BY <1>0, <2>1, <2>3 DEF ForwardInv, VersionsExist
  <2>5. ASSUME "loads" \notin met' PROVE OneLoads' /\ CacheIsNewest' /\ LoadIsNewest'
    <3>1. OneLoads /\ CacheIsNewest /\ LoadIsNewest
      BY <2>1, <2>5 DEF ForwardInv
    <3>2. OneLoads'
      BY <1>0, <2>1, <3>1 DEF OneLoads
    <3>3. \A w \in Views \ {v} : call[w].pc = "loaded" => PathOf[w] # PathOf[v]
      BY <2>1, <3>1 DEF OneLoads
    <3>4. CacheIsNewest'
      BY <1>0, <2>1, <2>3, <3>1 DEF CacheIsNewest, LoadIsNewest
    <3>5. LoadIsNewest'
      BY <1>0, <2>1, <2>3, <3>1, <3>3 DEF LoadIsNewest
    <3> QED
      BY <3>2, <3>4, <3>5
  <2>6. Forward(v)
    BY <2>1 DEF Forward, ForwardInv, LoadIsNewest
  <2> QED
    BY <2>4, <2>5, <2>6 DEF ForwardInv
<1> QED
  BY <1>3, <1>4, <1>5, <1>6 DEF View

LEMMA ForwardStep ==
  ASSUME LocalAssumption, TypeOK, ForwardInv, [Next]_vars
  PROVE  /\ ForwardInv'
         /\ \A v \in Views : call[v].pc # "done" /\ call'[v].pc = "done" => Forward(v)
<1>1. ASSUME Cached' \subseteq Cached, \A p \in Cached' : entries'[p] = entries[p],
             edits' \in Nat, edits <= edits', \A v \in Views : call'[v] = call[v]
      PROVE  /\ ForwardInv'
             /\ \A v \in Views : call[v].pc # "done" /\ call'[v].pc = "done" => Forward(v)
  BY <1>1, MetGrows, ForwardFrame
<1>2. edits \in Nat /\ edits <= edits
  BY DEF TypeOK
<1>3. ASSUME NEW r \in Registrations, Register(r)
      PROVE  /\ Cached' = Cached /\ entries' = entries /\ edits' = edits
             /\ \A v \in Views : call'[v] = call[v]
  <2>1. r \notin Views
    BY DEF LocalAssumption
  <2> QED
    BY <1>3, <2>1 DEF TypeOK, Calls, Cached, Register, HashFile, FindContent, FindPath,
                      ReadMetadata, UpdateRow, InsertRow, Goes, Ends
<1>4. ASSUME NEW d \in Deletions, Delete(d)
      PROVE  /\ Cached' = Cached /\ entries' = entries /\ edits' = edits
             /\ \A v \in Views : call'[v] = call[v]
  <2>1. d \notin Views
    BY DEF LocalAssumption
  <2> QED
    BY <1>4, <2>1 DEF TypeOK, Calls, Cached, Delete, LoadNetwork, DeleteRow, Unlink, Goes
<1>5. ASSUME NEW p \in Paths, NEW content \in Files, EditFile(p, content)
      PROVE  /\ Cached' = Cached /\ entries' = entries /\ call' = call
             /\ edits' \in Nat /\ edits <= edits'
  BY <1>2, <1>5 DEF EditFile, Cached
<1>6. CASE Tick
  BY <1>1, <1>2, <1>6 DEF Tick, Cached
<1>7. CASE ClearNetworkCache
  <2>1. Cached' = {} /\ edits' = edits /\ call' = call
    BY <1>7 DEF ClearNetworkCache, Clear, Cached
  <2> QED
    BY <1>1, <1>2, <2>1
<1>8. CASE UNCHANGED vars
  BY <1>1, <1>2, <1>8 DEF vars, Cached
<1>9. ASSUME NEW v \in Views, View(v)
      PROVE  /\ ForwardInv'
             /\ \A w \in Views : call[w].pc # "done" /\ call'[w].pc = "done" => Forward(w)
  <2>1. \A w \in Views \ {v} : call'[w] = call[w]
    BY <1>9 DEF TypeOK, Calls, View, OpenNetwork, LookInCache, ReadFile, CachePut, Goes, Ends
  <2> QED
    BY <1>9, <2>1, ForwardView
<1> QED
  BY <1>1, <1>2, <1>3, <1>4, <1>5, <1>6, <1>7, <1>8, <1>9 DEF Next

\* Whoever opens a file after somebody saw a version of it never sees an older one, for any
\* edits, evictions and expiries in between, unless two loads of the file overlapped
\* (NetworkService with use_cache, NetworkCache.get and put).
THEOREM ViewsStayForward == Spec => ViewsGoForward
<1>1. ASSUME Init PROVE ForwardInv
  <2>1. \A v \in Views : call[v] = NewCall
    BY <1>1, LocalAssumption DEF Init, Calls, LocalAssumption
  <2>2. NewCall.pc = "new" /\ NewCall.ver = 0
    BY DEF NewCall
  <2>3. Cached = {} /\ edits = 0
    BY <1>1 DEF Init, CacheInit, Cached
  <2>4. \A v \in Views : call[v].pc = "new" /\ call[v].ver = 0
    BY <2>1, <2>2
  <2>5. VersionsExist
    BY <2>3, <2>4 DEF VersionsExist
  <2>6. OneLoads /\ CacheIsNewest /\ LoadIsNewest
    BY <2>4 DEF OneLoads, CacheIsNewest, LoadIsNewest
  <2> QED
    BY <2>5, <2>6 DEF ForwardInv
<1>2. TypeOK /\ ForwardInv /\ [Next]_vars => ForwardInv'
  BY LocalAssumption, ForwardStep
<1>3. TypeOK /\ ForwardInv /\ [Next]_vars
        => [\A v, w \in Views :
              /\ call[v].pc \in {"open", "missed", "loaded"} /\ call'[v].pc = "done"
              /\ call[w].pc = "done" /\ PathOf[w] = PathOf[v]
              /\ met' \cap {"loads"} = {}
              => call'[v].ver >= call[w].ver]_vars
  <2> SUFFICES ASSUME TypeOK, ForwardInv, [Next]_vars, NEW v \in Views, NEW w \in Views,
                      call[v].pc \in {"open", "missed", "loaded"}, call'[v].pc = "done",
                      call[w].pc = "done", PathOf[w] = PathOf[v], met' \cap {"loads"} = {}
               PROVE  call'[v].ver >= call[w].ver
    OBVIOUS
  <2>1. Forward(v)
    BY LocalAssumption, ForwardStep
  <2> QED
    BY <2>1 DEF Forward
<1> QED
  BY <1>1, <1>2, <1>3, LocalTypes, PTL DEF Spec, ViewsGoForward
=============================================================================
