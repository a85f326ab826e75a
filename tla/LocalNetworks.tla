---------------------------- MODULE LocalNetworks ----------------------------
(***************************************************************************)
(* Networks of the local mode: files the user keeps and edits wherever they *)
(* are, registered in place (register_network_in_place, from the API or the *)
(* command line), viewed through the cache, removed with or without the    *)
(* file.                                                                   *)
(*                                                                         *)
(* A network's id is the registration that inserted it, so its file_path is *)
(* PathOf[id].  A step ends where another thread or the user gets in: after *)
(* each statement and each access to the file.  SQLite's writers exclude   *)
(* each other from the flush to the commit.  "met" remembers what came     *)
(* together in a behaviour.                                                *)
(***************************************************************************)
EXTENDS NetworkCache

CONSTANTS Contents, NoFile,    \* what is in a file, up to its hash
          Registrations,       \* calls of register_network_in_place
          Views,               \* requests that load a network
          Deletions,           \* calls of delete_network
          RemovesFile,         \* those of them with remove_file
          PathOf,              \* the path each call is about
          Stored,              \* registrations of an earlier session of the program
          MaxEdits, MaxTime,   \* bounds
          MaxLoad              \* from reading a file to caching it takes at most this

Calls == Registrations \cup Views \cup Deletions

ASSUME LocalAssumption ==
    /\ Registrations \cap (Views \cup Deletions) = {} /\ Views \cap Deletions = {}
    /\ NoFile \notin Contents
    /\ PathOf \in [Calls -> Paths]
    /\ RemovesFile \subseteq Deletions /\ Stored \subseteq Registrations
    /\ MaxEdits \in Nat /\ MaxTime \in Nat /\ MaxLoad \in Nat

VARIABLES disk,             \* what each path contains
          edits,            \* changes of files so far: the version of what is read
          rows, hash, meta, \* stored networks, their file_hash and metadata
          call,             \* the calls: where they are and what they have read
          met

table == <<rows, hash, meta>>
vars == <<entries, older, now, disk, edits, rows, hash, meta, call, met>>

Files == Contents \cup {NoFile}
NewCall == [pc |-> "new", hash |-> NoFile, meta |-> NoFile, found |-> {},
            ver |-> 0, read |-> 0, at |-> 0]

File(c) == disk[PathOf[c]]

Init ==
    /\ CacheInit
    /\ disk \in [Paths -> Contents] /\ edits = 0
    /\ rows = Stored
    /\ \A i, j \in Stored : File(i) = File(j) => i = j
    /\ hash = [i \in Registrations |-> IF i \in Stored THEN File(i) ELSE NoFile]
    /\ meta = hash
    /\ call = [c \in Calls |-> IF c \in Stored
                  THEN [NewCall EXCEPT !.pc = "done", !.found = {c}] ELSE NewCall]
    /\ met = {}

----------------------------------------------------------------------------
Meets(what) == met' = met \cup what
At(c, pc) == c \in Calls /\ call[c].pc = pc
Goes(c, pc) == call' = [call EXCEPT ![c].pc = pc]
Ends(c) == Goes(c, "failed")
\* Other calls that are under way with the same path.
Under(c, calls) ==
    {d \in calls \ {c} : PathOf[d] = PathOf[c] /\ call[d].pc \notin {"new", "done", "failed"}}
Registering == {r \in Registrations : call[r].pc \notin {"new", "done", "failed"}}

(* register_network_in_place and import_network_file.                      *)

\* The path must be a file; its hash.
HashFile(r) ==
    /\ r \in Registrations /\ At(r, "new")
    /\ IF File(r) = NoFile THEN Ends(r)
         ELSE call' = [call EXCEPT ![r].pc = "hashed", ![r].hash = File(r)]
    /\ Meets((IF Registering # {} THEN {"together"} ELSE {})
             \cup (IF Under(r, Deletions) # {} THEN {"crossed"} ELSE {}))
    /\ UNCHANGED <<entries, older, now, disk, edits, table>>

\* A network with the same content is the answer.
FindContent(r) ==
    /\ r \in Registrations /\ At(r, "hashed")
    /\ \/ \E i \in rows : /\ hash[i] = call[r].hash
                          /\ call' = [call EXCEPT ![r].pc = "done", ![r].found = {i}]
       \/ (\A i \in rows : hash[i] # call[r].hash) /\ Goes(r, "unknown")
    /\ UNCHANGED <<entries, older, now, disk, edits, table, met>>

\* Otherwise the network with this path, which was edited, is brought up to date.
FindPath(r) ==
    /\ r \in Registrations /\ At(r, "unknown")
    /\ call' = [call EXCEPT ![r].pc = "found",
                            ![r].found = {i \in rows : PathOf[i] = PathOf[r]}]
    /\ UNCHANGED <<entries, older, now, disk, edits, table, met>>

ReadMetadata(r) ==
    /\ r \in Registrations /\ At(r, "found")
    /\ IF File(r) = NoFile THEN Ends(r)
         ELSE call' = [call EXCEPT ![r].pc = "read", ![r].meta = File(r)]
    /\ UNCHANGED <<entries, older, now, disk, edits, table, met>>

\* What an UPDATE of an edited network writes.
KeepsHash(i, r) ==
    /\ meta' = [meta EXCEPT ![i] = call[r].meta] /\ UNCHANGED hash
Refreshed(i, r) ==
    /\ hash' = [hash EXCEPT ![i] = call[r].hash]
    /\ meta' = [meta EXCEPT ![i] = call[r].meta]

\* UPDATE and commit; a network removed meanwhile fails it.
UpdateRow(r) ==
    /\ r \in Registrations /\ At(r, "read")
    /\ \E i \in call[r].found :
         IF i \in rows
           THEN Refreshed(i, r) /\ Goes(r, "done") /\ UNCHANGED rows
           ELSE Ends(r) /\ UNCHANGED table
    /\ UNCHANGED <<entries, older, now, disk, edits, met>>

\* INSERT and commit; file_path is unique.
InsertRow(r) ==
    /\ r \in Registrations /\ At(r, "read") /\ call[r].found = {}
    /\ IF \E i \in rows : PathOf[i] = PathOf[r]
         THEN Ends(r) /\ UNCHANGED table
         ELSE /\ rows' = rows \cup {r} /\ Refreshed(r, r)
              /\ call' = [call EXCEPT ![r].pc = "done", ![r].found = {r}]
    /\ UNCHANGED <<entries, older, now, disk, edits, met>>

----------------------------------------------------------------------------
(* NetworkService with use_cache, for get_component_data, plots, ...        *)

OpenNetwork(v) ==
    /\ v \in Views /\ At(v, "new")
    /\ \E i \in rows : PathOf[i] = PathOf[v]
    /\ Goes(v, "open")
    /\ UNCHANGED <<entries, older, now, disk, edits, table, met>>

\* validate_path, then the cache.
LookInCache(v) ==
    /\ v \in Views /\ At(v, "open")
    /\ \/ File(v) = NoFile /\ Ends(v) /\ UNCHANGED cacheVars
       \/ /\ File(v) # NoFile /\ Hit(PathOf[v])
          /\ call' = [call EXCEPT ![v].pc = "done", ![v].at = now,
                        ![v].ver = entries[PathOf[v]].ver, ![v].read = entries[PathOf[v]].read]
       \/ File(v) # NoFile /\ Miss(PathOf[v]) /\ Goes(v, "missed")
    /\ UNCHANGED <<now, disk, edits, table, met>>

ReadFile(v) ==
    /\ v \in Views /\ At(v, "missed")
    /\ IF File(v) = NoFile THEN Ends(v)
         ELSE call' = [call EXCEPT ![v].pc = "loaded", ![v].ver = edits, ![v].read = now]
    /\ Meets(IF \E w \in Under(v, Views) : call[w].pc = "loaded" THEN {"loads"} ELSE {})
    /\ UNCHANGED <<entries, older, now, disk, edits, table>>

CachePut(v) ==
    /\ v \in Views /\ At(v, "loaded")
    /\ Put(PathOf[v], call[v])
    /\ call' = [call EXCEPT ![v].pc = "done", ![v].at = now]
    /\ UNCHANGED <<now, disk, edits, table, met>>

\* The administrator's DELETE /cache/networks.
ClearNetworkCache ==
    /\ Cached # {}
    /\ Clear
    /\ UNCHANGED <<now, disk, edits, table, call, met>>

----------------------------------------------------------------------------
(* delete_network.                                                         *)

LoadNetwork(d) ==
    /\ d \in Deletions /\ At(d, "new")
    /\ \E i \in rows : /\ PathOf[i] = PathOf[d]
                       /\ call' = [call EXCEPT ![d].pc = "open", ![d].found = {i}]
    /\ Meets(IF Under(d, Registrations) # {} THEN {"crossed"} ELSE {})
    /\ UNCHANGED <<entries, older, now, disk, edits, table>>

\* DELETE and commit; that the row is gone already is only a warning.  The file of an
\* external network is kept unless remove_file is set.
AlwaysUnlinks(d) == TRUE
Unlinks(d) == d \in RemovesFile

DeleteRow(d) ==
    /\ d \in Deletions /\ At(d, "open")
    /\ rows' = rows \ call[d].found
    /\ Goes(d, IF Unlinks(d) THEN "deleted" ELSE "done")
    /\ UNCHANGED <<entries, older, now, disk, edits, hash, meta, met>>

Unlink(d) ==
    /\ d \in Deletions /\ At(d, "deleted")
    /\ disk' = [disk EXCEPT ![PathOf[d]] = NoFile]
    /\ Goes(d, "done")
    /\ UNCHANGED <<entries, older, now, edits, table, met>>

----------------------------------------------------------------------------
\* The user writes, replaces or removes a file.
EditFile(p, content) ==
    /\ edits < MaxEdits /\ disk[p] # content
    /\ disk' = [disk EXCEPT ![p] = content] /\ edits' = edits + 1
    /\ Meets((IF content = NoFile THEN {"removed"} ELSE {})
             \cup (IF \E r \in Registering : PathOf[r] = p THEN {"edited"} ELSE {}))
    /\ UNCHANGED <<entries, older, now, table, call>>

Tick ==
    /\ now < MaxTime
    /\ \A v \in Views : call[v].pc = "loaded" => now - call[v].read < MaxLoad
    /\ now' = now + 1
    /\ UNCHANGED <<entries, older, disk, edits, table, call, met>>

Register(r) ==
    HashFile(r) \/ FindContent(r) \/ FindPath(r) \/ ReadMetadata(r) \/ UpdateRow(r) \/ InsertRow(r)
View(v) == OpenNetwork(v) \/ LookInCache(v) \/ ReadFile(v) \/ CachePut(v)
Delete(d) == LoadNetwork(d) \/ DeleteRow(d) \/ Unlink(d)

Next ==
    \/ \E r \in Registrations : Register(r)
    \/ \E v \in Views : View(v)
    \/ \E d \in Deletions : Delete(d)
    \/ \E p \in Paths, content \in Files : EditFile(p, content)
    \/ Tick \/ ClearNetworkCache

Spec == Init /\ [][Next]_vars

----------------------------------------------------------------------------
(* Properties.                                                             *)

Meetings == {"edited", "removed", "together", "crossed", "loads"}

Call == [pc : {"new", "hashed", "unknown", "found", "read", "open", "missed", "loaded",
               "deleted", "done", "failed"},
         hash : Files, meta : Files, found : SUBSET Registrations,
         ver : Nat, read : Nat, at : Nat]

\* Type invariant of the files, the table, the cache and the calls.
TypeOK ==
    /\ CacheTypeOK
    /\ disk \in [Paths -> Files] /\ edits \in 0..MaxEdits
    /\ rows \subseteq Registrations
    /\ hash \in [Registrations -> Files] /\ meta \in [Registrations -> Files]
    /\ call \in [Calls -> Call]
    /\ met \subseteq Meetings

\* A view never shows a network that was read from its file longer ago than the time to
\* live and one load: a hit does not renew an entry, an eviction or a slow load of another
\* request does not confuse the times (NetworkCache.get and put, NetworkService).
ShownIsRecent ==
    \A v \in Views :
        call[v].pc = "done" => call[v].at <= call[v].read + TTL + MaxLoad

\* Views of one file go forward: who opens it after somebody saw a version never sees an
\* older one, unless two loads of the file overlapped.
ViewsGoForward ==
    [][\A v, w \in Views :
        /\ call[v].pc \in {"open", "missed", "loaded"} /\ call'[v].pc = "done"
        /\ call[w].pc = "done" /\ PathOf[w] = PathOf[v]
        /\ met' \cap {"loads"} = {}
        => call'[v].ver >= call[w].ver]_vars

\* Metadata and hash of a network are of the same content, and no two networks have
\* the same content, however often files are edited, copied and registered again; unless a
\* file is edited during its registration or two registrations overlap.
RecordsAgree ==
    met \cap {"edited", "together"} = {} =>
        /\ \A i \in rows : meta[i] = hash[i]
        /\ \A i, j \in rows : hash[i] = hash[j] => i = j

\* A file disappears only when the user removes it or after a deletion that was told to,
\* and a stored network has its file unless the user removed it, or a deletion with
\* remove_file crossed a registration of the same path (the file is unlinked after the
\* commit, when somebody else may have registered it again).
FilesStay ==
    /\ "removed" \notin met => \A p \in Paths :
         disk[p] = NoFile => \E d \in RemovesFile : PathOf[d] = p /\ call[d].pc = "done"
    /\ met \cap {"removed", "crossed"} = {} => \A i \in rows : File(i) # NoFile

=============================================================================
