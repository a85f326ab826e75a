------------------------ MODULE NetworkTasks_proofs ------------------------
(***************************************************************************)
(* No import loses or leaves a file, a client is told the truth and a plot *)
(* is recent, for any jobs, contents, sessions, workers, ages and bounds,  *)
(* with the queue in the program and with Celery.  What a task does next   *)
(* depends on what it found several steps ago, while others store, delete  *)
(* and redeliver: the invariant says what stays true in between.           *)
(***************************************************************************)
EXTENDS NetworkTasks, SequenceTheorems, TLAPS

\* Each kind of job has its own steps.
KindsInv ==
  \A j \in Jobs :
    /\ at[j] = "stream" => j \in Uploads
    /\ at[j] \in {"fetch", "download"} => j \in Urls
    /\ at[j] \in {"check", "find", "move", "read", "commit", "refresh"} => j \in Imports
    /\ at[j] \in {"cache", "load", "keep"} => j \in Plots

\* A task waits once.
QueueInv ==
  /\ \A k \in 1..Len(queue) : at[queue[k]] = "queued"
  /\ \A k, l \in 1..Len(queue) : queue[k] = queue[l] => k = l

\* A file that is not moved yet was not stored before, nor was its network deleted.
FreshInv ==
  \A j \in Jobs :
    /\ at[j] \in {"new", "stream", "fetch"} \/ (at[j] = "queued" /\ j \in Urls) \/ j \in temp
         => j \notin stored \cup deleted
    /\ "lost" \notin met /\ at[j] \in {"queued", "check"} => j \notin stored
    /\ at[j] \in {"download", "find", "move"} => j \in temp

\* Without a death a temporary file is at a step of its own, or its task never reaches a worker.
TempInv ==
  "lost" \notin met =>
    \A j \in temp :
      /\ \/ at[j] \in {"stream", "queued", "download", "check", "find", "move"}
         \/ at[j] \in {"unqueued", "wiped"}
      /\ at[j] \in {"stream", "queued", "unqueued", "wiped"} => j \in Uploads

\* A moved file waits for its row; rows have files; a deleted network stays deleted.
MovedInv ==
  /\ \A j \in Jobs : at[j] \in {"read", "commit"} => j \in stored /\ j \notin rows \cup deleted
  /\ rows \subseteq stored /\ rows \cap deleted = {}
  /\ met = {} => \A i \in stored : i \in rows \cup deleting \/ at[i] \in {"read", "commit"}

\* The network that job j returns is or was one, with the content that j brought.
IsGood(j) == found[j] \in rows \cup deleted /\ Content[found[j]] = Content[j]

\* What a task found, until it says so.
ResultInv ==
  \A j \in Jobs :
    /\ at[j] = "commit" => found[j] = j
    /\ at[j] = "refresh" => IsGood(j) /\ (found[j] = j \/ j \notin rows)
    /\ at[j] = "finish" \/ state[j] = "SUCCESS" =>
         /\ outcome[j] \in {"success", "error"}
         /\ j \in Imports /\ outcome[j] = "success" => IsGood(j)
         /\ j \in Imports /\ outcome[j] = "error" /\ "lost" \notin met => j \notin rows
    /\ state[j] = "SUCCESS" => at[j] = "ended"
    /\ state[j] = "FAILURE" => "lost" \in met

\* What the client of a job read, perhaps before Redis was emptied, and was told.
PollInv ==
  \A j \in Jobs :
    /\ poll[j].state = "FAILURE" => "lost" \in met
    /\ poll[j].state = "SUCCESS" =>
         /\ at[j] = "ended" /\ outcome[j] \in {"success", "error"}
         /\ j \in Imports /\ outcome[j] = "success" => IsGood(j)
         /\ j \in Imports /\ outcome[j] = "error" /\ "lost" \notin met => j \notin rows
    /\ poll[j].pc = "network" => at[j] = "ended" /\ (j \in Imports => IsGood(j))
    /\ poll[j].pc = "failed" /\ "lost" \notin met =>
         at[j] = "ended" /\ (j \in Imports => j \notin rows)

\* How old the network of a plot can be, and how long that plot can stay.
PlotInv ==
  /\ \A j \in Plots : at[j] = "keep" => plot[j] <= now /\ now - plot[j] <= NetworkAge + MaxRun
  /\ \A i \in Imports : cached[i].until <= cached[i].read + NetworkAge + MaxRun + TTL

\* The inductive invariant.
TasksInv ==
  /\ TypeOK /\ KindsInv /\ QueueInv /\ FreshInv /\ TempInv /\ MovedInv /\ ResultInv /\ PollInv
  /\ PlotInv

----------------------------------------------------------------------------
\* The bounds and ages are numbers, and a plot lives for a while.
LEMMA BoundsAreNumbers ==
  /\ NetworkAge \in Nat /\ MaxRun \in Nat /\ MaxTime \in Nat /\ TTL \in Nat /\ TTL > 0
  /\ MaxDays \in Nat /\ MaxLosses \in Nat
BY TasksAssumption

\* Each kind of job is a kind of its own.
LEMMA KindsAreDisjoint ==
  /\ Jobs = Uploads \cup Urls \cup Plots /\ Imports = Uploads \cup Urls
  /\ Uploads \cap Urls = {} /\ Imports \cap Plots = {}
  /\ \A j \in Plots : NetworkOf[j] \in Imports
BY TasksAssumption DEF Jobs, Imports

\* Without its kth element a sequence keeps its other elements, each of them once.
LEMMA RemoveAtKeepsOthers ==
  ASSUME NEW S, NEW s \in Seq(S), NEW k \in 1..Len(s), NEW t, t = RemoveAt(s, k),
         \A a, b \in 1..Len(s) : s[a] = s[b] => a = b
  PROVE  /\ t \in Seq(S)
         /\ \A a \in 1..Len(t) : (\E b \in 1..Len(s) : t[a] = s[b]) /\ t[a] # s[k]
         /\ \A a, b \in 1..Len(t) : t[a] = t[b] => a = b
<1> DEFINE left == SubSeq(s, 1, k-1)
           right == SubSeq(s, k+1, Len(s))
<1>1. left \in Seq(S) /\ Len(left) = k-1 /\ \A a \in 1..k-1 : left[a] = s[a]
  OBVIOUS
<1>2. /\ right \in Seq(S) /\ Len(right) = Len(s)-k
      /\ \A a \in 1..Len(s)-k : right[a] = s[a+k]
  OBVIOUS
<1>3. t = left \o right
  BY DEF RemoveAt
<1> HIDE DEF left, right
<1>4. /\ t \in Seq(S) /\ Len(t) = Len(s)-1
      /\ \A a \in 1..Len(t) : t[a] = IF a <= k-1 THEN left[a] ELSE right[a-(k-1)]
  <2>1. /\ t \in Seq(S) /\ Len(t) = Len(left) + Len(right)
        /\ \A a \in 1..Len(left)+Len(right) :
              t[a] = IF a <= Len(left) THEN left[a] ELSE right[a-Len(left)]
    <3>1. left \in Seq(S) /\ right \in Seq(S)
      BY <1>1, <1>2
    <3> QED
      BY ONLY <1>3, <3>1, ConcatProperties
  <2> QED
    BY <1>1, <1>2, <2>1
<1>5. ASSUME NEW a \in 1..Len(t)
      PROVE  \/ a < k /\ t[a] = s[a]
             \/ a >= k /\ a+1 \in 1..Len(s) /\ t[a] = s[a+1]
  <2>1. CASE a <= k-1
    BY <1>1, <1>4, <2>1
  <2>2. CASE a > k-1
    <3>1. a-(k-1) \in 1..Len(s)-k /\ (a-(k-1))+k = a+1
      BY <1>4, <2>2
    <3>2. ~(a <= k-1)
      BY <2>2
    <3>3. t[a] = right[a-(k-1)]
      BY <1>4, <3>2
    <3> QED
      BY <1>2, <2>2, <3>1, <3>3, <1>4
  <2> QED
    BY <2>1, <2>2, <1>4
<1>6. ASSUME NEW a \in 1..Len(t)
      PROVE  \E b \in 1..Len(s) : b # k /\ t[a] = s[b] /\ b = IF a < k THEN a ELSE a+1
  BY <1>4, <1>5
<1> QED
  BY <1>4, <1>6

\* Every step keeps the types of the tasks ...
LEMMA TasksTypedStep ==
  ASSUME TasksInv, [Next]_vars
  PROVE  TasksTyped'
<1> USE KindsAreDisjoint
        DEF TasksInv, TypeOK, vars, store, files, plotting, counts, TasksTyped, FilesTyped, Goes,
            Places, Working, States, KindsInv
<1>1. ASSUME NEW j \in Jobs, Upload(j) PROVE TasksTyped'
  BY <1>1 DEF Upload
<1>2. ASSUME NEW j \in Jobs, UploadFails(j) PROVE TasksTyped'
  BY <1>2 DEF UploadFails
<1>3. ASSUME NEW j \in Jobs, Submit(j) PROVE TasksTyped'
  BY <1>3 DEF Submit, MaySubmit, Enqueued
<1>4. ASSUME NEW j \in Jobs, ReadState(j) PROVE TasksTyped'
  BY <1>4 DEF ReadState
<1>5. ASSUME NEW j \in Jobs, Answer(j) PROVE TasksTyped'
  BY <1>5 DEF Answer, Understood, SecondRead
<1>6. ASSUME NEW j \in Jobs, GiveUp(j) PROVE TasksTyped'
  BY <1>6 DEF GiveUp
<1>7. ASSUME NEW j \in Jobs, Start(j) PROVE TasksTyped'
  BY <1>7 DEF Start, FirstStep
<1>8. ASSUME NEW j \in Jobs, FetchUrl(j) PROVE TasksTyped'
  BY <1>8 DEF FetchUrl, Fails, CleansUp
<1>9. ASSUME NEW j \in Jobs, Download(j) PROVE TasksTyped'
  BY <1>9 DEF Download, Fails, CleansUp
<1>10. ASSUME NEW j \in Jobs, CheckUser(j) PROVE TasksTyped'
  BY <1>10 DEF CheckUser, Fails, CleansUp
<1>11. ASSUME NEW j \in Jobs, FindContent(j) PROVE TasksTyped'
  BY <1>11 DEF FindContent
<1>12. ASSUME NEW j \in Jobs, MoveFile(j) PROVE TasksTyped'
  BY <1>12 DEF MoveFile
<1>13. ASSUME NEW j \in Jobs, ReadMetadata(j) PROVE TasksTyped'
  <2>1. CASE Fails(j)
    BY <1>13, <2>1 DEF ReadMetadata, Fails, CleansUp
  <2>2. CASE ~Fails(j)
    BY <1>13, <2>2 DEF ReadMetadata
  <2> QED
    BY <2>1, <2>2
<1>14. ASSUME NEW j \in Jobs, Commit(j) PROVE TasksTyped'
  BY <1>14 DEF Commit, Meets, Fails, CleansUp
<1>15. ASSUME NEW j \in Jobs, Refresh(j) PROVE TasksTyped'
  <2>1. CASE Fails(j)
    BY <1>15, <2>1 DEF Refresh, Fails, CleansUp
  <2>2. CASE ~Fails(j)
    BY <1>15, <2>2 DEF Refresh
  <2> QED
    BY <2>1, <2>2
<1>16. ASSUME NEW j \in Jobs, LookInCache(j) PROVE TasksTyped'
  BY <1>16 DEF LookInCache
<1>17. ASSUME NEW j \in Jobs, LoadNetwork(j) PROVE TasksTyped'
  <2>1. CASE Fails(j)
    BY <1>17, <2>1 DEF LoadNetwork, Fails, CleansUp
  <2>2. CASE ~Fails(j)
    BY <1>17, <2>2 DEF LoadNetwork
  <2> QED
    BY <2>1, <2>2
<1>18. ASSUME NEW j \in Jobs, KeepPlot(j) PROVE TasksTyped'
  BY <1>18 DEF KeepPlot, Kept
<1>19. ASSUME NEW j \in Jobs, Finish(j) PROVE TasksTyped'
  BY <1>19 DEF Finish, StoresResult
<1>20. ASSUME NEW j \in Jobs, LoseWorker(j) PROVE TasksTyped'
  BY <1>20 DEF LoseWorker, Meets
<1>21. ASSUME NEW i \in Imports, DeleteNetwork(i) PROVE TasksTyped'
  BY <1>21 DEF DeleteNetwork
<1>22. ASSUME NEW i \in Imports, Unlink(i) PROVE TasksTyped'
  BY <1>22 DEF Unlink, Meets, RemovesFile
<1>23. ASSUME Crash PROVE TasksTyped'
  BY <1>23 DEF Crash, Meets
<1>24. ASSUME DayPasses PROVE TasksTyped'
  BY <1>24 DEF DayPasses
<1>25. ASSUME Tick PROVE TasksTyped'
  BY <1>25 DEF Tick
<1>26. ASSUME ClearPlotCache PROVE TasksTyped'
  BY <1>26 DEF ClearPlotCache, NotCached
<1>27. ASSUME ClearAllCache PROVE TasksTyped'
  BY <1>27 DEF ClearAllCache, NotCached
<1>28. ASSUME NEW j \in Jobs, SubmitFails(j) PROVE TasksTyped'
  BY <1>28 DEF SubmitFails, MaySubmit
<1>29. CASE UNCHANGED vars
  BY <1>29 DEF vars
<1> HIDE DEF TasksTyped, FilesTyped, KindsInv
<1> QED
  BY <1>1, <1>2, <1>3, <1>4, <1>5, <1>6, <1>7, <1>8, <1>9, <1>10, <1>11, <1>12, <1>13, <1>14, <1>15,
     <1>16, <1>17, <1>18, <1>19, <1>20, <1>21, <1>22, <1>23, <1>24, <1>25, <1>26, <1>27,
     <1>28, <1>29
     DEF Next, Ask, Work

\* ... of the files ...
LEMMA FilesTypedStep ==
  ASSUME TasksInv, [Next]_vars
  PROVE  FilesTyped'
<1> USE KindsAreDisjoint
        DEF TasksInv, TypeOK, vars, store, files, plotting, counts, FilesTyped, KindsInv
<1>1. ASSUME NEW j \in Jobs, Upload(j) PROVE FilesTyped'
  BY <1>1 DEF Upload
<1>2. ASSUME NEW j \in Jobs, UploadFails(j) PROVE FilesTyped'
  BY <1>2 DEF UploadFails
<1>3. ASSUME NEW j \in Jobs, Submit(j) PROVE FilesTyped'
  BY <1>3 DEF Submit, MaySubmit, Enqueued
<1>4. ASSUME NEW j \in Jobs, ReadState(j) PROVE FilesTyped'
  BY <1>4 DEF ReadState
<1>5. ASSUME NEW j \in Jobs, Answer(j) PROVE FilesTyped'
  BY <1>5 DEF Answer, Understood, SecondRead
<1>6. ASSUME NEW j \in Jobs, GiveUp(j) PROVE FilesTyped'
  BY <1>6 DEF GiveUp
<1>7. ASSUME NEW j \in Jobs, Start(j) PROVE FilesTyped'
  BY <1>7 DEF Start, FirstStep
<1>8. ASSUME NEW j \in Jobs, FetchUrl(j) PROVE FilesTyped'
  BY <1>8 DEF FetchUrl, Fails, CleansUp
<1>9. ASSUME NEW j \in Jobs, Download(j) PROVE FilesTyped'
  BY <1>9 DEF Download, Fails, CleansUp
<1>10. ASSUME NEW j \in Jobs, CheckUser(j) PROVE FilesTyped'
  BY <1>10 DEF CheckUser, Fails, CleansUp
<1>11. ASSUME NEW j \in Jobs, FindContent(j) PROVE FilesTyped'
  BY <1>11 DEF FindContent
<1>12. ASSUME NEW j \in Jobs, MoveFile(j) PROVE FilesTyped'
  BY <1>12 DEF MoveFile
<1>13. ASSUME NEW j \in Jobs, ReadMetadata(j) PROVE FilesTyped'
  BY <1>13 DEF ReadMetadata, Meets, Fails, CleansUp
<1>14. ASSUME NEW j \in Jobs, Commit(j) PROVE FilesTyped'
  BY <1>14 DEF Commit, Meets, Fails, CleansUp
<1>15. ASSUME NEW j \in Jobs, Refresh(j) PROVE FilesTyped'
  BY <1>15 DEF Refresh, Fails, CleansUp
<1>16. ASSUME NEW j \in Jobs, LookInCache(j) PROVE FilesTyped'
  BY <1>16 DEF LookInCache
<1>17. ASSUME NEW j \in Jobs, LoadNetwork(j) PROVE FilesTyped'
  BY <1>17 DEF LoadNetwork, Fails, CleansUp
<1>18. ASSUME NEW j \in Jobs, KeepPlot(j) PROVE FilesTyped'
  BY <1>18 DEF KeepPlot, Kept
<1>19. ASSUME NEW j \in Jobs, Finish(j) PROVE FilesTyped'
  BY <1>19 DEF Finish, StoresResult
<1>20. ASSUME NEW j \in Jobs, LoseWorker(j) PROVE FilesTyped'
  BY <1>20 DEF LoseWorker, Meets
<1>21. ASSUME NEW i \in Imports, DeleteNetwork(i) PROVE FilesTyped'
  BY <1>21 DEF DeleteNetwork
<1>22. ASSUME NEW i \in Imports, Unlink(i) PROVE FilesTyped'
  BY <1>22 DEF Unlink, Meets, RemovesFile
<1>23. ASSUME Crash PROVE FilesTyped'
  BY <1>23 DEF Crash, Meets
<1>24. ASSUME DayPasses PROVE FilesTyped'
  BY <1>24 DEF DayPasses
<1>25. ASSUME Tick PROVE FilesTyped'
  BY <1>25 DEF Tick
<1>26. ASSUME ClearPlotCache PROVE FilesTyped'
  BY <1>26 DEF ClearPlotCache, NotCached
<1>27. ASSUME ClearAllCache PROVE FilesTyped'
  BY <1>27 DEF ClearAllCache, NotCached
<1>28. ASSUME NEW j \in Jobs, SubmitFails(j) PROVE FilesTyped'
  BY <1>28 DEF SubmitFails, MaySubmit
<1>29. CASE UNCHANGED vars
  BY <1>29 DEF vars
<1> HIDE DEF FilesTyped, KindsInv
<1> QED
  BY <1>1, <1>2, <1>3, <1>4, <1>5, <1>6, <1>7, <1>8, <1>9, <1>10, <1>11, <1>12, <1>13, <1>14, <1>15,
     <1>16, <1>17, <1>18, <1>19, <1>20, <1>21, <1>22, <1>23, <1>24, <1>25, <1>26, <1>27,
     <1>28, <1>29
     DEF Next, Ask, Work

\* ... of the clients ...
LEMMA ClientsTypedStep ==
  ASSUME TasksInv, [Next]_vars
  PROVE  ClientsTyped'
<1> USE DEF TasksInv, TypeOK, vars, store, files, plotting, counts, TasksTyped, ClientsTyped, States
<1>1. ASSUME NEW j \in Jobs, Upload(j) PROVE ClientsTyped'
  BY <1>1 DEF Upload
<1>2. ASSUME NEW j \in Jobs, UploadFails(j) PROVE ClientsTyped'
  BY <1>2 DEF UploadFails
<1>3. ASSUME NEW j \in Jobs, Submit(j) PROVE ClientsTyped'
  BY <1>3 DEF Submit, MaySubmit, Enqueued
<1>4. ASSUME NEW j \in Jobs, ReadState(j) PROVE ClientsTyped'
  BY <1>4 DEF ReadState
<1>5. ASSUME NEW j \in Jobs, Answer(j) PROVE ClientsTyped'
  BY <1>5 DEF Answer, Understood, SecondRead
<1>6. ASSUME NEW j \in Jobs, GiveUp(j) PROVE ClientsTyped'
  BY <1>6 DEF GiveUp
<1>7. ASSUME NEW j \in Jobs, Start(j) PROVE ClientsTyped'
  BY <1>7 DEF Start, FirstStep
<1>8. ASSUME NEW j \in Jobs, FetchUrl(j) PROVE ClientsTyped'
  BY <1>8 DEF FetchUrl, Fails, CleansUp
<1>9. ASSUME NEW j \in Jobs, Download(j) PROVE ClientsTyped'
  BY <1>9 DEF Download, Fails, CleansUp
<1>10. ASSUME NEW j \in Jobs, CheckUser(j) PROVE ClientsTyped'
  BY <1>10 DEF CheckUser, Fails, CleansUp
<1>11. ASSUME NEW j \in Jobs, FindContent(j) PROVE ClientsTyped'
  BY <1>11 DEF FindContent
<1>12. ASSUME NEW j \in Jobs, MoveFile(j) PROVE ClientsTyped'
  BY <1>12 DEF MoveFile
<1>13. ASSUME NEW j \in Jobs, ReadMetadata(j) PROVE ClientsTyped'
  BY <1>13 DEF ReadMetadata, Meets, Fails, CleansUp
<1>14. ASSUME NEW j \in Jobs, Commit(j) PROVE ClientsTyped'
  BY <1>14 DEF Commit, Meets, Fails, CleansUp
<1>15. ASSUME NEW j \in Jobs, Refresh(j) PROVE ClientsTyped'
  BY <1>15 DEF Refresh, Fails, CleansUp
<1>16. ASSUME NEW j \in Jobs, LookInCache(j) PROVE ClientsTyped'
  BY <1>16 DEF LookInCache
<1>17. ASSUME NEW j \in Jobs, LoadNetwork(j) PROVE ClientsTyped'
  BY <1>17 DEF LoadNetwork, Fails, CleansUp
<1>18. ASSUME NEW j \in Jobs, KeepPlot(j) PROVE ClientsTyped'
  BY <1>18 DEF KeepPlot, Kept
<1>19. ASSUME NEW j \in Jobs, Finish(j) PROVE ClientsTyped'
  BY <1>19 DEF Finish, StoresResult
<1>20. ASSUME NEW j \in Jobs, LoseWorker(j) PROVE ClientsTyped'
  BY <1>20 DEF LoseWorker, Meets
<1>21. ASSUME NEW i \in Imports, DeleteNetwork(i) PROVE ClientsTyped'
  BY <1>21 DEF DeleteNetwork
<1>22. ASSUME NEW i \in Imports, Unlink(i) PROVE ClientsTyped'
  BY <1>22 DEF Unlink, Meets, RemovesFile
<1>23. ASSUME Crash PROVE ClientsTyped'
  BY <1>23 DEF Crash, Meets
<1>24. ASSUME DayPasses PROVE ClientsTyped'
  BY <1>24 DEF DayPasses
<1>25. ASSUME Tick PROVE ClientsTyped'
  BY <1>25 DEF Tick
<1>26. ASSUME ClearPlotCache PROVE ClientsTyped'
  BY <1>26 DEF ClearPlotCache, NotCached
<1>27. ASSUME ClearAllCache PROVE ClientsTyped'
  BY <1>27 DEF ClearAllCache, NotCached
<1>28. ASSUME NEW j \in Jobs, SubmitFails(j) PROVE ClientsTyped'
  BY <1>28 DEF SubmitFails, MaySubmit
<1>29. CASE UNCHANGED vars
  BY <1>29 DEF vars
<1> HIDE DEF TasksTyped, ClientsTyped
<1> QED
  BY <1>1, <1>2, <1>3, <1>4, <1>5, <1>6, <1>7, <1>8, <1>9, <1>10, <1>11, <1>12, <1>13, <1>14, <1>15,
     <1>16, <1>17, <1>18, <1>19, <1>20, <1>21, <1>22, <1>23, <1>24, <1>25, <1>26, <1>27,
     <1>28, <1>29
     DEF Next, Ask, Work

\* ... of the cache ...
LEMMA CacheTypedStep ==
  ASSUME TasksInv, [Next]_vars
  PROVE  CacheTyped'
<1> USE BoundsAreNumbers, KindsAreDisjoint
        DEF TasksInv, TypeOK, vars, store, files, plotting, counts, CacheTyped, KindsInv
<1>1. ASSUME NEW j \in Jobs, Upload(j) PROVE CacheTyped'
  BY <1>1 DEF Upload
<1>2. ASSUME NEW j \in Jobs, UploadFails(j) PROVE CacheTyped'
  BY <1>2 DEF UploadFails
<1>3. ASSUME NEW j \in Jobs, Submit(j) PROVE CacheTyped'
  BY <1>3 DEF Submit, MaySubmit, Enqueued
<1>4. ASSUME NEW j \in Jobs, ReadState(j) PROVE CacheTyped'
  BY <1>4 DEF ReadState
<1>5. ASSUME NEW j \in Jobs, Answer(j) PROVE CacheTyped'
  BY <1>5 DEF Answer, Understood, SecondRead
<1>6. ASSUME NEW j \in Jobs, GiveUp(j) PROVE CacheTyped'
  BY <1>6 DEF GiveUp
<1>7. ASSUME NEW j \in Jobs, Start(j) PROVE CacheTyped'
  BY <1>7 DEF Start, FirstStep
<1>8. ASSUME NEW j \in Jobs, FetchUrl(j) PROVE CacheTyped'
  BY <1>8 DEF FetchUrl, Fails, CleansUp
<1>9. ASSUME NEW j \in Jobs, Download(j) PROVE CacheTyped'
  BY <1>9 DEF Download, Fails, CleansUp
<1>10. ASSUME NEW j \in Jobs, CheckUser(j) PROVE CacheTyped'
  BY <1>10 DEF CheckUser, Fails, CleansUp
<1>11. ASSUME NEW j \in Jobs, FindContent(j) PROVE CacheTyped'
  BY <1>11 DEF FindContent
<1>12. ASSUME NEW j \in Jobs, MoveFile(j) PROVE CacheTyped'
  BY <1>12 DEF MoveFile
<1>13. ASSUME NEW j \in Jobs, ReadMetadata(j) PROVE CacheTyped'
  BY <1>13 DEF ReadMetadata, Meets, Fails, CleansUp
<1>14. ASSUME NEW j \in Jobs, Commit(j) PROVE CacheTyped'
  BY <1>14 DEF Commit, Meets, Fails, CleansUp
<1>15. ASSUME NEW j \in Jobs, Refresh(j) PROVE CacheTyped'
  BY <1>15 DEF Refresh, Fails, CleansUp
<1>16. ASSUME NEW j \in Jobs, LookInCache(j) PROVE CacheTyped'
  BY <1>16 DEF LookInCache
<1>17. ASSUME NEW j \in Jobs, LoadNetwork(j) PROVE CacheTyped'
  BY <1>17 DEF LoadNetwork, Fails, CleansUp
<1>18. ASSUME NEW j \in Jobs, KeepPlot(j) PROVE CacheTyped'
  BY <1>18 DEF KeepPlot, Kept
<1>19. ASSUME NEW j \in Jobs, Finish(j) PROVE CacheTyped'
  BY <1>19 DEF Finish, StoresResult
<1>20. ASSUME NEW j \in Jobs, LoseWorker(j) PROVE CacheTyped'
  BY <1>20 DEF LoseWorker, Meets
<1>21. ASSUME NEW i \in Imports, DeleteNetwork(i) PROVE CacheTyped'
  BY <1>21 DEF DeleteNetwork
<1>22. ASSUME NEW i \in Imports, Unlink(i) PROVE CacheTyped'
  BY <1>22 DEF Unlink, Meets, RemovesFile
<1>23. ASSUME Crash PROVE CacheTyped'
  BY <1>23 DEF Crash, Meets
<1>24. ASSUME DayPasses PROVE CacheTyped'
  BY <1>24 DEF DayPasses
<1>25. ASSUME Tick PROVE CacheTyped'
  BY <1>25 DEF Tick
<1>26. ASSUME ClearPlotCache PROVE CacheTyped'
  BY <1>26 DEF ClearPlotCache, NotCached
<1>27. ASSUME ClearAllCache PROVE CacheTyped'
  BY <1>27 DEF ClearAllCache, NotCached
<1>28. ASSUME NEW j \in Jobs, SubmitFails(j) PROVE CacheTyped'
  BY <1>28 DEF SubmitFails, MaySubmit
<1>29. CASE UNCHANGED vars
  BY <1>29 DEF vars
<1> HIDE DEF CacheTyped, KindsInv
<1> QED
  BY <1>1, <1>2, <1>3, <1>4, <1>5, <1>6, <1>7, <1>8, <1>9, <1>10, <1>11, <1>12, <1>13, <1>14, <1>15,
     <1>16, <1>17, <1>18, <1>19, <1>20, <1>21, <1>22, <1>23, <1>24, <1>25, <1>26, <1>27,
     <1>28, <1>29
     DEF Next, Ask, Work

\* ... and of the session.
LEMMA SessionTypedStep ==
  ASSUME TasksInv, [Next]_vars
  PROVE  SessionTyped'
<1> USE BoundsAreNumbers DEF TasksInv, TypeOK, vars, store, files, plotting, counts, SessionTyped
<1>1. ASSUME NEW j \in Jobs, Upload(j) PROVE SessionTyped'
  BY <1>1 DEF Upload
<1>2. ASSUME NEW j \in Jobs, UploadFails(j) PROVE SessionTyped'
  BY <1>2 DEF UploadFails
<1>3. ASSUME NEW j \in Jobs, Submit(j) PROVE SessionTyped'
  BY <1>3 DEF Submit, MaySubmit, Enqueued
<1>4. ASSUME NEW j \in Jobs, ReadState(j) PROVE SessionTyped'
  BY <1>4 DEF ReadState
<1>5. ASSUME NEW j \in Jobs, Answer(j) PROVE SessionTyped'
  BY <1>5 DEF Answer, Understood, SecondRead
<1>6. ASSUME NEW j \in Jobs, GiveUp(j) PROVE SessionTyped'
  BY <1>6 DEF GiveUp
<1>7. ASSUME NEW j \in Jobs, Start(j) PROVE SessionTyped'
  BY <1>7 DEF Start, FirstStep
<1>8. ASSUME NEW j \in Jobs, FetchUrl(j) PROVE SessionTyped'
  BY <1>8 DEF FetchUrl, Fails, CleansUp
<1>9. ASSUME NEW j \in Jobs, Download(j) PROVE SessionTyped'
  BY <1>9 DEF Download, Fails, CleansUp
<1>10. ASSUME NEW j \in Jobs, CheckUser(j) PROVE SessionTyped'
  BY <1>10 DEF CheckUser, Fails, CleansUp
<1>11. ASSUME NEW j \in Jobs, FindContent(j) PROVE SessionTyped'
  BY <1>11 DEF FindContent
<1>12. ASSUME NEW j \in Jobs, MoveFile(j) PROVE SessionTyped'
  BY <1>12 DEF MoveFile
<1>13. ASSUME NEW j \in Jobs, ReadMetadata(j) PROVE SessionTyped'
  BY <1>13 DEF ReadMetadata, Meets, Fails, CleansUp
<1>14. ASSUME NEW j \in Jobs, Commit(j) PROVE SessionTyped'
  BY <1>14 DEF Commit, Meets, Fails, CleansUp
<1>15. ASSUME NEW j \in Jobs, Refresh(j) PROVE SessionTyped'
  BY <1>15 DEF Refresh, Fails, CleansUp
<1>16. ASSUME NEW j \in Jobs, LookInCache(j) PROVE SessionTyped'
  BY <1>16 DEF LookInCache
<1>17. ASSUME NEW j \in Jobs, LoadNetwork(j) PROVE SessionTyped'
  BY <1>17 DEF LoadNetwork, Fails, CleansUp
<1>18. ASSUME NEW j \in Jobs, KeepPlot(j) PROVE SessionTyped'
  BY <1>18 DEF KeepPlot, Kept
<1>19. ASSUME NEW j \in Jobs, Finish(j) PROVE SessionTyped'
  BY <1>19 DEF Finish, StoresResult
<1>20. ASSUME NEW j \in Jobs, LoseWorker(j) PROVE SessionTyped'
  BY <1>20 DEF LoseWorker, Meets
<1>21. ASSUME NEW i \in Imports, DeleteNetwork(i) PROVE SessionTyped'
  BY <1>21 DEF DeleteNetwork
<1>22. ASSUME NEW i \in Imports, Unlink(i) PROVE SessionTyped'
  BY <1>22 DEF Unlink, Meets, RemovesFile
<1>23. ASSUME Crash PROVE SessionTyped'
  BY <1>23 DEF Crash, Meets
<1>24. ASSUME DayPasses PROVE SessionTyped'
  BY <1>24 DEF DayPasses
<1>25. ASSUME Tick PROVE SessionTyped'
  BY <1>25 DEF Tick
<1>26. ASSUME ClearPlotCache PROVE SessionTyped'
  BY <1>26 DEF ClearPlotCache, NotCached
<1>27. ASSUME ClearAllCache PROVE SessionTyped'
  BY <1>27 DEF ClearAllCache, NotCached
<1>28. ASSUME NEW j \in Jobs, SubmitFails(j) PROVE SessionTyped'
  BY <1>28 DEF SubmitFails, MaySubmit
<1>29. CASE UNCHANGED vars
  BY <1>29 DEF vars
<1> HIDE DEF SessionTyped
<1> QED
  BY <1>1, <1>2, <1>3, <1>4, <1>5, <1>6, <1>7, <1>8, <1>9, <1>10, <1>11, <1>12, <1>13, <1>14, <1>15,
     <1>16, <1>17, <1>18, <1>19, <1>20, <1>21, <1>22, <1>23, <1>24, <1>25, <1>26, <1>27,
     <1>28, <1>29
     DEF Next, Ask, Work

\* Each task goes on to a step of its kind.
LEMMA KindsStep ==
  ASSUME TasksInv, [Next]_vars
  PROVE  KindsInv'
<1> USE KindsAreDisjoint
        DEF TasksInv, TypeOK, vars, store, files, plotting, counts, KindsInv, TasksTyped, Goes,
            Working
<1>1. ASSUME NEW j \in Jobs, Upload(j) PROVE KindsInv'
  BY <1>1 DEF Upload
<1>2. ASSUME NEW j \in Jobs, UploadFails(j) PROVE KindsInv'
  BY <1>2 DEF UploadFails
<1>3. ASSUME NEW j \in Jobs, Submit(j) PROVE KindsInv'
  BY <1>3 DEF Submit, MaySubmit, Enqueued
<1>4. ASSUME NEW j \in Jobs, ReadState(j) PROVE KindsInv'
  BY <1>4 DEF ReadState
<1>5. ASSUME NEW j \in Jobs, Answer(j) PROVE KindsInv'
  BY <1>5 DEF Answer, Understood, SecondRead
<1>6. ASSUME NEW j \in Jobs, GiveUp(j) PROVE KindsInv'
  BY <1>6 DEF GiveUp
<1>7. ASSUME NEW j \in Jobs, Start(j) PROVE KindsInv'
  BY <1>7 DEF Start, FirstStep
<1>8. ASSUME NEW j \in Jobs, FetchUrl(j) PROVE KindsInv'
  BY <1>8 DEF FetchUrl, Fails, CleansUp
<1>9. ASSUME NEW j \in Jobs, Download(j) PROVE KindsInv'
  BY <1>9 DEF Download, Fails, CleansUp
<1>10. ASSUME NEW j \in Jobs, CheckUser(j) PROVE KindsInv'
  BY <1>10 DEF CheckUser, Fails, CleansUp
<1>11. ASSUME NEW j \in Jobs, FindContent(j) PROVE KindsInv'
  BY <1>11 DEF FindContent
<1>12. ASSUME NEW j \in Jobs, MoveFile(j) PROVE KindsInv'
  BY <1>12 DEF MoveFile
<1>13. ASSUME NEW j \in Jobs, ReadMetadata(j) PROVE KindsInv'
  BY <1>13 DEF ReadMetadata, Meets, Fails, CleansUp
<1>14. ASSUME NEW j \in Jobs, Commit(j) PROVE KindsInv'
  BY <1>14 DEF Commit, Meets, Fails, CleansUp
<1>15. ASSUME NEW j \in Jobs, Refresh(j) PROVE KindsInv'
  BY <1>15 DEF Refresh, Fails, CleansUp
<1>16. ASSUME NEW j \in Jobs, LookInCache(j) PROVE KindsInv'
  BY <1>16 DEF LookInCache
<1>17. ASSUME NEW j \in Jobs, LoadNetwork(j) PROVE KindsInv'
  BY <1>17 DEF LoadNetwork, Fails, CleansUp
<1>18. ASSUME NEW j \in Jobs, KeepPlot(j) PROVE KindsInv'
  BY <1>18 DEF KeepPlot, Kept
<1>19. ASSUME NEW j \in Jobs, Finish(j) PROVE KindsInv'
  BY <1>19 DEF Finish, StoresResult
<1>20. ASSUME NEW j \in Jobs, LoseWorker(j) PROVE KindsInv'
  BY <1>20 DEF LoseWorker, Meets
<1>21. ASSUME NEW i \in Imports, DeleteNetwork(i) PROVE KindsInv'
  BY <1>21 DEF DeleteNetwork
<1>22. ASSUME NEW i \in Imports, Unlink(i) PROVE KindsInv'
  BY <1>22 DEF Unlink, Meets, RemovesFile
<1>23. ASSUME Crash PROVE KindsInv'
  BY <1>23 DEF Crash, Meets
<1>24. ASSUME DayPasses PROVE KindsInv'
  BY <1>24 DEF DayPasses
<1>25. ASSUME Tick PROVE KindsInv'
  BY <1>25 DEF Tick
<1>26. ASSUME ClearPlotCache PROVE KindsInv'
  BY <1>26 DEF ClearPlotCache, NotCached
<1>27. ASSUME ClearAllCache PROVE KindsInv'
  BY <1>27 DEF ClearAllCache, NotCached
<1>28. ASSUME NEW j \in Jobs, SubmitFails(j) PROVE KindsInv'
  BY <1>28 DEF SubmitFails, MaySubmit
<1>29. CASE UNCHANGED vars
  BY <1>29 DEF vars
<1> HIDE DEF KindsInv, TasksTyped
<1> QED
  BY <1>1, <1>2, <1>3, <1>4, <1>5, <1>6, <1>7, <1>8, <1>9, <1>10, <1>11, <1>12, <1>13, <1>14, <1>15,
     <1>16, <1>17, <1>18, <1>19, <1>20, <1>21, <1>22, <1>23, <1>24, <1>25, <1>26, <1>27,
     <1>28, <1>29
     DEF Next, Ask, Work

\* The queue holds jobs.
LEMMA QueueTypedStep ==
  ASSUME TasksInv, [Next]_vars
  PROVE  (queue \in Seq(Jobs) /\ old \subseteq Jobs)'
<1> USE DEF TasksInv, TypeOK, vars, store, files, plotting, counts
<1>1. ASSUME NEW j \in Jobs, Upload(j) PROVE (queue \in Seq(Jobs) /\ old \subseteq Jobs)'
  BY <1>1 DEF Upload
<1>2. ASSUME NEW j \in Jobs, UploadFails(j) PROVE (queue \in Seq(Jobs) /\ old \subseteq Jobs)'
  BY <1>2 DEF UploadFails
<1>3. ASSUME NEW j \in Jobs, Submit(j) PROVE (queue \in Seq(Jobs) /\ old \subseteq Jobs)'
  BY <1>3 DEF Submit, MaySubmit, Enqueued
<1>4. ASSUME NEW j \in Jobs, ReadState(j) PROVE (queue \in Seq(Jobs) /\ old \subseteq Jobs)'
  BY <1>4 DEF ReadState
<1>5. ASSUME NEW j \in Jobs, Answer(j) PROVE (queue \in Seq(Jobs) /\ old \subseteq Jobs)'
  BY <1>5 DEF Answer, Understood, SecondRead
<1>6. ASSUME NEW j \in Jobs, GiveUp(j) PROVE (queue \in Seq(Jobs) /\ old \subseteq Jobs)'
  BY <1>6 DEF GiveUp
<1>7. ASSUME NEW j \in Jobs, Start(j) PROVE (queue \in Seq(Jobs) /\ old \subseteq Jobs)'
  <2>1. PICK k \in 1..Len(queue) : queue[k] = j /\ queue' = RemoveAt(queue, k)
    BY <1>7 DEF Start
  <2> QED
    BY <1>7, <2>1, RemoveAtKeepsOthers DEF Start, QueueInv
<1>8. ASSUME NEW j \in Jobs, FetchUrl(j) PROVE (queue \in Seq(Jobs) /\ old \subseteq Jobs)'
  BY <1>8 DEF FetchUrl, Fails, CleansUp
<1>9. ASSUME NEW j \in Jobs, Download(j) PROVE (queue \in Seq(Jobs) /\ old \subseteq Jobs)'
  BY <1>9 DEF Download, Fails, CleansUp
<1>10. ASSUME NEW j \in Jobs, CheckUser(j) PROVE (queue \in Seq(Jobs) /\ old \subseteq Jobs)'
  BY <1>10 DEF CheckUser, Fails, CleansUp
<1>11. ASSUME NEW j \in Jobs, FindContent(j) PROVE (queue \in Seq(Jobs) /\ old \subseteq Jobs)'
  BY <1>11 DEF FindContent
<1>12. ASSUME NEW j \in Jobs, MoveFile(j) PROVE (queue \in Seq(Jobs) /\ old \subseteq Jobs)'
  BY <1>12 DEF MoveFile
<1>13. ASSUME NEW j \in Jobs, ReadMetadata(j) PROVE (queue \in Seq(Jobs) /\ old \subseteq Jobs)'
  BY <1>13 DEF ReadMetadata, Meets, Fails, CleansUp
<1>14. ASSUME NEW j \in Jobs, Commit(j) PROVE (queue \in Seq(Jobs) /\ old \subseteq Jobs)'
  BY <1>14 DEF Commit, Meets, Fails, CleansUp
<1>15. ASSUME NEW j \in Jobs, Refresh(j) PROVE (queue \in Seq(Jobs) /\ old \subseteq Jobs)'
  BY <1>15 DEF Refresh, Fails, CleansUp
<1>16. ASSUME NEW j \in Jobs, LookInCache(j) PROVE (queue \in Seq(Jobs) /\ old \subseteq Jobs)'
  BY <1>16 DEF LookInCache
<1>17. ASSUME NEW j \in Jobs, LoadNetwork(j) PROVE (queue \in Seq(Jobs) /\ old \subseteq Jobs)'
  BY <1>17 DEF LoadNetwork, Fails, CleansUp
<1>18. ASSUME NEW j \in Jobs, KeepPlot(j) PROVE (queue \in Seq(Jobs) /\ old \subseteq Jobs)'
  BY <1>18 DEF KeepPlot, Kept
<1>19. ASSUME NEW j \in Jobs, Finish(j) PROVE (queue \in Seq(Jobs) /\ old \subseteq Jobs)'
  BY <1>19 DEF Finish, StoresResult
<1>20. ASSUME NEW j \in Jobs, LoseWorker(j) PROVE (queue \in Seq(Jobs) /\ old \subseteq Jobs)'
  BY <1>20 DEF LoseWorker, Meets
<1>21. ASSUME NEW i \in Imports, DeleteNetwork(i) PROVE (queue \in Seq(Jobs) /\ old \subseteq Jobs)'
  BY <1>21 DEF DeleteNetwork
<1>22. ASSUME NEW i \in Imports, Unlink(i) PROVE (queue \in Seq(Jobs) /\ old \subseteq Jobs)'
  BY <1>22 DEF Unlink, Meets, RemovesFile
<1>23. ASSUME Crash PROVE (queue \in Seq(Jobs) /\ old \subseteq Jobs)'
  <2>1. CASE Memory
    BY <1>23, <2>1, EmptySeq DEF Crash
  <2>2. CASE ~Memory
    BY <1>23, <2>2 DEF Crash
  <2> QED
    BY <2>1, <2>2
<1>24. ASSUME DayPasses PROVE (queue \in Seq(Jobs) /\ old \subseteq Jobs)'
  BY <1>24 DEF DayPasses
<1>25. ASSUME Tick PROVE (queue \in Seq(Jobs) /\ old \subseteq Jobs)'
  BY <1>25 DEF Tick
<1>26. ASSUME ClearPlotCache PROVE (queue \in Seq(Jobs) /\ old \subseteq Jobs)'
  BY <1>26 DEF ClearPlotCache, NotCached
<1>27. ASSUME ClearAllCache PROVE (queue \in Seq(Jobs) /\ old \subseteq Jobs)'
  BY <1>27 DEF ClearAllCache, NotCached
<1>28. ASSUME NEW j \in Jobs, SubmitFails(j) PROVE (queue \in Seq(Jobs) /\ old \subseteq Jobs)'
  BY <1>28 DEF SubmitFails, MaySubmit
<1>29. CASE UNCHANGED vars
  BY <1>29 DEF vars
<1> QED
  BY <1>1, <1>2, <1>3, <1>4, <1>5, <1>6, <1>7, <1>8, <1>9, <1>10, <1>11, <1>12, <1>13, <1>14, <1>15,
     <1>16, <1>17, <1>18, <1>19, <1>20, <1>21, <1>22, <1>23, <1>24, <1>25, <1>26, <1>27,
     <1>28, <1>29
     DEF Next, Ask, Work

\* A task is put into the queue when it is not there, and taken out of it to run.
LEMMA QueueStep ==
  ASSUME TasksInv, [Next]_vars
  PROVE  QueueInv'
<1> USE DEF TasksInv, TypeOK, vars, store, files, plotting, counts, QueueInv, TasksTyped, Goes,
            Working, Busy
<1>1. ASSUME NEW j \in Jobs, Upload(j) PROVE QueueInv'
  BY <1>1 DEF Upload
<1>2. ASSUME NEW j \in Jobs, UploadFails(j) PROVE QueueInv'
  BY <1>2 DEF UploadFails
<1>3. ASSUME NEW j \in Jobs, Submit(j) PROVE QueueInv'
  <2>1. CASE queue' = Append(queue, j)
    <3>1. /\ Len(queue') = Len(queue) + 1 /\ queue'[Len(queue)+1] = j
          /\ \A k \in 1..Len(queue) : queue'[k] = queue[k]
      BY <2>1
    <3>2. at[j] # "queued" /\ at' = [at EXCEPT ![j] = "queued"]
      BY <1>3, <2>1 DEF Submit, MaySubmit, Enqueued
    <3> QED
      BY <3>1, <3>2
  <2>2. CASE ~(queue' = Append(queue, j))
    BY <1>3, <2>2 DEF Submit, MaySubmit, Enqueued
  <2> QED
    BY <2>1, <2>2
<1>4. ASSUME NEW j \in Jobs, ReadState(j) PROVE QueueInv'
  BY <1>4 DEF ReadState
<1>5. ASSUME NEW j \in Jobs, Answer(j) PROVE QueueInv'
  BY <1>5 DEF Answer, Understood, SecondRead
<1>6. ASSUME NEW j \in Jobs, GiveUp(j) PROVE QueueInv'
  BY <1>6 DEF GiveUp
<1>7. ASSUME NEW j \in Jobs, Start(j) PROVE QueueInv'
  <2>1. PICK k \in 1..Len(queue) : queue[k] = j /\ queue' = RemoveAt(queue, k)
    BY <1>7 DEF Start
  <2>2. /\ queue' \in Seq(Jobs)
        /\ \A a \in 1..Len(queue') :
              (\E b \in 1..Len(queue) : queue'[a] = queue[b]) /\ queue'[a] # j
        /\ \A a, b \in 1..Len(queue') : queue'[a] = queue'[b] => a = b
    BY <2>1, RemoveAtKeepsOthers
  <2>3. \A l \in Jobs : l # j => at'[l] = at[l]
    BY <1>7 DEF Start
  <2>4. \A a \in 1..Len(queue') : queue'[a] \in Jobs
    BY <2>2
  <2> QED
    BY <2>2, <2>3, <2>4
<1>8. ASSUME NEW j \in Jobs, FetchUrl(j) PROVE QueueInv'
  BY <1>8 DEF FetchUrl, Fails, CleansUp
<1>9. ASSUME NEW j \in Jobs, Download(j) PROVE QueueInv'
  BY <1>9 DEF Download, Fails, CleansUp
<1>10. ASSUME NEW j \in Jobs, CheckUser(j) PROVE QueueInv'
  BY <1>10 DEF CheckUser, Fails, CleansUp
<1>11. ASSUME NEW j \in Jobs, FindContent(j) PROVE QueueInv'
  BY <1>11 DEF FindContent
<1>12. ASSUME NEW j \in Jobs, MoveFile(j) PROVE QueueInv'
  BY <1>12 DEF MoveFile
<1>13. ASSUME NEW j \in Jobs, ReadMetadata(j) PROVE QueueInv'
  BY <1>13 DEF ReadMetadata, Meets, Fails, CleansUp
<1>14. ASSUME NEW j \in Jobs, Commit(j) PROVE QueueInv'
  BY <1>14 DEF Commit, Meets, Fails, CleansUp
<1>15. ASSUME NEW j \in Jobs, Refresh(j) PROVE QueueInv'
  BY <1>15 DEF Refresh, Fails, CleansUp
<1>16. ASSUME NEW j \in Jobs, LookInCache(j) PROVE QueueInv'
  BY <1>16 DEF LookInCache
<1>17. ASSUME NEW j \in Jobs, LoadNetwork(j) PROVE QueueInv'
  BY <1>17 DEF LoadNetwork, Fails, CleansUp
<1>18. ASSUME NEW j \in Jobs, KeepPlot(j) PROVE QueueInv'
  BY <1>18 DEF KeepPlot, Kept
<1>19. ASSUME NEW j \in Jobs, Finish(j) PROVE QueueInv'
  BY <1>19 DEF Finish, StoresResult
<1>20. ASSUME NEW j \in Jobs, LoseWorker(j) PROVE QueueInv'
  <2>1. CASE queue' = Append(queue, j)
    <3>1. /\ Len(queue') = Len(queue) + 1 /\ queue'[Len(queue)+1] = j
          /\ \A k \in 1..Len(queue) : queue'[k] = queue[k]
      BY <2>1
    <3>2. at[j] # "queued" /\ at' = [at EXCEPT ![j] = "queued"]
      BY <1>20, <2>1 DEF LoseWorker
    <3> QED
      BY <3>1, <3>2
  <2>2. CASE ~(queue' = Append(queue, j))
    BY <1>20, <2>2 DEF LoseWorker
  <2> QED
    BY <2>1, <2>2
<1>21. ASSUME NEW i \in Imports, DeleteNetwork(i) PROVE QueueInv'
  BY <1>21 DEF DeleteNetwork
<1>22. ASSUME NEW i \in Imports, Unlink(i) PROVE QueueInv'
  BY <1>22 DEF Unlink, Meets, RemovesFile
<1>23. ASSUME Crash PROVE QueueInv'
  BY <1>23 DEF Crash, Meets
<1>24. ASSUME DayPasses PROVE QueueInv'
  BY <1>24 DEF DayPasses
<1>25. ASSUME Tick PROVE QueueInv'
  BY <1>25 DEF Tick
<1>26. ASSUME ClearPlotCache PROVE QueueInv'
  BY <1>26 DEF ClearPlotCache, NotCached
<1>27. ASSUME ClearAllCache PROVE QueueInv'
  BY <1>27 DEF ClearAllCache, NotCached
<1>28. ASSUME NEW j \in Jobs, SubmitFails(j) PROVE QueueInv'
  BY <1>28 DEF SubmitFails, MaySubmit
<1>29. CASE UNCHANGED vars
  BY <1>29 DEF vars
<1> HIDE DEF QueueInv, TasksTyped
<1> QED
  BY <1>1, <1>2, <1>3, <1>4, <1>5, <1>6, <1>7, <1>8, <1>9, <1>10, <1>11, <1>12, <1>13, <1>14, <1>15,
     <1>16, <1>17, <1>18, <1>19, <1>20, <1>21, <1>22, <1>23, <1>24, <1>25, <1>26, <1>27,
     <1>28, <1>29
     DEF Next, Ask, Work

\* Only a fresh file is moved, and only once.
LEMMA FreshStep ==
  ASSUME TasksInv, [Next]_vars
  PROVE  FreshInv'
<1> USE KindsAreDisjoint
        DEF TasksInv, TypeOK, vars, store, files, plotting, counts, KindsInv, FreshInv, TempInv,
            MovedInv, QueueInv, TasksTyped, FilesTyped, Goes, Working, Busy
<1>1. ASSUME NEW j \in Jobs, Upload(j) PROVE FreshInv'
  BY <1>1 DEF Upload
<1>2. ASSUME NEW j \in Jobs, UploadFails(j) PROVE FreshInv'
  BY <1>2 DEF UploadFails
<1>3. ASSUME NEW j \in Jobs, Submit(j) PROVE FreshInv'
  BY <1>3 DEF Submit, MaySubmit, Enqueued
<1>4. ASSUME NEW j \in Jobs, ReadState(j) PROVE FreshInv'
  BY <1>4 DEF ReadState
<1>5. ASSUME NEW j \in Jobs, Answer(j) PROVE FreshInv'
  BY <1>5 DEF Answer, Understood, SecondRead
<1>6. ASSUME NEW j \in Jobs, GiveUp(j) PROVE FreshInv'
  BY <1>6 DEF GiveUp
<1>7. ASSUME NEW j \in Jobs, Start(j) PROVE FreshInv'
  BY <1>7 DEF Start, FirstStep
<1>8. ASSUME NEW j \in Jobs, FetchUrl(j) PROVE FreshInv'
  BY <1>8 DEF FetchUrl, Fails, CleansUp
<1>9. ASSUME NEW j \in Jobs, Download(j) PROVE FreshInv'
  BY <1>9 DEF Download, Fails, CleansUp
<1>10. ASSUME NEW j \in Jobs, CheckUser(j) PROVE FreshInv'
  BY <1>10 DEF CheckUser, Fails, CleansUp
<1>11. ASSUME NEW j \in Jobs, FindContent(j) PROVE FreshInv'
  BY <1>11 DEF FindContent
<1>12. ASSUME NEW j \in Jobs, MoveFile(j) PROVE FreshInv'
  BY <1>12 DEF MoveFile
<1>13. ASSUME NEW j \in Jobs, ReadMetadata(j) PROVE FreshInv'
  BY <1>13 DEF ReadMetadata, Meets, Fails, CleansUp
<1>14. ASSUME NEW j \in Jobs, Commit(j) PROVE FreshInv'
  BY <1>14 DEF Commit, Meets, Fails, CleansUp
<1>15. ASSUME NEW j \in Jobs, Refresh(j) PROVE FreshInv'
  BY <1>15 DEF Refresh, Fails, CleansUp
<1>16. ASSUME NEW j \in Jobs, LookInCache(j) PROVE FreshInv'
  BY <1>16 DEF LookInCache
<1>17. ASSUME NEW j \in Jobs, LoadNetwork(j) PROVE FreshInv'
  BY <1>17 DEF LoadNetwork, Fails, CleansUp
<1>18. ASSUME NEW j \in Jobs, KeepPlot(j) PROVE FreshInv'
  BY <1>18 DEF KeepPlot, Kept
<1>19. ASSUME NEW j \in Jobs, Finish(j) PROVE FreshInv'
  BY <1>19 DEF Finish, StoresResult
<1>20. ASSUME NEW j \in Jobs, LoseWorker(j) PROVE FreshInv'
  BY <1>20 DEF LoseWorker, Meets
<1>21. ASSUME NEW i \in Imports, DeleteNetwork(i) PROVE FreshInv'
  BY <1>21 DEF DeleteNetwork
<1>22. ASSUME NEW i \in Imports, Unlink(i) PROVE FreshInv'
  BY <1>22 DEF Unlink, Meets, RemovesFile
<1>23. ASSUME Crash PROVE FreshInv'
  BY <1>23 DEF Crash, Meets
<1>24. ASSUME DayPasses PROVE FreshInv'
  BY <1>24 DEF DayPasses
<1>25. ASSUME Tick PROVE FreshInv'
  BY <1>25 DEF Tick
<1>26. ASSUME ClearPlotCache PROVE FreshInv'
  BY <1>26 DEF ClearPlotCache, NotCached
<1>27. ASSUME ClearAllCache PROVE FreshInv'
  BY <1>27 DEF ClearAllCache, NotCached
<1>28. ASSUME NEW j \in Jobs, SubmitFails(j) PROVE FreshInv'
  BY <1>28 DEF SubmitFails, MaySubmit
<1>29. CASE UNCHANGED vars
  BY <1>29 DEF vars
<1> HIDE DEF KindsInv, FreshInv, TempInv, MovedInv, QueueInv, TasksTyped, FilesTyped
<1> QED
  BY <1>1, <1>2, <1>3, <1>4, <1>5, <1>6, <1>7, <1>8, <1>9, <1>10, <1>11, <1>12, <1>13, <1>14, <1>15,
     <1>16, <1>17, <1>18, <1>19, <1>20, <1>21, <1>22, <1>23, <1>24, <1>25, <1>26, <1>27,
     <1>28, <1>29
     DEF Next, Ask, Work

\* However an import ends, its temporary file goes with it.
LEMMA TempStep ==
  ASSUME TasksInv, [Next]_vars
  PROVE  TempInv'
<1> USE KindsAreDisjoint
        DEF TasksInv, TypeOK, vars, store, files, plotting, counts, KindsInv, FreshInv, TempInv,
            QueueInv, TasksTyped, FilesTyped, Goes, Working
<1>1. ASSUME NEW j \in Jobs, Upload(j) PROVE TempInv'
  BY <1>1 DEF Upload
<1>2. ASSUME NEW j \in Jobs, UploadFails(j) PROVE TempInv'
  BY <1>2 DEF UploadFails
<1>3. ASSUME NEW j \in Jobs, Submit(j) PROVE TempInv'
  BY <1>3 DEF Submit, MaySubmit, Enqueued
<1>4. ASSUME NEW j \in Jobs, ReadState(j) PROVE TempInv'
  BY <1>4 DEF ReadState
<1>5. ASSUME NEW j \in Jobs, Answer(j) PROVE TempInv'
  BY <1>5 DEF Answer, Understood, SecondRead
<1>6. ASSUME NEW j \in Jobs, GiveUp(j) PROVE TempInv'
  BY <1>6 DEF GiveUp
<1>7. ASSUME NEW j \in Jobs, Start(j) PROVE TempInv'
  BY <1>7 DEF Start, FirstStep
<1>8. ASSUME NEW j \in Jobs, FetchUrl(j) PROVE TempInv'
  BY <1>8 DEF FetchUrl, Fails, CleansUp
<1>9. ASSUME NEW j \in Jobs, Download(j) PROVE TempInv'
  BY <1>9 DEF Download, Fails, CleansUp
<1>10. ASSUME NEW j \in Jobs, CheckUser(j) PROVE TempInv'
  BY <1>10 DEF CheckUser, Fails, CleansUp
<1>11. ASSUME NEW j \in Jobs, FindContent(j) PROVE TempInv'
  BY <1>11 DEF FindContent
<1>12. ASSUME NEW j \in Jobs, MoveFile(j) PROVE TempInv'
  BY <1>12 DEF MoveFile
<1>13. ASSUME NEW j \in Jobs, ReadMetadata(j) PROVE TempInv'
  BY <1>13 DEF ReadMetadata, Meets, Fails, CleansUp
<1>14. ASSUME NEW j \in Jobs, Commit(j) PROVE TempInv'
  BY <1>14 DEF Commit, Meets, Fails, CleansUp
<1>15. ASSUME NEW j \in Jobs, Refresh(j) PROVE TempInv'
  BY <1>15 DEF Refresh, Fails, CleansUp
<1>16. ASSUME NEW j \in Jobs, LookInCache(j) PROVE TempInv'
  BY <1>16 DEF LookInCache
<1>17. ASSUME NEW j \in Jobs, LoadNetwork(j) PROVE TempInv'
  BY <1>17 DEF LoadNetwork, Fails, CleansUp
<1>18. ASSUME NEW j \in Jobs, KeepPlot(j) PROVE TempInv'
  BY <1>18 DEF KeepPlot, Kept
<1>19. ASSUME NEW j \in Jobs, Finish(j) PROVE TempInv'
  BY <1>19 DEF Finish, StoresResult
<1>20. ASSUME NEW j \in Jobs, LoseWorker(j) PROVE TempInv'
  BY <1>20 DEF LoseWorker, Meets
<1>21. ASSUME NEW i \in Imports, DeleteNetwork(i) PROVE TempInv'
  BY <1>21 DEF DeleteNetwork
<1>22. ASSUME NEW i \in Imports, Unlink(i) PROVE TempInv'
  BY <1>22 DEF Unlink, Meets, RemovesFile
<1>23. ASSUME Crash PROVE TempInv'
  BY <1>23 DEF Crash, Meets
<1>24. ASSUME DayPasses PROVE TempInv'
  BY <1>24 DEF DayPasses
<1>25. ASSUME Tick PROVE TempInv'
  BY <1>25 DEF Tick
<1>26. ASSUME ClearPlotCache PROVE TempInv'
  BY <1>26 DEF ClearPlotCache, NotCached
<1>27. ASSUME ClearAllCache PROVE TempInv'
  BY <1>27 DEF ClearAllCache, NotCached
<1>28. ASSUME NEW j \in Jobs, SubmitFails(j) PROVE TempInv'
  BY <1>28 DEF SubmitFails, MaySubmit
<1>29. CASE UNCHANGED vars
  BY <1>29 DEF vars
<1> HIDE DEF KindsInv, FreshInv, TempInv, QueueInv, TasksTyped, FilesTyped
<1> QED
  BY <1>1, <1>2, <1>3, <1>4, <1>5, <1>6, <1>7, <1>8, <1>9, <1>10, <1>11, <1>12, <1>13, <1>14, <1>15,
     <1>16, <1>17, <1>18, <1>19, <1>20, <1>21, <1>22, <1>23, <1>24, <1>25, <1>26, <1>27,
     <1>28, <1>29
     DEF Next, Ask, Work

\* A file is in the data directory before its row is, and goes after it.
LEMMA MovedStep ==
  ASSUME TasksInv, [Next]_vars
  PROVE  MovedInv'
<1> USE KindsAreDisjoint
        DEF TasksInv, TypeOK, vars, store, files, plotting, counts, KindsInv, FreshInv, TempInv,
            MovedInv, QueueInv, TasksTyped, FilesTyped, Goes, Working
<1>1. ASSUME NEW j \in Jobs, Upload(j) PROVE MovedInv'
  BY <1>1 DEF Upload
<1>2. ASSUME NEW j \in Jobs, UploadFails(j) PROVE MovedInv'
  BY <1>2 DEF UploadFails
<1>3. ASSUME NEW j \in Jobs, Submit(j) PROVE MovedInv'
  BY <1>3 DEF Submit, MaySubmit, Enqueued
<1>4. ASSUME NEW j \in Jobs, ReadState(j) PROVE MovedInv'
  BY <1>4 DEF ReadState
<1>5. ASSUME NEW j \in Jobs, Answer(j) PROVE MovedInv'
  BY <1>5 DEF Answer, Understood, SecondRead
<1>6. ASSUME NEW j \in Jobs, GiveUp(j) PROVE MovedInv'
  BY <1>6 DEF GiveUp
<1>7. ASSUME NEW j \in Jobs, Start(j) PROVE MovedInv'
  BY <1>7 DEF Start, FirstStep
<1>8. ASSUME NEW j \in Jobs, FetchUrl(j) PROVE MovedInv'
  BY <1>8 DEF FetchUrl, Fails, CleansUp
<1>9. ASSUME NEW j \in Jobs, Download(j) PROVE MovedInv'
  BY <1>9 DEF Download, Fails, CleansUp
<1>10. ASSUME NEW j \in Jobs, CheckUser(j) PROVE MovedInv'
  BY <1>10 DEF CheckUser, Fails, CleansUp
<1>11. ASSUME NEW j \in Jobs, FindContent(j) PROVE MovedInv'
  BY <1>11 DEF FindContent
<1>12. ASSUME NEW j \in Jobs, MoveFile(j) PROVE MovedInv'
  BY <1>12 DEF MoveFile
<1>13. ASSUME NEW j \in Jobs, ReadMetadata(j) PROVE MovedInv'
  <2>1. CASE Content[j] \in Unreadable
    <3>1. /\ at' = [at EXCEPT ![j] = "finish"] /\ "unreadable" \in met'
          /\ UNCHANGED <<stored, rows, deleting, deleted>>
      BY <1>13, <2>1 DEF ReadMetadata, Meets, Fails
    <3> QED
      BY <3>1
  <2>2. CASE Content[j] \notin Unreadable
    BY <1>13, <2>2 DEF ReadMetadata
  <2> QED
    BY <2>1, <2>2
<1>14. ASSUME NEW j \in Jobs, Commit(j) PROVE MovedInv'
  BY <1>14 DEF Commit, Meets, Fails, CleansUp
<1>15. ASSUME NEW j \in Jobs, Refresh(j) PROVE MovedInv'
  BY <1>15 DEF Refresh, Fails, CleansUp
<1>16. ASSUME NEW j \in Jobs, LookInCache(j) PROVE MovedInv'
  BY <1>16 DEF LookInCache
<1>17. ASSUME NEW j \in Jobs, LoadNetwork(j) PROVE MovedInv'
  BY <1>17 DEF LoadNetwork, Fails, CleansUp
<1>18. ASSUME NEW j \in Jobs, KeepPlot(j) PROVE MovedInv'
  BY <1>18 DEF KeepPlot, Kept
<1>19. ASSUME NEW j \in Jobs, Finish(j) PROVE MovedInv'
  BY <1>19 DEF Finish, StoresResult
<1>20. ASSUME NEW j \in Jobs, LoseWorker(j) PROVE MovedInv'
  BY <1>20 DEF LoseWorker, Meets
<1>21. ASSUME NEW i \in Imports, DeleteNetwork(i) PROVE MovedInv'
  BY <1>21 DEF DeleteNetwork
<1>22. ASSUME NEW i \in Imports, Unlink(i) PROVE MovedInv'
  <2>1. /\ i \in deleting /\ i \in deleted /\ i \notin rows
        /\ at' = at /\ rows' = rows /\ deleted' = deleted /\ deleting' = deleting \ {i}
    BY <1>22 DEF Unlink
  <2>2. CASE stored' = stored \ {i} /\ met' = met
    BY <2>1, <2>2
  <2>3. CASE stored' = stored /\ "unreadable" \in met'
    BY <2>1, <2>3
  <2> QED
    BY <1>22, <2>2, <2>3 DEF Unlink, Meets, RemovesFile
<1>23. ASSUME Crash PROVE MovedInv'
  BY <1>23 DEF Crash, Meets
<1>24. ASSUME DayPasses PROVE MovedInv'
  BY <1>24 DEF DayPasses
<1>25. ASSUME Tick PROVE MovedInv'
  BY <1>25 DEF Tick
<1>26. ASSUME ClearPlotCache PROVE MovedInv'
  BY <1>26 DEF ClearPlotCache, NotCached
<1>27. ASSUME ClearAllCache PROVE MovedInv'
  BY <1>27 DEF ClearAllCache, NotCached
<1>28. ASSUME NEW j \in Jobs, SubmitFails(j) PROVE MovedInv'
  BY <1>28 DEF SubmitFails, MaySubmit
<1>29. CASE UNCHANGED vars
  BY <1>29 DEF vars
<1> HIDE DEF KindsInv, FreshInv, TempInv, MovedInv, QueueInv, TasksTyped, FilesTyped
<1> QED
  BY <1>1, <1>2, <1>3, <1>4, <1>5, <1>6, <1>7, <1>8, <1>9, <1>10, <1>11, <1>12, <1>13, <1>14, <1>15,
     <1>16, <1>17, <1>18, <1>19, <1>20, <1>21, <1>22, <1>23, <1>24, <1>25, <1>26, <1>27,
     <1>28, <1>29
     DEF Next, Ask, Work

\* What a task found stays true until it says so, and nobody overwrites what it said.
LEMMA ResultStep ==
  ASSUME TasksInv, [Next]_vars
  PROVE  ResultInv'
<1> USE KindsAreDisjoint
        DEF TasksInv, TypeOK, vars, store, files, plotting, counts, KindsInv, FreshInv, MovedInv,
            ResultInv, QueueInv, TasksTyped, FilesTyped, Goes, Working, Busy, IsGood
<1>1. ASSUME NEW j \in Jobs, Upload(j) PROVE ResultInv'
  BY <1>1 DEF Upload
<1>2. ASSUME NEW j \in Jobs, UploadFails(j) PROVE ResultInv'
  BY <1>2 DEF UploadFails
<1>3. ASSUME NEW j \in Jobs, Submit(j) PROVE ResultInv'
  BY <1>3 DEF Submit, MaySubmit, Enqueued
<1>4. ASSUME NEW j \in Jobs, ReadState(j) PROVE ResultInv'
  BY <1>4 DEF ReadState
<1>5. ASSUME NEW j \in Jobs, Answer(j) PROVE ResultInv'
  BY <1>5 DEF Answer, Understood, SecondRead
<1>6. ASSUME NEW j \in Jobs, GiveUp(j) PROVE ResultInv'
  BY <1>6 DEF GiveUp
<1>7. ASSUME NEW j \in Jobs, Start(j) PROVE ResultInv'
  BY <1>7 DEF Start, FirstStep
<1>8. ASSUME NEW j \in Jobs, FetchUrl(j) PROVE ResultInv'
  BY <1>8 DEF FetchUrl, Fails, CleansUp
<1>9. ASSUME NEW j \in Jobs, Download(j) PROVE ResultInv'
  BY <1>9 DEF Download, Fails, CleansUp
<1>10. ASSUME NEW j \in Jobs, CheckUser(j) PROVE ResultInv'
  BY <1>10 DEF CheckUser, Fails, CleansUp
<1>11. ASSUME NEW j \in Jobs, FindContent(j) PROVE ResultInv'
  BY <1>11 DEF FindContent
<1>12. ASSUME NEW j \in Jobs, MoveFile(j) PROVE ResultInv'
  BY <1>12 DEF MoveFile
<1>13. ASSUME NEW j \in Jobs, ReadMetadata(j) PROVE ResultInv'
  BY <1>13 DEF ReadMetadata, Meets, Fails, CleansUp
<1>14. ASSUME NEW j \in Jobs, Commit(j) PROVE ResultInv'
  BY <1>14 DEF Commit, Meets, Fails, CleansUp
<1>15. ASSUME NEW j \in Jobs, Refresh(j) PROVE ResultInv'
  BY <1>15 DEF Refresh, Fails, CleansUp
<1>16. ASSUME NEW j \in Jobs, LookInCache(j) PROVE ResultInv'
  BY <1>16 DEF LookInCache
<1>17. ASSUME NEW j \in Jobs, LoadNetwork(j) PROVE ResultInv'
  BY <1>17 DEF LoadNetwork, Fails, CleansUp
<1>18. ASSUME NEW j \in Jobs, KeepPlot(j) PROVE ResultInv'
  BY <1>18 DEF KeepPlot, Kept
<1>19. ASSUME NEW j \in Jobs, Finish(j) PROVE ResultInv'
  BY <1>19 DEF Finish, StoresResult
<1>20. ASSUME NEW j \in Jobs, LoseWorker(j) PROVE ResultInv'
  BY <1>20 DEF LoseWorker, Meets
<1>21. ASSUME NEW i \in Imports, DeleteNetwork(i) PROVE ResultInv'
  BY <1>21 DEF DeleteNetwork
<1>22. ASSUME NEW i \in Imports, Unlink(i) PROVE ResultInv'
  BY <1>22 DEF Unlink, Meets, RemovesFile
<1>23. ASSUME Crash PROVE ResultInv'
  BY <1>23 DEF Crash, Meets
<1>24. ASSUME DayPasses PROVE ResultInv'
  BY <1>24 DEF DayPasses
<1>25. ASSUME Tick PROVE ResultInv'
  BY <1>25 DEF Tick
<1>26. ASSUME ClearPlotCache PROVE ResultInv'
  BY <1>26 DEF ClearPlotCache, NotCached
<1>27. ASSUME ClearAllCache PROVE ResultInv'
  BY <1>27 DEF ClearAllCache, NotCached
<1>28. ASSUME NEW j \in Jobs, SubmitFails(j) PROVE ResultInv'
  BY <1>28 DEF SubmitFails, MaySubmit
<1>29. CASE UNCHANGED vars
  BY <1>29 DEF vars
<1> HIDE DEF KindsInv, FreshInv, MovedInv, ResultInv, QueueInv, IsGood
<1> QED
  BY <1>1, <1>2, <1>3, <1>4, <1>5, <1>6, <1>7, <1>8, <1>9, <1>10, <1>11, <1>12, <1>13, <1>14, <1>15,
     <1>16, <1>17, <1>18, <1>19, <1>20, <1>21, <1>22, <1>23, <1>24, <1>25, <1>26, <1>27,
     <1>28, <1>29
     DEF Next, Ask, Work

\* A client is told what the task said.
LEMMA PollStep ==
  ASSUME TasksInv, [Next]_vars
  PROVE  PollInv'
<1> USE KindsAreDisjoint
        DEF TasksInv, TypeOK, vars, store, files, plotting, counts, KindsInv, ResultInv, PollInv,
            QueueInv, FilesTyped, TasksTyped, ClientsTyped, Goes, Working, Busy, IsGood
<1>1. ASSUME NEW j \in Jobs, Upload(j) PROVE PollInv'
  BY <1>1 DEF Upload
<1>2. ASSUME NEW j \in Jobs, UploadFails(j) PROVE PollInv'
  BY <1>2 DEF UploadFails
<1>3. ASSUME NEW j \in Jobs, Submit(j) PROVE PollInv'
  BY <1>3 DEF Submit, MaySubmit, Enqueued
<1>4. ASSUME NEW j \in Jobs, ReadState(j) PROVE PollInv'
  BY <1>4 DEF ReadState
<1>5. ASSUME NEW j \in Jobs, Answer(j) PROVE PollInv'
  BY <1>5 DEF Answer, Understood, SecondRead
<1>6. ASSUME NEW j \in Jobs, GiveUp(j) PROVE PollInv'
  BY <1>6 DEF GiveUp
<1>7. ASSUME NEW j \in Jobs, Start(j) PROVE PollInv'
  BY <1>7 DEF Start, FirstStep
<1>8. ASSUME NEW j \in Jobs, FetchUrl(j) PROVE PollInv'
  BY <1>8 DEF FetchUrl, Fails, CleansUp
<1>9. ASSUME NEW j \in Jobs, Download(j) PROVE PollInv'
  BY <1>9 DEF Download, Fails, CleansUp
<1>10. ASSUME NEW j \in Jobs, CheckUser(j) PROVE PollInv'
  BY <1>10 DEF CheckUser, Fails, CleansUp
<1>11. ASSUME NEW j \in Jobs, FindContent(j) PROVE PollInv'
  BY <1>11 DEF FindContent
<1>12. ASSUME NEW j \in Jobs, MoveFile(j) PROVE PollInv'
  BY <1>12 DEF MoveFile
<1>13. ASSUME NEW j \in Jobs, ReadMetadata(j) PROVE PollInv'
  BY <1>13 DEF ReadMetadata, Meets, Fails, CleansUp
<1>14. ASSUME NEW j \in Jobs, Commit(j) PROVE PollInv'
  BY <1>14 DEF Commit, Meets, Fails, CleansUp
<1>15. ASSUME NEW j \in Jobs, Refresh(j) PROVE PollInv'
  BY <1>15 DEF Refresh, Fails, CleansUp
<1>16. ASSUME NEW j \in Jobs, LookInCache(j) PROVE PollInv'
  BY <1>16 DEF LookInCache
<1>17. ASSUME NEW j \in Jobs, LoadNetwork(j) PROVE PollInv'
  BY <1>17 DEF LoadNetwork, Fails, CleansUp
<1>18. ASSUME NEW j \in Jobs, KeepPlot(j) PROVE PollInv'
  BY <1>18 DEF KeepPlot, Kept
<1>19. ASSUME NEW j \in Jobs, Finish(j) PROVE PollInv'
  BY <1>19 DEF Finish, StoresResult
<1>20. ASSUME NEW j \in Jobs, LoseWorker(j) PROVE PollInv'
  BY <1>20 DEF LoseWorker, Meets
<1>21. ASSUME NEW i \in Imports, DeleteNetwork(i) PROVE PollInv'
  BY <1>21 DEF DeleteNetwork
<1>22. ASSUME NEW i \in Imports, Unlink(i) PROVE PollInv'
  BY <1>22 DEF Unlink, Meets, RemovesFile
<1>23. ASSUME Crash PROVE PollInv'
  BY <1>23 DEF Crash, Meets
<1>24. ASSUME DayPasses PROVE PollInv'
  BY <1>24 DEF DayPasses
<1>25. ASSUME Tick PROVE PollInv'
  BY <1>25 DEF Tick
<1>26. ASSUME ClearPlotCache PROVE PollInv'
  BY <1>26 DEF ClearPlotCache, NotCached
<1>27. ASSUME ClearAllCache PROVE PollInv'
  BY <1>27 DEF ClearAllCache, NotCached
<1>28. ASSUME NEW j \in Jobs, SubmitFails(j) PROVE PollInv'
  BY <1>28 DEF SubmitFails, MaySubmit
<1>29. CASE UNCHANGED vars
  BY <1>29 DEF vars
<1> HIDE DEF KindsInv, ResultInv, PollInv, QueueInv, FilesTyped, TasksTyped, ClientsTyped, IsGood
<1> QED
  BY <1>1, <1>2, <1>3, <1>4, <1>5, <1>6, <1>7, <1>8, <1>9, <1>10, <1>11, <1>12, <1>13, <1>14, <1>15,
     <1>16, <1>17, <1>18, <1>19, <1>20, <1>21, <1>22, <1>23, <1>24, <1>25, <1>26, <1>27,
     <1>28, <1>29
     DEF Next, Ask, Work

\* No plot is kept past its time.
LEMMA PlotStep ==
  ASSUME TasksInv, [Next]_vars
  PROVE  PlotInv'
<1> USE KindsAreDisjoint, BoundsAreNumbers
        DEF TasksInv, TypeOK, vars, store, files, plotting, counts, KindsInv, PlotInv, QueueInv,
            TasksTyped, CacheTyped, Goes, Working
<1>1. ASSUME NEW j \in Jobs, Upload(j) PROVE PlotInv'
  BY <1>1 DEF Upload
<1>2. ASSUME NEW j \in Jobs, UploadFails(j) PROVE PlotInv'
  BY <1>2 DEF UploadFails
<1>3. ASSUME NEW j \in Jobs, Submit(j) PROVE PlotInv'
  BY <1>3 DEF Submit, MaySubmit, Enqueued
<1>4. ASSUME NEW j \in Jobs, ReadState(j) PROVE PlotInv'
  BY <1>4 DEF ReadState
<1>5. ASSUME NEW j \in Jobs, Answer(j) PROVE PlotInv'
  BY <1>5 DEF Answer, Understood, SecondRead
<1>6. ASSUME NEW j \in Jobs, GiveUp(j) PROVE PlotInv'
  BY <1>6 DEF GiveUp
<1>7. ASSUME NEW j \in Jobs, Start(j) PROVE PlotInv'
  BY <1>7 DEF Start, FirstStep
<1>8. ASSUME NEW j \in Jobs, FetchUrl(j) PROVE PlotInv'
  BY <1>8 DEF FetchUrl, Fails, CleansUp
<1>9. ASSUME NEW j \in Jobs, Download(j) PROVE PlotInv'
  BY <1>9 DEF Download, Fails, CleansUp
<1>10. ASSUME NEW j \in Jobs, CheckUser(j) PROVE PlotInv'
  BY <1>10 DEF CheckUser, Fails, CleansUp
<1>11. ASSUME NEW j \in Jobs, FindContent(j) PROVE PlotInv'
  BY <1>11 DEF FindContent
<1>12. ASSUME NEW j \in Jobs, MoveFile(j) PROVE PlotInv'
  BY <1>12 DEF MoveFile
<1>13. ASSUME NEW j \in Jobs, ReadMetadata(j) PROVE PlotInv'
  BY <1>13 DEF ReadMetadata, Meets, Fails, CleansUp
<1>14. ASSUME NEW j \in Jobs, Commit(j) PROVE PlotInv'
  BY <1>14 DEF Commit, Meets, Fails, CleansUp
<1>15. ASSUME NEW j \in Jobs, Refresh(j) PROVE PlotInv'
  BY <1>15 DEF Refresh, Fails, CleansUp
<1>16. ASSUME NEW j \in Jobs, LookInCache(j) PROVE PlotInv'
  <2>1. /\ now' = now /\ cached' = cached
        /\ \A k \in Plots : at'[k] = "keep" => at[k] = "keep" /\ plot'[k] = plot[k]
    BY <1>16 DEF LookInCache
  <2> QED
    BY <2>1
<1>17. ASSUME NEW j \in Jobs, LoadNetwork(j) PROVE PlotInv'
  <2>1. CASE NetworkOf[j] \in stored
    <3>1. PICK age \in 0..NetworkAge : age <= now /\ plot' = [plot EXCEPT ![j] = now - age]
      BY <1>17, <2>1 DEF LoadNetwork
    <3>2. /\ now' = now /\ cached' = cached /\ j \in Plots
          /\ \A k \in Plots \ {j} : at'[k] = at[k] /\ plot'[k] = plot[k]
      BY <1>17, <2>1, <3>1 DEF LoadNetwork
    <3>3. plot'[j] = now - age /\ now - age <= now /\ now - (now - age) <= NetworkAge + MaxRun
      BY <3>1, <3>2
    <3> QED
      BY <3>2, <3>3
  <2>2. CASE NetworkOf[j] \notin stored
    BY <1>17, <2>2 DEF LoadNetwork, Fails
  <2> QED
    BY <2>1, <2>2
<1>18. ASSUME NEW j \in Jobs, KeepPlot(j) PROVE PlotInv'
  <2>1. plot' = plot /\ now' = now /\ \A k \in Plots : at'[k] = "keep" => at[k] = "keep"
    BY <1>18 DEF KeepPlot
  <2>2. CASE Memory
    BY <1>18, <2>1, <2>2 DEF KeepPlot
  <2>3. CASE ~Memory
    <3>1. j \in Plots /\ now - plot[j] <= NetworkAge + MaxRun /\ plot[j] \in Nat /\ now \in Nat
      BY <1>18 DEF KeepPlot
    <3>2. cached' = [cached EXCEPT ![NetworkOf[j]] = [read |-> plot[j], until |-> now + TTL]]
      BY <1>18, <2>3 DEF KeepPlot, Kept
    <3>3. now + TTL <= plot[j] + NetworkAge + MaxRun + TTL
      BY <3>1
    <3> QED
      BY <2>1, <3>2, <3>3
  <2> QED
    BY <2>2, <2>3
<1>19. ASSUME NEW j \in Jobs, Finish(j) PROVE PlotInv'
  BY <1>19 DEF Finish, StoresResult
<1>20. ASSUME NEW j \in Jobs, LoseWorker(j) PROVE PlotInv'
  BY <1>20 DEF LoseWorker, Meets
<1>21. ASSUME NEW i \in Imports, DeleteNetwork(i) PROVE PlotInv'
  BY <1>21 DEF DeleteNetwork
<1>22. ASSUME NEW i \in Imports, Unlink(i) PROVE PlotInv'
  BY <1>22 DEF Unlink, Meets, RemovesFile
<1>23. ASSUME Crash PROVE PlotInv'
  BY <1>23 DEF Crash, Meets
<1>24. ASSUME DayPasses PROVE PlotInv'
  BY <1>24 DEF DayPasses
<1>25. ASSUME Tick PROVE PlotInv'
  BY <1>25 DEF Tick
<1>26. ASSUME ClearPlotCache PROVE PlotInv'
  BY <1>26 DEF ClearPlotCache, NotCached
<1>27. ASSUME ClearAllCache PROVE PlotInv'
  BY <1>27 DEF ClearAllCache, NotCached
<1>28. ASSUME NEW j \in Jobs, SubmitFails(j) PROVE PlotInv'
  BY <1>28 DEF SubmitFails, MaySubmit
<1>29. CASE UNCHANGED vars
  BY <1>29 DEF vars
<1> HIDE DEF KindsInv, PlotInv, QueueInv, TasksTyped, CacheTyped
<1> QED
  BY <1>1, <1>2, <1>3, <1>4, <1>5, <1>6, <1>7, <1>8, <1>9, <1>10, <1>11, <1>12, <1>13, <1>14, <1>15,
     <1>16, <1>17, <1>18, <1>19, <1>20, <1>21, <1>22, <1>23, <1>24, <1>25, <1>26, <1>27,
     <1>28, <1>29
     DEF Next, Ask, Work

\* The answer to a plot is recent when it is given.
AnswersRecent ==
  \A j \in Plots : at'[j] = "finish" /\ at[j] # "finish" /\ outcome'[j] = "success"
    => now - plot'[j] < NetworkAge + MaxRun + TTL

\* Whether from the cache or drawn anew.
LEMMA RecentStep ==
  ASSUME TasksInv, [Next]_vars
  PROVE  AnswersRecent
<1> USE KindsAreDisjoint, BoundsAreNumbers
        DEF TasksInv, TypeOK, vars, store, files, plotting, counts, AnswersRecent, KindsInv,
            PlotInv, QueueInv, TasksTyped, CacheTyped, Goes, Working
<1>1. ASSUME NEW j \in Jobs, Upload(j) PROVE AnswersRecent
  BY <1>1 DEF Upload
<1>2. ASSUME NEW j \in Jobs, UploadFails(j) PROVE AnswersRecent
  BY <1>2 DEF UploadFails
<1>3. ASSUME NEW j \in Jobs, Submit(j) PROVE AnswersRecent
  BY <1>3 DEF Submit, MaySubmit, Enqueued
<1>4. ASSUME NEW j \in Jobs, ReadState(j) PROVE AnswersRecent
  BY <1>4 DEF ReadState
<1>5. ASSUME NEW j \in Jobs, Answer(j) PROVE AnswersRecent
  BY <1>5 DEF Answer, Understood, SecondRead
<1>6. ASSUME NEW j \in Jobs, GiveUp(j) PROVE AnswersRecent
  BY <1>6 DEF GiveUp
<1>7. ASSUME NEW j \in Jobs, Start(j) PROVE AnswersRecent
  BY <1>7 DEF Start, FirstStep
<1>8. ASSUME NEW j \in Jobs, FetchUrl(j) PROVE AnswersRecent
  BY <1>8 DEF FetchUrl, Fails, CleansUp
<1>9. ASSUME NEW j \in Jobs, Download(j) PROVE AnswersRecent
  BY <1>9 DEF Download, Fails, CleansUp
<1>10. ASSUME NEW j \in Jobs, CheckUser(j) PROVE AnswersRecent
  BY <1>10 DEF CheckUser, Fails, CleansUp
<1>11. ASSUME NEW j \in Jobs, FindContent(j) PROVE AnswersRecent
  BY <1>11 DEF FindContent
<1>12. ASSUME NEW j \in Jobs, MoveFile(j) PROVE AnswersRecent
  BY <1>12 DEF MoveFile
<1>13. ASSUME NEW j \in Jobs, ReadMetadata(j) PROVE AnswersRecent
  BY <1>13 DEF ReadMetadata, Meets, Fails, CleansUp
<1>14. ASSUME NEW j \in Jobs, Commit(j) PROVE AnswersRecent
  BY <1>14 DEF Commit, Meets, Fails, CleansUp
<1>15. ASSUME NEW j \in Jobs, Refresh(j) PROVE AnswersRecent
  BY <1>15 DEF Refresh, Fails, CleansUp
<1>16. ASSUME NEW j \in Jobs, LookInCache(j) PROVE AnswersRecent
  <2>1. CASE Memory \/ Expires(NetworkOf[j])
    BY <1>16, <2>1 DEF LookInCache
  <2>2. CASE ~(Memory \/ Expires(NetworkOf[j]))
    <3>1. /\ j \in Plots /\ NetworkOf[j] \in Imports
          /\ plot' = [plot EXCEPT ![j] = cached[NetworkOf[j]].read]
          /\ \A k \in Plots : k # j => at'[k] = at[k]
      BY <1>16, <2>2 DEF LookInCache
    <3>2. cached[NetworkOf[j]].until > now /\ plot'[j] = cached[NetworkOf[j]].read
      BY <2>2, <3>1 DEF Expires
    <3>3. cached[NetworkOf[j]].until <= cached[NetworkOf[j]].read + NetworkAge + MaxRun + TTL
      BY <3>1
    <3>4. now - plot'[j] < NetworkAge + MaxRun + TTL
      <4>1. cached[NetworkOf[j]].until \in Nat /\ cached[NetworkOf[j]].read \in Nat /\ now \in Nat
        BY <3>1
      <4>2. \A u, r, n \in Nat : u > n /\ u <= r + NetworkAge + MaxRun + TTL
              => n - r < NetworkAge + MaxRun + TTL
        OBVIOUS
      <4> QED
        BY <3>2, <3>3, <4>1, <4>2
    <3> QED
      BY <3>1, <3>4
  <2> QED
    BY <2>1, <2>2
<1>17. ASSUME NEW j \in Jobs, LoadNetwork(j) PROVE AnswersRecent
  BY <1>17 DEF LoadNetwork, Fails, CleansUp
<1>18. ASSUME NEW j \in Jobs, KeepPlot(j) PROVE AnswersRecent
  BY <1>18 DEF KeepPlot, Kept
<1>19. ASSUME NEW j \in Jobs, Finish(j) PROVE AnswersRecent
  BY <1>19 DEF Finish, StoresResult
<1>20. ASSUME NEW j \in Jobs, LoseWorker(j) PROVE AnswersRecent
  BY <1>20 DEF LoseWorker, Meets
<1>21. ASSUME NEW i \in Imports, DeleteNetwork(i) PROVE AnswersRecent
  BY <1>21 DEF DeleteNetwork
<1>22. ASSUME NEW i \in Imports, Unlink(i) PROVE AnswersRecent
  BY <1>22 DEF Unlink, Meets, RemovesFile
<1>23. ASSUME Crash PROVE AnswersRecent
  BY <1>23 DEF Crash, Meets
<1>24. ASSUME DayPasses PROVE AnswersRecent
  BY <1>24 DEF DayPasses
<1>25. ASSUME Tick PROVE AnswersRecent
  BY <1>25 DEF Tick
<1>26. ASSUME ClearPlotCache PROVE AnswersRecent
  BY <1>26 DEF ClearPlotCache, NotCached
<1>27. ASSUME ClearAllCache PROVE AnswersRecent
  BY <1>27 DEF ClearAllCache, NotCached
<1>28. ASSUME NEW j \in Jobs, SubmitFails(j) PROVE AnswersRecent
  BY <1>28 DEF SubmitFails, MaySubmit
<1>29. CASE UNCHANGED vars
  BY <1>29 DEF vars
<1> HIDE DEF AnswersRecent, KindsInv, PlotInv, QueueInv
<1> QED
  BY <1>1, <1>2, <1>3, <1>4, <1>5, <1>6, <1>7, <1>8, <1>9, <1>10, <1>11, <1>12, <1>13, <1>14, <1>15,
     <1>16, <1>17, <1>18, <1>19, <1>20, <1>21, <1>22, <1>23, <1>24, <1>25, <1>26, <1>27,
     <1>28, <1>29
     DEF Next, Ask, Work

\* The invariant holds at the start ...
LEMMA TasksInvInit == Init => TasksInv
<1> SUFFICES ASSUME Init PROVE TasksInv
  OBVIOUS
<1> USE BoundsAreNumbers, KindsAreDisjoint, TasksAssumption DEF Init
<1>1. queue \in Seq(Jobs) /\ old \subseteq Jobs
  BY EmptySeq
<1>2. TasksTyped /\ FilesTyped /\ ClientsTyped
  BY DEF TasksTyped, FilesTyped, ClientsTyped, Places, Working, States, Idle
<1>3. CacheTyped
  BY DEF CacheTyped, NotCached
<1>4. SessionTyped
  BY DEF SessionTyped
<1>5. KindsInv /\ QueueInv /\ TempInv
  BY DEF KindsInv, QueueInv, TempInv
<1>6. FreshInv /\ MovedInv
  BY DEF FreshInv, MovedInv
<1>7. ResultInv /\ PollInv
  BY DEF ResultInv, PollInv, Idle
<1>8. PlotInv
  BY DEF PlotInv, NotCached
<1> QED
  BY <1>1, <1>2, <1>3, <1>4, <1>5, <1>6, <1>7, <1>8 DEF TasksInv, TypeOK

\* ... and after every step.
LEMMA TasksInvStep == TasksInv /\ [Next]_vars => TasksInv'
<1> SUFFICES ASSUME TasksInv, [Next]_vars PROVE TasksInv'
  OBVIOUS
<1>1. TypeOK'
  BY QueueTypedStep, TasksTypedStep, FilesTypedStep, ClientsTypedStep, CacheTypedStep,
     SessionTypedStep DEF TypeOK
<1> QED
  BY <1>1, KindsStep, QueueStep, FreshStep, TempStep, MovedStep, ResultStep, PollStep, PlotStep
     DEF TasksInv

\* The invariant of the tasks holds, for every value of the constants.
THEOREM TasksInvariant == Spec => []TasksInv
BY TasksInvInit, TasksInvStep, PTL DEF Spec

\* However uploads, downloads and imports end, and whoever deletes what meanwhile: a network
\* has its file (tasks.py _import_tmp, networks.py); unless a process died, a temporary file
\* belongs to an import under way or to an upload whose task the broker did not take or whose
\* task was deleted with all of Redis; a stored file has its network until a file could not
\* be read, committed or removed.
THEOREM NoFileIsLeftBehind == Spec => []NoFileLeftBehind
<1>1. TasksInv => NoFileLeftBehind
  BY DEF TasksInv, TempInv, MovedInv, NoFileLeftBehind
<1> QED
  BY <1>1, TasksInvariant, PTL

\* A client that polls its import (client.ts pollImport) is told of success only when a
\* network with its content was stored, and of failure only when its own was not, unless a
\* worker died.
THEOREM ClientsAreToldTheTruth == Spec => []AnswersAreTrue
<1>1. TasksInv => AnswersAreTrue
  BY TasksAssumption DEF TasksInv, PollInv, IsGood, AnswersAreTrue, Jobs
<1> QED
  BY <1>1, TasksInvariant, PTL

\* Every plot that is answered was read from its network at most NetworkAge + MaxRun + TTL
\* ago (cache.py, load_service), whoever cached it and however long the tasks overlap.
THEOREM PlotsAreRecent == Spec => PlotIsRecent
<1>1. TasksInv /\ [Next]_vars => [AnswersRecent]_vars
  BY RecentStep
<1> QED
  BY <1>1, TasksInvariant, PTL DEF Spec, PlotIsRecent, AnswersRecent

=============================================================================
