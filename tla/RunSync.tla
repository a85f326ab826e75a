------------------------------ MODULE RunSync ------------------------------
(***************************************************************************)
(* The run statuses and the pure decision taken when a Snakedispatch       *)
(* answer is applied to a loaded Run (services/sync.py).                   *)
(***************************************************************************)

Statuses == {"PENDING", "SETUP", "RUNNING", "UPLOADING",
             "COMPLETED", "FAILED", "ERROR", "CANCELLED"}

SyncedStatuses == {"UPLOADING", "COMPLETED", "FAILED", "ERROR", "CANCELLED"}

ImportTriggeredStatuses == {"UPLOADING", "COMPLETED", "ERROR"}

CallbackStatuses == SyncedStatuses \ {"UPLOADING"}

\* What the remote executor reports: UPLOADING is this application's own phase.
JobStatuses == Statuses \ {"UPLOADING"}

\* Some operators of this development stand behind a mutated form of themselves: a
\* plausible slip, kept to show that the properties notice it.  Nothing uses them.
ImportAnyTime(seen, answer) == seen \notin ImportTriggeredStatuses

\* The job ended and nobody, as far as the loaded row tells, handled its outputs.
ImportPending(seen, answer) ==
    /\ answer = "COMPLETED"
    /\ seen \notin ImportTriggeredStatuses

StartsImport(seen, wants, answer) == ImportPending(seen, answer) /\ wants

AlwaysCompletes(seen, wants, answer) ==
    IF StartsImport(seen, wants, answer) THEN "UPLOADING"
    ELSE IF answer \in Statuses THEN "COMPLETED" ELSE seen

\* run.status after sync_run_from_job; an unknown status string changes nothing.
AfterSync(seen, wants, answer) ==
    IF StartsImport(seen, wants, answer) THEN "UPLOADING"
    ELSE IF answer \in Statuses THEN answer ELSE seen

DueOnUpload(seen, wants, answer) ==
    /\ AfterSync(seen, wants, answer) \in SyncedStatuses
    /\ seen \notin CallbackStatuses

\* The value sync_run_from_job returns: should a callback follow the commit?
CallbackDue(seen, wants, answer) ==
    /\ ~StartsImport(seen, wants, answer)
    /\ AfterSync(seen, wants, answer) \in CallbackStatuses
    /\ seen \notin CallbackStatuses
=============================================================================
