----------------------------- MODULE RunContract -----------------------------
(***************************************************************************)
(* What a run promises its owner, one row of the runs table at a time:     *)
(* models.RunStatus read together with the rules of services/sync.py on    *)
(* who sets which status, and schemas/run.py on the webhook.               *)
(***************************************************************************)
EXTENDS Naturals, Sequences, RunSync

CONSTANTS Runs,       \* the runs
          Wanted      \* the output files each run asks to import

VARIABLES status,     \* status of each run, or ABSENT
          told        \* what its webhook was told

Progresses(r) ==
    /\ status[r] \notin SyncedStatuses \cup {"ABSENT"}
    /\ status'[r] \notin SyncedStatuses \cup {"ABSENT"}
    /\ status'[r] \in Statuses
    /\ told'[r] = told[r]

\* A completed job with outputs to import is not a completed run yet.
StartsUpload(r) ==
    /\ Wanted[r] # {}
    /\ status[r] \notin SyncedStatuses \cup {"ABSENT"}
    /\ status'[r] = "UPLOADING"
    /\ told'[r] = told[r]

Ends(r) ==
    /\ status[r] \notin SyncedStatuses \cup {"ABSENT"}
    /\ status'[r] \in CallbackStatuses
    /\ status'[r] = "COMPLETED" => Wanted[r] = {}
    /\ told'[r] = told[r]

EndsUpload(r) ==
    /\ status[r] = "UPLOADING"
    /\ status'[r] \in {"COMPLETED", "ERROR"}
    /\ told'[r] = told[r]

Tells(r) ==
    /\ status[r] \in CallbackStatuses
    /\ told[r] = <<>>
    /\ status'[r] = status[r]
    /\ told'[r] = <<status[r]>>

\* Removing a run forgets everything but a webhook that is on its way.
Removed(r) == status[r] # "ABSENT" /\ status'[r] = "ABSENT" /\ told'[r] = told[r]

TellsLate(r) ==
    /\ status[r] = "ABSENT" /\ status'[r] = "ABSENT"
    /\ told[r] = <<>>
    /\ \E s \in CallbackStatuses : told'[r] = <<s>>

Rests(r) == status'[r] = status[r] /\ told'[r] = told[r]

Step(r) ==
    \/ Progresses(r) \/ StartsUpload(r) \/ Ends(r) \/ EndsUpload(r) \/ Tells(r)
    \/ Removed(r) \/ TellsLate(r)

Init ==
    /\ status \in [Runs -> {"PENDING", "ABSENT"}]
    /\ told = [r \in Runs |-> <<>>]

\* One commit may settle several runs of a backend.
Next ==
    /\ status' \in [Runs -> Statuses \cup {"ABSENT"}]
    /\ told' \in [Runs -> {<<>>} \cup {<<s>> : s \in Statuses}]
    /\ \E r \in Runs : Step(r)
    /\ \A r \in Runs : Step(r) \/ Rests(r)

Spec == Init /\ [][Next]_<<status, told>>
=============================================================================
