---------------------------- MODULE UploadStore -----------------------------
(***************************************************************************)
(* The files behind custom datasets (internal/customdataset/storage.go and *)
(* the upload rows of repository.go): a file is saved, then recorded; it   *)
(* is retained by the submission of an import, or expires and is removed.  *)
(* Meanwhile the cleanup removes what it listed earlier.                   *)
(*                                                                         *)
(* A pass lists uploads, then keys, and works through each list.  The      *)
(* entries share nothing, so the model takes one entry, or the list of     *)
(* keys, and acts on it at any later time.                                 *)
(***************************************************************************)
EXTENDS Integers

CONSTANT
    Uploads     \* bound: files uploaded

VARIABLES
    status,     \* of the row of custom_dataset_uploads; "saved" before there is
                \* one and "orphan" when there never will be
    file,       \* whether the file is in the uploads directory
    age,        \* 1 is older than the cleanup's grace period, 2 past expires_at
    previewed,  \* uploads a submission has opened and not yet retained
    job,        \* what became of the import submitted with the upload
    listed      \* what the cleanup has listed: [kind, uploads]

uploadVars == <<status, file, age, previewed, job, listed>>

Nothing == [kind |-> "none", uploads |-> {}]

UploadInit ==
    /\ status = [u \in Uploads |-> "none"]
    /\ file = [u \in Uploads |-> FALSE]
    /\ age = [u \in Uploads |-> 0]
    /\ previewed = {}
    /\ job = [u \in Uploads |-> "none"]
    /\ listed = Nothing

\* Storage.save: the file is complete and renamed to its key before any row
\* names it.
Save(u) ==
    /\ status[u] = "none"
    /\ status' = [status EXCEPT ![u] = "saved"]
    /\ file' = [file EXCEPT ![u] = TRUE]
    /\ UNCHANGED <<age, previewed, job, listed>>

CreateUpload(u) ==
    /\ status[u] = "saved"
    /\ status' = [status EXCEPT ![u] = "uploaded"]
    /\ UNCHANGED <<file, age, previewed, job, listed>>

\* Handler.Upload gives up: a second file part removes the first one, a
\* refused insert leaves the file to reconciliation.
UploadFails(u) ==
    /\ status[u] = "saved"
    /\ status' = [status EXCEPT ![u] = "orphan"]
    /\ \E kept \in BOOLEAN : file' = [file EXCEPT ![u] = kept]
    /\ UNCHANGED <<age, previewed, job, listed>>

\* Time passes.  The request that saved a file ends within the grace period
\* of an hour: the server reads a request for 15 seconds at most.
Age(u) ==
    /\ status[u] \notin {"none", "saved"}
    /\ age[u] < 2
    /\ age' = [age EXCEPT ![u] = @ + 1]
    /\ UNCHANGED <<status, file, previewed, job, listed>>

\* Handler.Submit finds the upload, opens the file and parses a preview.
Preview(u) ==
    /\ \/ status[u] = "uploaded" /\ age[u] < 2
       \/ status[u] = "retained" /\ job[u] = "failed"
    /\ file[u]
    /\ previewed' = previewed \cup {u}
    /\ UNCHANGED <<status, file, age, job, listed>>

\* Repository.Submit, under the lock of the upload: pending and not expired,
\* or retained by an earlier import that failed before its dataset published.
Usable(u) ==
    \/ status[u] = "uploaded" /\ age[u] < 2
    \/ status[u] = "retained" /\ job[u] = "failed"

SubmitUpload(u) ==
    /\ u \in previewed
    /\ previewed' = previewed \ {u}
    /\ \/ /\ Usable(u)
          /\ status' = [status EXCEPT ![u] = "retained"]
          /\ job' = [job EXCEPT ![u] = "queued"]
       \/ ~Usable(u) /\ UNCHANGED <<status, job>>
    /\ UNCHANGED <<file, age, listed>>

\* A worker opens the file of its import (CustomDataset) and the import ends.
Execute(u) ==
    /\ job[u] = "queued"
    /\ \E outcome \in {"succeeded", "failed"} :
           /\ outcome = "succeeded" => file[u]
           /\ job' = [job EXCEPT ![u] = outcome]
    /\ UNCHANGED <<status, file, age, previewed, listed>>

ExpiredUploads(u) ==
    /\ listed = Nothing
    /\ status[u] = "uploaded" /\ age[u] = 2
    /\ listed' = [kind |-> "expired", uploads |-> {u}]
    /\ UNCHANGED <<status, file, age, previewed, job>>

\* The row is expired by a compare-and-set on its revision and status, and
\* only then the file removed; the removal may fail.
ExpireUpload(u) ==
    /\ listed = [kind |-> "expired", uploads |-> {u}]
    /\ \/ /\ status[u] = "uploaded"
          /\ status' = [status EXCEPT ![u] = "expired"]
          /\ \E kept \in BOOLEAN : file' = [file EXCEPT ![u] = kept /\ @]
       \/ status[u] # "uploaded" /\ UNCHANGED <<status, file>>
    /\ listed' = Nothing
    /\ UNCHANGED <<age, previewed, job>>

\* Mutant: only uploads that wait for their import are referenced.
referencedUploaded == {u \in Uploads : status[u] = "uploaded"}

referenced == {u \in Uploads : status[u] \in {"uploaded", "retained"}}

\* The keys in use, and with the cutoff taken right after them the files that
\* no key names and that are older than the grace period.
ReferencedUploadKeys ==
    /\ listed = Nothing
    /\ listed' = [kind |-> "files", uploads |-> {u \in Uploads : age[u] > 0} \ referenced]
    /\ UNCHANGED <<status, file, age, previewed, job>>

\* The directory is walked when the keys may have changed.
Reconcile ==
    /\ listed.kind = "files"
    /\ file' = [u \in Uploads |-> file[u] /\ u \notin listed.uploads]
    /\ listed' = Nothing
    /\ UNCHANGED <<status, age, previewed, job>>

UploadNext ==
    \/ \E u \in Uploads :
           \/ Save(u) \/ CreateUpload(u) \/ UploadFails(u) \/ Age(u)
           \/ Preview(u) \/ SubmitUpload(u) \/ Execute(u) \/ ExpiredUploads(u) \/ ExpireUpload(u)
    \/ ReferencedUploadKeys \/ Reconcile

UploadSpec == UploadInit /\ [][UploadNext]_uploadVars

\* customdataset/storage.go Reconcile, worker.go cleanup: the file of an upload that
\* was retained, or that may still be submitted, is kept whatever the cleanup had
\* listed before: an import finds its file.
FilesKept ==
    \A u \in Uploads :
        status[u] = "retained" \/ (status[u] = "uploaded" /\ age[u] < 2) => file[u]
=============================================================================
