------------------------------ MODULE MediaStorage ------------------------------
(* The uploaded files of a tenant: the rows of MediaAsset, their objects in    *)
(* the bucket, and the records that show them (avatars, the logo, receipts,    *)
(* payment proofs, expense receipts, attachments of a job), with the script    *)
(* that moves the pictures of the former provider into the bucket.             *)
(*                                                                             *)
(* A finalisation works under a lease: the row says PROCESSING, and whoever    *)
(* may release it compares updatedAt with what it read.  Here a call keeps     *)
(* `same', which every write of the row by somebody else takes away.           *)
EXTENDS FiniteSets

CONSTANTS
    Files,       \* ids of assets
    Places,      \* records that show a file
    Workers,     \* requests in progress
    MediaMixes,  \* the operations that meet in a behaviour, and what its records are
    Nothing, Legacy

ASSUME MediaAssumption ==
    /\ Nothing \notin Files \cup Places \cup {Legacy, "gone"}
    /\ Legacy \notin Files \cup {"gone"} /\ "gone" \notin Files

VARIABLES
    file,    \* Files -> the row, with what the bucket holds under its keys
    shown,   \* Places -> the file the record shows, Legacy, Nothing or "gone"
    ledger,  \* Places -> the migration of its picture
    work,    \* Workers -> the request in progress
    kind,    \* what the records are
    duties   \* the operations of this behaviour

fileVars == <<file, shown, ledger, work, kind, duties>>

NoFile == [status |-> "NONE", keyed |-> FALSE, object |-> FALSE, upload |-> FALSE, expired |-> FALSE,
           late |-> FALSE, place |-> Nothing]
AtRestWork == [at |-> "rest", file |-> Nothing, place |-> Nothing, previous |-> Nothing, status |-> "NONE", same |-> FALSE]

MediaInit(mixes) ==
    /\ \E mix \in mixes : duties = mix.duties /\ kind \in mix.kinds
    /\ file = [a \in Files |-> NoFile]
    /\ shown = [p \in Places |-> IF "migrate" \in duties THEN Legacy ELSE Nothing]
    /\ ledger = [p \in Places |-> [status |-> "NONE", file |-> Nothing]]
    /\ work = [w \in Workers |-> AtRestWork]

--------------------------------------------------------------------------------
Works(w, step) == work[w].at = step
Working(w, r) == work' = [work EXCEPT ![w] = r]
Step(w, step) == Working(w, [work[w] EXCEPT !.at = step])
Over(w) == Working(w, AtRestWork)
Begun(w, duty) ==
    /\ duty \in duties /\ Works(w, "rest")
    /\ "race" \notin duties => \A v \in Workers : Works(v, "rest")
MayFail == "fail" \in duties

\* The row of a file is written by w, who goes on as r: nobody else has read it as it is now.
Write(w, a, r, f) ==
    /\ file' = [file EXCEPT ![a] = f]
    /\ work' = [v \in Workers |-> IF v = w THEN r
                                  ELSE [work[v] EXCEPT !.same = @ /\ work[v].file # a]]

IsStored(a) == file[a].status # "NONE"
IsReady(a) == file[a].status = "READY"
Deleted(a) == file[a].status = "DELETED"
InUse(a) == \E p \in Places : shown[p] = a
\* The record a file is bound to: the logo belongs to the business and names none.
EntityOf(p) == IF kind = "logo" THEN Nothing ELSE p
\* A new id, which gives a new key.
Fresh == {a \in Files : /\ ~IsStored(a) /\ ~file[a].object
                        /\ \A p \in Places : ledger[p].file # a
                        /\ \A w \in Workers : work[w].file # a}

--------------------------------------------------------------------------------
(* An upload by the browser: a session, the PUT, and the finalisation *)

\* The record may not exist yet where a receipt or a proof is uploaded for it.
CreateUploadSession(a, p) ==
    /\ "initiate" \in duties /\ a \in Fresh
    /\ p = Nothing => kind \in {"receipt", "expense"}
    /\ file' = [file EXCEPT ![a] = [NoFile EXCEPT !.status = "INITIATED", !.place = EntityOf(p)]]
    /\ UNCHANGED <<shown, ledger, work, kind, duties>>

PutTemporaryObject(a) ==
    /\ file[a].status \in {"INITIATED", "PROCESSING", "FAILED"} /\ ~file[a].expired
    /\ ~file[a].keyed /\ ~file[a].upload
    /\ file' = [file EXCEPT ![a].upload = TRUE]
    /\ UNCHANGED <<shown, ledger, work, kind, duties>>

SessionExpires(a) ==
    /\ "fail" \in duties /\ file[a].status \in {"INITIATED", "PROCESSING", "FAILED"} /\ ~file[a].expired
    /\ file' = [file EXCEPT ![a].expired = TRUE]
    /\ UNCHANGED <<shown, ledger, work, kind, duties>>

\* Five minutes pass and whoever finalises the file is still at it, or is gone.
LeaseGetsOld(a) ==
    /\ "old" \in duties /\ file[a].status = "PROCESSING" /\ ~file[a].late
    /\ file' = [file EXCEPT ![a].late = TRUE]
    /\ UNCHANGED <<shown, ledger, work, kind, duties>>

FinalizeUpload(w, a) ==
    /\ Begun(w, "finalize") /\ IsStored(a) /\ ~Deleted(a) /\ ~IsReady(a)
    /\ file[a].expired => file[a].status = "PROCESSING"
    /\ Working(w, [AtRestWork EXCEPT !.at = "claim", !.file = a])
    /\ UNCHANGED <<file, shown, ledger, kind, duties>>

MayClaim(f) == f.status \in {"INITIATED", "FAILED"} \/ (f.status = "PROCESSING" /\ f.late)

ClaimProcessing(w) ==
    /\ Works(w, "claim")
    /\ LET a == work[w].file IN
       IF MayClaim(file[a])
       THEN Write(w, a, [work[w] EXCEPT !.at = "store", !.same = TRUE],
                  [file[a] EXCEPT !.status = "PROCESSING", !.late = FALSE])
       ELSE Over(w) /\ UNCHANGED file
    /\ UNCHANGED <<shown, ledger, kind, duties>>

\* The upload is checked, and what it holds is stored under its final key.
StoreFinalObject(w) ==
    /\ Works(w, "store")
    /\ LET a == work[w].file IN
       \/ /\ file[a].upload
          /\ file' = [file EXCEPT ![a].object = TRUE]
          /\ Step(w, "ready")
       \/ /\ ~file[a].upload \/ MayFail
          /\ Step(w, "failed") /\ UNCHANGED file
    /\ UNCHANGED <<shown, ledger, kind, duties>>

\* The row becomes READY whoever holds the lease by now.
MarkReady(w) ==
    /\ Works(w, "ready")
    /\ LET a == work[w].file IN
       \/ Write(w, a, [work[w] EXCEPT !.at = "clean"], [file[a] EXCEPT !.status = "READY", !.keyed = TRUE, !.late = FALSE])
       \/ MayFail /\ Step(w, "failed") /\ UNCHANGED file
    /\ UNCHANGED <<shown, ledger, kind, duties>>

DeleteTemporaryObject(w) ==
    /\ Works(w, "clean")
    /\ file' = [file EXCEPT ![work[w].file].upload = FALSE]
    /\ Over(w)
    /\ UNCHANGED <<shown, ledger, kind, duties>>

\* Only the worker of this very lease may give it back.
MarkFailed(w) ==
    /\ Works(w, "failed")
    /\ LET a == work[w].file IN
       IF file[a].status = "PROCESSING" /\ work[w].same
       THEN Write(w, a, AtRestWork, [file[a] EXCEPT !.status = "FAILED", !.late = FALSE])
       ELSE Over(w) /\ UNCHANGED file
    /\ UNCHANGED <<shown, ledger, kind, duties>>

FinalizeSteps(w) == ClaimProcessing(w) \/ StoreFinalObject(w) \/ MarkReady(w) \/ DeleteTemporaryObject(w) \/ MarkFailed(w)

--------------------------------------------------------------------------------
(* Deleting a file: read the row, look who uses it, claim it, delete the objects *)

\* A call that has something to delete goes on to read its row.
ThenDelete(w, a) == IF a \in Files THEN [AtRestWork EXCEPT !.at = "read", !.file = a] ELSE AtRestWork

DeleteAssetOf(w, a) ==
    /\ Begun(w, "delete") /\ IsStored(a)
    /\ Working(w, ThenDelete(w, a))
    /\ UNCHANGED <<file, shown, ledger, kind, duties>>

ReadAsset(w) ==
    /\ Works(w, "read")
    /\ LET a == work[w].file IN
       IF Deleted(a) \/ file[a].status = "PROCESSING" THEN Over(w)
       ELSE Working(w, [work[w] EXCEPT !.at = IF file[a].status = "DELETING" THEN "objects" ELSE "check",
                                       !.status = file[a].status, !.same = TRUE])
    /\ UNCHANGED <<file, shown, ledger, kind, duties>>

\* Mutant: the record that asks is taken for the only one.
UsedTwiceOrNot(a) == Cardinality({p \in Places : shown[p] = a}) # 1
AssertAssetNotInUse(a) == ~InUse(a)

CheckUses(w) ==
    /\ Works(w, "check")
    /\ IF work[w].status = "READY" => AssertAssetNotInUse(work[w].file) THEN Step(w, "take") ELSE Over(w)
    /\ UNCHANGED <<file, shown, ledger, kind, duties>>

ClaimDeletion(w) ==
    /\ Works(w, "take")
    /\ LET a == work[w].file IN
       IF work[w].same /\ file[a].status = work[w].status
       THEN Write(w, a, [work[w] EXCEPT !.at = "objects"], [file[a] EXCEPT !.status = "DELETING"])
       ELSE Step(w, "read") /\ UNCHANGED file
    /\ UNCHANGED <<shown, ledger, kind, duties>>

\* A file that was never finalised has no final key to delete.
DeleteObjects(w) ==
    /\ Works(w, "objects")
    /\ LET a == work[w].file IN
       \/ /\ file' = [file EXCEPT ![a].object = @ /\ ~file[a].keyed, ![a].upload = FALSE]
          /\ Step(w, "mark")
       \/ MayFail /\ Over(w) /\ UNCHANGED file
    /\ UNCHANGED <<shown, ledger, kind, duties>>

MarkDeleted(w) ==
    /\ Works(w, "mark")
    /\ LET a == work[w].file IN
       IF file[a].status = "DELETING"
       THEN Write(w, a, AtRestWork, [file[a] EXCEPT !.status = "DELETED"])
       ELSE Over(w) /\ UNCHANGED file
    /\ UNCHANGED <<shown, ledger, kind, duties>>

DeleteSteps(w) == ReadAsset(w) \/ CheckUses(w) \/ ClaimDeletion(w) \/ DeleteObjects(w) \/ MarkDeleted(w)

--------------------------------------------------------------------------------
(* A record takes a file: bind it, write the record, delete what it showed before *)

Showing(p) == shown[p] # "gone"
BindReadyAsset(a, p) == IsReady(a) /\ (EntityOf(p) # Nothing => file[a].place \in {Nothing, p})

\* previous is what the record showed when the request read it.
StartAttach(w, p, a) ==
    /\ Begun(w, "attach") /\ Showing(p) /\ BindReadyAsset(a, p)
    /\ Working(w, [AtRestWork EXCEPT !.file = a, !.place = p, !.previous = shown[p],
                       !.at = IF EntityOf(p) # Nothing /\ file[a].place # p THEN "bind" ELSE "show"])
    /\ UNCHANGED <<file, shown, ledger, kind, duties>>

AttachMyAvatarAsset(w, p, a) == kind = "avatar" /\ StartAttach(w, p, a)
UpdateAdminLogo(w, p, a) == kind = "logo" /\ StartAttach(w, p, a)
UploadReceiptAsset(w, p, a) == kind = "receipt" /\ StartAttach(w, p, a)
UpdateExpenseReceipt(w, p, a) == kind = "expense" /\ shown[p] # Nothing /\ StartAttach(w, p, a)
CreateAttachmentFromAsset(w, p, a) == kind = "attachment" /\ shown[p] = Nothing /\ StartAttach(w, p, a)

BindEntity(w) ==
    /\ Works(w, "bind")
    /\ Write(w, work[w].file, [work[w] EXCEPT !.at = "show"], [file[work[w].file] EXCEPT !.place = work[w].place])
    /\ UNCHANGED <<shown, ledger, kind, duties>>

\* A new expense is not told apart from another that already shows the receipt.
CreateExpense(w, p, a) ==
    /\ kind = "expense" /\ Begun(w, "attach") /\ shown[p] = Nothing /\ IsReady(a)
    /\ \/ /\ shown' = [shown EXCEPT ![p] = a]
          /\ Write(w, a, AtRestWork, [file[a] EXCEPT !.place = p])
       \/ MayFail /\ Working(w, ThenDelete(w, a)) /\ UNCHANGED <<file, shown>>
    /\ UNCHANGED <<ledger, kind, duties>>

\* The proof of a new payment: the row first, the name of the row in the file afterwards.
SubmitPaymentProof(w, p, a) ==
    /\ kind = "receipt" /\ Begun(w, "attach") /\ shown[p] = Nothing /\ IsReady(a) /\ file[a].place = Nothing
    /\ \/ shown' = [shown EXCEPT ![p] = a]
          /\ Working(w, [AtRestWork EXCEPT !.at = "bindProof", !.file = a, !.place = p])
       \/ MayFail /\ Working(w, ThenDelete(w, a)) /\ UNCHANGED shown
    /\ UNCHANGED <<file, ledger, kind, duties>>

BindProof(w) ==
    /\ Works(w, "bindProof")
    /\ \/ Write(w, work[w].file, AtRestWork, [file[work[w].file] EXCEPT !.place = work[w].place])
       \/ MayFail /\ Over(w) /\ UNCHANGED file
    /\ UNCHANGED <<shown, ledger, kind, duties>>

\* A file that comes with the request itself: the object, the row, then the record.
UploadFromServer(w, p, a) ==
    /\ Begun(w, "upload") /\ Showing(p) /\ a \in Fresh
    /\ kind = "attachment" => shown[p] = Nothing
    /\ Working(w, [AtRestWork EXCEPT !.at = "create", !.file = a, !.place = p, !.previous = shown[p]])
    /\ file' = [file EXCEPT ![a].object = TRUE]
    /\ UNCHANGED <<shown, ledger, kind, duties>>

CreateReadyRow(w) ==
    /\ Works(w, "create")
    /\ LET a == work[w].file IN
       \/ Write(w, a, [work[w] EXCEPT !.at = "show"],
                [file[a] EXCEPT !.status = "READY", !.keyed = TRUE, !.place = EntityOf(work[w].place)])
       \/ MayFail /\ Over(w) /\ UNCHANGED file
    /\ UNCHANGED <<shown, ledger, kind, duties>>

Replaced(w) == IF work[w].previous # work[w].file THEN ThenDelete(w, work[w].previous) ELSE AtRestWork

\* The record is written by id.  Where that fails the new file is deleted, else the former one.
ShowFile(w) ==
    /\ Works(w, "show")
    /\ \/ /\ Showing(work[w].place)
          /\ shown' = [shown EXCEPT ![work[w].place] = work[w].file]
          /\ Working(w, Replaced(w))
       \/ /\ ~Showing(work[w].place) \/ MayFail
          /\ Working(w, ThenDelete(w, work[w].file))
          /\ UNCHANGED shown
    /\ UNCHANGED <<file, ledger, kind, duties>>

AttachSteps(w) == BindEntity(w) \/ BindProof(w) \/ CreateReadyRow(w) \/ ShowFile(w)

\* The record goes, or lets go of its file, which is deleted afterwards.
Forget(w, p, left) ==
    /\ Begun(w, "clear") /\ shown[p] \in Files
    /\ shown' = [shown EXCEPT ![p] = left]
    /\ Working(w, ThenDelete(w, shown[p]))
    /\ UNCHANGED <<file, ledger, kind, duties>>

DeleteExpense(w, p) == kind = "expense" /\ Forget(w, p, "gone")
ClearExpenseReceipt(w, p) == kind = "expense" /\ Forget(w, p, Nothing)
DeletePayment(w, p) == kind = "receipt" /\ Forget(w, p, "gone")
DeleteAttachment(w, p) == kind = "attachment" /\ Forget(w, p, Nothing)
Clearing(w, p) == DeleteExpense(w, p) \/ ClearExpenseReceipt(w, p) \/ DeletePayment(w, p) \/ DeleteAttachment(w, p)

--------------------------------------------------------------------------------
(* The migration of the pictures of the former provider *)

\* A picture keeps its key from one run to the next, whatever became of the first one.
MayMigrateTo(p, a) ==
    IF ledger[p].file # Nothing THEN a = ledger[p].file
    ELSE a \in Fresh

\* The script is run by one operator at a time.
Migrating(w) == work[w].at \in {"fetch", "migrateRow", "verify", "markFailure", "migrated"}

MigrateSource(w, p, a) ==
    /\ Begun(w, "migrate") /\ shown[p] = Legacy /\ MayMigrateTo(p, a)
    /\ ~\E v \in Workers : Migrating(v)
    /\ IF ledger[p].status = "MIGRATED" /\ IsReady(a)
       THEN Working(w, [AtRestWork EXCEPT !.at = "migrated", !.file = a, !.place = p]) /\ UNCHANGED ledger
       ELSE /\ ledger' = [ledger EXCEPT ![p] = [status |-> "PROCESSING", file |-> a]]
            /\ Working(w, [AtRestWork EXCEPT !.at = "fetch", !.file = a, !.place = p])
    /\ UNCHANGED <<file, shown, kind, duties>>

\* What was fetched is stored under its key, or found there as an earlier run left it.
FetchLegacyObject(w) ==
    /\ Works(w, "fetch")
    /\ LET a == work[w].file IN
       \/ /\ IF IsReady(a) THEN UNCHANGED file ELSE file' = [file EXCEPT ![a].object = TRUE]
          /\ Step(w, IF IsReady(a) THEN "verify" ELSE "migrateRow")
       \/ MayFail /\ Step(w, "markFailure") /\ UNCHANGED file
    /\ UNCHANGED <<shown, ledger, kind, duties>>

CreateMigratedRow(w) ==
    /\ Works(w, "migrateRow")
    /\ LET a == work[w].file IN
       IF IsStored(a) THEN Step(w, "markFailure") /\ UNCHANGED file
       ELSE Write(w, a, [work[w] EXCEPT !.at = "verify"],
                  [file[a] EXCEPT !.status = "READY", !.keyed = TRUE, !.place = work[w].place])
    /\ UNCHANGED <<shown, ledger, kind, duties>>

VerifyMigrated(w) ==
    /\ Works(w, "verify")
    /\ LET p == work[w].place IN
       IF file[work[w].file].object THEN ledger' = [ledger EXCEPT ![p].status = "MIGRATED"] /\ Step(w, "migrated")
       ELSE Step(w, "markFailure") /\ UNCHANGED ledger
    /\ UNCHANGED <<file, shown, kind, duties>>

MarkFailure(w) ==
    /\ Works(w, "markFailure")
    /\ ledger' = [ledger EXCEPT ![work[w].place].status = "FAILED"]
    /\ Over(w)
    /\ UNCHANGED <<file, shown, kind, duties>>

\* The record takes its copy, whatever it shows by now.
MigrateRecord(w) ==
    /\ Works(w, "migrated") /\ Showing(work[w].place)
    /\ shown' = [shown EXCEPT ![work[w].place] = work[w].file]
    /\ Over(w)
    /\ UNCHANGED <<file, ledger, kind, duties>>

MigrateSteps(w) == FetchLegacyObject(w) \/ CreateMigratedRow(w) \/ VerifyMigrated(w) \/ MarkFailure(w) \/ MigrateRecord(w)

--------------------------------------------------------------------------------
\* The process that serves the request is stopped.
Crash(w) ==
    /\ "crash" \in duties /\ ~Works(w, "rest")
    /\ Over(w)
    /\ UNCHANGED <<file, shown, ledger, kind, duties>>

MediaNext ==
    \/ \E a \in Files : \/ PutTemporaryObject(a) \/ SessionExpires(a) \/ LeaseGetsOld(a)
                        \/ \E p \in Places \cup {Nothing} : CreateUploadSession(a, p)
    \/ \E w \in Workers : FinalizeSteps(w) \/ DeleteSteps(w) \/ AttachSteps(w) \/ MigrateSteps(w) \/ Crash(w)
    \/ \E w \in Workers, a \in Files : FinalizeUpload(w, a) \/ DeleteAssetOf(w, a)
    \/ \E w \in Workers, p \in Places : Clearing(w, p)
    \/ \E w \in Workers, p \in Places, a \in Files :
          \/ AttachMyAvatarAsset(w, p, a) \/ UpdateAdminLogo(w, p, a) \/ UploadReceiptAsset(w, p, a)
          \/ UpdateExpenseReceipt(w, p, a) \/ CreateAttachmentFromAsset(w, p, a)
          \/ CreateExpense(w, p, a) \/ SubmitPaymentProof(w, p, a)
          \/ UploadFromServer(w, p, a) \/ MigrateSource(w, p, a)

MediaSpec == MediaInit(MediaMixes) /\ [][MediaNext]_fileVars

--------------------------------------------------------------------------------
\* A finished file has its object in the bucket, a deleted one has left none
\* under the key its row names, and what a record shows is a finished file:
\* finalising, deleting, replacing, failing half-way and migrating keep the rows
\* and the bucket together.  Records may lose what they show where a file is
\* taken by one request while another deletes it (media.service.ts:454).
FilesAreThere ==
    /\ \A a \in Files : IsReady(a) => file[a].object
    /\ \A a \in Files : Deleted(a) /\ file[a].keyed => ~file[a].object
    /\ "race" \notin duties => \A p \in Places : shown[p] \in Files => IsReady(shown[p])
================================================================================
