------------------------- MODULE ChangesetChannel -------------------------
(***************************************************************************)
(* The state of an ahp-changeset: channel and its reducer                  *)
(* (channels-changeset/reducer.ts): the files with their review flags, the *)
(* operations with their own life, and the status of the computation.      *)
(***************************************************************************)
EXTENDS KeyedLists

CONSTANTS FileId, OperationId, MaxFiles, None

VARIABLE changeset

ChangesetStatus == {"computing", "ready", "error"}
ChangesetOperationStatus == {"idle", "running", "error", "disabled"}

ChangesetFile == [id : FileId, reviewed : BOOLEAN]
\* error: whether error details are carried.
ChangesetOperation == [id : OperationId, status : ChangesetOperationStatus, error : BOOLEAN]

TypeOK ==
  /\ changeset.status \in ChangesetStatus
  /\ changeset.error \in BOOLEAN
  /\ changeset.files \in Seq(ChangesetFile)
  /\ changeset.operations \in Seq(ChangesetOperation) \cup {None}

\* What a host publishes in one piece: files once each, errors where the status says so.
FileLists == {files \in BoundedSeq(ChangesetFile, MaxFiles) : DistinctIds(files)}
OperationLists ==
  {ops \in BoundedSeq([id : OperationId, status : ChangesetOperationStatus, error : {FALSE}], 1) :
     \A i \in DOMAIN ops : ops[i].status # "error"}

Init ==
  \E status \in ChangesetStatus, ops \in OperationLists \cup {None} :
    changeset = [status |-> status, error |-> status = "error", files |-> <<>>, operations |-> ops]

\* An error stays only as long as its status.
StatusChanged(status) ==
  changeset' = [changeset EXCEPT !.status = status, !.error = status = "error"]

FileSet(file) ==
  LET next == Upsert(changeset.files, file)
  IN  Len(next) <= MaxFiles /\ changeset' = [changeset EXCEPT !.files = next]

FileRemoved(id) == changeset' = [changeset EXCEPT !.files = RemoveId(@, id)]

FilesReviewChanged(ids, reviewed) ==
  changeset' = [changeset EXCEPT !.files =
    [i \in DOMAIN @ |-> IF @[i].id \in ids THEN [@[i] EXCEPT !.reviewed = reviewed] ELSE @[i]]]

\* operations: None where the action leaves them as they are.
ContentChanged(files, operations) ==
  changeset' = [changeset EXCEPT !.files = files,
                                 !.operations = IF operations = None THEN @ ELSE operations]

\* operations: None where the action withdraws them.
OperationsChanged(operations) == changeset' = [changeset EXCEPT !.operations = operations]

OperationStatusChanged(id, status) ==
  /\ changeset.operations # None
  /\ id \in Ids(changeset.operations)
  /\ LET i == IndexOfId(changeset.operations, id)
     IN  changeset' = [changeset EXCEPT !.operations[i].status = status,
                                        !.operations[i].error = status = "error"]

Cleared == changeset' = [changeset EXCEPT !.files = <<>>]

Next ==
  \/ \E status \in ChangesetStatus : StatusChanged(status)
  \/ \E file \in ChangesetFile : FileSet(file)
  \/ \E id \in FileId : FileRemoved(id)
  \/ \E ids \in SUBSET FileId, reviewed \in BOOLEAN : FilesReviewChanged(ids, reviewed)
  \/ \E files \in FileLists, ops \in OperationLists \cup {None} : ContentChanged(files, ops)
  \/ \E ops \in OperationLists \cup {None} : OperationsChanged(ops)
  \/ \E id \in OperationId, status \in ChangesetOperationStatus : OperationStatusChanged(id, status)
  \/ Cleared

-----------------------------------------------------------------------------
(* Properties. *)

\* A file is listed once, an operation too.
IdsAreUnique ==
  DistinctIds(changeset.files) /\ (changeset.operations # None => DistinctIds(changeset.operations))

\* Error details are carried by what is in error and by nothing else.
ErrorsAreTold ==
  /\ changeset.error <=> changeset.status = "error"
  /\ changeset.operations # None =>
       \A op \in ToSet(changeset.operations) : op.error <=> op.status = "error"
=============================================================================
