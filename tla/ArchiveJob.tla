------------------------------ MODULE ArchiveJob ------------------------------
(***************************************************************************)
(* The nightly archive of one user's old mail: batches of rows are written *)
(* to a file in S3 and then deleted, in chunks, by their ids.  Runs may    *)
(* overlap, and other services go on writing to the rows.                  *)
(*                                                                         *)
(* Left out: the Parquet encoding and the statistics.  A user that fails   *)
(* does not keep the job from the next one, so one user is enough.         *)
(***************************************************************************)
EXTENDS Naturals, FiniteSets, FiniteSetsExt

CONSTANTS Row,         \* rows of raw_emails, numbered by the time they were received
          Run,         \* runs of the job
          BatchSize,   \* rows of a file
          ChunkSize,   \* ids of a DELETE
          MaxRowChanges,  \* bound: updates of rows
          MaxArchiveErrors    \* bound: failing calls and crashes

ASSUME ArchiveBounds ==
  Row \subseteq Nat /\ BatchSize \in Nat \ {0} /\ ChunkSize \in Nat \ {0} /\ MaxRowChanges \in Nat /\ MaxArchiveErrors \in Nat

VARIABLES
  present,   \* the rows in the database
  version,   \* the number of times each row was updated
  overtaken, \* history: rows updated after a run fetched them and before they were deleted
  old,       \* rows past the cutoff of the age
  files,     \* the uploaded rows, with the updates they contain
  run,       \* the runs: where, what was fetched, whether more rows exist, what is to be deleted
  finished,  \* rows that were old when a run began which has ended well
  changes, archiveErrors

archiveVars == <<present, version, overtaken, old, files, run, finished, changes, archiveErrors>>

NotRunning == [at |-> "none", batch |-> {}, todo |-> {}, more |-> FALSE, began |-> {}]

ArchiveInit ==
  /\ present = Row /\ version = [r \in Row |-> 0] /\ overtaken = {} /\ old = {} /\ files = {} /\ run = [n \in Run |-> NotRunning]
  /\ finished = {} /\ changes = 0 /\ archiveErrors = 0

Errs == archiveErrors < MaxArchiveErrors /\ archiveErrors' = archiveErrors + 1
First(n, S) == {r \in S : Cardinality({q \in S : q < r}) < n}

-----------------------------------------------------------------------------

\* Time: rows pass the cutoff in the order they were received.
Ages ==
  /\ Row \ old # {} /\ old' = old \cup {Min(Row \ old)}
  /\ UNCHANGED <<present, version, overtaken, files, run, finished, changes, archiveErrors>>

\* Labels, classification and other columns are updated at any time.
RowChanges(r) ==
  /\ r \in present /\ changes < MaxRowChanges /\ changes' = changes + 1
  /\ version' = [version EXCEPT ![r] = @ + 1]
  /\ overtaken' = IF \E n \in Run : r \in run[n].todo THEN overtaken \cup {r} ELSE overtaken
  /\ UNCHANGED <<present, old, files, run, finished, archiveErrors>>

Begin(n) ==
  /\ run[n].at = "none"
  /\ run' = [run EXCEPT ![n] = [NotRunning EXCEPT !.at = "fetch", !.began = old]]
  /\ UNCHANGED <<present, version, overtaken, old, files, finished, changes, archiveErrors>>

\* fetchBatch: the oldest rows, one more than a batch to see whether it is the last.
Found == First(BatchSize + 1, old \cap present)

FetchBatch(n) ==
  /\ run[n].at = "fetch" /\ Found # {}
  /\ LET rows == First(BatchSize, Found) IN
       run' = [run EXCEPT ![n] = [@ EXCEPT !.at = "upload", !.batch = {<<r, version[r]>> : r \in rows},
                                           !.todo = rows, !.more = Cardinality(Found) > BatchSize]]
  /\ UNCHANGED <<present, version, overtaken, old, files, finished, changes, archiveErrors>>

Uploaded_Nothing(n) == files
Uploaded(n) == files \cup run[n].batch

UploadToS3(n) ==
  /\ run[n].at = "upload" /\ files' = Uploaded(n)
  /\ run' = [run EXCEPT ![n].at = "delete", ![n].batch = {}]
  /\ UNCHANGED <<present, version, overtaken, old, finished, changes, archiveErrors>>

DeleteBatch(n) ==
  LET chunk == First(ChunkSize, run[n].todo) IN
  /\ run[n].at = "delete" /\ run[n].todo # {}
  /\ present' = present \ chunk
  /\ run' = [run EXCEPT ![n].todo = @ \ chunk]
  /\ UNCHANGED <<version, overtaken, old, files, finished, changes, archiveErrors>>

\* The last batch, or an empty one, ends the run.
Continue(n) ==
  /\ run[n].at = "delete" /\ run[n].todo = {} /\ run[n].more
  /\ run' = [run EXCEPT ![n].at = "fetch", ![n].more = FALSE]
  /\ UNCHANGED <<present, version, overtaken, old, files, finished, changes, archiveErrors>>

EndRun(n) ==
  /\ \/ run[n].at = "delete" /\ run[n].todo = {} /\ ~run[n].more
     \/ run[n].at = "fetch" /\ Found = {}
  /\ run' = [run EXCEPT ![n] = NotRunning] /\ finished' = finished \cup run[n].began
  /\ UNCHANGED <<present, version, overtaken, old, files, changes, archiveErrors>>

\* Any error, a cancelled context or a crash ends the run where it is; an
\* upload whose answer is lost has been stored.
Abort(n) ==
  /\ run[n].at # "none" /\ Errs /\ run' = [run EXCEPT ![n] = NotRunning]
  /\ files' \in {files} \cup IF run[n].at = "upload" THEN {files \cup run[n].batch} ELSE {}
  /\ UNCHANGED <<present, version, overtaken, old, finished, changes>>

ArchiveNext ==
  \/ Ages
  \/ \E r \in Row : RowChanges(r)
  \/ \E n \in Run : Begin(n) \/ FetchBatch(n) \/ UploadToS3(n) \/ DeleteBatch(n) \/ Continue(n) \/ EndRun(n) \/ Abort(n)

ArchiveSpec == ArchiveInit /\ [][ArchiveNext]_archiveVars

-----------------------------------------------------------------------------

ArchiveTypeOK ==
  /\ present \subseteq Row /\ version \in [Row -> 0 .. MaxRowChanges] /\ overtaken \subseteq Row /\ old \subseteq Row /\ finished \subseteq Row
  /\ \A f \in files : f[1] \in Row /\ f[2] \in 0 .. MaxRowChanges
  /\ \A n \in Run : /\ run[n].at \in {"none", "fetch", "upload", "delete"} /\ run[n].todo \subseteq old
                    /\ Cardinality(run[n].batch) <= BatchSize
  /\ changes \in 0 .. MaxRowChanges /\ archiveErrors \in 0 .. MaxArchiveErrors

\* A row is deleted only after a file with its last state was stored, whatever
\* runs overlap, fail between upload and deletion, or delete the same rows.  The
\* exception is a row updated between fetch and deletion: the deletion names
\* ids only, and the archive keeps the older state.
DeletedIsArchived ==
  \A r \in Row \ present : \E f \in files : f[1] = r /\ (f[2] = version[r] \/ r \in overtaken)

\* A run that ends without an error leaves no row that was old when it began,
\* even if another run works on the same rows or fails half way.
RunClearsOldRows == finished \cap present = {}

\* Nothing is deleted that was not archived, and a run without errors leaves
\* nothing old behind, though runs overlap and fail between two statements.
ArchiveInv == ArchiveTypeOK /\ DeletedIsArchived /\ RunClearsOldRows
=============================================================================
