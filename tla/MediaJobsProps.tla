--------------------------- MODULE MediaJobsProps ---------------------------
(* What the media jobs promise.                                            *)
EXTENDS MediaJobs

Ended(u) == itemTask[u] = "done"

\* The broker stopped before the task of the batch began.
NeverBegan(j) ==
  /\ Closing /\ status[j] = "failed"
  /\ \A u \in Items(j) : itemTask[u] = "none" /\ itemStatus[u] = "preparing"

\* When a task has ended nothing of it goes on, and what get_job then returns
\* is final: the verdict, that of each image, no thread at work on its files,
\* no staging directory.  Only a batch whose task was cancelled before it began
\* leaves its images without a verdict (_run, _run_batch, _save, _disk, close).
EndedIsFinal ==
  /\ \A j \in JobIds : Known(j) /\ TaskDone(j) =>
       /\ JobStatus(j) \in Final \cup {"partial"}
       /\ \A u \in Items(j) : itemTask[u] \in {"none", "done"}
       /\ \/ \A u \in Items(j) : itemStatus[u] \in Final
          \/ request[j].batch /\ NeverBegan(j)
  /\ \A u \in Units : Ended(u) => disk[u] = {} /\ staged[u] = 0

\* docs/MCP.md: files are "published together after every transfer succeeds":
\* a result directory holds all files, and an image that succeeded has one.
PublishedWhole ==
  \A u \in Units : /\ published[u] \in {0, Images}
                   /\ itemStatus[u] = "succeeded" => published[u] = Images

\* The verdict of a batch sums up its images: everything succeeded, something
\* did, or nothing; only shutdown fails a batch with results (_run_batch).
VerdictHolds ==
  \A j \in JobIds : Known(j) /\ request[j].batch /\ batchTask[j] = "done" =>
    LET won == {u \in Items(j) : itemStatus[u] = "succeeded"} IN
    /\ status[j] = "succeeded" => won = Items(j)
    /\ status[j] = "partial" => won # {} /\ won # Items(j)
    /\ status[j] = "failed" => won = {} \/ Closing

\* Jobs that have not ended never take more places than the queue has (_generate).
WithinCapacity == Active <= Capacity

\* After stop() no task of a job runs (close, and the second check in _generate).
NoTaskSurvives == stop = "closed" => Live = {}

\* A job id keeps its request, an image is sent to ComfyUI once at most, and a
\* verdict stays: "retries never silently regenerate an image" (docs/MCP.md).
NoRegeneration ==
  [][/\ \A j \in JobIds : Known(j) => request'[j] = request[j]
     /\ \A u \in Units :
          /\ ticket[u] # "none" => ticket'[u] \notin {"none", "queued"} \/ ticket'[u] = ticket[u]
          /\ itemStatus[u] = "succeeded" => itemStatus'[u] = "succeeded"]_vars

\* tests/test_media_jobs.py asserts of a job that shutdown fails that the
\* results directory is empty.
FailedPublishesNothing ==
  \A u \in Units : Ended(u) /\ itemStatus[u] = "failed" => published[u] = 0

\* Every job ends, whether or not anybody waits for it.
JobsEnd == \A j \in JobIds : Known(j) ~> (Known(j) /\ TaskDone(j))
=============================================================================
