---- MODULE RemoteQueue ----
(***************************************************************************)
(* The remote execution queue of packages/transforms: a plan step enqueues *)
(* its job (queueAdapter.ts) and runs it locally when the queue has no     *)
(* result for it; external workers claim and complete jobs (remoteWorker)  *)
(* over HTTP (httpQueue.ts), so a claim's answer or a result can be lost.  *)
(* Jobs are named by the call that enqueues them; their input is left out, *)
(* a result is good or bad.                                                *)
(***************************************************************************)
EXTENDS Integers, Sequences

CONSTANTS Jobs, Workers,
    MaxJobs,   \* createRemoteQueue's bound
    WithLocal, \* jobs whose adapter was given a local one to fall back on
    NoJob

ASSUME QueueAssumption ==
    /\ MaxJobs \in Nat \ {0} /\ WithLocal \subseteq Jobs /\ NoJob \notin Jobs

VARIABLES
    queue,   \* the Map's keys, oldest first
    state,   \* RemoteJob.state
    result,  \* RemoteJob.result
    step,    \* where the call that made the job is
    reply,   \* what it returned
    work,    \* the job a worker has
    posting, \* the result it is about to post
    remote, local   \* (history) how often the job ran on a worker, at home

qjobs == <<queue, state, result>>
qcalls == <<step, reply>>
qworkers == <<work, posting>>
qvars == <<qjobs, qcalls, qworkers, remote, local>>

Results == {"good", "bad"}

QueueTypeOK ==
    /\ queue \in Seq(Jobs) /\ Len(queue) <= MaxJobs
    /\ state \in [Jobs -> {"queued", "claimed", "done", "failed", "expired"}]
    /\ result \in [Jobs -> Results \cup {"none"}]
    /\ step \in [Jobs -> {"new", "settling", "local", "answered"}]
    /\ reply \in [Jobs -> Results \cup {"none", "unclaimed"}]
    /\ work \in [Workers -> Jobs \cup {NoJob}]
    /\ posting \in [Workers -> Results \cup {"none"}]
    /\ remote \in [Jobs -> Nat] /\ local \in [Jobs -> Nat]

QueueInit ==
    /\ queue = <<>> /\ state = [j \in Jobs |-> "queued"] /\ result = [j \in Jobs |-> "none"]
    /\ step = [j \in Jobs |-> "new"] /\ reply = [j \in Jobs |-> "none"]
    /\ work = [w \in Workers |-> NoJob] /\ posting = [w \in Workers |-> "none"]
    /\ remote = [j \in Jobs |-> 0] /\ local = [j \in Jobs |-> 0]

\* MUTANT: the queue has no bound
EnqueueUnbounded(j) ==
    /\ step[j] = "new"
    /\ step' = [step EXCEPT ![j] = "settling"]
    /\ queue' = Append(queue, j)
    /\ UNCHANGED <<state, result, reply, qworkers, remote, local>>

InQueue(j) == \E i \in 1..Len(queue) : queue[i] = j

\* execute: enqueue, and put drops the oldest jobs beyond the bound, whatever their state
Enqueue(j) ==
    /\ step[j] = "new"
    /\ step' = [step EXCEPT ![j] = "settling"]
    /\ queue' = LET q == Append(queue, j)
                IN  IF Len(q) > MaxJobs THEN Tail(q) ELSE q
    /\ UNCHANGED <<state, result, reply, qworkers, remote, local>>

\* settle is over: take the result, or run it at home, or report it as unclaimed
Settled(j) ==
    /\ step[j] = "settling"
    /\ IF InQueue(j) /\ result[j] # "none"
       THEN /\ step' = [step EXCEPT ![j] = "answered"]
            /\ reply' = [reply EXCEPT ![j] = result[j]]
       ELSE IF j \in WithLocal
       THEN /\ step' = [step EXCEPT ![j] = "local"] /\ UNCHANGED reply
       ELSE /\ step' = [step EXCEPT ![j] = "answered"]
            /\ reply' = [reply EXCEPT ![j] = "unclaimed"]
    /\ UNCHANGED <<qjobs, qworkers, remote, local>>

RunLocally(j) ==
    /\ step[j] = "local"
    /\ step' = [step EXCEPT ![j] = "answered"]
    /\ \E r \in Results : reply' = [reply EXCEPT ![j] = r]
    /\ local' = [local EXCEPT ![j] = @ + 1]
    /\ UNCHANGED <<qjobs, qworkers, remote>>

\* MUTANT: the job is handed out but keeps its state
ClaimUnmarked(w) ==
    /\ work[w] = NoJob
    /\ \E i \in 1..Len(queue) :
         /\ state[queue[i]] = "queued" /\ \A k \in 1..(i - 1) : state[queue[k]] # "queued"
         /\ work' = [work EXCEPT ![w] = queue[i]]
    /\ UNCHANGED <<qjobs, qcalls, posting, remote, local>>

\* claim: the oldest queued job; its answer may be lost on the way to the worker
Claim(w) ==
    /\ work[w] = NoJob
    /\ \E i \in 1..Len(queue) :
         /\ state[queue[i]] = "queued" /\ \A k \in 1..(i - 1) : state[queue[k]] # "queued"
         /\ state' = [state EXCEPT ![queue[i]] = "claimed"]
         /\ \/ work' = [work EXCEPT ![w] = queue[i]]
            \/ UNCHANGED work
    /\ UNCHANGED <<queue, result, qcalls, posting, remote, local>>

\* the engine runs; an exception is a bad result
Execute(w) ==
    /\ work[w] # NoJob /\ posting[w] = "none"
    /\ \E r \in Results : posting' = [posting EXCEPT ![w] = r]
    /\ remote' = [remote EXCEPT ![work[w]] = @ + 1]
    /\ UNCHANGED <<qjobs, qcalls, work, local>>

WorkerFree(w) ==
    /\ work' = [work EXCEPT ![w] = NoJob]
    /\ posting' = [posting EXCEPT ![w] = "none"]

\* complete: 409 for a job that is gone, done or expired
Complete(w) ==
    /\ posting[w] # "none"
    /\ LET j == work[w]
       IN  IF InQueue(j) /\ state[j] \notin {"done", "expired"}
           THEN /\ state' = [state EXCEPT ![j] = IF posting[w] = "good" THEN "done" ELSE "failed"]
                /\ result' = [result EXCEPT ![j] = posting[w]]
           ELSE UNCHANGED <<state, result>>
    /\ WorkerFree(w)
    /\ UNCHANGED <<queue, qcalls, remote, local>>

\* the worker dies, or its post is lost and its loop goes on: the job stays claimed
WorkerLost(w) ==
    /\ work[w] # NoJob
    /\ WorkerFree(w)
    /\ UNCHANGED <<qjobs, qcalls, remote, local>>

\* expireStale: the queued jobs among the k oldest
ExpireStale ==
    /\ \E k \in 1..Len(queue) :
         LET stale == {j \in {queue[i] : i \in 1..k} : state[j] = "queued"}
         IN  /\ stale # {}
             /\ state' = [j \in Jobs |-> IF j \in stale THEN "expired" ELSE state[j]]
    /\ UNCHANGED <<queue, result, qcalls, qworkers, remote, local>>

QueueNext ==
    \/ \E j \in Jobs : Enqueue(j) \/ Settled(j) \/ RunLocally(j)
    \/ \E w \in Workers : Claim(w) \/ Execute(w) \/ Complete(w) \/ WorkerLost(w)
    \/ ExpireStale

QueueSpec == QueueInit /\ [][QueueNext]_qvars

-----------------------------------------------------------------------------
\* The local fallback does not wait for a worker that has claimed the job, and the bound
\* may drop a claimed one (queueAdapter.ts, remote.ts), so an engine can run twice for one
\* step, but never more: once on one worker, once at home.  And a reply that did not come
\* from home means that a worker did run the job.
RunsOnceEach ==
    \A j \in Jobs :
        /\ remote[j] <= 1 /\ local[j] <= 1
        /\ step[j] = "answered" /\ local[j] = 0 /\ reply[j] \in Results => remote[j] = 1
====
