---- MODULE RunLifecycle ----
(***************************************************************************)
(* The life of an integration run across the four processes that write its *)
(* row: the API (runs.start, runs.cancel, consents.revoke), the runner     *)
(* (runJob and its executors), the reaper that sweeps every 30 s inside    *)
(* the runner, and the parse worker.  They share the integrationRun table, *)
(* two BullMQ queues, the Redis key cancel:<id> and the host's containers. *)
(* Every action is the code between two awaits whose effects another       *)
(* process can observe.                                                    *)
(***************************************************************************)
EXTENDS Naturals, FiniteSets

CONSTANTS
    Runs,           \* run ids the API may create
    Wall,           \* Wall[k]: the age at which an executor of kind k times out
    Slots,          \* RUNNER_CONCURRENCY
    MaxStalled,     \* BullMQ maxStalledCount: redeliveries of a lost job
    MaxFaults       \* bound: crashes and store errors in a behaviour

\* Ages of row.startedAt that the timers tell apart: 0 is younger than
\* TIMERS.containerStartMs, 1 older than that, 2 older than the 300 s and the
\* grace of the reaper, 3 older than the longest manifest wall clock (600 s).
MaxAge == 3

\* execution.kind of the manifest: "builtin" and "http" run in the runner.
Kinds == {"container", "inprocess"}

ASSUME RunLifecycleAssumption ==
    /\ IsFiniteSet(Runs)
    /\ Wall \in [Kinds -> 1..MaxAge]
    /\ Slots \in Nat
    /\ MaxStalled \in Nat
    /\ MaxFaults \in Nat

VARIABLES
    kind, status, errorCode, proposalId, age,     \* the integrationRun row
    api, cancel, revoked,                   \* API requests in progress
    cancelKey, runQ, parseQ,                \* Redis: key and queue lengths
    pc, result, tripped, execs, stalls,     \* the runner's jobs
    outputs,                                \* parseable results so far
    containers,                             \* docker: what runs on the host
    swPc, swLive, swTimeout, swCrash, swOrphan,   \* the reaper's sweep
    wpc, proposals, pstalls,                \* the parse worker's jobs
    faults                                  \* faults so far

rowVars == <<kind, status, errorCode, proposalId, age>>
apiVars == <<api, cancel, revoked>>
redisVars == <<cancelKey, runQ, parseQ>>
jobVars == <<pc, result, tripped, execs, stalls, outputs>>
sweepVars == <<swPc, swLive, swTimeout, swCrash, swOrphan>>
workerVars == <<wpc, proposals, pstalls>>
vars == <<rowVars, apiVars, redisVars, jobVars, containers, sweepVars,
          workerVars, faults>>

----
(* Data. *)

Active == {"starting", "running"}
Terminal == {"succeeded", "partial", "failed", "cancelled", "timed_out"}
Statuses == {"absent", "queued", "parsing"} \cup Active \cup Terminal

ErrorCodes == {"none", "CANCELLED", "CONSENT_EXPIRED", "TIMEOUT",
               "RUNNER_CRASHED", "INTEGRATION_DISABLED", "TOOL_ERROR",
               "PARSE_ERROR"}

Parseable == {"succeeded", "partial"}

\* RawRunResult: its status and the code of its error payload, if any.
Result(s, e) == [status |-> s, error |-> e]
NoResult == Result("none", "none")
Results == [status : Terminal \cup {"none"}, error : ErrorCodes]

\* Where a runner job can be between two awaits of runJob; "stalled" is a job
\* whose runner died and whose BullMQ lock has not expired yet.
JobPcs == {"idle", "claimed", "starting", "running", "spawned", "done",
           "finalised", "stalled"}
ParsePcs == {"idle", "loaded", "saved", "marked", "failing", "stalled"}

\* `docker run` gets the label raven.run_id and no --name, so the name the
\* daemon gives the container is none of the run ids.
Unnamed == "unnamed"
Container(r, n) == [label |-> r, exec |-> n, name |-> Unnamed]

\* `docker ps --filter label=raven.run_id`.
Labels == {c.label : c \in containers}

\* `docker kill <runId>` reaches the containers with that id or name; a
\* failure to find one is swallowed.
Addressed(r) == {c \in containers : c.name = r}

InFlight == {r \in Runs : pc[r] \notin {"idle", "stalled"}}
----
Init ==
    /\ kind = [r \in Runs |-> "inprocess"]
    /\ status = [r \in Runs |-> "absent"]
    /\ errorCode = [r \in Runs |-> "none"]
    /\ proposalId = [r \in Runs |-> 0]
    /\ age = [r \in Runs |-> 0]
    /\ api = [r \in Runs |-> "none"]
    /\ cancel = [r \in Runs |-> "none"]
    /\ revoked = FALSE
    /\ cancelKey = [r \in Runs |-> FALSE]
    /\ runQ = [r \in Runs |-> 0]
    /\ parseQ = [r \in Runs |-> 0]
    /\ pc = [r \in Runs |-> "idle"]
    /\ result = [r \in Runs |-> NoResult]
    /\ tripped = [r \in Runs |-> FALSE]
    /\ execs = [r \in Runs |-> 0]
    /\ stalls = [r \in Runs |-> 0]
    /\ outputs = [r \in Runs |-> 0]
    /\ containers = {}
    /\ swPc = "idle"
    /\ swLive = {}
    /\ swTimeout = {}
    /\ swCrash = {}
    /\ swOrphan = {}
    /\ wpc = [r \in Runs |-> "idle"]
    /\ proposals = [r \in Runs |-> 0]
    /\ pstalls = [r \in Runs |-> 0]
    /\ faults = 0
----
(* The row, as its writers update it. *)

SetStatus(r, s) ==
    /\ status' = [status EXCEPT ![r] = s]
    /\ UNCHANGED <<kind, errorCode, proposalId, age>>

SetOutcome(r, s, e) ==
    /\ status' = [status EXCEPT ![r] = s]
    /\ errorCode' = [errorCode EXCEPT ![r] = e]
    /\ UNCHANGED <<kind, proposalId, age>>

Fault == /\ faults < MaxFaults
         /\ faults' = faults + 1
----
(* The API.  All runs of the model lean on one consent. *)

\* runs.start reads the consent and checks it (RunGate has the other checks).
CheckConsent(r) ==
    /\ api[r] = "none"
    /\ ~revoked
    /\ api' = [api EXCEPT ![r] = "checked"]
    /\ UNCHANGED <<rowVars, cancel, revoked, redisVars, jobVars, containers,
                   sweepVars, workerVars, faults>>

\* Awaits later, the INSERT, for an integration of either kind.
CreateRun(r) ==
    /\ api[r] = "checked"
    /\ api' = [api EXCEPT ![r] = "created"]
    /\ \E k \in Kinds : kind' = [kind EXCEPT ![r] = k]
    /\ status' = [status EXCEPT ![r] = "queued"]
    /\ UNCHANGED <<errorCode, proposalId, age, cancel, revoked, redisVars,
                   jobVars, containers, sweepVars, workerVars, faults>>

\* enqueueRun, after the row is committed.
EnqueueRun(r) ==
    /\ api[r] = "created"
    /\ api' = [api EXCEPT ![r] = "enqueued"]
    /\ runQ' = [runQ EXCEPT ![r] = @ + 1]
    /\ UNCHANGED <<rowVars, cancel, revoked, cancelKey, parseQ, jobVars,
                   containers, sweepVars, workerVars, faults>>

\* The API dies, or Redis refuses the job, between the two.
StartFails(r) ==
    /\ api[r] = "created"
    /\ Fault
    /\ api' = [api EXCEPT ![r] = "lost"]
    /\ UNCHANGED <<rowVars, cancel, revoked, redisVars, jobVars, containers,
                   sweepVars, workerVars>>

\* runs.cancel reads the row; a terminal one is answered without a write.
CancelCheck(r) ==
    /\ cancel[r] = "none"
    /\ status[r] \notin Terminal \cup {"absent"}
    /\ cancel' = [cancel EXCEPT ![r] = "checked"]
    /\ UNCHANGED <<rowVars, api, revoked, redisVars, jobVars, containers,
                   sweepVars, workerVars, faults>>

\* requestRunCancel: SET the key, PUBLISH.  A runner subscribed by then hears
\* the message (WatchTrips); one that is not finds the key when it polls.
CancelSetKey(r) ==
    /\ cancel[r] = "checked"
    /\ cancel' = [cancel EXCEPT ![r] = "keyed"]
    /\ cancelKey' = [cancelKey EXCEPT ![r] = TRUE]
    /\ UNCHANGED <<rowVars, api, revoked, runQ, parseQ, jobVars, containers,
                   sweepVars, workerVars, faults>>

\* Mutants: the error code forgotten; the status condition forgotten.
CancelUpdateUnexplained(r) ==
    /\ cancel[r] = "keyed"
    /\ cancel' = [cancel EXCEPT ![r] = "answered"]
    /\ IF status[r] = "queued" THEN SetStatus(r, "cancelled")
                               ELSE UNCHANGED rowVars
    /\ UNCHANGED <<api, revoked, redisVars, jobVars, containers, sweepVars,
                   workerVars, faults>>

CancelUpdateAlways(r) ==
    /\ cancel[r] = "keyed"
    /\ cancel' = [cancel EXCEPT ![r] = "answered"]
    /\ SetOutcome(r, "cancelled", "CANCELLED")
    /\ UNCHANGED <<api, revoked, redisVars, jobVars, containers, sweepVars,
                   workerVars, faults>>

\* The conditional UPDATE; the job stays in the queue.
CancelUpdate(r) ==
    /\ cancel[r] = "keyed"
    /\ cancel' = [cancel EXCEPT ![r] = "answered"]
    /\ IF status[r] = "queued" THEN SetOutcome(r, "cancelled", "CANCELLED")
                               ELSE UNCHANGED rowVars
    /\ UNCHANGED <<api, revoked, redisVars, jobVars, containers, sweepVars,
                   workerVars, faults>>

\* The API dies between the steps of runs.cancel.
CancelFails(r) ==
    /\ cancel[r] \in {"checked", "keyed"}
    /\ Fault
    /\ cancel' = [cancel EXCEPT ![r] = IF @ = "checked" THEN "lost"
                                                        ELSE "answered"]
    /\ UNCHANGED <<rowVars, api, revoked, redisVars, jobVars, containers,
                   sweepVars, workerVars>>

\* The key's 15 minutes pass; they outlast any execution they started in.
KeyExpires(r) ==
    /\ cancelKey[r]
    /\ pc[r] = "idle"
    /\ cancelKey' = [cancelKey EXCEPT ![r] = FALSE]
    /\ UNCHANGED <<rowVars, apiVars, runQ, parseQ, jobVars, containers,
                   sweepVars, workerVars, faults>>

\* consents.revoke: queued runs that lean on the consent become cancelled.
RevokeConsent ==
    /\ ~revoked
    /\ revoked' = TRUE
    /\ status' = [r \in Runs |-> IF status[r] = "queued" THEN "cancelled"
                                                         ELSE status[r]]
    /\ errorCode' = [r \in Runs |-> IF status[r] = "queued"
                                    THEN "CONSENT_EXPIRED" ELSE errorCode[r]]
    /\ UNCHANGED <<kind, proposalId, age, api, cancel, redisVars, jobVars,
                   containers, sweepVars, workerVars, faults>>
----
(* The runner: runJob. *)

\* Mutant: a job taken from an empty queue.
ClaimJobUnguarded(r) ==
    /\ pc[r] = "idle"
    /\ status[r] = "queued"
    /\ runQ' = [runQ EXCEPT ![r] = @ - 1]
    /\ pc' = [pc EXCEPT ![r] = "claimed"]
    /\ UNCHANGED <<rowVars, apiVars, cancelKey, parseQ, result, tripped, execs,
                   stalls, outputs, containers, sweepVars, workerVars, faults>>

\* BullMQ hands the job to a free slot; runJob loads the row.  Neither the
\* row's status nor the cancel key is looked at.
ClaimJob(r) ==
    /\ runQ[r] > 0
    /\ pc[r] = "idle"
    /\ Cardinality(InFlight) < Slots
    /\ runQ' = [runQ EXCEPT ![r] = @ - 1]
    /\ pc' = [pc EXCEPT ![r] = "claimed"]
    /\ tripped' = [tripped EXCEPT ![r] = FALSE]
    /\ result' = [result EXCEPT ![r] = NoResult]
    /\ UNCHANGED <<rowVars, apiVars, cancelKey, parseQ, execs, stalls, outputs,
                   containers, sweepVars, workerVars, faults>>

\* The integration left the registry after the run was requested.
RunnerDisabled(r) ==
    /\ pc[r] = "claimed"
    /\ pc' = [pc EXCEPT ![r] = "idle"]
    /\ SetOutcome(r, "failed", "INTEGRATION_DISABLED")
    /\ UNCHANGED <<apiVars, redisVars, result, tripped, execs, stalls, outputs,
                   containers, sweepVars, workerVars, faults>>

\* watchCancel, then status "starting" with a new startedAt.
StartJob(r) ==
    /\ pc[r] = "claimed"
    /\ pc' = [pc EXCEPT ![r] = "starting"]
    /\ status' = [status EXCEPT ![r] = "starting"]
    /\ age' = [age EXCEPT ![r] = 0]
    /\ UNCHANGED <<kind, errorCode, proposalId, apiVars, redisVars, result,
                   tripped, execs, stalls, outputs, containers, sweepVars, workerVars,
                   faults>>

\* Secrets and executor are ready: status "running", executor.execute starts.
ExecuteJob(r) ==
    /\ pc[r] = "starting"
    /\ pc' = [pc EXCEPT ![r] = "running"]
    /\ execs' = [execs EXCEPT ![r] = @ + 1]
    /\ SetStatus(r, "running")
    /\ UNCHANGED <<apiVars, redisVars, result, tripped, stalls, outputs,
                   containers, sweepVars, workerVars, faults>>

\* The cancel watch lives from StartJob until the executor returns.
Watching(r) == pc[r] \in {"starting", "running", "spawned"}

\* Mutant: the poll trips without finding the key.
WatchTripsBlindly(r) ==
    /\ Watching(r)
    /\ ~tripped[r]
    /\ tripped' = [tripped EXCEPT ![r] = TRUE]
    /\ UNCHANGED <<rowVars, apiVars, redisVars, pc, result, execs, stalls,
                   outputs, containers, sweepVars, workerVars, faults>>

\* It trips on the published message or on the key it polls every 500 ms,
WatchTrips(r) ==
    /\ Watching(r)
    /\ cancelKey[r]
    /\ ~tripped[r]
    /\ tripped' = [tripped EXCEPT ![r] = TRUE]
    /\ UNCHANGED <<rowVars, apiVars, redisVars, pc, result, execs, stalls,
                   outputs, containers, sweepVars, workerVars, faults>>

\* and on any message of the channel that contains "cancel": the container's
\* stdout is published on that channel too.
StdoutTrips(r) ==
    /\ pc[r] = "spawned"
    /\ ~tripped[r]
    /\ tripped' = [tripped EXCEPT ![r] = TRUE]
    /\ UNCHANGED <<rowVars, apiVars, redisVars, pc, result, execs, stalls,
                   outputs, containers, sweepVars, workerVars, faults>>

\* An executor returns x.
Return(r, x) ==
    /\ pc' = [pc EXCEPT ![r] = "done"]
    /\ result' = [result EXCEPT ![r] = x]
    /\ outputs' = [outputs EXCEPT ![r] = IF x.status \in Parseable THEN @ + 1
                                                                   ELSE @]
    /\ UNCHANGED <<rowVars, apiVars, redisVars, tripped, execs, stalls,
                   sweepVars, workerVars, faults>>
----
(* The container executor. *)

\* Registry, pull, digest or capability probe fail: no container starts.
PrepareFails(r) ==
    /\ kind[r] = "container"
    /\ pc[r] = "running"
    /\ Return(r, Result("failed", "TOOL_ERROR"))
    /\ UNCHANGED containers

SpawnContainer(r) ==
    /\ kind[r] = "container"
    /\ pc[r] = "running"
    /\ pc' = [pc EXCEPT ![r] = "spawned"]
    /\ containers' = containers \cup {Container(r, execs[r])}
    /\ UNCHANGED <<rowVars, apiVars, redisVars, result, tripped, execs, stalls,
                   outputs, sweepVars, workerVars, faults>>

\* What the executor makes of an exit: clean with or without an artifact, or
\* non-zero with or without one.
ExitResults == {Result("succeeded", "none"), Result("partial", "TOOL_ERROR"),
                Result("failed", "TOOL_ERROR")}

\* "close" wins the race: the tool ended by itself.
ToolExits(r) ==
    /\ pc[r] = "spawned"
    /\ Container(r, execs[r]) \in containers
    /\ containers' = containers \ {Container(r, execs[r])}
    /\ \E x \in ExitResults : Return(r, x)

\* waitAndKill wins it: SIGTERM, grace, SIGKILL, each `docker kill <runId>`.
\* Storing what the tool wrote can still fail.
KillTool(r) ==
    /\ pc[r] = "spawned"
    /\ tripped[r] \/ age[r] >= Wall[kind[r]]
    /\ containers' = containers \ Addressed(r)
    /\ \/ tripped[r] /\ Return(r, Result("cancelled", "CANCELLED"))
       \/ age[r] >= Wall[kind[r]] /\ Return(r, Result("timed_out", "TIMEOUT"))
       \/ Return(r, Result("failed", "TOOL_ERROR"))

\* A container nobody waits for any more ends by itself.
AbandonedToolExits(c) ==
    /\ c \in containers
    /\ ~(pc[c.label] = "spawned" /\ execs[c.label] = c.exec)
    /\ containers' = containers \ {c}
    /\ UNCHANGED <<rowVars, apiVars, redisVars, jobVars, sweepVars, workerVars,
                   faults>>
----
(* The builtin and http executors run inside the runner process. *)

InProcessResults == {Result("succeeded", "none"), Result("partial", "none")}

InProcessReturns(r) ==
    /\ kind[r] = "inprocess"
    /\ pc[r] = "running"
    /\ \E x \in InProcessResults : Return(r, x)
    /\ UNCHANGED containers

\* The module throws: a tripped watch decides before the wall clock does, and
\* only an error of neither is the tool's own.
InProcessThrows(r) ==
    /\ kind[r] = "inprocess"
    /\ pc[r] = "running"
    /\ Return(r, IF tripped[r] THEN Result("cancelled", "CANCELLED")
                 ELSE IF age[r] >= Wall[kind[r]] THEN Result("timed_out", "TIMEOUT")
                 ELSE Result("failed", "TOOL_ERROR"))
    /\ UNCHANGED containers
----
(* The runner's last writes, and how its jobs are lost. *)

\* Mutant: whatever the executor returned goes on to the parser.
FinaliseRowParseAll(r) ==
    /\ pc[r] = "done"
    /\ SetStatus(r, "parsing")
    /\ pc' = [pc EXCEPT ![r] = "finalised"]
    /\ UNCHANGED <<apiVars, redisVars, result, tripped, execs, stalls, outputs,
                   containers, sweepVars, workerVars, faults>>

\* The final UPDATE: an error code is only written when there is an error.
FinaliseRow(r) ==
    /\ pc[r] = "done"
    /\ LET x == result[r]
           parse == x.status \in Parseable
       IN  /\ status' = [status EXCEPT ![r] = IF parse THEN "parsing"
                                                       ELSE x.status]
           /\ errorCode' = [errorCode EXCEPT ![r] =
                                IF x.error = "none" THEN @ ELSE x.error]
           /\ pc' = [pc EXCEPT ![r] = IF parse THEN "finalised" ELSE "idle"]
    /\ UNCHANGED <<kind, proposalId, age, apiVars, redisVars, result, tripped,
                   execs, stalls, outputs, containers, sweepVars, workerVars, faults>>

\* Mutant: the parse job is not added.
EnqueueParseLost(r) ==
    /\ pc[r] = "finalised"
    /\ pc' = [pc EXCEPT ![r] = "idle"]
    /\ UNCHANGED <<rowVars, apiVars, redisVars, result, tripped, execs, stalls,
                   outputs, containers, sweepVars, workerVars, faults>>

EnqueueParse(r) ==
    /\ pc[r] = "finalised"
    /\ pc' = [pc EXCEPT ![r] = "idle"]
    /\ parseQ' = [parseQ EXCEPT ![r] = @ + 1]
    /\ UNCHANGED <<rowVars, apiVars, cancelKey, runQ, result, tripped, execs,
                   stalls, outputs, containers, sweepVars, workerVars, faults>>

\* Mutant: `attempts` above 1, BullMQ retries the failed job.
JobThrowsAndRetries(r) ==
    /\ pc[r] \in {"claimed", "starting", "done", "finalised"}
    /\ Fault
    /\ pc' = [pc EXCEPT ![r] = "idle"]
    /\ runQ' = [runQ EXCEPT ![r] = @ + 1]
    /\ UNCHANGED <<rowVars, apiVars, cancelKey, parseQ, result, tripped, execs,
                   stalls, outputs, containers, sweepVars, workerVars>>

\* A query of runJob outside its try rejects: BullMQ fails the job, once.
JobThrows(r) ==
    /\ pc[r] \in {"claimed", "starting", "done", "finalised"}
    /\ Fault
    /\ pc' = [pc EXCEPT ![r] = "idle"]
    /\ UNCHANGED <<rowVars, apiVars, redisVars, result, tripped, execs, stalls,
                   outputs, containers, sweepVars, workerVars>>

\* The runner process dies with its jobs and its sweep; containers live on.
RunnerCrash ==
    /\ InFlight # {}
    /\ Fault
    /\ pc' = [r \in Runs |-> IF r \in InFlight THEN "stalled" ELSE pc[r]]
    /\ swPc' = "idle"
    /\ swLive' = {}
    /\ swTimeout' = {}
    /\ swCrash' = {}
    /\ swOrphan' = {}
    /\ UNCHANGED <<rowVars, apiVars, redisVars, result, tripped, execs, stalls,
                   outputs, containers, workerVars>>

\* BullMQ finds the job's lock expired and, up to maxStalledCount times, puts
\* it back: `attempts: 1` does not count these deliveries.
RedeliverJob(r) ==
    /\ pc[r] = "stalled"
    /\ pc' = [pc EXCEPT ![r] = "idle"]
    /\ IF stalls[r] < MaxStalled
       THEN /\ stalls' = [stalls EXCEPT ![r] = @ + 1]
            /\ runQ' = [runQ EXCEPT ![r] = @ + 1]
       ELSE UNCHANGED <<stalls, runQ>>
    /\ UNCHANGED <<rowVars, apiVars, cancelKey, parseQ, result, tripped, execs,
                   outputs, containers, sweepVars, workerVars, faults>>

\* Time passes for a run that has started.
Tick(r) ==
    /\ status[r] \in Active \/ pc[r] \in {"running", "spawned"}
    /\ age[r] < MaxAge
    /\ age' = [age EXCEPT ![r] = @ + 1]
    /\ UNCHANGED <<kind, status, errorCode, proposalId, apiVars, redisVars,
                   jobVars, containers, sweepVars, workerVars, faults>>
----
(* The reaper: a sweep every 30 s, taken to end before the next begins. *)

\* liveContainers.  A docker error reads as "no containers", and so does a
\* sweep on another replica's host.
SweepLive ==
    /\ swPc = "idle"
    /\ swPc' = "live"
    /\ swLive' \in {Labels, {}}
    /\ UNCHANGED <<rowVars, apiVars, redisVars, jobVars, containers, swTimeout,
                   swCrash, swOrphan, workerVars, faults>>

\* Mutant: a run without a container is left to its runner.
SweepListOnlyOverdue ==
    /\ swPc = "live"
    /\ swPc' = "act"
    /\ LET active == {r \in Runs : status[r] \in Active}
       IN  /\ swTimeout' = {r \in active : r \in swLive /\ age[r] >= 2}
           /\ swOrphan' = swLive \ active
    /\ UNCHANGED <<rowVars, apiVars, redisVars, jobVars, containers, swLive,
                   swCrash, workerVars, faults>>

\* listActiveRuns: what the sweep will do to each run is settled here.
SweepList ==
    /\ swPc = "live"
    /\ swPc' = "act"
    /\ LET active == {r \in Runs : status[r] \in Active}
       IN  /\ swTimeout' = {r \in active : r \in swLive /\ age[r] >= 2}
           /\ swCrash' = {r \in active : r \notin swLive /\ age[r] >= 1}
           /\ swOrphan' = swLive \ active
    /\ UNCHANGED <<rowVars, apiVars, redisVars, jobVars, containers, swLive,
                   workerVars, faults>>

\* killContainer and failRun, which does not look at the row it overwrites.
SweepTimeout(r) ==
    /\ r \in swTimeout
    /\ swTimeout' = swTimeout \ {r}
    /\ containers' = containers \ Addressed(r)
    /\ SetOutcome(r, "failed", "TIMEOUT")
    /\ UNCHANGED <<apiVars, redisVars, jobVars, swPc, swLive, swCrash, swOrphan,
                   workerVars, faults>>

SweepCrashed(r) ==
    /\ r \in swCrash
    /\ swCrash' = swCrash \ {r}
    /\ SetOutcome(r, "failed", "RUNNER_CRASHED")
    /\ UNCHANGED <<apiVars, redisVars, jobVars, containers, swPc, swLive,
                   swTimeout, swOrphan, workerVars, faults>>

\* Orphans come after every row of the list.
SweepOrphan(r) ==
    /\ swTimeout = {} /\ swCrash = {}
    /\ r \in swOrphan
    /\ swOrphan' = swOrphan \ {r}
    /\ containers' = containers \ Addressed(r)
    /\ UNCHANGED <<rowVars, apiVars, redisVars, jobVars, swPc, swLive,
                   swTimeout, swCrash, workerVars, faults>>

\* Runs stuck in "parsing" are only logged.
SweepDone ==
    /\ swPc = "act"
    /\ swTimeout = {} /\ swCrash = {} /\ swOrphan = {}
    /\ swPc' = "idle"
    /\ swLive' = {}
    /\ UNCHANGED <<rowVars, apiVars, redisVars, jobVars, containers, swTimeout,
                   swCrash, swOrphan, workerVars, faults>>

\* A query of the sweep rejects: the rest of its work is left to the next one.
SweepFails ==
    /\ swPc # "idle"
    /\ Fault
    /\ swPc' = "idle"
    /\ swLive' = {}
    /\ swTimeout' = {}
    /\ swCrash' = {}
    /\ swOrphan' = {}
    /\ UNCHANGED <<rowVars, apiVars, redisVars, jobVars, containers, workerVars>>
----
(* The parse worker: processParseJob. *)

ClaimParse(r) ==
    /\ parseQ[r] > 0
    /\ wpc[r] = "idle"
    /\ parseQ' = [parseQ EXCEPT ![r] = @ - 1]
    /\ wpc' = [wpc EXCEPT ![r] = "loaded"]
    /\ UNCHANGED <<rowVars, apiVars, cancelKey, runQ, jobVars, containers,
                   sweepVars, proposals, pstalls, faults>>

ParseDisabled(r) ==
    /\ wpc[r] = "loaded"
    /\ wpc' = [wpc EXCEPT ![r] = "idle"]
    /\ SetOutcome(r, "failed", "INTEGRATION_DISABLED")
    /\ UNCHANGED <<apiVars, redisVars, jobVars, containers, sweepVars,
                   proposals, pstalls, faults>>

\* The pipeline ran; saveProposal inserts under a fresh id.
SaveProposal(r) ==
    /\ wpc[r] = "loaded"
    /\ wpc' = [wpc EXCEPT ![r] = "saved"]
    /\ proposals' = [proposals EXCEPT ![r] = @ + 1]
    /\ UNCHANGED <<rowVars, apiVars, redisVars, jobVars, containers, sweepVars,
                   pstalls, faults>>

\* The parser throws or takes more than 120 s.
ParseFails(r) ==
    /\ wpc[r] = "loaded"
    /\ wpc' = [wpc EXCEPT ![r] = "failing"]
    /\ UNCHANGED <<rowVars, apiVars, redisVars, jobVars, containers, sweepVars,
                   proposals, pstalls, faults>>

\* Mutant: the row is marked before the proposal is saved.
MarkSucceededFirst(r) ==
    /\ wpc[r] = "loaded"
    /\ wpc' = [wpc EXCEPT ![r] = "marked"]
    /\ status' = [status EXCEPT ![r] = "succeeded"]
    /\ proposalId' = [proposalId EXCEPT ![r] = proposals[r] + 1]
    /\ UNCHANGED <<kind, errorCode, age, apiVars, redisVars, jobVars, containers,
                   sweepVars, proposals, pstalls, faults>>

\* The ids of a run's proposals are 1, 2, ...; the worker holds the newest.
MarkSucceeded(r) ==
    /\ wpc[r] = "saved"
    /\ wpc' = [wpc EXCEPT ![r] = "marked"]
    /\ status' = [status EXCEPT ![r] = IF @ = "partial" THEN "partial"
                                                        ELSE "succeeded"]
    /\ proposalId' = [proposalId EXCEPT ![r] = proposals[r]]
    /\ UNCHANGED <<kind, errorCode, age, apiVars, redisVars, jobVars, containers,
                   sweepVars, proposals, pstalls, faults>>

\* appendLog, publish: the job is complete.
ParseCompletes(r) ==
    /\ wpc[r] = "marked"
    /\ wpc' = [wpc EXCEPT ![r] = "idle"]
    /\ UNCHANGED <<rowVars, apiVars, redisVars, jobVars, containers, sweepVars,
                   proposals, pstalls, faults>>

\* Any query of the try block rejects, appendLog after markSucceeded too.
ParseStoreError(r) ==
    /\ wpc[r] \in {"loaded", "saved", "marked"}
    /\ Fault
    /\ wpc' = [wpc EXCEPT ![r] = "failing"]
    /\ UNCHANGED <<rowVars, apiVars, redisVars, jobVars, containers, sweepVars,
                   proposals, pstalls>>

MarkFailed(r) ==
    /\ wpc[r] = "failing"
    /\ wpc' = [wpc EXCEPT ![r] = "idle"]
    /\ SetOutcome(r, "failed", "PARSE_ERROR")
    /\ UNCHANGED <<apiVars, redisVars, jobVars, containers, sweepVars,
                   proposals, pstalls, faults>>

\* loadRun, or appendLog or markFailed of the catch block, rejects: nothing
\* catches it and `attempts: 1` does not retry it.
ParseJobThrows(r) ==
    /\ wpc[r] \in {"loaded", "failing"}
    /\ Fault
    /\ wpc' = [wpc EXCEPT ![r] = "idle"]
    /\ UNCHANGED <<rowVars, apiVars, redisVars, jobVars, containers, sweepVars,
                   proposals, pstalls>>

WorkerCrash ==
    /\ \E r \in Runs : wpc[r] \notin {"idle", "stalled"}
    /\ Fault
    /\ wpc' = [r \in Runs |-> IF wpc[r] = "idle" THEN "idle" ELSE "stalled"]
    /\ UNCHANGED <<rowVars, apiVars, redisVars, jobVars, containers, sweepVars,
                   proposals, pstalls>>

RedeliverParse(r) ==
    /\ wpc[r] = "stalled"
    /\ wpc' = [wpc EXCEPT ![r] = "idle"]
    /\ IF pstalls[r] < MaxStalled
       THEN /\ pstalls' = [pstalls EXCEPT ![r] = @ + 1]
            /\ parseQ' = [parseQ EXCEPT ![r] = @ + 1]
       ELSE UNCHANGED <<pstalls, parseQ>>
    /\ UNCHANGED <<rowVars, apiVars, cancelKey, runQ, jobVars, containers,
                   sweepVars, proposals, faults>>
----
(* The system. *)

Api(r) == \/ CheckConsent(r) \/ CreateRun(r) \/ EnqueueRun(r) \/ StartFails(r)
          \/ CancelCheck(r) \/ CancelSetKey(r) \/ CancelUpdate(r)
          \/ CancelFails(r) \/ KeyExpires(r)

Runner(r) == \/ ClaimJob(r) \/ RunnerDisabled(r) \/ StartJob(r) \/ ExecuteJob(r)
             \/ WatchTrips(r) \/ StdoutTrips(r)
             \/ PrepareFails(r) \/ SpawnContainer(r) \/ ToolExits(r) \/ KillTool(r)
             \/ InProcessReturns(r) \/ InProcessThrows(r)
             \/ FinaliseRow(r) \/ EnqueueParse(r) \/ JobThrows(r)
             \/ RedeliverJob(r) \/ Tick(r)

Sweep(r) == SweepTimeout(r) \/ SweepCrashed(r) \/ SweepOrphan(r)

Worker(r) == \/ ClaimParse(r) \/ ParseDisabled(r) \/ SaveProposal(r)
             \/ ParseFails(r) \/ MarkSucceeded(r) \/ ParseCompletes(r)
             \/ ParseStoreError(r) \/ MarkFailed(r) \/ ParseJobThrows(r)
             \/ RedeliverParse(r)

Next ==
    \/ \E r \in Runs : Api(r) \/ Runner(r) \/ Sweep(r) \/ Worker(r)
    \/ \E c \in containers : AbandonedToolExits(c)
    \/ RevokeConsent \/ SweepLive \/ SweepList \/ SweepDone \/ SweepFails
    \/ RunnerCrash \/ WorkerCrash

\* What keeps going by itself: the event loops of the processes, BullMQ's
\* delivery, the timers and the clock.  Users and failures owe nothing, and a
\* tool owes only that an aborted in-process module throws.
RunnerProgress(r) ==
    \/ ClaimJob(r) \/ StartJob(r) \/ ExecuteJob(r) \/ WatchTrips(r)
    \/ PrepareFails(r) \/ SpawnContainer(r) \/ KillTool(r)
    \/ (tripped[r] \/ age[r] >= Wall[kind[r]]) /\ InProcessThrows(r)
    \/ FinaliseRow(r) \/ EnqueueParse(r) \/ RedeliverJob(r)

WorkerProgress(r) ==
    \/ ClaimParse(r) \/ ParseFails(r) \/ SaveProposal(r) \/ MarkSucceeded(r)
    \/ ParseCompletes(r) \/ MarkFailed(r) \/ RedeliverParse(r)

Fairness ==
    /\ \A r \in Runs : /\ WF_vars(EnqueueRun(r))
                       /\ WF_vars(CreateRun(r))
                       /\ WF_vars(CancelSetKey(r) \/ CancelUpdate(r))
                       /\ WF_vars(RunnerProgress(r))
                       /\ WF_vars(Tick(r))
                       /\ WF_vars(Sweep(r))
                       /\ WF_vars(WorkerProgress(r))
    /\ WF_vars(SweepLive) /\ WF_vars(SweepList) /\ WF_vars(SweepDone)

Spec == Init /\ [][Next]_vars
FairSpec == Spec /\ Fairness
----
(* Properties. *)

\* Every variable keeps to its domain.
TypeOK ==
    /\ kind \in [Runs -> Kinds]
    /\ status \in [Runs -> Statuses]
    /\ errorCode \in [Runs -> ErrorCodes]
    /\ proposalId \in [Runs -> Nat]
    /\ age \in [Runs -> 0..MaxAge]
    /\ api \in [Runs -> {"none", "checked", "created", "enqueued", "lost"}]
    /\ cancel \in [Runs -> {"none", "checked", "keyed", "answered", "lost"}]
    /\ revoked \in BOOLEAN
    /\ cancelKey \in [Runs -> BOOLEAN]
    /\ runQ \in [Runs -> Nat]
    /\ parseQ \in [Runs -> Nat]
    /\ pc \in [Runs -> JobPcs]
    /\ result \in [Runs -> Results]
    /\ tripped \in [Runs -> BOOLEAN]
    /\ execs \in [Runs -> Nat]
    /\ stalls \in [Runs -> Nat]
    /\ outputs \in [Runs -> Nat]
    /\ containers \subseteq [label : Runs, exec : Nat, name : {Unnamed}]
    /\ swPc \in {"idle", "live", "act"}
    /\ swLive \subseteq Runs
    /\ swTimeout \subseteq Runs
    /\ swCrash \subseteq Runs
    /\ swOrphan \subseteq Runs
    /\ wpc \in [Runs -> ParsePcs]
    /\ proposals \in [Runs -> Nat]
    /\ pstalls \in [Runs -> Nat]
    /\ faults \in 0..MaxFaults

\* A row says "succeeded" only when a proposal of that very run was saved, is
\* the one the row points at, and rests on output an executor returned,
\* whatever the runner, the reaper and crashes wrote in between.
SucceededHasProposal ==
    \A r \in Runs : status[r] = "succeeded" =>
        /\ proposalId[r] \in 1..proposals[r]
        /\ outputs[r] > 0

\* A tool is started once per requested run and once more per redelivery of a
\* job whose runner died: `attempts: 1` rules out every other re-scan.
ExecutionsBounded == \A r \in Runs : execs[r] <= 1 + stalls[r]

\* Proposals do not multiply: each is the work of one delivery of a parse job,
\* and only a parseable result of an executor enqueues one.
ProposalsComeFromOutput ==
    \A r \in Runs : proposals[r] <= outputs[r] + pstalls[r]

\* A run that ends badly says why, in the code that belongs to how it ended:
\* four processes write the pair and none leaves another's half behind.
FailureExplained ==
    \A r \in Runs :
        /\ status[r] = "cancelled" => errorCode[r] \in {"CANCELLED", "CONSENT_EXPIRED"}
        /\ status[r] = "timed_out" => errorCode[r] = "TIMEOUT"
        /\ status[r] = "failed" => errorCode[r] # "none"

\* An in-process run (builtin, http) is recorded as cancelled only after its
\* cancel key was set or its consent revoked: its watch hears nothing else.
InProcessCancelWasAsked ==
    \A r \in Runs : kind[r] = "inprocess" /\ status[r] = "cancelled" =>
        revoked \/ cancel[r] \in {"keyed", "answered"}

\* Somebody still holds the run: a request, a queue or a job.
Held(r) == \/ api[r] \in {"checked", "created"}
           \/ runQ[r] > 0 \/ pc[r] # "idle"
           \/ parseQ[r] > 0 \/ wpc[r] # "idle"

\* Only a crash or a store error leaves a row in a state that is not terminal
\* with nobody to move it on: every other path hands the run over.
StrandedOnlyByFault ==
    \A r \in Runs :
        status[r] \notin Terminal \cup {"absent"} /\ ~Held(r) => faults > 0

\* A finished row comes back to life (runJob writes "starting" without looking
\* at it) only when it was cancelled while its job was still queued, or when
\* BullMQ redelivered the job.
RevivedOnlyByQueuedJob ==
    [][\A r \in Runs :
         status[r] \in Terminal /\ status'[r] = "starting" =>
             status[r] = "cancelled" \/ stalls[r] > 0]_vars

\* "succeeded" is unseated only by a fault or by a sweep that listed the run
\* before it finished: the reaper's failRun does not look at the row again.
SucceededUnseatedOnlyByStaleSweep ==
    [][\A r \in Runs :
         status[r] = "succeeded" /\ status'[r] # "succeeded" =>
             faults > 0 \/ r \in swTimeout \cup swCrash]_vars

\* Whatever crashes, no row stays in "starting" or "running" for ever: the
\* reaper fails what the runner does not finish.
ReaperRecovers ==
    \A r \in Runs : status[r] \in Active ~> status[r] \notin Active

\* Without faults every run that was created settles in a terminal status.
SettlesWithoutFaults ==
    [](faults = 0) =>
        \A r \in Runs : status[r] = "queued" ~> [](status[r] \in Terminal)

\* consents.revoke promises that queued runs "stop before they contact anyone":
\* the code CONSENT_EXPIRED, which it gives only to queued rows, never stands
\* on a run whose executor was started.
RevokedRunIsNotExecuted ==
    \A r \in Runs : errorCode[r] = "CONSENT_EXPIRED" => execs[r] = 0

\* A cancelled or timed-out run is stopped: once its executor has reported it
\* as such, its container goes away.
KilledToolStops ==
    \A c \in [label : Runs, exec : 1..(1 + MaxStalled), name : {Unnamed}] :
        (c \in containers /\ status[c.label] \in {"cancelled", "timed_out"})
            ~> c \notin containers
====
