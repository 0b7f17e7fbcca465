---- MODULE RunLifecycleProofs ----
(***************************************************************************)
(* The safety properties of RunLifecycle for every set of runs, every wall *)
(* clock and every bound on redeliveries and faults.                       *)
(***************************************************************************)
EXTENDS RunLifecycle, TLAPS

\* What an executor can return: a code of its own for each bad end.
Returned == ExitResults \cup InProcessResults
            \cup {Result("cancelled", "CANCELLED"), Result("timed_out", "TIMEOUT")}

\* A job that waits to write its last row update holds an executor's result.
ResultReady == \A r \in Runs : pc[r] = "done" => result[r] \in Returned

TypeInv == TypeOK /\ ResultReady

N(b) == IF b THEN 1 ELSE 0

\* runs.start has not handed the run to the queue yet.
Unqueued(r) == api[r] \in {"none", "checked", "created"}

\* The runner holds, or has handed on, a parseable result.
Parsing(r) == \/ pc[r] = "finalised"
              \/ pc[r] = "done" /\ result[r].status \in Parseable

\* A run has one job: to be enqueued, in the queue, or with a runner.
OneJob == \A r \in Runs : runQ[r] + N(pc[r] # "idle") + N(Unqueued(r)) <= 1

\* An execution still to come was paid for by the request or a redelivery.
ExecBudget ==
    \A r \in Runs :
        execs[r] + runQ[r] + N(pc[r] \in {"claimed", "starting"})
                 + N(Unqueued(r)) <= 1 + stalls[r]

\* An execution yields at most one parseable result.
OutputBudget ==
    \A r \in Runs : outputs[r] + N(pc[r] \in {"running", "spawned"}) <= execs[r]

\* A proposal still to come was paid for by a result or a redelivery.
ProposalBudget ==
    \A r \in Runs :
        proposals[r] + parseQ[r] + N(wpc[r] = "loaded") + N(Parsing(r))
            <= outputs[r] + pstalls[r]

\* Whoever is on the way to "succeeded" has output and, once saved, a proposal.
OnTheWay ==
    \A r \in Runs :
        /\ Parsing(r) \/ parseQ[r] > 0 \/ wpc[r] # "idle" => outputs[r] > 0
        /\ wpc[r] = "saved" => proposals[r] > 0

\* Before its first job, a run is untouched by runner, reaper and worker.
Untouched ==
    \A r \in Runs :
        /\ Unqueued(r) \/ api[r] = "lost" =>
               /\ runQ[r] = 0 /\ pc[r] = "idle" /\ ~tripped[r] /\ execs[r] = 0
               /\ status[r] \in {"absent", "queued", "cancelled"}
        /\ api[r] \in {"none", "checked"} <=> status[r] = "absent"
        /\ status[r] = "absent" => cancel[r] = "none"

\* A cancellation is traced to its request through key, watch and result;
\* only a container has another way to trip its watch.
CancelTraced ==
    \A r \in Runs :
        /\ cancelKey[r] => cancel[r] \in {"keyed", "answered"}
        /\ pc[r] = "spawned" => kind[r] = "container"
        /\ kind[r] = "inprocess"
             /\ (tripped[r] \/ (pc[r] = "done" /\ result[r].status = "cancelled"))
               => cancel[r] \in {"keyed", "answered"}

\* A job delivered for the first time finds its row queued or cancelled, and
\* no sweep that could still write it.
Delivered(r) ==
    /\ status[r] \in Active \/ r \in swTimeout \cup swCrash =>
           /\ api[r] = "enqueued"
           /\ stalls[r] > 0 \/ (runQ[r] = 0 /\ pc[r] # "claimed")
    /\ stalls[r] = 0 /\ (runQ[r] > 0 \/ pc[r] = "claimed") =>
           status[r] \in {"queued", "cancelled"}

FirstDelivery == \A r \in Runs : Delivered(r)

\* Without faults exactly one party holds a run that is not finished.
FaultFree ==
    faults = 0 => \A r \in Runs :
        /\ pc[r] # "stalled" /\ wpc[r] # "stalled"
        /\ N(Unqueued(r)) + runQ[r] + N(pc[r] # "idle") + parseQ[r]
               + N(wpc[r] # "idle") <= 1
        /\ wpc[r] = "marked" => status[r] \in Terminal
        /\ status[r] = "succeeded" =>
               /\ ~Unqueued(r) /\ runQ[r] = 0 /\ pc[r] = "idle"
               /\ parseQ[r] = 0 /\ wpc[r] \in {"idle", "marked"}

\* The inductive invariant, in three parts.
Budgets == /\ OneJob /\ ExecBudget /\ OutputBudget /\ ProposalBudget
           /\ OnTheWay /\ SucceededHasProposal

Traced == /\ FailureExplained /\ Untouched /\ CancelTraced
          /\ InProcessCancelWasAsked

Holders == FirstDelivery /\ FaultFree /\ StrandedOnlyByFault

IInv == TypeInv /\ Budgets /\ Traced /\ Holders
----
\* No step of the API, the runner, the reaper, the worker or a crash leaves a
\* variable's domain.
LEMMA TypeStep == TypeInv /\ [Next]_vars => TypeInv'
<1> SUFFICES ASSUME TypeInv, [Next]_vars PROVE TypeInv'
  OBVIOUS
<1> USE RunLifecycleAssumption
      DEF TypeInv, TypeOK, ResultReady, Returned, ExitResults, InProcessResults,
          Kinds, MaxAge, Statuses, Active, Terminal, ErrorCodes, Parseable,
          JobPcs, ParsePcs, Unnamed, NoResult, Results, Result,
          rowVars, apiVars, redisVars, jobVars, sweepVars, workerVars
<1>1. CASE UNCHANGED vars
  BY <1>1 DEF vars
<1>2. ASSUME NEW r \in Runs, CheckConsent(r) PROVE TypeInv'
  BY <1>2 DEF CheckConsent
<1>3. ASSUME NEW r \in Runs, CreateRun(r) PROVE TypeInv'
  BY <1>3 DEF CreateRun
<1>4. ASSUME NEW r \in Runs, EnqueueRun(r) PROVE TypeInv'
  BY <1>4 DEF EnqueueRun
<1>5. ASSUME NEW r \in Runs, StartFails(r) PROVE TypeInv'
  BY <1>5 DEF StartFails, Fault
<1>6. ASSUME NEW r \in Runs, CancelCheck(r) PROVE TypeInv'
  BY <1>6 DEF CancelCheck
<1>7. ASSUME NEW r \in Runs, CancelSetKey(r) PROVE TypeInv'
  BY <1>7 DEF CancelSetKey
<1>8. ASSUME NEW r \in Runs, CancelUpdate(r) PROVE TypeInv'
  <2>1. cancel' \in [Runs -> {"none", "checked", "keyed", "answered", "lost"}]
    BY <1>8 DEF CancelUpdate
  <2>2. CASE status[r] = "queued"
    <3>0. SetOutcome(r, "cancelled", "CANCELLED")
      BY <1>8, <2>2 DEF CancelUpdate
    <3>1. status' \in [Runs -> Statuses]
      BY <3>0 DEF SetOutcome
    <3>2. errorCode' \in [Runs -> ErrorCodes]
      BY <3>0 DEF SetOutcome
    <3>3. UNCHANGED <<kind, proposalId, age>>
      BY <3>0 DEF SetOutcome
    <3> HIDE DEF Statuses, ErrorCodes
    <3> QED
      BY <1>8, <2>1, <3>1, <3>2, <3>3 DEF CancelUpdate
  <2>3. CASE status[r] # "queued"
    BY <1>8, <2>1, <2>3 DEF CancelUpdate
  <2> QED
    BY <2>2, <2>3
<1>9. ASSUME NEW r \in Runs, CancelFails(r) PROVE TypeInv'
  BY <1>9 DEF CancelFails, Fault
<1>10. ASSUME NEW r \in Runs, KeyExpires(r) PROVE TypeInv'
  BY <1>10 DEF KeyExpires
<1>11. ASSUME NEW r \in Runs, ClaimJob(r) PROVE TypeInv'
  BY <1>11 DEF ClaimJob, InFlight
<1>12. ASSUME NEW r \in Runs, RunnerDisabled(r) PROVE TypeInv'
  BY <1>12 DEF RunnerDisabled, SetOutcome
<1>13. ASSUME NEW r \in Runs, StartJob(r) PROVE TypeInv'
  BY <1>13 DEF StartJob
<1>14. ASSUME NEW r \in Runs, ExecuteJob(r) PROVE TypeInv'
  BY <1>14 DEF ExecuteJob, SetStatus
<1>15. ASSUME NEW r \in Runs, WatchTrips(r) PROVE TypeInv'
  BY <1>15 DEF WatchTrips, Watching
<1>16. ASSUME NEW r \in Runs, StdoutTrips(r) PROVE TypeInv'
  BY <1>16 DEF StdoutTrips
<1>17. ASSUME NEW r \in Runs, PrepareFails(r) PROVE TypeInv'
  BY <1>17 DEF PrepareFails, Return
<1>18. ASSUME NEW r \in Runs, SpawnContainer(r) PROVE TypeInv'
  BY <1>18 DEF SpawnContainer, Container
<1>19. ASSUME NEW r \in Runs, ToolExits(r) PROVE TypeInv'
  BY <1>19 DEF ToolExits, Return, Container
<1>20. ASSUME NEW r \in Runs, KillTool(r) PROVE TypeInv'
  <2>1. PICK x \in Returned : Return(r, x)
    BY <1>20 DEF KillTool
  <2> QED
    BY <1>20, <2>1 DEF KillTool, Return, Addressed
<1>21. ASSUME NEW r \in Runs, InProcessReturns(r) PROVE TypeInv'
  BY <1>21 DEF InProcessReturns, Return
<1>22. ASSUME NEW r \in Runs, InProcessThrows(r) PROVE TypeInv'
  BY <1>22 DEF InProcessThrows, Return
<1>23. ASSUME NEW r \in Runs, FinaliseRow(r) PROVE TypeInv'
  BY <1>23 DEF FinaliseRow
<1>24. ASSUME NEW r \in Runs, EnqueueParse(r) PROVE TypeInv'
  BY <1>24 DEF EnqueueParse
<1>25. ASSUME NEW r \in Runs, JobThrows(r) PROVE TypeInv'
  BY <1>25 DEF JobThrows, Fault
<1>26. ASSUME NEW r \in Runs, RedeliverJob(r) PROVE TypeInv'
  <2>0. pc' \in [Runs -> JobPcs] /\ ResultReady'
    BY <1>26 DEF RedeliverJob
  <2>1. CASE stalls[r] < MaxStalled
    <3>1. stalls' \in [Runs -> Nat]
      BY <1>26, <2>1 DEF RedeliverJob
    <3>2. runQ' \in [Runs -> Nat]
      BY <1>26, <2>1 DEF RedeliverJob
    <3> QED
      BY <1>26, <2>0, <3>1, <3>2 DEF RedeliverJob
  <2>2. CASE ~(stalls[r] < MaxStalled)
    BY <1>26, <2>0, <2>2 DEF RedeliverJob
  <2> QED
    BY <2>1, <2>2
<1>27. ASSUME NEW r \in Runs, Tick(r) PROVE TypeInv'
  <2>1. age[r] + 1 \in 0..MaxAge
    BY <1>27 DEF Tick
  <2>2. age' \in [Runs -> 0..MaxAge]
    BY <1>27, <2>1 DEF Tick
  <2> QED
    BY <1>27, <2>2 DEF Tick
<1>28. ASSUME NEW r \in Runs, SweepTimeout(r) PROVE TypeInv'
  BY <1>28 DEF SweepTimeout, SetOutcome, Addressed
<1>29. ASSUME NEW r \in Runs, SweepCrashed(r) PROVE TypeInv'
  BY <1>29 DEF SweepCrashed, SetOutcome
<1>30. ASSUME NEW r \in Runs, SweepOrphan(r) PROVE TypeInv'
  BY <1>30 DEF SweepOrphan, Addressed
<1>31. ASSUME NEW r \in Runs, ClaimParse(r) PROVE TypeInv'
  BY <1>31 DEF ClaimParse
<1>32. ASSUME NEW r \in Runs, ParseDisabled(r) PROVE TypeInv'
  BY <1>32 DEF ParseDisabled, SetOutcome
<1>33. ASSUME NEW r \in Runs, SaveProposal(r) PROVE TypeInv'
  BY <1>33 DEF SaveProposal
<1>34. ASSUME NEW r \in Runs, ParseFails(r) PROVE TypeInv'
  BY <1>34 DEF ParseFails
<1>35. ASSUME NEW r \in Runs, MarkSucceeded(r) PROVE TypeInv'
  BY <1>35 DEF MarkSucceeded
<1>36. ASSUME NEW r \in Runs, ParseCompletes(r) PROVE TypeInv'
  BY <1>36 DEF ParseCompletes
<1>37. ASSUME NEW r \in Runs, ParseStoreError(r) PROVE TypeInv'
  BY <1>37 DEF ParseStoreError, Fault
<1>38. ASSUME NEW r \in Runs, MarkFailed(r) PROVE TypeInv'
  BY <1>38 DEF MarkFailed, SetOutcome
<1>39. ASSUME NEW r \in Runs, ParseJobThrows(r) PROVE TypeInv'
  BY <1>39 DEF ParseJobThrows, Fault
<1>40. ASSUME NEW r \in Runs, RedeliverParse(r) PROVE TypeInv'
  <2>1. CASE pstalls[r] < MaxStalled
    <3>1. pstalls' \in [Runs -> Nat]
      BY <1>40, <2>1 DEF RedeliverParse
    <3>3. parseQ' \in [Runs -> Nat]
      BY <1>40, <2>1 DEF RedeliverParse
    <3>2. wpc' \in [Runs -> ParsePcs]
      BY <1>40 DEF RedeliverParse
    <3> QED
      BY <1>40, <3>1, <3>2, <3>3 DEF RedeliverParse
  <2>2. CASE ~(pstalls[r] < MaxStalled)
    BY <1>40, <2>2 DEF RedeliverParse
  <2> QED
    BY <2>1, <2>2
<1>41. ASSUME NEW c \in containers, AbandonedToolExits(c) PROVE TypeInv'
  BY <1>41 DEF AbandonedToolExits
<1>42. CASE RevokeConsent
  BY <1>42 DEF RevokeConsent
<1>43. CASE SweepLive
  BY <1>43 DEF SweepLive, Labels
<1>44. CASE SweepList
  BY <1>44 DEF SweepList
<1>45. CASE SweepDone
  BY <1>45 DEF SweepDone
<1>46. CASE SweepFails
  BY <1>46 DEF SweepFails, Fault
<1>47. CASE RunnerCrash
  BY <1>47 DEF RunnerCrash, Fault, InFlight
<1>48. CASE WorkerCrash
  BY <1>48 DEF WorkerCrash, Fault
<1> QED
  BY <1>1, <1>2, <1>3, <1>4, <1>5, <1>6, <1>7, <1>8, <1>9, <1>10, <1>11,
     <1>12, <1>13, <1>14, <1>15, <1>16, <1>17, <1>18, <1>19, <1>20, <1>21,
     <1>22, <1>23, <1>24, <1>25, <1>26, <1>27, <1>28, <1>29, <1>30, <1>31,
     <1>32, <1>33, <1>34, <1>35, <1>36, <1>37, <1>38, <1>39, <1>40, <1>41,
     <1>42, <1>43, <1>44, <1>45, <1>46, <1>47, <1>48
     DEF Next, Api, Runner, Sweep, Worker

\* What the queues, the runner and the worker may still do is paid for by a
\* request, a redelivery or an executor's result.
LEMMA BudgetStep == TypeInv /\ TypeInv' /\ Budgets /\ [Next]_vars => Budgets'
<1> SUFFICES ASSUME TypeInv, TypeInv', Budgets, [Next]_vars PROVE Budgets'
  OBVIOUS
<1> USE RunLifecycleAssumption
      DEF TypeInv, TypeOK, ResultReady, Returned, ExitResults, InProcessResults,
          Budgets, OneJob, ExecBudget, OutputBudget, ProposalBudget, OnTheWay,
          SucceededHasProposal, Unqueued, Parsing, N,
          Kinds, MaxAge, Statuses, Active, Terminal, ErrorCodes, Parseable,
          JobPcs, ParsePcs, Unnamed, NoResult, Results, Result,
          rowVars, apiVars, redisVars, jobVars, sweepVars, workerVars
<1>1. CASE UNCHANGED vars
  BY <1>1 DEF vars
<1>2. ASSUME NEW r \in Runs, CheckConsent(r) PROVE Budgets'
  BY <1>2 DEF CheckConsent
<1>3. ASSUME NEW r \in Runs, CreateRun(r) PROVE Budgets'
  BY <1>3 DEF CreateRun
<1>4. ASSUME NEW r \in Runs, EnqueueRun(r) PROVE Budgets'
  BY <1>4 DEF EnqueueRun
<1>5. ASSUME NEW r \in Runs, StartFails(r) PROVE Budgets'
  BY <1>5 DEF StartFails, Fault
<1>6. ASSUME NEW r \in Runs, CancelCheck(r) PROVE Budgets'
  BY <1>6 DEF CancelCheck
<1>7. ASSUME NEW r \in Runs, CancelSetKey(r) PROVE Budgets'
  BY <1>7 DEF CancelSetKey
<1>8. ASSUME NEW r \in Runs, CancelUpdate(r) PROVE Budgets'
  BY <1>8 DEF CancelUpdate, SetOutcome
<1>9. ASSUME NEW r \in Runs, CancelFails(r) PROVE Budgets'
  BY <1>9 DEF CancelFails, Fault
<1>10. ASSUME NEW r \in Runs, KeyExpires(r) PROVE Budgets'
  BY <1>10 DEF KeyExpires
<1>11. ASSUME NEW r \in Runs, ClaimJob(r) PROVE Budgets'
  BY <1>11 DEF ClaimJob, InFlight
<1>12. ASSUME NEW r \in Runs, RunnerDisabled(r) PROVE Budgets'
  BY <1>12 DEF RunnerDisabled, SetOutcome
<1>13. ASSUME NEW r \in Runs, StartJob(r) PROVE Budgets'
  BY <1>13 DEF StartJob
<1>14. ASSUME NEW r \in Runs, ExecuteJob(r) PROVE Budgets'
  BY <1>14 DEF ExecuteJob, SetStatus
<1>15. ASSUME NEW r \in Runs, WatchTrips(r) PROVE Budgets'
  BY <1>15 DEF WatchTrips, Watching
<1>16. ASSUME NEW r \in Runs, StdoutTrips(r) PROVE Budgets'
  BY <1>16 DEF StdoutTrips
<1>17. ASSUME NEW r \in Runs, PrepareFails(r) PROVE Budgets'
  BY <1>17 DEF PrepareFails, Return
<1>18. ASSUME NEW r \in Runs, SpawnContainer(r) PROVE Budgets'
  BY <1>18 DEF SpawnContainer, Container
<1>19. ASSUME NEW r \in Runs, ToolExits(r) PROVE Budgets'
  BY <1>19 DEF ToolExits, Return, Container
<1>20. ASSUME NEW r \in Runs, KillTool(r) PROVE Budgets'
  <2>1. PICK x \in Returned : Return(r, x)
    BY <1>20 DEF KillTool
  <2> QED
    BY <1>20, <2>1 DEF KillTool, Return
<1>21. ASSUME NEW r \in Runs, InProcessReturns(r) PROVE Budgets'
  BY <1>21 DEF InProcessReturns, Return
<1>22. ASSUME NEW r \in Runs, InProcessThrows(r) PROVE Budgets'
  BY <1>22 DEF InProcessThrows, Return
<1>23. ASSUME NEW r \in Runs, FinaliseRow(r) PROVE Budgets'
  BY <1>23 DEF FinaliseRow
<1>24. ASSUME NEW r \in Runs, EnqueueParse(r) PROVE Budgets'
  <2>1. OneJob' /\ ExecBudget' /\ OutputBudget'
    BY <1>24 DEF EnqueueParse
  <2>2. ProposalBudget'
    BY <1>24 DEF EnqueueParse
  <2>3. OnTheWay' /\ SucceededHasProposal'
    BY <1>24 DEF EnqueueParse
  <2> QED
    BY <2>1, <2>2, <2>3
<1>25. ASSUME NEW r \in Runs, JobThrows(r) PROVE Budgets'
  BY <1>25 DEF JobThrows, Fault
<1>26. ASSUME NEW r \in Runs, RedeliverJob(r) PROVE Budgets'
  BY <1>26 DEF RedeliverJob
<1>27. ASSUME NEW r \in Runs, Tick(r) PROVE Budgets'
  BY <1>27 DEF Tick
<1>28. ASSUME NEW r \in Runs, SweepTimeout(r) PROVE Budgets'
  BY <1>28 DEF SweepTimeout, SetOutcome, Addressed
<1>29. ASSUME NEW r \in Runs, SweepCrashed(r) PROVE Budgets'
  BY <1>29 DEF SweepCrashed, SetOutcome
<1>30. ASSUME NEW r \in Runs, SweepOrphan(r) PROVE Budgets'
  BY <1>30 DEF SweepOrphan, Addressed
<1>31. ASSUME NEW r \in Runs, ClaimParse(r) PROVE Budgets'
  BY <1>31 DEF ClaimParse
<1>32. ASSUME NEW r \in Runs, ParseDisabled(r) PROVE Budgets'
  BY <1>32 DEF ParseDisabled, SetOutcome
<1>33. ASSUME NEW r \in Runs, SaveProposal(r) PROVE Budgets'
  BY <1>33 DEF SaveProposal
<1>34. ASSUME NEW r \in Runs, ParseFails(r) PROVE Budgets'
  BY <1>34 DEF ParseFails
<1>35. ASSUME NEW r \in Runs, MarkSucceeded(r) PROVE Budgets'
  BY <1>35 DEF MarkSucceeded
<1>36. ASSUME NEW r \in Runs, ParseCompletes(r) PROVE Budgets'
  BY <1>36 DEF ParseCompletes
<1>37. ASSUME NEW r \in Runs, ParseStoreError(r) PROVE Budgets'
  BY <1>37 DEF ParseStoreError, Fault
<1>38. ASSUME NEW r \in Runs, MarkFailed(r) PROVE Budgets'
  BY <1>38 DEF MarkFailed, SetOutcome
<1>39. ASSUME NEW r \in Runs, ParseJobThrows(r) PROVE Budgets'
  BY <1>39 DEF ParseJobThrows, Fault
<1>40. ASSUME NEW r \in Runs, RedeliverParse(r) PROVE Budgets'
  BY <1>40 DEF RedeliverParse
<1>41. ASSUME NEW c \in containers, AbandonedToolExits(c) PROVE Budgets'
  BY <1>41 DEF AbandonedToolExits
<1>42. CASE RevokeConsent
  BY <1>42 DEF RevokeConsent
<1>43. CASE SweepLive
  BY <1>43 DEF SweepLive, Labels
<1>44. CASE SweepList
  BY <1>44 DEF SweepList
<1>45. CASE SweepDone
  BY <1>45 DEF SweepDone
<1>46. CASE SweepFails
  BY <1>46 DEF SweepFails, Fault
<1>47. CASE RunnerCrash
  BY <1>47 DEF RunnerCrash, Fault, InFlight
<1>48. CASE WorkerCrash
  <2>1. OneJob' /\ ExecBudget' /\ OutputBudget'
    BY <1>48 DEF WorkerCrash
  <2>2. ProposalBudget'
    <3>1. \A q \in Runs : wpc'[q] # "loaded"
      BY <1>48 DEF WorkerCrash
    <3>2. UNCHANGED <<proposals, parseQ, pc, result, outputs, pstalls>>
      BY <1>48 DEF WorkerCrash
    <3>3. proposals \in [Runs -> Nat] /\ parseQ \in [Runs -> Nat]
          /\ outputs \in [Runs -> Nat] /\ pstalls \in [Runs -> Nat]
      OBVIOUS
    <3> HIDE DEF TypeInv, TypeOK, ResultReady
    <3> QED
      BY <3>1, <3>2, <3>3
  <2>3. OnTheWay' /\ SucceededHasProposal'
    BY <1>48 DEF WorkerCrash
  <2> QED
    BY <2>1, <2>2, <2>3
<1> QED
  BY <1>1, <1>2, <1>3, <1>4, <1>5, <1>6, <1>7, <1>8, <1>9, <1>10, <1>11,
     <1>12, <1>13, <1>14, <1>15, <1>16, <1>17, <1>18, <1>19, <1>20, <1>21,
     <1>22, <1>23, <1>24, <1>25, <1>26, <1>27, <1>28, <1>29, <1>30, <1>31,
     <1>32, <1>33, <1>34, <1>35, <1>36, <1>37, <1>38, <1>39, <1>40, <1>41,
     <1>42, <1>43, <1>44, <1>45, <1>46, <1>47, <1>48
     DEF Next, Api, Runner, Sweep, Worker

\* Only a run whose job was queued and executed reaches the parse worker.
LEMMA ParsedWasQueued ==
    ASSUME TypeInv, Budgets, Traced, NEW r \in Runs, wpc[r] # "idle"
    PROVE  api[r] = "enqueued" /\ execs[r] > 0
<1>1. execs[r] > 0
  BY DEF TypeInv, TypeOK, Budgets, OnTheWay, OutputBudget, N
<1> QED
  BY <1>1 DEF TypeInv, TypeOK, Traced, Untouched, Unqueued

\* Every bad end is traced to its cause.  The reaper and the worker write only
\* rows whose job was queued.
LEMMA TraceStep ==
    TypeInv /\ TypeInv' /\ Budgets /\ Traced /\ Holders /\ [Next]_vars => Traced'
<1> SUFFICES ASSUME TypeInv, TypeInv', Budgets, Traced, Holders, [Next]_vars PROVE Traced'
  OBVIOUS
<1> USE RunLifecycleAssumption
      DEF TypeInv, TypeOK, ResultReady, Returned, ExitResults, InProcessResults,
          Traced, FailureExplained, Untouched, CancelTraced,
          InProcessCancelWasAsked, Unqueued,
          Kinds, MaxAge, Statuses, Active, Terminal, ErrorCodes, Parseable,
          JobPcs, ParsePcs, Unnamed, NoResult, Results, Result,
          rowVars, apiVars, redisVars, jobVars, sweepVars, workerVars
<1>1. CASE UNCHANGED vars
  BY <1>1 DEF vars
<1>2. ASSUME NEW r \in Runs, CheckConsent(r) PROVE Traced'
  BY <1>2 DEF CheckConsent
<1>3. ASSUME NEW r \in Runs, CreateRun(r) PROVE Traced'
  BY <1>3 DEF CreateRun
<1>4. ASSUME NEW r \in Runs, EnqueueRun(r) PROVE Traced'
  BY <1>4 DEF EnqueueRun
<1>5. ASSUME NEW r \in Runs, StartFails(r) PROVE Traced'
  BY <1>5 DEF StartFails, Fault
<1>6. ASSUME NEW r \in Runs, CancelCheck(r) PROVE Traced'
  BY <1>6 DEF CancelCheck
<1>7. ASSUME NEW r \in Runs, CancelSetKey(r) PROVE Traced'
  BY <1>7 DEF CancelSetKey
<1>8. ASSUME NEW r \in Runs, CancelUpdate(r) PROVE Traced'
  <2>1. CASE status[r] = "queued"
    BY <1>8, <2>1 DEF CancelUpdate, SetOutcome
  <2>2. CASE status[r] # "queued"
    BY <1>8, <2>2 DEF CancelUpdate
  <2> QED
    BY <2>1, <2>2
<1>9. ASSUME NEW r \in Runs, CancelFails(r) PROVE Traced'
  BY <1>9 DEF CancelFails, Fault
<1>10. ASSUME NEW r \in Runs, KeyExpires(r) PROVE Traced'
  BY <1>10 DEF KeyExpires
<1>11. ASSUME NEW r \in Runs, ClaimJob(r) PROVE Traced'
  BY <1>11 DEF ClaimJob, InFlight
<1>12. ASSUME NEW r \in Runs, RunnerDisabled(r) PROVE Traced'
  BY <1>12 DEF RunnerDisabled, SetOutcome
<1>13. ASSUME NEW r \in Runs, StartJob(r) PROVE Traced'
  BY <1>13 DEF StartJob
<1>14. ASSUME NEW r \in Runs, ExecuteJob(r) PROVE Traced'
  BY <1>14 DEF ExecuteJob, SetStatus
<1>15. ASSUME NEW r \in Runs, WatchTrips(r) PROVE Traced'
  BY <1>15 DEF WatchTrips, Watching
<1>16. ASSUME NEW r \in Runs, StdoutTrips(r) PROVE Traced'
  BY <1>16 DEF StdoutTrips
<1>17. ASSUME NEW r \in Runs, PrepareFails(r) PROVE Traced'
  BY <1>17 DEF PrepareFails, Return
<1>18. ASSUME NEW r \in Runs, SpawnContainer(r) PROVE Traced'
  BY <1>18 DEF SpawnContainer, Container
<1>19. ASSUME NEW r \in Runs, ToolExits(r) PROVE Traced'
  BY <1>19 DEF ToolExits, Return, Container
<1>20. ASSUME NEW r \in Runs, KillTool(r) PROVE Traced'
  <2>1. kind[r] = "container"
    BY <1>20 DEF KillTool
  <2>2. PICK x \in Returned : Return(r, x)
    BY <1>20 DEF KillTool
  <2>3. FailureExplained' /\ InProcessCancelWasAsked'
    BY <2>2 DEF Return
  <2>4. Untouched'
    BY <1>20, <2>2 DEF KillTool, Return
  <2>5. CancelTraced'
    BY <1>20, <2>1, <2>2 DEF KillTool, Return
  <2> QED
    BY <2>3, <2>4, <2>5
<1>21. ASSUME NEW r \in Runs, InProcessReturns(r) PROVE Traced'
  BY <1>21 DEF InProcessReturns, Return
<1>22. ASSUME NEW r \in Runs, InProcessThrows(r) PROVE Traced'
  BY <1>22 DEF InProcessThrows, Return
<1>23. ASSUME NEW r \in Runs, FinaliseRow(r) PROVE Traced'
  BY <1>23 DEF FinaliseRow
<1>24. ASSUME NEW r \in Runs, EnqueueParse(r) PROVE Traced'
  BY <1>24 DEF EnqueueParse
<1>25. ASSUME NEW r \in Runs, JobThrows(r) PROVE Traced'
  BY <1>25 DEF JobThrows, Fault
<1>26. ASSUME NEW r \in Runs, RedeliverJob(r) PROVE Traced'
  BY <1>26 DEF RedeliverJob
<1>27. ASSUME NEW r \in Runs, Tick(r) PROVE Traced'
  BY <1>27 DEF Tick
<1>28. ASSUME NEW r \in Runs, SweepTimeout(r) PROVE Traced'
  <2>1. api[r] = "enqueued"
    BY <1>28 DEF SweepTimeout, Holders, FirstDelivery, Delivered
  <2> QED
    BY <1>28, <2>1 DEF SweepTimeout, SetOutcome
<1>29. ASSUME NEW r \in Runs, SweepCrashed(r) PROVE Traced'
  <2>1. api[r] = "enqueued"
    BY <1>29 DEF SweepCrashed, Holders, FirstDelivery, Delivered
  <2> QED
    BY <1>29, <2>1 DEF SweepCrashed, SetOutcome
<1>30. ASSUME NEW r \in Runs, SweepOrphan(r) PROVE Traced'
  BY <1>30 DEF SweepOrphan, Addressed
<1>31. ASSUME NEW r \in Runs, ClaimParse(r) PROVE Traced'
  BY <1>31 DEF ClaimParse
<1>32. ASSUME NEW r \in Runs, ParseDisabled(r) PROVE Traced'
  <2>1. api[r] = "enqueued"
    BY <1>32, ParsedWasQueued DEF ParseDisabled
  <2> QED
    BY <1>32, <2>1 DEF ParseDisabled, SetOutcome
<1>33. ASSUME NEW r \in Runs, SaveProposal(r) PROVE Traced'
  BY <1>33 DEF SaveProposal
<1>34. ASSUME NEW r \in Runs, ParseFails(r) PROVE Traced'
  BY <1>34 DEF ParseFails
<1>35. ASSUME NEW r \in Runs, MarkSucceeded(r) PROVE Traced'
  <2>1. api[r] = "enqueued"
    BY <1>35, ParsedWasQueued DEF MarkSucceeded
  <2> QED
    BY <1>35, <2>1 DEF MarkSucceeded
<1>36. ASSUME NEW r \in Runs, ParseCompletes(r) PROVE Traced'
  BY <1>36 DEF ParseCompletes
<1>37. ASSUME NEW r \in Runs, ParseStoreError(r) PROVE Traced'
  BY <1>37 DEF ParseStoreError, Fault
<1>38. ASSUME NEW r \in Runs, MarkFailed(r) PROVE Traced'
  <2>1. api[r] = "enqueued"
    BY <1>38, ParsedWasQueued DEF MarkFailed
  <2> QED
    BY <1>38, <2>1 DEF MarkFailed, SetOutcome
<1>39. ASSUME NEW r \in Runs, ParseJobThrows(r) PROVE Traced'
  BY <1>39 DEF ParseJobThrows, Fault
<1>40. ASSUME NEW r \in Runs, RedeliverParse(r) PROVE Traced'
  BY <1>40 DEF RedeliverParse
<1>41. ASSUME NEW c \in containers, AbandonedToolExits(c) PROVE Traced'
  BY <1>41 DEF AbandonedToolExits
<1>42. CASE RevokeConsent
  BY <1>42 DEF RevokeConsent
<1>43. CASE SweepLive
  BY <1>43 DEF SweepLive, Labels
<1>44. CASE SweepList
  BY <1>44 DEF SweepList
<1>45. CASE SweepDone
  BY <1>45 DEF SweepDone
<1>46. CASE SweepFails
  BY <1>46 DEF SweepFails, Fault
<1>47. CASE RunnerCrash
  BY <1>47 DEF RunnerCrash, Fault, InFlight
<1>48. CASE WorkerCrash
  BY <1>48 DEF WorkerCrash, Fault
<1> QED
  BY <1>1, <1>2, <1>3, <1>4, <1>5, <1>6, <1>7, <1>8, <1>9, <1>10, <1>11,
     <1>12, <1>13, <1>14, <1>15, <1>16, <1>17, <1>18, <1>19, <1>20, <1>21,
     <1>22, <1>23, <1>24, <1>25, <1>26, <1>27, <1>28, <1>29, <1>30, <1>31,
     <1>32, <1>33, <1>34, <1>35, <1>36, <1>37, <1>38, <1>39, <1>40, <1>41,
     <1>42, <1>43, <1>44, <1>45, <1>46, <1>47, <1>48
     DEF Next, Api, Runner, Sweep, Worker

\* Who holds a run, and what its row says meanwhile: no two parties work on a
\* run that no fault has touched.
LEMMA HolderStep ==
    TypeInv /\ TypeInv' /\ Budgets /\ Budgets' /\ Traced /\ Holders /\ [Next]_vars
        => Holders'
<1> SUFFICES ASSUME TypeInv, TypeInv', Budgets, Budgets', Traced, Holders, [Next]_vars
             PROVE  Holders'
  OBVIOUS
<1> USE RunLifecycleAssumption
      DEF TypeInv, TypeOK, ResultReady, Returned, ExitResults, InProcessResults,
          Budgets, OneJob, ExecBudget, OutputBudget, OnTheWay, Traced, Untouched,
          Holders, FirstDelivery, Delivered, FaultFree, StrandedOnlyByFault, Held,
          Unqueued, Parsing, N,
          Kinds, MaxAge, Statuses, Active, Terminal, ErrorCodes, Parseable,
          JobPcs, ParsePcs, Unnamed, NoResult, Results, Result,
          rowVars, apiVars, redisVars, jobVars, sweepVars, workerVars
<1>1. CASE UNCHANGED vars
  BY <1>1 DEF vars
<1>2. ASSUME NEW r \in Runs, CheckConsent(r) PROVE Holders'
  BY <1>2 DEF CheckConsent
<1>3. ASSUME NEW r \in Runs, CreateRun(r) PROVE Holders'
  BY <1>3 DEF CreateRun
<1>4. ASSUME NEW r \in Runs, EnqueueRun(r) PROVE Holders'
  <2>1. FirstDelivery'
    <3>1. ASSUME NEW q \in Runs, q # r PROVE Delivered(q)'
      BY <1>4, <3>1 DEF EnqueueRun
    <3>2. Delivered(r)'
      BY <1>4 DEF EnqueueRun
    <3> QED
      BY <3>1, <3>2
  <2>2. FaultFree'
    BY <1>4 DEF EnqueueRun
  <2>3. StrandedOnlyByFault'
    BY <1>4 DEF EnqueueRun
  <2> QED
    BY <2>1, <2>2, <2>3
<1>5. ASSUME NEW r \in Runs, StartFails(r) PROVE Holders'
  BY <1>5 DEF StartFails, Fault
<1>6. ASSUME NEW r \in Runs, CancelCheck(r) PROVE Holders'
  BY <1>6 DEF CancelCheck
<1>7. ASSUME NEW r \in Runs, CancelSetKey(r) PROVE Holders'
  BY <1>7 DEF CancelSetKey
<1>8. ASSUME NEW r \in Runs, CancelUpdate(r) PROVE Holders'
  <2>1. CASE status[r] = "queued"
    <3>1. FirstDelivery'
      BY <1>8, <2>1 DEF CancelUpdate, SetOutcome
    <3>2. FaultFree'
      BY <1>8, <2>1 DEF CancelUpdate, SetOutcome
    <3>3. StrandedOnlyByFault'
      <4>1. \A q \in Runs : status'[q] = "cancelled" \/ status'[q] = status[q]
        BY <1>8, <2>1 DEF CancelUpdate, SetOutcome
      <4>2. UNCHANGED <<api, runQ, pc, parseQ, wpc, faults>>
        BY <1>8 DEF CancelUpdate
      <4> QED
        BY <4>1, <4>2
    <3> QED
      BY <3>1, <3>2, <3>3
  <2>2. CASE status[r] # "queued"
    BY <1>8, <2>2 DEF CancelUpdate
  <2> QED
    BY <2>1, <2>2
<1>9. ASSUME NEW r \in Runs, CancelFails(r) PROVE Holders'
  BY <1>9 DEF CancelFails, Fault
<1>10. ASSUME NEW r \in Runs, KeyExpires(r) PROVE Holders'
  BY <1>10 DEF KeyExpires
<1>11. ASSUME NEW r \in Runs, ClaimJob(r) PROVE Holders'
  BY <1>11 DEF ClaimJob, InFlight
<1>12. ASSUME NEW r \in Runs, RunnerDisabled(r) PROVE Holders'
  BY <1>12 DEF RunnerDisabled, SetOutcome
<1>13. ASSUME NEW r \in Runs, StartJob(r) PROVE Holders'
  <2>1. FirstDelivery'
    <3>1. ASSUME NEW q \in Runs, q # r PROVE Delivered(q)'
      BY <1>13, <3>1 DEF StartJob
    <3>2. Delivered(r)'
      BY <1>13 DEF StartJob
    <3> QED
      BY <3>1, <3>2
  <2>2. FaultFree'
    BY <1>13 DEF StartJob
  <2>3. StrandedOnlyByFault'
    BY <1>13 DEF StartJob
  <2> QED
    BY <2>1, <2>2, <2>3
<1>14. ASSUME NEW r \in Runs, ExecuteJob(r) PROVE Holders'
  <2>1. FirstDelivery'
    <3>1. ASSUME NEW q \in Runs, q # r PROVE Delivered(q)'
      BY <1>14, <3>1 DEF ExecuteJob, SetStatus
    <3>2. Delivered(r)'
      BY <1>14 DEF ExecuteJob, SetStatus
    <3> QED
      BY <3>1, <3>2
  <2>2. FaultFree'
    BY <1>14 DEF ExecuteJob, SetStatus
  <2>3. StrandedOnlyByFault'
    BY <1>14 DEF ExecuteJob, SetStatus
  <2> QED
    BY <2>1, <2>2, <2>3
<1>15. ASSUME NEW r \in Runs, WatchTrips(r) PROVE Holders'
  BY <1>15 DEF WatchTrips, Watching
<1>16. ASSUME NEW r \in Runs, StdoutTrips(r) PROVE Holders'
  BY <1>16 DEF StdoutTrips
<1>17. ASSUME NEW r \in Runs, PrepareFails(r) PROVE Holders'
  BY <1>17 DEF PrepareFails, Return
<1>18. ASSUME NEW r \in Runs, SpawnContainer(r) PROVE Holders'
  BY <1>18 DEF SpawnContainer, Container
<1>19. ASSUME NEW r \in Runs, ToolExits(r) PROVE Holders'
  BY <1>19 DEF ToolExits, Return, Container
<1>20. ASSUME NEW r \in Runs, KillTool(r) PROVE Holders'
  <2>1. PICK x \in Returned : Return(r, x)
    BY <1>20 DEF KillTool
  <2> QED
    BY <1>20, <2>1 DEF KillTool, Return
<1>21. ASSUME NEW r \in Runs, InProcessReturns(r) PROVE Holders'
  BY <1>21 DEF InProcessReturns, Return
<1>22. ASSUME NEW r \in Runs, InProcessThrows(r) PROVE Holders'
  BY <1>22 DEF InProcessThrows, Return
<1>23. ASSUME NEW r \in Runs, FinaliseRow(r) PROVE Holders'
  BY <1>23 DEF FinaliseRow
<1>24. ASSUME NEW r \in Runs, EnqueueParse(r) PROVE Holders'
  BY <1>24 DEF EnqueueParse
<1>25. ASSUME NEW r \in Runs, JobThrows(r) PROVE Holders'
  BY <1>25 DEF JobThrows, Fault
<1>26. ASSUME NEW r \in Runs, RedeliverJob(r) PROVE Holders'
  BY <1>26 DEF RedeliverJob
<1>27. ASSUME NEW r \in Runs, Tick(r) PROVE Holders'
  BY <1>27 DEF Tick
<1>28. ASSUME NEW r \in Runs, SweepTimeout(r) PROVE Holders'
  BY <1>28 DEF SweepTimeout, SetOutcome, Addressed
<1>29. ASSUME NEW r \in Runs, SweepCrashed(r) PROVE Holders'
  BY <1>29 DEF SweepCrashed, SetOutcome
<1>30. ASSUME NEW r \in Runs, SweepOrphan(r) PROVE Holders'
  BY <1>30 DEF SweepOrphan, Addressed
<1>31. ASSUME NEW r \in Runs, ClaimParse(r) PROVE Holders'
  BY <1>31 DEF ClaimParse
<1>32. ASSUME NEW r \in Runs, ParseDisabled(r) PROVE Holders'
  <2>1. api[r] = "enqueued" /\ execs[r] > 0
    BY <1>32, ParsedWasQueued DEF ParseDisabled
  <2>2. FirstDelivery'
    <3>1. ASSUME NEW q \in Runs, q # r PROVE Delivered(q)'
      BY <1>32, <3>1 DEF ParseDisabled, SetOutcome
    <3>2. Delivered(r)'
      BY <1>32, <2>1 DEF ParseDisabled, SetOutcome
    <3> QED
      BY <3>1, <3>2
  <2>3. FaultFree'
    BY <1>32, <2>1 DEF ParseDisabled, SetOutcome
  <2>4. StrandedOnlyByFault'
    BY <1>32, <2>1 DEF ParseDisabled, SetOutcome
  <2> QED
    BY <2>2, <2>3, <2>4
<1>33. ASSUME NEW r \in Runs, SaveProposal(r) PROVE Holders'
  BY <1>33 DEF SaveProposal
<1>34. ASSUME NEW r \in Runs, ParseFails(r) PROVE Holders'
  BY <1>34 DEF ParseFails
<1>35. ASSUME NEW r \in Runs, MarkSucceeded(r) PROVE Holders'
  <2>1. api[r] = "enqueued" /\ execs[r] > 0
    BY <1>35, ParsedWasQueued DEF MarkSucceeded
  <2>2. FirstDelivery'
    <3>1. ASSUME NEW q \in Runs, q # r PROVE Delivered(q)'
      BY <1>35, <3>1 DEF MarkSucceeded
    <3>2. Delivered(r)'
      BY <1>35, <2>1 DEF MarkSucceeded
    <3> QED
      BY <3>1, <3>2
  <2>3. FaultFree'
    BY <1>35, <2>1 DEF MarkSucceeded
  <2>4. StrandedOnlyByFault'
    BY <1>35, <2>1 DEF MarkSucceeded
  <2> QED
    BY <2>2, <2>3, <2>4
<1>36. ASSUME NEW r \in Runs, ParseCompletes(r) PROVE Holders'
  BY <1>36 DEF ParseCompletes
<1>37. ASSUME NEW r \in Runs, ParseStoreError(r) PROVE Holders'
  BY <1>37 DEF ParseStoreError, Fault
<1>38. ASSUME NEW r \in Runs, MarkFailed(r) PROVE Holders'
  <2>1. api[r] = "enqueued" /\ execs[r] > 0
    BY <1>38, ParsedWasQueued DEF MarkFailed
  <2>2. FirstDelivery'
    <3>1. ASSUME NEW q \in Runs, q # r PROVE Delivered(q)'
      BY <1>38, <3>1 DEF MarkFailed, SetOutcome
    <3>2. Delivered(r)'
      BY <1>38, <2>1 DEF MarkFailed, SetOutcome
    <3> QED
      BY <3>1, <3>2
  <2>3. FaultFree'
    BY <1>38, <2>1 DEF MarkFailed, SetOutcome
  <2>4. StrandedOnlyByFault'
    BY <1>38, <2>1 DEF MarkFailed, SetOutcome
  <2> QED
    BY <2>2, <2>3, <2>4
<1>39. ASSUME NEW r \in Runs, ParseJobThrows(r) PROVE Holders'
  BY <1>39 DEF ParseJobThrows, Fault
<1>40. ASSUME NEW r \in Runs, RedeliverParse(r) PROVE Holders'
  BY <1>40 DEF RedeliverParse
<1>41. ASSUME NEW c \in containers, AbandonedToolExits(c) PROVE Holders'
  BY <1>41 DEF AbandonedToolExits
<1>42. CASE RevokeConsent
  BY <1>42 DEF RevokeConsent
<1>43. CASE SweepLive
  BY <1>43 DEF SweepLive, Labels
<1>44. CASE SweepList
  BY <1>44 DEF SweepList
<1>45. CASE SweepDone
  BY <1>45 DEF SweepDone
<1>46. CASE SweepFails
  BY <1>46 DEF SweepFails, Fault
<1>47. CASE RunnerCrash
  BY <1>47 DEF RunnerCrash, Fault, InFlight
<1>48. CASE WorkerCrash
  BY <1>48 DEF WorkerCrash, Fault
<1> QED
  BY <1>1, <1>2, <1>3, <1>4, <1>5, <1>6, <1>7, <1>8, <1>9, <1>10, <1>11,
     <1>12, <1>13, <1>14, <1>15, <1>16, <1>17, <1>18, <1>19, <1>20, <1>21,
     <1>22, <1>23, <1>24, <1>25, <1>26, <1>27, <1>28, <1>29, <1>30, <1>31,
     <1>32, <1>33, <1>34, <1>35, <1>36, <1>37, <1>38, <1>39, <1>40, <1>41,
     <1>42, <1>43, <1>44, <1>45, <1>46, <1>47, <1>48
     DEF Next, Api, Runner, Sweep, Worker

----
\* The inductive invariant holds initially: no run exists yet.
LEMMA InvInit == Init => IInv
<1> SUFFICES ASSUME Init PROVE IInv
  OBVIOUS
<1> USE RunLifecycleAssumption DEF Init
<1>1. TypeInv
  <2>1. /\ kind \in [Runs -> Kinds]
        /\ status \in [Runs -> Statuses]
        /\ errorCode \in [Runs -> ErrorCodes]
        /\ api \in [Runs -> {"none", "checked", "created", "enqueued", "lost"}]
        /\ cancel \in [Runs -> {"none", "checked", "keyed", "answered", "lost"}]
        /\ pc \in [Runs -> JobPcs]
        /\ wpc \in [Runs -> ParsePcs]
    BY DEF Kinds, Statuses, ErrorCodes, JobPcs, ParsePcs
  <2>2. /\ proposalId \in [Runs -> Nat] /\ age \in [Runs -> 0..MaxAge]
        /\ runQ \in [Runs -> Nat] /\ parseQ \in [Runs -> Nat]
        /\ execs \in [Runs -> Nat] /\ stalls \in [Runs -> Nat]
        /\ outputs \in [Runs -> Nat]
        /\ proposals \in [Runs -> Nat] /\ pstalls \in [Runs -> Nat]
    BY DEF MaxAge
  <2>3. /\ cancelKey \in [Runs -> BOOLEAN] /\ tripped \in [Runs -> BOOLEAN]
        /\ revoked \in BOOLEAN
    BY Zenon
  <2>4. result \in [Runs -> Results]
    BY DEF NoResult, Result, Results, ErrorCodes
  <2>5. /\ containers \subseteq [label : Runs, exec : Nat, name : {Unnamed}]
        /\ swPc \in {"idle", "live", "act"}
        /\ swLive \subseteq Runs /\ swTimeout \subseteq Runs
        /\ swCrash \subseteq Runs /\ swOrphan \subseteq Runs
        /\ faults \in 0..MaxFaults
    OBVIOUS
  <2>6. ResultReady
    BY DEF ResultReady
  <2> QED
    BY <2>1, <2>2, <2>3, <2>4, <2>5, <2>6, Zenon DEF TypeInv, TypeOK
<1>2. Budgets
  BY DEF Budgets, OneJob, ExecBudget, OutputBudget, ProposalBudget, OnTheWay,
     SucceededHasProposal, Unqueued, Parsing, N
<1>3. Traced
  BY DEF Traced, FailureExplained, Untouched, CancelTraced,
     InProcessCancelWasAsked, Unqueued
<1>4. Holders
  BY DEF Holders, FirstDelivery, Delivered, FaultFree, StrandedOnlyByFault,
     Unqueued, N, Active
<1> QED
  BY <1>1, <1>2, <1>3, <1>4 DEF IInv

\* The three parts carry each other through every step.
LEMMA InvStep == IInv /\ [Next]_vars => IInv'
  BY TypeStep, BudgetStep, TraceStep, HolderStep DEF IInv

\* The inductive invariant holds in every reachable state.
LEMMA Invariance == Spec => []IInv
  BY InvInit, InvStep, PTL DEF Spec

\* Every variable keeps to its domain, for any runs, wall clocks and bounds.
THEOREM TypeCorrect == Spec => []TypeOK
  BY Invariance, PTL DEF IInv, TypeInv

\* A "succeeded" row has its proposal and its output, whatever the four
\* processes and their crashes wrote in between.
THEOREM SucceededIsBacked == Spec => []SucceededHasProposal
  BY Invariance, PTL DEF IInv, Budgets

\* A tool runs once per request and once per redelivery, at most.
THEOREM ExecutionsAreBounded == Spec => []ExecutionsBounded
<1>1. IInv => ExecutionsBounded
  BY DEF IInv, TypeInv, TypeOK, Budgets, ExecBudget, N, ExecutionsBounded
<1> QED
  BY <1>1, Invariance, PTL

\* Proposals are at most as many as parseable results and redeliveries.
THEOREM ProposalsAreBounded == Spec => []ProposalsComeFromOutput
<1>1. IInv => ProposalsComeFromOutput
  BY DEF IInv, TypeInv, TypeOK, Budgets, ProposalBudget, N, ProposalsComeFromOutput
<1> QED
  BY <1>1, Invariance, PTL

\* A run that ended badly carries a code that belongs to how it ended.
THEOREM FailuresAreExplained == Spec => []FailureExplained
  BY Invariance, PTL DEF IInv, Traced

\* An in-process run is recorded as cancelled only when somebody asked.
THEOREM InProcessCancelIsAsked == Spec => []InProcessCancelWasAsked
  BY Invariance, PTL DEF IInv, Traced

\* Only a fault strands a row in a state that is not terminal.
THEOREM OnlyFaultsStrand == Spec => []StrandedOnlyByFault
  BY Invariance, PTL DEF IInv, Holders

----
\* The actions that write the status of run q.
Writes(q) == \/ CreateRun(q) \/ CancelUpdate(q) \/ RevokeConsent
             \/ RunnerDisabled(q) \/ StartJob(q) \/ ExecuteJob(q) \/ FinaliseRow(q)
             \/ SweepTimeout(q) \/ SweepCrashed(q)
             \/ ParseDisabled(q) \/ MarkSucceeded(q) \/ MarkFailed(q)

\* No other action changes a row's status, and none another run's.
LEMMA StatusWriters ==
    ASSUME TypeOK, Next, NEW q \in Runs, status'[q] # status[q]
    PROVE  Writes(q)
<1> USE DEF TypeOK, rowVars
<1>1. ASSUME NEW r \in Runs, Api(r) PROVE Writes(q)
  BY <1>1 DEF Api, CheckConsent, CreateRun, EnqueueRun, StartFails, CancelCheck,
     CancelSetKey, CancelUpdate, CancelFails, KeyExpires, SetOutcome, Writes
<1>2. ASSUME NEW r \in Runs, Runner(r) PROVE Writes(q)
  <2>1. CASE RunnerDisabled(r) \/ StartJob(r) \/ ExecuteJob(r) \/ FinaliseRow(r)
    BY <2>1 DEF RunnerDisabled, StartJob, ExecuteJob, FinaliseRow, SetOutcome,
       SetStatus, Writes
  <2>2. CASE \/ ClaimJob(r) \/ WatchTrips(r) \/ StdoutTrips(r) \/ SpawnContainer(r)
             \/ EnqueueParse(r) \/ JobThrows(r) \/ RedeliverJob(r) \/ Tick(r)
    BY <2>2 DEF ClaimJob, WatchTrips, StdoutTrips, SpawnContainer, EnqueueParse,
       JobThrows, RedeliverJob, Tick
  <2>3. CASE \/ PrepareFails(r) \/ ToolExits(r) \/ KillTool(r)
             \/ InProcessReturns(r) \/ InProcessThrows(r)
    BY <2>3 DEF PrepareFails, ToolExits, KillTool, InProcessReturns,
       InProcessThrows, Return
  <2> QED
    BY <1>2, <2>1, <2>2, <2>3 DEF Runner
<1>3. ASSUME NEW r \in Runs, Sweep(r) PROVE Writes(q)
  BY <1>3 DEF Sweep, SweepTimeout, SweepCrashed, SweepOrphan, SetOutcome, Writes
<1>4. ASSUME NEW r \in Runs, Worker(r) PROVE Writes(q)
  BY <1>4 DEF Worker, ClaimParse, ParseDisabled, SaveProposal, ParseFails,
     MarkSucceeded, ParseCompletes, ParseStoreError, MarkFailed,
     ParseJobThrows, RedeliverParse, SetOutcome, Writes
<1>5. CASE RevokeConsent
  BY <1>5 DEF Writes
<1>6. CASE \/ \E c \in containers : AbandonedToolExits(c)
           \/ SweepLive \/ SweepList \/ SweepDone \/ SweepFails \/ RunnerCrash \/ WorkerCrash
  BY <1>6 DEF AbandonedToolExits, SweepLive, SweepList, SweepDone, SweepFails, RunnerCrash,
     WorkerCrash
<1> QED
  BY <1>1, <1>2, <1>3, <1>4, <1>5, <1>6 DEF Next

\* A finished row comes back to life only through a job cancelled in the queue
\* or a redelivered one.
THEOREM RevivalIsExplained == Spec => RevivedOnlyByQueuedJob
<1> DEFINE Revival == \A r \in Runs :
                         status[r] \in Terminal /\ status'[r] = "starting" =>
                             status[r] = "cancelled" \/ stalls[r] > 0
<1>1. IInv /\ [Next]_vars => [Revival]_vars
  <2> SUFFICES ASSUME IInv, Next, NEW q \in Runs,
                      status[q] \in Terminal, status'[q] = "starting"
               PROVE  status[q] = "cancelled" \/ stalls[q] > 0
    OBVIOUS
  <2>1. Writes(q)
    BY StatusWriters DEF IInv, TypeInv, Terminal
  <2>2. pc[q] = "claimed"
    BY <2>1 DEF Writes, CreateRun, CancelUpdate, RevokeConsent, RunnerDisabled,
       StartJob, ExecuteJob, FinaliseRow, SweepTimeout, SweepCrashed,
       ParseDisabled, MarkSucceeded, MarkFailed, SetOutcome, SetStatus, rowVars,
       IInv, TypeInv, TypeOK, ResultReady, Returned, ExitResults,
       InProcessResults, Result, Terminal, Parseable
  <2> QED
    BY <2>2 DEF IInv, TypeInv, TypeOK, Holders, FirstDelivery, Delivered, Terminal
<1> QED
  BY <1>1, Invariance, PTL DEF Spec, RevivedOnlyByQueuedJob

\* Without faults only a sweep that listed the run earlier unseats "succeeded".
THEOREM SuccessIsStable == Spec => SucceededUnseatedOnlyByStaleSweep
<1> DEFINE Stable == \A r \in Runs :
                        status[r] = "succeeded" /\ status'[r] # "succeeded" =>
                            faults > 0 \/ r \in swTimeout \cup swCrash
<1>1. IInv /\ [Next]_vars => [Stable]_vars
  <2> SUFFICES ASSUME IInv, Next, NEW q \in Runs, faults = 0,
                      status[q] = "succeeded", status'[q] # "succeeded"
               PROVE  q \in swTimeout \cup swCrash
    BY DEF IInv, TypeInv, TypeOK
  <2>1. Writes(q)
    BY StatusWriters DEF IInv, TypeInv
  <2>2. ~Unqueued(q) /\ pc[q] = "idle" /\ wpc[q] \in {"idle", "marked"}
    BY DEF IInv, Holders, FaultFree
  <2> QED
    BY <2>1, <2>2 DEF Writes, CreateRun, CancelUpdate, RevokeConsent,
       RunnerDisabled, StartJob, ExecuteJob, FinaliseRow, SweepTimeout,
       SweepCrashed, ParseDisabled, MarkSucceeded, MarkFailed, SetOutcome,
       SetStatus, rowVars, IInv, TypeInv, TypeOK, Unqueued
<1> QED
  BY <1>1, Invariance, PTL DEF Spec, SucceededUnseatedOnlyByStaleSweep
====
