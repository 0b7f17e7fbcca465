---- MODULE PlanExecutor ----
(***************************************************************************)
(* executePlan of packages/query-engine: a driver schedules the nodes of   *)
(* the plan's dependency graph, each node runs its inputs through a chain  *)
(* of engines, and everything that happens is pushed into a channel that   *)
(* one reader drains.                                                      *)
(*                                                                         *)
(* An action is what the code does between two awaits.  Abstractions:      *)
(*   - entities are counted, not named; the seed is the first one;         *)
(*   - the channel holds bursts: what one stretch of code pushes is one    *)
(*     element, so HighWater is a number of bursts;                        *)
(*   - the resource manager's cpu, memory and process sums are its slots   *)
(*     (all are taken and given back together by one lease);               *)
(*   - the pacer's wait is a step of its own, its refusal the daily quota; *)
(*   - every step's transform is in the registry that the plan was made    *)
(*     from, and the steps of depth 1 are those without dependencies.      *)
(***************************************************************************)
EXTENDS Integers, Sequences, FiniteSets

CONSTANTS
    Plan,         \* the plan's steps, in plan order
    Shapes,       \* the dependency graphs to run it with (see buildDag)
    Chain,        \* for each step, the engines it may be answered by
    MaxParallel,  \* budget.maxParallel
    MaxNewNodes,  \* budget.maxNewNodes
    MaxResults,   \* PlanStep.maxResults, and the size of a cached answer
    MaxBatch,     \* inputs a node of depth > 1 takes
    Concurrency,  \* run slots of the resource manager
    Quota,        \* requestsPerDay of the provider
    HighWater     \* eventHighWater

Steps == {Plan[i] : i \in 1..Len(Plan)}
Engines == UNION {{Chain[n][j] : j \in 1..Len(Chain[n])} : n \in Steps}

ASSUME PlanAssumption ==
    /\ Plan \in Seq(Steps)
    \* buildDag keeps the first step of a name and drops the edges that close a cycle
    /\ \A i, j \in 1..Len(Plan) : Plan[i] = Plan[j] => i = j
    /\ \A d \in Shapes : d \in [Steps -> SUBSET Steps]
    /\ \A d \in Shapes : \A S \in SUBSET Steps : S # {} => \E n \in S : d[n] \cap S = {}
    /\ Chain \in [Steps -> Seq(Engines)]
    /\ MaxParallel \in Nat \ {0} /\ MaxNewNodes \in Nat \ {0} /\ MaxResults \in Nat \ {0}
    /\ MaxBatch \in Nat /\ Concurrency \in Nat /\ Quota \in Nat /\ HighWater \in Nat

VARIABLES
    deps,      \* dag: node -> the nodes it waits for
    installed, \* engines this build has (EngineLibrary)
    ready,     \* scheduler.ready
    running,   \* scheduler.running, and the driver's inFlight
    settled,   \* scheduler.settled
    dpc,       \* where the driver is
    raced,     \* the tasks given to Promise.race
    npc,       \* where each node's task is
    left,      \* inputs of the node still to run
    link,      \* position in the node's engine chain
    room,      \* maxResults given to the engine that runs
    got,       \* what the engine returned
    found,     \* builder.entities.length
    held,      \* nodes that hold a lease
    used,      \* requests the pacer has let through today
    counted,   \* nodes some counter of the summary speaks for
    buf,       \* bursts in the channel
    rpc,       \* the reader of the channel
    woken,     \* the driver's drained() was called
    aborted,   \* the analyst pressed Stop
    late,      \* the wall-clock budget has run out
    cancelled, exhausted

sched == <<ready, running, settled>>
drv == <<dpc, raced, woken>>
node == <<npc, left, link, room, got>>
res == <<held, used>>
stop == <<cancelled, exhausted>>
env == <<aborted, late, deps, installed>>
vars == <<sched, drv, node, res, stop, env, found, counted, buf, rpc>>

\* RunOutcome; "answered" is completed or partial, which the executor treats alike
Outcome == [status : {"answered", "failed", "cancelled"},
            entities : 0..MaxResults, exhaustive : BOOLEAN]
Nothing == [status |-> "failed", entities |-> 0, exhaustive |-> TRUE]

NodePcs == {"new", "begin", "input", "pace", "refused", "engine", "absorb", "settle", "done"}

TypeOK ==
    /\ deps \in Shapes /\ installed \subseteq Engines
    /\ ready \in Seq(Steps) /\ running \subseteq Steps /\ settled \subseteq Steps
    /\ dpc \in {"top", "drain", "race", "last", "closed"} /\ raced \subseteq Steps
    /\ npc \in [Steps -> NodePcs]
    /\ left \in [Steps -> Nat] /\ link \in [Steps -> Nat]
    /\ room \in [Steps -> Nat] /\ got \in [Steps -> Outcome]
    /\ found \in Nat /\ held \subseteq Steps /\ used \in Nat
    /\ counted \subseteq Steps
    /\ buf \in Nat /\ rpc \in {"reading", "waiting", "done"}
    /\ woken \in BOOLEAN /\ aborted \in BOOLEAN /\ late \in BOOLEAN
    /\ cancelled \in BOOLEAN /\ exhausted \in BOOLEAN

\* the one listing of the nodes S in plan order
InPlanOrder(S) ==
    {s \in [1..Cardinality(S) -> S] :
        /\ {s[i] : i \in 1..Cardinality(S)} = S
        /\ \A i, j \in 1..Cardinality(S) : i < j =>
             \E p, q \in 1..Len(Plan) : p < q /\ Plan[p] = s[i] /\ Plan[q] = s[j]}

Init ==
    /\ deps \in Shapes /\ installed \in SUBSET Engines
    /\ ready \in InPlanOrder({n \in Steps : deps[n] = {}})
    /\ running = {} /\ settled = {}
    /\ dpc = "top" /\ raced = {} /\ woken = FALSE
    /\ npc = [n \in Steps |-> "new"]
    /\ left = [n \in Steps |-> 0] /\ link = [n \in Steps |-> 0]
    /\ room = [n \in Steps |-> 0] /\ got = [n \in Steps |-> Nothing]
    /\ found = 1 /\ held = {} /\ used = 0 /\ counted = {}
    /\ buf = 0 /\ rpc = "reading"
    /\ aborted \in BOOLEAN /\ late = FALSE
    /\ cancelled = aborted /\ exhausted = FALSE

-----------------------------------------------------------------------------
(* The channel. *)

Push ==
    /\ buf' = buf + 1
    /\ rpc' = IF rpc = "waiting" THEN "reading" ELSE rpc

\* MUTANT of Drained: the reader takes the last burst and wakes nobody
DrainedLost == UNCHANGED woken

\* drained?.() : there is someone to wake only while the driver waits
Drained == woken' = (woken \/ dpc = "drain")

\* drain(): take one burst, wake the driver when it was the last
Read ==
    /\ rpc = "reading" /\ buf > 0
    /\ buf' = buf - 1
    /\ IF buf = 1 THEN Drained ELSE UNCHANGED woken
    /\ UNCHANGED <<sched, dpc, raced, node, res, stop, env, found, counted, rpc>>

\* drain() with nothing to read: wake the driver, leave or wait
ReadNothing ==
    /\ rpc = "reading" /\ buf = 0
    /\ Drained
    /\ rpc' = IF dpc = "closed" THEN "done" ELSE "waiting"
    /\ UNCHANGED <<sched, dpc, raced, node, res, stop, env, found, counted, buf>>

-----------------------------------------------------------------------------
(* The driver. *)

\* channel.size() > highWater: wait for the reader
DriverWait ==
    /\ dpc = "top" /\ buf > HighWater
    /\ dpc' = "drain" /\ woken' = FALSE
    /\ UNCHANGED <<sched, raced, node, res, stop, env, found, counted, buf, rpc>>

\* waitForDrain looks again each time it is woken
DriverWoken ==
    /\ dpc = "drain" /\ woken
    /\ woken' = FALSE
    /\ dpc' = IF buf > HighWater THEN "drain" ELSE "top"
    /\ UNCHANGED <<sched, raced, node, res, stop, env, found, counted, buf, rpc>>

DriverStop ==
    /\ dpc = "top" /\ buf <= HighWater
    /\ cancelled \/ aborted \/ exhausted
    /\ cancelled' = (cancelled \/ aborted)
    /\ dpc' = "last"
    /\ UNCHANGED <<sched, raced, woken, node, res, exhausted, env, found, counted, buf, rpc>>

Room == MaxParallel - Cardinality(running)

\* scheduler.take, then a task for each node of the batch
DriverTake ==
    /\ dpc = "top" /\ buf <= HighWater
    /\ ~cancelled /\ ~aborted /\ ~exhausted
    /\ LET k == IF Room > Len(ready) THEN Len(ready) ELSE Room
           batch == {ready[i] : i \in 1..k}
       IN  /\ ready' = SubSeq(ready, k + 1, Len(ready))
           /\ running' = running \cup batch
           /\ npc' = [n \in Steps |-> IF n \in batch THEN "begin" ELSE npc[n]]
           /\ raced' = running \cup batch
    /\ dpc' = IF running' # {} THEN "race"
              ELSE IF ready' = <<>> THEN "last" ELSE "top"
    /\ UNCHANGED <<settled, woken, left, link, room, got, res, stop, env, found, counted, buf, rpc>>

\* Promise.race(inFlight)
DriverRaced ==
    /\ dpc = "race" /\ raced \ running # {}
    /\ dpc' = "top" /\ raced' = {}
    /\ UNCHANGED <<sched, woken, node, res, stop, env, found, counted, buf, rpc>>

\* Promise.allSettled, then channel.close
DriverClose ==
    /\ dpc = "last" /\ running = {}
    /\ dpc' = "closed"
    /\ rpc' = IF rpc = "waiting" THEN "reading" ELSE rpc
    /\ UNCHANGED <<sched, raced, woken, node, res, stop, env, found, counted, buf>>

-----------------------------------------------------------------------------
(* One node's task: runNode and runOneStep. *)

\* MUTANT of OverBudget: only the clock is looked at
OverBudgetClock == late

\* overBudget()
OverBudget == found >= MaxNewNodes \/ late

Min2(a, b) == IF a < b THEN a ELSE b

\* the chain from its i-th link on, engines this build lacks left out
Usable(n, i) == {j \in i..Len(Chain[n]) : Chain[n][j] \in installed}

\* per-engine ceiling: max(1, floor(concurrency * FAIR_SHARE))
EngineCeiling == IF (Concurrency * 6) \div 10 > 1 THEN (Concurrency * 6) \div 10 ELSE 1

\* ResourceManager.acquire refuses: the slots, or this engine's share of them, are taken
OverCapacity(e) ==
    \/ Cardinality(held) + 1 > Concurrency
    \/ Cardinality({m \in held : Chain[m][link[m]] = e}) + 1 > EngineCeiling

\* MUTANT of StepOver: the input is taken off the list a second time
StepOverTwice(n, k) ==
    /\ npc' = [npc EXCEPT ![n] = "input"]
    /\ left' = [left EXCEPT ![n] = k - 2]
    /\ link' = [link EXCEPT ![n] = 0]
    /\ UNCHANGED res

\* runOneStep is over: the k-th last input is done
StepOver(n, k) ==
    /\ npc' = [npc EXCEPT ![n] = "input"]
    /\ left' = [left EXCEPT ![n] = k - 1]
    /\ link' = [link EXCEPT ![n] = 0]
    /\ UNCHANGED res

\* the loop of runOneStep from link i up to the next await, with k inputs left, f
\* entities in the graph and the nodes c counted
TryLinks(n, i, k, f, c) ==
    \/ /\ aborted
       /\ cancelled' = TRUE /\ counted' = c /\ found' = f
       /\ StepOver(n, k)
    \/ /\ ~aborted /\ Usable(n, i) = {}                      \* no-engine, engine-unavailable
       /\ counted' = c \cup {n} /\ found' = f
       /\ StepOver(n, k) /\ UNCHANGED cancelled
    \/ /\ ~aborted
       /\ UNCHANGED cancelled
       /\ \E j \in Usable(n, i) :
           /\ \A m \in Usable(n, i) : j <= m                 \* the first link that is left
           /\ \/ \E h \in 0..MaxResults :                    \* cache hit
                    /\ found' = f + h /\ counted' = c \cup {n}
                    /\ StepOver(n, k)
              \/ /\ OverCapacity(Chain[n][j])                \* over-capacity
                 /\ found' = f /\ counted' = c \cup {n}
                 /\ StepOver(n, k)
              \/ /\ ~OverCapacity(Chain[n][j])               \* a lease, then pacer.take
                 /\ held' = held \cup {n}
                 /\ link' = [link EXCEPT ![n] = j]
                 /\ left' = [left EXCEPT ![n] = k]
                 /\ IF used < Quota
                    THEN used' = used + 1 /\ npc' = [npc EXCEPT ![n] = "pace"]
                    ELSE used' = used /\ npc' = [npc EXCEPT ![n] = "refused"]
                 /\ found' = f /\ counted' = c

\* runNode's loop over its inputs, with k of them left
NextInput(n, k) ==
    \/ /\ k = 0 \/ cancelled \/ OverBudget
       /\ exhausted' = (exhausted \/ (k > 0 /\ ~cancelled))
       /\ npc' = [npc EXCEPT ![n] = "settle"]
       /\ left' = [left EXCEPT ![n] = 0]
       /\ UNCHANGED <<link, res, cancelled, found, counted>>
    \/ /\ k > 0 /\ ~cancelled /\ ~OverBudget
       /\ TryLinks(n, 1, k, found, counted)
       /\ UNCHANGED exhausted

\* runNode up to its first await: a step of depth 1 takes the seed, a deeper one what
\* was found of its input kind
Begin(n) ==
    /\ npc[n] = "begin"
    /\ \E k \in IF deps[n] = {} THEN {1} ELSE 0..Min2(MaxBatch, found - 1) :
         \/ /\ k = 0                                         \* already-covered
            /\ npc' = [npc EXCEPT ![n] = "settle"]
            /\ counted' = counted \cup {n}
            /\ UNCHANGED <<left, link, res, stop, found>>
         \/ /\ k > 0
            /\ NextInput(n, k)
    /\ Push
    /\ UNCHANGED <<sched, drv, room, got, env>>

\* step.progress, then the next input
Input(n) ==
    /\ npc[n] = "input"
    /\ NextInput(n, left[n])
    /\ Push
    /\ UNCHANGED <<sched, drv, room, got, env>>

\* MUTANT of PaceRefused: `continue` before the lease is released
PaceRefusedLeaks(n) ==
    /\ npc[n] = "refused"
    /\ npc' = [npc EXCEPT ![n] = "input"]
    /\ left' = [left EXCEPT ![n] = @ - 1]
    /\ link' = [link EXCEPT ![n] = 0]
    /\ counted' = counted \cup {n}
    /\ Push
    /\ UNCHANGED <<sched, drv, room, got, res, stop, env, found>>

\* provider-rate-limited: give the lease back and skip
PaceRefused(n) ==
    /\ npc[n] = "refused"
    /\ npc' = [npc EXCEPT ![n] = "input"]
    /\ left' = [left EXCEPT ![n] = @ - 1]
    /\ link' = [link EXCEPT ![n] = 0]
    /\ held' = held \ {n}
    /\ counted' = counted \cup {n}
    /\ Push
    /\ UNCHANGED <<sched, drv, room, got, used, stop, env, found>>

\* the pacer's wait is over: the engine gets what is left of the node budget now
Paced(n) ==
    /\ npc[n] = "pace"
    /\ npc' = [npc EXCEPT ![n] = "engine"]
    /\ room' = [room EXCEPT ![n] = IF found < MaxNewNodes
                                   THEN Min2(MaxResults, MaxNewNodes - found) ELSE 0]
    /\ UNCHANGED <<sched, drv, left, link, got, res, stop, env, found, counted, buf, rpc>>

\* runEngine never throws and truncates to maxResults; its finally releases the lease
EngineReturns(n) ==
    /\ npc[n] = "engine"
    /\ \E o \in Outcome :
         /\ o.entities <= room[n]
         /\ o.status = "failed" => o.entities = 0
         /\ o.status = "cancelled" => aborted
         /\ got' = [got EXCEPT ![n] = o]
    /\ npc' = [npc EXCEPT ![n] = "absorb"]
    /\ held' = held \ {n}
    /\ room' = [room EXCEPT ![n] = 0]
    /\ UNCHANGED <<sched, drv, left, link, used, stop, env, found, counted, buf, rpc>>

\* after persistChunks: the graph takes the answer, then the step ends or the next
\* link is asked
Absorb(n) ==
    /\ npc[n] = "absorb"
    /\ LET o == got[n]
           more == /\ link[n] < Len(Chain[n])
                   /\ \/ o.status = "failed"
                      \/ o.status = "answered" /\ o.entities = 0 /\ ~o.exhaustive
           seen == IF o.status = "cancelled" THEN counted ELSE counted \cup {n}
       IN  \E new \in 0..o.entities :
             IF more
             THEN TryLinks(n, link[n] + 1, left[n], found + new, seen)
             ELSE /\ found' = found + new /\ counted' = seen
                  /\ cancelled' = (cancelled \/ o.status = "cancelled")
                  /\ StepOver(n, left[n])
    /\ got' = [got EXCEPT ![n] = Nothing]
    /\ Push
    /\ UNCHANGED <<sched, drv, room, exhausted, env>>

\* something the host passed in throws: the task's catch counts a failure
Crash(n) ==
    /\ npc[n] = "absorb"
    /\ npc' = [npc EXCEPT ![n] = "settle"]
    /\ counted' = counted \cup {n}
    /\ left' = [left EXCEPT ![n] = 0]
    /\ link' = [link EXCEPT ![n] = 0]
    /\ got' = [got EXCEPT ![n] = Nothing]
    /\ UNCHANGED <<sched, drv, room, res, stop, env, found, buf, rpc>>

\* MUTANT of Settle: the dependents are looked up before the node counts as settled
SettleTooLate(n) ==
    /\ npc[n] = "settle"
    /\ npc' = [npc EXCEPT ![n] = "done"]
    /\ running' = running \ {n}
    /\ settled' = settled \cup {n}
    /\ \E s \in InPlanOrder({d \in Steps : n \in deps[d] /\ deps[d] \subseteq settled}) :
         ready' = ready \o s
    /\ Push
    /\ UNCHANGED <<drv, left, link, room, got, res, stop, env, found, counted>>

\* the nodes that wait for n alone
Unlocked(n) == {d \in Steps : n \in deps[d] /\ deps[d] \subseteq settled \cup {n}}

\* the task's finally: scheduler.settle unlocks what waited for this node alone
Settle(n) ==
    /\ npc[n] = "settle"
    /\ npc' = [npc EXCEPT ![n] = "done"]
    /\ running' = running \ {n}
    /\ settled' = settled \cup {n}
    /\ \E s \in InPlanOrder(Unlocked(n)) : ready' = ready \o s
    /\ Push
    /\ UNCHANGED <<drv, left, link, room, got, res, stop, env, found, counted>>

-----------------------------------------------------------------------------
Abort ==
    /\ ~aborted /\ rpc # "done"
    /\ aborted' = TRUE
    /\ UNCHANGED <<sched, drv, node, res, stop, late, deps, installed, found, counted, buf, rpc>>

TimeUp ==
    /\ ~late /\ rpc # "done"
    /\ late' = TRUE
    /\ UNCHANGED <<sched, drv, node, res, stop, aborted, deps, installed, found, counted, buf, rpc>>

Driver == DriverWait \/ DriverWoken \/ DriverStop \/ DriverTake \/ DriverRaced \/ DriverClose
Reader == Read \/ ReadNothing
Task(n) ==
    \/ Begin(n) \/ Input(n) \/ PaceRefused(n) \/ Paced(n) \/ EngineReturns(n)
    \/ Absorb(n) \/ Crash(n) \/ Settle(n)

Next == Driver \/ Reader \/ (\E n \in Steps : Task(n)) \/ Abort \/ TimeUp

Spec == Init /\ [][Next]_vars

Fairness == WF_vars(Driver) /\ WF_vars(Reader) /\ \A n \in Steps : WF_vars(Task(n))

FairSpec == Spec /\ Fairness

-----------------------------------------------------------------------------
Ended == rpc = "done"

\* Every execution of a plan comes to an end, whatever the engines, the budget and the
\* analyst do: the driver that waits for the channel to drain and the reader that waits
\* for the next event never wait for one another (waitForDrain and drain in executor.ts
\* keep one wake-up callback each), and no node is left behind that nobody unlocks.
PlanEnds == <>Ended

\* A plan that was neither stopped nor ran out of budget has run all its nodes, and every
\* node shows in a counter of the summary (completed, skipped, failed or from the cache):
\* runNode and runOneStep have no way out that drops such a step without a word.
NothingDropped ==
    Ended /\ ~cancelled /\ ~exhausted => settled = Steps /\ counted = Steps

\* The leases of the resource manager are exactly the calls that are being paced or run:
\* refused, failed, cancelled and crashed nodes have all given theirs back, so a plan
\* cannot starve the next one of slots.
LeasesMatchWork == held = {n \in Steps : npc[n] \in {"pace", "refused", "engine"}}

\* maxNewNodes is read when a call starts and spent when it answers, and answers from the
\* cache are not cut at all: parallel nodes overrun it, by less than one full answer for
\* each of them.
NewNodesOvershootBounded ==
    found < MaxNewNodes + MaxParallel * MaxResults
====
