---- MODULE RunGate ----
(***************************************************************************)
(* runs.start as a check-then-act sequence: read the consent, count the    *)
(* runs that spend the quotas, look for a recent identical run, and only   *)
(* then insert the row, mark the consent used and enqueue.  Every arrow    *)
(* between those steps is an await at which another request may run.       *)
(***************************************************************************)
EXTENDS Naturals, FiniteSets

CONSTANTS
    Clients,     \* callers of runs.start, each with one request at a time
    Inputs,      \* input hashes
    Consents,    \* consent ids
    HighRisk,    \* consents to a tool whose risk.label is "high"
    PerUser,     \* rateLimits.perUserPerHour
    PerOrg,      \* rateLimits.perOrgPerHour
    Concurrent,  \* rateLimits.concurrentRunsPerOrg
    MaxRuns,     \* bound: rows created in a behaviour
    MaxCrashes   \* bound: API crashes in a behaviour

ASSUME RunGateAssumption ==
    /\ IsFiniteSet(Clients)
    /\ HighRisk \subseteq Consents
    /\ Inputs # {} /\ Consents # {}
    /\ PerUser \in Nat \ {0}
    /\ PerOrg \in Nat \ {0}
    /\ Concurrent \in Nat \ {0}
    /\ MaxRuns \in Nat
    /\ MaxCrashes \in Nat

VARIABLES
    pc, req,              \* per client: where its request is, what it asks
    rows,                 \* integrationRun rows
    active, young, hour,  \* rows not finished; inside minIntervalMsSameInput;
                          \* created within the hour
    used, revoked,        \* consents with usedAt, with revokedAt
    crashes

vars == <<pc, req, rows, active, young, hour, used, revoked, crashes>>

Ids == 1..MaxRuns
Requests == [hash : Inputs, force : BOOLEAN, consent : Consents]
Rows == [id : Ids, client : Clients, hash : Inputs, force : BOOLEAN, consent : Consents]
AnyRequest == CHOOSE q \in Requests : TRUE
NextId == Cardinality(rows) + 1

Init ==
    /\ pc = [c \in Clients |-> "idle"]
    /\ req = [c \in Clients |-> AnyRequest]
    /\ rows = {} /\ active = {} /\ young = {} /\ hour = {}
    /\ used = {} /\ revoked = {}
    /\ crashes = 0
----
(* The steps of runs.start. *)

\* The handler returns or throws; its request is forgotten.
EndRequest(c) == /\ pc' = [pc EXCEPT ![c] = "idle"]
                 /\ req' = [req EXCEPT ![c] = AnyRequest]

\* Mutant: usedAt is not looked at.
ConsentValidReusable(k) == k \notin revoked

\* assertConsentValid on the consent row as it is now.
ConsentValid(k) == k \notin revoked /\ ~(k \in HighRisk /\ k \in used)

\* The request arrives; a consent that is not valid ends it here.
ReadConsent(c, q) ==
    /\ pc[c] = "idle"
    /\ ConsentValid(q.consent)
    /\ pc' = [pc EXCEPT ![c] = "consented"]
    /\ req' = [req EXCEPT ![c] = q]
    /\ UNCHANGED <<rows, active, young, hour, used, revoked, crashes>>

\* Mutants: an off-by-one in the concurrency bucket; the org bucket forgotten.
WithinQuotaOffByOne(c) ==
    /\ Cardinality({x \in rows : x.id \in hour /\ x.client = c}) < PerUser
    /\ Cardinality(hour) < PerOrg
    /\ Cardinality(active) <= Concurrent

WithinQuotaNoOrg(c) ==
    /\ Cardinality({x \in rows : x.id \in hour /\ x.client = c}) < PerUser
    /\ Cardinality(active) < Concurrent

\* The three buckets, counted over the rows as they are now.
WithinQuota(c) ==
    /\ Cardinality({x \in rows : x.id \in hour /\ x.client = c}) < PerUser
    /\ Cardinality(hour) < PerOrg
    /\ Cardinality(active) < Concurrent

\* Mutant: the newest identical run counts only while it is active.
RecentTwinActive(q) ==
    \E x \in rows : x.hash = q.hash /\ x.id \in young \cap active

\* A run of the same input inside the dedupe window, however it ended.
RecentTwin(q) == \E x \in rows : x.hash = q.hash /\ x.id \in young

\* The four queries answer; the request goes on only if nothing refuses it.
PassGate(c) ==
    /\ pc[c] = "consented"
    /\ WithinQuota(c)
    /\ req[c].force \/ ~RecentTwin(req[c])
    /\ pc' = [pc EXCEPT ![c] = "passed"]
    /\ UNCHANGED <<req, rows, active, young, hour, used, revoked, crashes>>

\* A quota error, or the id of the recent run.
Turned(c) ==
    /\ pc[c] = "consented"
    /\ ~WithinQuota(c) \/ (~req[c].force /\ RecentTwin(req[c]))
    /\ EndRequest(c)
    /\ UNCHANGED <<rows, active, young, hour, used, revoked, crashes>>

CreateRow(c) ==
    /\ pc[c] = "passed"
    /\ NextId \in Ids
    /\ pc' = [pc EXCEPT ![c] = "created"]
    /\ rows' = rows \cup {[id |-> NextId, client |-> c, hash |-> req[c].hash,
                           force |-> req[c].force, consent |-> req[c].consent]}
    /\ active' = active \cup {NextId}
    /\ young' = young \cup {NextId}
    /\ hour' = hour \cup {NextId}
    /\ UNCHANGED <<req, used, revoked, crashes>>

\* Mutant: the request is recorded where its consent belongs.
MarkConsentUsedWrong(c) ==
    /\ pc[c] = "created"
    /\ pc' = [pc EXCEPT ![c] = "marked"]
    /\ used' = used \cup {req[c]}
    /\ UNCHANGED <<req, rows, active, young, hour, revoked, crashes>>

\* Only a high-risk consent is spent.
MarkConsentUsed(c) ==
    /\ pc[c] = "created"
    /\ pc' = [pc EXCEPT ![c] = "marked"]
    /\ used' = used \cup ({req[c].consent} \cap HighRisk)
    /\ UNCHANGED <<req, rows, active, young, hour, revoked, crashes>>

\* enqueueRun and the answer; RunLifecycle follows the job.
Enqueue(c) ==
    /\ pc[c] = "marked"
    /\ EndRequest(c)
    /\ UNCHANGED <<rows, active, young, hour, used, revoked, crashes>>

\* The API dies between the checks and the answer; the caller may try again.
ApiCrash(c) ==
    /\ pc[c] \in {"passed", "created", "marked"}
    /\ crashes < MaxCrashes
    /\ crashes' = crashes + 1
    /\ EndRequest(c)
    /\ UNCHANGED <<rows, active, young, hour, used, revoked>>
----
(* The rest of the world. *)

\* A run ends, in whatever way (RunLifecycle); runs.cancel ends a row whose
\* request has not enqueued it yet.
RunEnds(i) ==
    /\ i \in active
    /\ active' = active \ {i}
    /\ UNCHANGED <<pc, req, rows, young, hour, used, revoked, crashes>>

\* minIntervalMsSameInput passes, later the hour: the oldest row leaves first.
WindowEnds(i) ==
    /\ i \in young
    /\ \A j \in young : i <= j
    /\ young' = young \ {i}
    /\ UNCHANGED <<pc, req, rows, active, hour, used, revoked, crashes>>

HourEnds(i) ==
    /\ i \in hour \ young
    /\ \A j \in hour : i <= j
    /\ hour' = hour \ {i}
    /\ UNCHANGED <<pc, req, rows, active, young, used, revoked, crashes>>

\* consents.revoke; the queued runs it cancels are no longer active.
Revoke(k) ==
    /\ k \notin revoked
    /\ revoked' = revoked \cup {k}
    /\ \E queued \in SUBSET {x \in rows : x.consent = k /\ x.id \in active} :
           active' = active \ {x.id : x \in queued}
    /\ UNCHANGED <<pc, req, rows, young, hour, used, crashes>>

Start(c) == \/ \E q \in Requests : ReadConsent(c, q)
            \/ PassGate(c) \/ Turned(c) \/ CreateRow(c) \/ MarkConsentUsed(c)
            \/ Enqueue(c) \/ ApiCrash(c)

Next == \/ \E c \in Clients : Start(c)
        \/ \E i \in Ids : RunEnds(i) \/ WindowEnds(i) \/ HourEnds(i)
        \/ \E k \in Consents : Revoke(k)

Spec == Init /\ [][Next]_vars
----
(* Properties. *)

\* Every variable keeps to its domain.
TypeOK ==
    /\ pc \in [Clients -> {"idle", "consented", "passed", "created", "marked"}]
    /\ req \in [Clients -> Requests]
    /\ rows \subseteq Rows
    /\ active \subseteq Ids /\ young \subseteq Ids /\ hour \subseteq Ids
    /\ used \subseteq Consents /\ revoked \subseteq Consents
    /\ crashes \in 0..MaxCrashes

\* Requests that passed the gate and have not inserted their row yet.
Pending == {c \in Clients : pc[c] = "passed"}

\* The concurrency limit is soft, and by how much: requests that overlap can
\* exceed it by one run each, and no more, since each saw room when it counted.
ConcurrencyOvershootBounded ==
    Cardinality(active) + Cardinality(Pending)
        <= Concurrent - 1 + Cardinality(Clients)

\* The same holds of the organisation's hourly budget.
HourlyOvershootBounded ==
    Cardinality(hour) + Cardinality(Pending) <= PerOrg - 1 + Cardinality(Clients)

\* Inside the dedupe window an input hits the third party at most once per
\* overlapping request, unless a caller forced a re-run.
DuplicateScansBounded ==
    \A h \in Inputs :
        Cardinality({x \in rows : x.hash = h /\ ~x.force /\ x.id \in young})
            <= Cardinality(Clients)

\* A high-risk consent starts one run per overlapping request at most, and one
\* more per crash between the insert and the write of usedAt.
HighRiskUsesBounded ==
    \A k \in HighRisk :
        Cardinality({x \in rows : x.consent = k}) <= Cardinality(Clients) + crashes
====
