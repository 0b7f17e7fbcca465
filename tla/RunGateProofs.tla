---- MODULE RunGateProofs ----
(***************************************************************************)
(* How far overlapping requests can push the quotas of runs.start, for any *)
(* number of callers and any limits.                                       *)
(***************************************************************************)
EXTENDS RunGate, FiniteSetTheorems, TLAPS

----
(* Counting: a set A of rows that spend a limit, a set P of requests that   *)
(* passed the gate and will add a row to it.                                *)

\* A request that inserts its row moves from P to A.
LEMMA HandOver ==
    ASSUME NEW A, IsFiniteSet(A), NEW P, IsFiniteSet(P), NEW x, NEW c \in P
    PROVE  Cardinality(A \cup {x}) + Cardinality(P \ {c})
               <= Cardinality(A) + Cardinality(P)
<1>1. Cardinality(A) \in Nat /\ Cardinality(P) \in Nat
  BY FS_CardinalityType
<1>2. Cardinality(A \cup {x}) = IF x \in A THEN Cardinality(A) ELSE Cardinality(A) + 1
  BY FS_AddElement
<1>3. Cardinality(P \ {c}) = Cardinality(P) - 1
  BY FS_RemoveElement
<1> QED
  BY <1>1, <1>2, <1>3

\* Rows that end and requests that give up leave room.
LEMMA Shrink ==
    ASSUME NEW A, IsFiniteSet(A), NEW P, IsFiniteSet(P),
           NEW B \in SUBSET A, NEW Q \in SUBSET P
    PROVE  Cardinality(B) + Cardinality(Q) <= Cardinality(A) + Cardinality(P)
<1>1. Cardinality(B) <= Cardinality(A) /\ Cardinality(Q) <= Cardinality(P)
  BY FS_Subset
<1>2. /\ Cardinality(A) \in Nat /\ Cardinality(P) \in Nat
      /\ Cardinality(B) \in Nat /\ Cardinality(Q) \in Nat
  BY FS_Subset, FS_CardinalityType
<1> QED
  BY <1>1, <1>2

\* A request passes only while there is room, whoever else is on the way.
LEMMA RoomWhenCounted ==
    ASSUME NEW A, IsFiniteSet(A), NEW L \in Nat \ {0}, Cardinality(A) < L,
           NEW Q \in SUBSET Clients
    PROVE  Cardinality(A) + Cardinality(Q) <= L - 1 + Cardinality(Clients)
<1>1. Cardinality(Q) <= Cardinality(Clients)
  BY FS_Subset, RunGateAssumption
<1>2. /\ Cardinality(A) \in Nat /\ Cardinality(Q) \in Nat
      /\ Cardinality(Clients) \in Nat
  BY FS_Subset, FS_CardinalityType, RunGateAssumption
<1> QED
  BY <1>1, <1>2

\* Sets of row ids are finite.
LEMMA IdsFinite == \A S \in SUBSET Ids : IsFiniteSet(S)
<1>1. IsFiniteSet(1..MaxRuns)
  <2>1. 1 \in Int /\ MaxRuns \in Int
    BY RunGateAssumption
  <2> QED
    BY <2>1, FS_Interval, Zenon
<1> QED
  BY <1>1, FS_Subset DEF Ids
----
\* The default request is a request: inputs and consents are not empty.
LEMMA AnyRequestType == AnyRequest \in Requests
<1>1. PICK h \in Inputs, k \in Consents : TRUE
  BY RunGateAssumption
<1>2. [hash |-> h, force |-> TRUE, consent |-> k] \in Requests
  BY <1>1 DEF Requests
<1> QED
  BY <1>2, Zenon DEF AnyRequest

\* No step of runs.start or of the world around it leaves a variable's domain.
LEMMA TypeStep == TypeOK /\ [Next]_vars => TypeOK'
<1> SUFFICES ASSUME TypeOK, [Next]_vars PROVE TypeOK'
  OBVIOUS
<1> USE RunGateAssumption, AnyRequestType DEF TypeOK
<1>1. CASE UNCHANGED vars
  BY <1>1 DEF vars
<1>2. ASSUME NEW c \in Clients, NEW q \in Requests, ReadConsent(c, q) PROVE TypeOK'
  BY <1>2 DEF ReadConsent
<1>3. ASSUME NEW c \in Clients, PassGate(c) PROVE TypeOK'
  BY <1>3 DEF PassGate
<1>4. ASSUME NEW c \in Clients, Turned(c) PROVE TypeOK'
  BY <1>4 DEF Turned, EndRequest
<1>5. ASSUME NEW c \in Clients, CreateRow(c) PROVE TypeOK'
  <2>1. rows' \subseteq Rows
    BY <1>5 DEF CreateRow, Rows, Requests
  <2> QED
    BY <1>5, <2>1 DEF CreateRow
<1>6. ASSUME NEW c \in Clients, MarkConsentUsed(c) PROVE TypeOK'
  BY <1>6 DEF MarkConsentUsed, Requests
<1>7. ASSUME NEW c \in Clients, Enqueue(c) PROVE TypeOK'
  BY <1>7 DEF Enqueue, EndRequest
<1>8. ASSUME NEW c \in Clients, ApiCrash(c) PROVE TypeOK'
  BY <1>8 DEF ApiCrash, EndRequest
<1>9. ASSUME NEW i \in Ids, RunEnds(i) PROVE TypeOK'
  BY <1>9 DEF RunEnds
<1>10. ASSUME NEW i \in Ids, WindowEnds(i) PROVE TypeOK'
  BY <1>10 DEF WindowEnds
<1>11. ASSUME NEW i \in Ids, HourEnds(i) PROVE TypeOK'
  BY <1>11 DEF HourEnds
<1>12. ASSUME NEW k \in Consents, Revoke(k) PROVE TypeOK'
  BY <1>12 DEF Revoke
<1> QED
  BY <1>1, <1>2, <1>3, <1>4, <1>5, <1>6, <1>7, <1>8, <1>9, <1>10, <1>11, <1>12
     DEF Next, Start

\* Every variable of the gate keeps to its domain.
THEOREM TypeCorrect == Spec => []TypeOK
<1>1. Init => TypeOK
  <2> SUFFICES ASSUME Init PROVE TypeOK
    OBVIOUS
  <2>1. pc \in [Clients -> {"idle", "consented", "passed", "created", "marked"}]
    BY DEF Init
  <2>2. req \in [Clients -> Requests]
    BY AnyRequestType DEF Init
  <2> QED
    BY <2>1, <2>2, RunGateAssumption DEF Init, TypeOK
<1> QED
  BY <1>1, TypeStep, PTL DEF Spec
----
\* How a step changes the sets that the limits count: a request passes and sees
\* room, a passed request inserts its row, or the sets only shrink.
Step(A, B, L) ==
    \/ A = B /\ Cardinality(A) < L
    \/ \E c \in Pending, x \in Ids : B = A \cup {x} /\ Pending' = Pending \ {c}
    \/ B \subseteq A /\ Pending' \subseteq Pending

\* Both limits see every step of the specification in one of those three ways.
LEMMA GateSteps ==
    ASSUME TypeOK, [Next]_vars
    PROVE  Step(active, active', Concurrent) /\ Step(hour, hour', PerOrg)
<1> USE DEF TypeOK, Pending, Step
<1>1. CASE UNCHANGED vars
  BY <1>1 DEF vars
<1>2. ASSUME NEW c \in Clients, NEW q \in Requests, ReadConsent(c, q)
      PROVE  Pending' \subseteq Pending /\ UNCHANGED <<active, hour>>
  BY <1>2 DEF ReadConsent
<1>3. ASSUME NEW c \in Clients, PassGate(c)
      PROVE  /\ UNCHANGED <<active, hour>>
             /\ Cardinality(active) < Concurrent /\ Cardinality(hour) < PerOrg
  BY <1>3 DEF PassGate, WithinQuota
<1>4. ASSUME NEW c \in Clients, Turned(c) \/ Enqueue(c) \/ ApiCrash(c)
      PROVE  Pending' \subseteq Pending /\ UNCHANGED <<active, hour>>
  BY <1>4 DEF Turned, Enqueue, ApiCrash, EndRequest
<1>5. ASSUME NEW c \in Clients, CreateRow(c)
      PROVE  /\ c \in Pending /\ Pending' = Pending \ {c}
             /\ NextId \in Ids
             /\ active' = active \cup {NextId} /\ hour' = hour \cup {NextId}
  BY <1>5 DEF CreateRow
<1>6. ASSUME NEW c \in Clients, MarkConsentUsed(c)
      PROVE  Pending' \subseteq Pending /\ UNCHANGED <<active, hour>>
  BY <1>6 DEF MarkConsentUsed
<1>7. ASSUME NEW i \in Ids, RunEnds(i) \/ WindowEnds(i) \/ HourEnds(i)
      PROVE  /\ Pending' = Pending
             /\ active' \subseteq active /\ hour' \subseteq hour
  BY <1>7 DEF RunEnds, WindowEnds, HourEnds
<1>8. ASSUME NEW k \in Consents, Revoke(k)
      PROVE  /\ Pending' = Pending
             /\ active' \subseteq active /\ hour' \subseteq hour
  BY <1>8 DEF Revoke
<1> QED
  BY <1>1, <1>2, <1>3, <1>4, <1>5, <1>6, <1>7, <1>8 DEF Next, Start

\* A limit checked before each insert is exceeded by overlapping requests only.
LEMMA SoftLimit ==
    ASSUME NEW A \in SUBSET Ids, NEW B, NEW L \in Nat \ {0}, Step(A, B, L),
           Cardinality(A) + Cardinality(Pending) <= L - 1 + Cardinality(Clients)
    PROVE  Cardinality(B) + Cardinality(Pending') <= L - 1 + Cardinality(Clients)
<1>1. IsFiniteSet(A)
  BY IdsFinite
<1>2. IsFiniteSet(Pending) /\ Pending' \in SUBSET Clients
  BY FS_Subset, RunGateAssumption DEF Pending
<1>3. CASE A = B /\ Cardinality(A) < L
  BY <1>1, <1>2, <1>3, RoomWhenCounted
<1>4. ASSUME NEW c \in Pending, NEW x \in Ids,
             B = A \cup {x}, Pending' = Pending \ {c}
      PROVE  Cardinality(B) + Cardinality(Pending')
                 <= Cardinality(A) + Cardinality(Pending)
  BY <1>1, <1>2, <1>4, HandOver
<1>5. ASSUME B \subseteq A, Pending' \subseteq Pending
      PROVE  Cardinality(B) + Cardinality(Pending')
                 <= Cardinality(A) + Cardinality(Pending)
  BY <1>1, <1>2, <1>5, Shrink
<1>6. /\ IsFiniteSet(B) /\ IsFiniteSet(Pending')
      /\ Cardinality(A) \in Nat /\ Cardinality(B) \in Nat
      /\ Cardinality(Pending) \in Nat /\ Cardinality(Pending') \in Nat
      /\ Cardinality(Clients) \in Nat
  <2>1. B \in SUBSET Ids
    BY DEF Step
  <2>2. IsFiniteSet(B) /\ IsFiniteSet(Pending')
    BY <1>2, <2>1, IdsFinite, FS_Subset, RunGateAssumption
  <2> QED
    BY <1>1, <1>2, <2>2, FS_CardinalityType, RunGateAssumption
<1> QED
  BY <1>3, <1>4, <1>5, <1>6 DEF Step

\* Overlapping requests exceed concurrentRunsPerOrg by one run each at most.
THEOREM ConcurrencyBounded == Spec => []ConcurrencyOvershootBounded
<1>1. Init => ConcurrencyOvershootBounded
  <2> SUFFICES ASSUME Init PROVE ConcurrencyOvershootBounded
    OBVIOUS
  <2>1. Pending = {} /\ active = {}
    BY DEF Init, Pending
  <2> QED
    BY <2>1, FS_EmptySet, FS_CardinalityType, RunGateAssumption
       DEF ConcurrencyOvershootBounded
<1>2. TypeOK /\ ConcurrencyOvershootBounded /\ [Next]_vars
        => ConcurrencyOvershootBounded'
  BY GateSteps, SoftLimit, RunGateAssumption DEF TypeOK, ConcurrencyOvershootBounded
<1> QED
  BY <1>1, <1>2, TypeCorrect, PTL DEF Spec

\* And perOrgPerHour likewise.
THEOREM HourlyBounded == Spec => []HourlyOvershootBounded
<1>1. Init => HourlyOvershootBounded
  <2> SUFFICES ASSUME Init PROVE HourlyOvershootBounded
    OBVIOUS
  <2>1. Pending = {} /\ hour = {}
    BY DEF Init, Pending
  <2> QED
    BY <2>1, FS_EmptySet, FS_CardinalityType, RunGateAssumption
       DEF HourlyOvershootBounded
<1>2. TypeOK /\ HourlyOvershootBounded /\ [Next]_vars => HourlyOvershootBounded'
  BY GateSteps, SoftLimit, RunGateAssumption DEF TypeOK, HourlyOvershootBounded
<1> QED
  BY <1>1, <1>2, TypeCorrect, PTL DEF Spec
----
(* Identical scans inside the dedupe window. *)

\* Rows are numbered by their count, so a new row shares its number with none.
RowsNumbered == IsFiniteSet(rows) /\ \A x \in rows : x.id <= Cardinality(rows)

\* The unforced rows of an input in the window, and the requests that will add one.
Scans(h) == {x \in rows : x.hash = h /\ ~x.force /\ x.id \in young}
Scanning(h) == {c \in Pending : req[c].hash = h /\ ~req[c].force}

DedupeBudget ==
    \A h \in Inputs :
        Cardinality(Scans(h)) + Cardinality(Scanning(h)) <= Cardinality(Clients)

\* The row a request inserts, and the rows after it.
LEMMA RowInserted ==
    ASSUME TypeOK, RowsNumbered, NEW c \in Clients, CreateRow(c)
    PROVE  \E x : /\ x \notin rows /\ rows' = rows \cup {x}
                 /\ x.id = NextId /\ x.hash = req[c].hash
                 /\ x.force = req[c].force /\ x.consent = req[c].consent
                 /\ \A y \in rows : y.id # NextId
<1> DEFINE x == [id |-> NextId, client |-> c, hash |-> req[c].hash,
                 force |-> req[c].force, consent |-> req[c].consent]
<1>1. Cardinality(rows) \in Nat
  BY FS_CardinalityType DEF RowsNumbered
<1>2. \A y \in rows : y.id \in Nat
  BY RunGateAssumption DEF TypeOK, Rows, Ids
<1>3. \A y \in rows : y.id # NextId
  BY <1>1, <1>2 DEF RowsNumbered, NextId
<1>4. rows' = rows \cup {x}
  BY DEF CreateRow
<1>5. x \notin rows
  BY <1>3
<1> QED
  BY <1>3, <1>4, <1>5

\* Every step keeps the numbering.
LEMMA RowsStep ==
    ASSUME TypeOK, RowsNumbered, [Next]_vars
    PROVE  RowsNumbered'
<1>1. CASE rows' = rows
  BY <1>1 DEF RowsNumbered
<1>2. ASSUME NEW c \in Clients, CreateRow(c) PROVE RowsNumbered'
  <2>1. PICK x : x \notin rows /\ rows' = rows \cup {x} /\ x.id = NextId
    BY <1>2, RowInserted
  <2>2. IsFiniteSet(rows') /\ Cardinality(rows') = Cardinality(rows) + 1
    BY <2>1, FS_AddElement DEF RowsNumbered
  <2>3. Cardinality(rows) \in Nat
    BY FS_CardinalityType DEF RowsNumbered
  <2>4. \A y \in rows : y.id \in Nat
    BY RunGateAssumption DEF TypeOK, Rows, Ids
  <2>5. \A y \in rows : y.id <= Cardinality(rows) + 1
    BY <2>3, <2>4 DEF RowsNumbered
  <2>6. x.id <= Cardinality(rows) + 1
    BY <2>1, <2>3 DEF NextId
  <2>7. \A y \in rows' : y.id <= Cardinality(rows')
    BY <2>1, <2>2, <2>5, <2>6
  <2> QED
    BY <2>2, <2>7 DEF RowsNumbered
<1> QED
  BY <1>1, <1>2
     DEF Next, Start, ReadConsent, PassGate, Turned, MarkConsentUsed, Enqueue, ApiCrash,
         RunEnds, WindowEnds, HourEnds, Revoke, vars

\* How a step changes the scans of an input: a request finds none and passes, a
\* request that passed inserts its row, or both sets only shrink.
ScanStep(h) ==
    \/ Scans(h) = {} /\ Scans(h)' = {}
    \/ \E c \in Scanning(h) : \E x :
         Scans(h)' = Scans(h) \cup {x} /\ Scanning(h)' = Scanning(h) \ {c}
    \/ Scans(h)' \subseteq Scans(h) /\ Scanning(h)' \subseteq Scanning(h)

\* Every step is one of those.
LEMMA ScanSteps ==
    ASSUME TypeOK, RowsNumbered, [Next]_vars, NEW h \in Inputs
    PROVE  ScanStep(h)
<1> USE DEF Scans, Scanning, Pending, TypeOK
<1>1. CASE UNCHANGED vars
  BY <1>1 DEF vars, ScanStep
<1>2. ASSUME NEW c \in Clients, NEW q \in Requests, ReadConsent(c, q) PROVE ScanStep(h)
  <2>1. Scans(h)' = Scans(h) /\ Scanning(h)' \subseteq Scanning(h)
    BY <1>2 DEF ReadConsent
  <2> QED BY <2>1 DEF ScanStep
<1>3. ASSUME NEW c \in Clients, PassGate(c) PROVE ScanStep(h)
  <2>1. Scans(h)' = Scans(h)
    BY <1>3 DEF PassGate
  <2>2. CASE req[c].hash = h /\ ~req[c].force
    <3>1. Scans(h) = {}
      BY <1>3, <2>2 DEF PassGate, RecentTwin
    <3> QED BY <2>1, <3>1 DEF ScanStep
  <2>3. CASE ~(req[c].hash = h /\ ~req[c].force)
    <3>1. Scanning(h)' \subseteq Scanning(h)
      BY <1>3, <2>3 DEF PassGate
    <3> QED BY <2>1, <3>1 DEF ScanStep
  <2> QED BY <2>2, <2>3
<1>4. ASSUME NEW c \in Clients, Turned(c) \/ Enqueue(c) \/ ApiCrash(c) PROVE ScanStep(h)
  <2>1. Scans(h)' = Scans(h) /\ Scanning(h)' \subseteq Scanning(h)
    BY <1>4 DEF Turned, Enqueue, ApiCrash, EndRequest
  <2> QED BY <2>1 DEF ScanStep
<1>5. ASSUME NEW c \in Clients, CreateRow(c) PROVE ScanStep(h)
  <2>1. PICK x : /\ x \notin rows /\ rows' = rows \cup {x}
                 /\ x.id = NextId /\ x.hash = req[c].hash
                 /\ x.force = req[c].force /\ x.consent = req[c].consent
                 /\ \A y \in rows : y.id # NextId
    BY <1>5, RowInserted
  <2>2. young' = young \cup {NextId} /\ req' = req
        /\ pc[c] = "passed" /\ pc' = [pc EXCEPT ![c] = "created"]
    BY <1>5 DEF CreateRow
  <2>3. CASE req[c].hash = h /\ ~req[c].force
    <3>1. Scans(h)' = Scans(h) \cup {x}
      BY <2>1, <2>2, <2>3
    <3>2. c \in Scanning(h) /\ Scanning(h)' = Scanning(h) \ {c}
      BY <2>2, <2>3
    <3> QED BY <3>1, <3>2 DEF ScanStep
  <2>4. CASE ~(req[c].hash = h /\ ~req[c].force)
    <3>1. Scans(h)' = Scans(h)
      BY <2>1, <2>2, <2>4
    <3>2. Scanning(h)' \subseteq Scanning(h)
      BY <2>2
    <3> QED BY <3>1, <3>2 DEF ScanStep
  <2> QED BY <2>3, <2>4
<1>6. ASSUME NEW c \in Clients, MarkConsentUsed(c) PROVE ScanStep(h)
  <2>1. Scans(h)' = Scans(h) /\ Scanning(h)' \subseteq Scanning(h)
    BY <1>6 DEF MarkConsentUsed
  <2> QED BY <2>1 DEF ScanStep
<1>7. ASSUME NEW i \in Ids, RunEnds(i) \/ WindowEnds(i) \/ HourEnds(i) PROVE ScanStep(h)
  <2>1. Scans(h)' \subseteq Scans(h) /\ Scanning(h)' = Scanning(h)
    BY <1>7 DEF RunEnds, WindowEnds, HourEnds
  <2> QED BY <2>1 DEF ScanStep
<1>8. ASSUME NEW k \in Consents, Revoke(k) PROVE ScanStep(h)
  <2>1. Scans(h)' = Scans(h) /\ Scanning(h)' = Scanning(h)
    BY <1>8 DEF Revoke
  <2> QED BY <2>1 DEF ScanStep
<1> QED
  BY <1>1, <1>2, <1>3, <1>4, <1>5, <1>6, <1>7, <1>8 DEF Next, Start

\* So no step exceeds the budget of an input.
LEMMA DedupeStep ==
    ASSUME TypeOK, RowsNumbered, DedupeBudget, [Next]_vars
    PROVE  DedupeBudget'
<1> SUFFICES ASSUME NEW h \in Inputs
             PROVE  Cardinality(Scans(h)') + Cardinality(Scanning(h)') <= Cardinality(Clients)
  BY DEF DedupeBudget
<1> DEFINE A == Scans(h)
           P == Scanning(h)
           B == Scans(h)'
           Q == Scanning(h)'
<1>1. IsFiniteSet(A) /\ IsFiniteSet(P) /\ P \subseteq Clients
  BY FS_Subset, RunGateAssumption DEF RowsNumbered, Scans, Scanning, Pending
<1>2. IsFiniteSet(B) /\ IsFiniteSet(Q) /\ Q \subseteq Clients
  <2>1. IsFiniteSet(rows')
    BY RowsStep DEF RowsNumbered
  <2> QED
    BY <2>1, FS_Subset, RunGateAssumption DEF Scans, Scanning, Pending
<1>3. Cardinality(A) + Cardinality(P) <= Cardinality(Clients)
  BY DEF DedupeBudget
<1>4. ScanStep(h)
  BY ScanSteps
<1>5. \/ A = {} /\ B = {}
      \/ \E c \in P : \E x : B = A \cup {x} /\ Q = P \ {c}
      \/ B \subseteq A /\ Q \subseteq P
  BY <1>4 DEF ScanStep
<1> HIDE DEF A, P, B, Q
<1>6. /\ Cardinality(A) \in Nat /\ Cardinality(B) \in Nat /\ Cardinality(P) \in Nat
      /\ Cardinality(Q) \in Nat /\ Cardinality(Clients) \in Nat
  BY <1>1, <1>2, FS_CardinalityType, RunGateAssumption
<1>7. Cardinality(B) + Cardinality(Q) <= Cardinality(Clients)
  <2>1. CASE A = {} /\ B = {}
    BY <1>2, <1>6, <2>1, FS_EmptySet, FS_Subset, RunGateAssumption
  <2>2. ASSUME NEW c \in P, NEW x, B = A \cup {x}, Q = P \ {c}
        PROVE  Cardinality(B) + Cardinality(Q) <= Cardinality(Clients)
    <3>1. Cardinality(B) + Cardinality(Q) <= Cardinality(A) + Cardinality(P)
      BY <1>1, <2>2, HandOver
    <3> QED BY <1>3, <1>6, <3>1
  <2>3. CASE B \subseteq A /\ Q \subseteq P
    <3>1. Cardinality(B) + Cardinality(Q) <= Cardinality(A) + Cardinality(P)
      BY <1>1, <2>3, Shrink
    <3> QED BY <1>3, <1>6, <3>1
  <2> QED
    BY <1>5, <2>1, <2>2, <2>3
<1> QED BY <1>7 DEF B, Q

\* Rows are numbered throughout.
LEMMA AlwaysNumbered == Spec => []RowsNumbered
<1>1. Init => RowsNumbered
  BY FS_EmptySet DEF Init, RowsNumbered
<1> QED
  BY <1>1, RowsStep, TypeCorrect, PTL DEF Spec

\* The dedupe query of runs.start lets an input through once per overlapping request
\* and window at most, unless a caller forces it.
THEOREM DuplicatesBounded == Spec => []DuplicateScansBounded
<1>1. Init => DedupeBudget
  <2> SUFFICES ASSUME Init, NEW h \in Inputs
               PROVE  Cardinality(Scans(h)) + Cardinality(Scanning(h)) <= Cardinality(Clients)
    BY DEF DedupeBudget
  <2>1. Scans(h) = {} /\ Scanning(h) = {}
    BY DEF Init, Scans, Scanning, Pending
  <2> QED
    BY <2>1, FS_EmptySet, FS_CardinalityType, RunGateAssumption
<1>2. RowsNumbered /\ DedupeBudget => DuplicateScansBounded
  <2> SUFFICES ASSUME RowsNumbered, DedupeBudget, NEW h \in Inputs
               PROVE  Cardinality(Scans(h)) <= Cardinality(Clients)
    BY DEF DuplicateScansBounded, Scans
  <2>1. Cardinality(Scans(h)) + Cardinality(Scanning(h)) <= Cardinality(Clients)
    BY DEF DedupeBudget
  <2>2. IsFiniteSet(Scans(h)) /\ IsFiniteSet(Scanning(h))
    BY FS_Subset, RunGateAssumption DEF RowsNumbered, Scans, Scanning, Pending
  <2>3. /\ Cardinality(Scans(h)) \in Nat /\ Cardinality(Scanning(h)) \in Nat
        /\ Cardinality(Clients) \in Nat
    BY <2>2, FS_CardinalityType, RunGateAssumption
  <2> QED BY <2>1, <2>3
<1> QED
  BY <1>1, <1>2, DedupeStep, AlwaysNumbered, TypeCorrect, PTL DEF Spec
----
(* Uses of a high-risk consent. *)

\* Its rows, the requests that may still insert one, and those that have
\* inserted theirs and not written usedAt yet.
Uses(k) == {x \in rows : x.consent = k}
Waiting(k) == {c \in Clients : pc[c] \in {"consented", "passed"} /\ req[c].consent = k}
Unmarked(k) == {c \in Clients : pc[c] = "created" /\ req[c].consent = k}

\* Until usedAt is written, every row has its request at hand or a crash that
\* took it; from then on nobody joins those who wait.
UseBudget ==
    \A k \in HighRisk :
        /\ k \notin used => Cardinality(Uses(k)) <= Cardinality(Unmarked(k)) + crashes
        /\ Cardinality(Uses(k)) + Cardinality(Waiting(k)) <= Cardinality(Clients) + crashes

\* How a step changes them: nothing but requests that give up, a request that
\* finds the consent unused, an insert, the write of usedAt, or a crash.
UseStep(k) ==
    \/ /\ Uses(k)' = Uses(k) /\ Waiting(k)' \subseteq Waiting(k)
       /\ Unmarked(k)' = Unmarked(k) /\ crashes' = crashes
       /\ k \in used => k \in used'
    \/ /\ k \notin used
       /\ Uses(k)' = Uses(k) /\ Unmarked(k)' = Unmarked(k) /\ crashes' = crashes
    \/ /\ \E c \in Waiting(k) : \E x :
            /\ Uses(k)' = Uses(k) \cup {x}
            /\ Waiting(k)' = Waiting(k) \ {c} /\ Unmarked(k)' = Unmarked(k) \cup {c}
       /\ used' = used /\ crashes' = crashes
    \/ /\ k \in used'
       /\ Uses(k)' = Uses(k) /\ Waiting(k)' = Waiting(k) /\ crashes' = crashes
    \/ /\ \E c \in Clients : Unmarked(k) \ {c} \subseteq Unmarked(k)'
       /\ Uses(k)' = Uses(k) /\ Waiting(k)' \subseteq Waiting(k)
       /\ used' = used /\ crashes' = crashes + 1

\* Every step is one of those.
LEMMA UseSteps ==
    ASSUME TypeOK, RowsNumbered, [Next]_vars, NEW k \in HighRisk
    PROVE  UseStep(k)
<1> USE DEF Uses, Waiting, Unmarked, TypeOK
<1>1. CASE UNCHANGED vars
  BY <1>1 DEF vars, UseStep
<1>2. ASSUME NEW c \in Clients, NEW q \in Requests, ReadConsent(c, q) PROVE UseStep(k)
  <2>1. /\ Uses(k)' = Uses(k) /\ Unmarked(k)' = Unmarked(k)
        /\ crashes' = crashes /\ used' = used
    BY <1>2 DEF ReadConsent
  <2>2. q.consent = k => k \notin used
    BY <1>2 DEF ReadConsent, ConsentValid
  <2>3. q.consent # k => Waiting(k)' \subseteq Waiting(k)
    BY <1>2 DEF ReadConsent
  <2> QED BY <2>1, <2>2, <2>3 DEF UseStep
<1>3. ASSUME NEW c \in Clients, PassGate(c) \/ Turned(c) \/ Enqueue(c) PROVE UseStep(k)
  <2>1. /\ Uses(k)' = Uses(k) /\ Unmarked(k)' = Unmarked(k)
        /\ Waiting(k)' \subseteq Waiting(k)
        /\ crashes' = crashes /\ used' = used
    BY <1>3 DEF PassGate, Turned, Enqueue, EndRequest
  <2> QED BY <2>1 DEF UseStep
<1>4. ASSUME NEW c \in Clients, CreateRow(c) PROVE UseStep(k)
  <2>1. PICK x : rows' = rows \cup {x} /\ x.consent = req[c].consent
    BY <1>4, RowInserted
  <2>2. /\ pc[c] = "passed" /\ pc' = [pc EXCEPT ![c] = "created"] /\ req' = req
        /\ crashes' = crashes /\ used' = used
    BY <1>4 DEF CreateRow
  <2>3. CASE req[c].consent = k
    <3>1. Uses(k)' = Uses(k) \cup {x}
      BY <2>1, <2>3
    <3>2. /\ c \in Waiting(k) /\ Waiting(k)' = Waiting(k) \ {c}
          /\ Unmarked(k)' = Unmarked(k) \cup {c}
      BY <2>2, <2>3
    <3> QED BY <2>2, <3>1, <3>2 DEF UseStep
  <2>4. CASE req[c].consent # k
    <3>1. Uses(k)' = Uses(k)
      BY <2>1, <2>4
    <3>2. Waiting(k)' \subseteq Waiting(k) /\ Unmarked(k)' = Unmarked(k)
      BY <2>2, <2>4
    <3> QED BY <2>2, <3>1, <3>2 DEF UseStep
  <2> QED BY <2>3, <2>4
<1>5. ASSUME NEW c \in Clients, MarkConsentUsed(c) PROVE UseStep(k)
  <2>1. Uses(k)' = Uses(k) /\ Waiting(k)' = Waiting(k) /\ crashes' = crashes
    BY <1>5 DEF MarkConsentUsed
  <2>2. CASE req[c].consent = k
    <3>1. k \in used'
      BY <1>5, <2>2 DEF MarkConsentUsed
    <3> QED BY <2>1, <3>1 DEF UseStep
  <2>3. CASE req[c].consent # k
    <3>1. Unmarked(k)' = Unmarked(k) /\ (k \in used => k \in used')
      BY <1>5, <2>3 DEF MarkConsentUsed
    <3> QED BY <2>1, <3>1 DEF UseStep
  <2> QED BY <2>2, <2>3
<1>6. ASSUME NEW c \in Clients, ApiCrash(c) PROVE UseStep(k)
  <2>1. /\ Uses(k)' = Uses(k) /\ Waiting(k)' \subseteq Waiting(k)
        /\ Unmarked(k) \ {c} \subseteq Unmarked(k)'
        /\ used' = used /\ crashes' = crashes + 1
    BY <1>6 DEF ApiCrash, EndRequest
  <2> QED BY <2>1 DEF UseStep
<1>7. ASSUME \/ \E i \in Ids : RunEnds(i) \/ WindowEnds(i) \/ HourEnds(i)
             \/ \E j \in Consents : Revoke(j)
      PROVE  UseStep(k)
  <2>1. /\ Uses(k)' = Uses(k) /\ Waiting(k)' = Waiting(k) /\ Unmarked(k)' = Unmarked(k)
        /\ crashes' = crashes /\ used' = used
    BY <1>7 DEF RunEnds, WindowEnds, HourEnds, Revoke
  <2> QED BY <2>1 DEF UseStep
<1> QED
  BY <1>1, <1>2, <1>3, <1>4, <1>5, <1>6, <1>7 DEF Next, Start

\* So no step exceeds the budget of a consent.
LEMMA UseBudgetStep ==
    ASSUME TypeOK, RowsNumbered, UseBudget, [Next]_vars
    PROVE  UseBudget'
<1> SUFFICES ASSUME NEW k \in HighRisk
             PROVE  /\ k \notin used' =>
                         Cardinality(Uses(k)') <= Cardinality(Unmarked(k)') + crashes'
                    /\ Cardinality(Uses(k)') + Cardinality(Waiting(k)')
                         <= Cardinality(Clients) + crashes'
  BY DEF UseBudget
<1> DEFINE A == Uses(k)
           B == Uses(k)'
           W == Waiting(k)
           V == Waiting(k)'
           U == Unmarked(k)
           T == Unmarked(k)'
           N == Cardinality(Clients)
<1>1. IsFiniteSet(A) /\ IsFiniteSet(B)
  <2>1. IsFiniteSet(rows) /\ IsFiniteSet(rows')
    BY RowsStep DEF RowsNumbered
  <2> QED BY <2>1, FS_Subset DEF Uses
<1>2. /\ W \subseteq Clients /\ V \subseteq Clients /\ U \subseteq Clients
      /\ T \subseteq Clients /\ W \cap U = {} /\ V \cap T = {}
  BY DEF Waiting, Unmarked
<1>3. crashes \in Nat /\ crashes' \in Nat
  BY TypeStep, RunGateAssumption DEF TypeOK
<1>4. /\ k \notin used => Cardinality(A) <= Cardinality(U) + crashes
      /\ Cardinality(A) + Cardinality(W) <= N + crashes
  BY DEF UseBudget
<1>5. UseStep(k)
  BY UseSteps
<1>6. \/ /\ B = A /\ V \subseteq W /\ T = U /\ crashes' = crashes
         /\ k \in used => k \in used'
      \/ k \notin used /\ B = A /\ T = U /\ crashes' = crashes
      \/ /\ \E c \in W : \E x : B = A \cup {x} /\ V = W \ {c} /\ T = U \cup {c}
         /\ used' = used /\ crashes' = crashes
      \/ k \in used' /\ B = A /\ V = W /\ crashes' = crashes
      \/ /\ \E c \in Clients : U \ {c} \subseteq T
         /\ B = A /\ V \subseteq W /\ used' = used /\ crashes' = crashes + 1
  BY <1>5 DEF UseStep
<1> HIDE DEF A, B, W, V, U, T
<1>7. IsFiniteSet(W) /\ IsFiniteSet(V) /\ IsFiniteSet(U) /\ IsFiniteSet(T)
  BY <1>2, FS_Subset, RunGateAssumption
<1>8. /\ Cardinality(A) \in Nat /\ Cardinality(B) \in Nat /\ Cardinality(W) \in Nat
      /\ Cardinality(V) \in Nat /\ Cardinality(U) \in Nat /\ Cardinality(T) \in Nat
      /\ N \in Nat
  BY <1>1, <1>7, FS_CardinalityType, RunGateAssumption
<1>9. Cardinality(V) + Cardinality(T) <= N
  <2>1. Cardinality(V \cup T) <= N
    BY <1>2, FS_Subset, RunGateAssumption
  <2>2. Cardinality(V \cup T) = Cardinality(V) + Cardinality(T)
    BY <1>2, <1>7, <1>8, FS_Union, FS_EmptySet
  <2> QED BY <2>1, <2>2
<1> HIDE DEF N
<1> DEFINE Goal == /\ k \notin used' => Cardinality(B) <= Cardinality(T) + crashes'
                   /\ Cardinality(B) + Cardinality(V) <= N + crashes'
<1>10. ASSUME B = A, V \subseteq W, T = U, crashes' = crashes, k \in used => k \in used'
       PROVE  Goal
  <2>1. Cardinality(V) <= Cardinality(W)
    BY <1>7, <1>10, FS_Subset
  <2>2. Cardinality(B) + Cardinality(V) <= N + crashes'
    BY <1>3, <1>4, <1>8, <1>10, <2>1
  <2> QED BY <1>4, <1>10, <2>2
<1>11. ASSUME k \notin used, B = A, T = U, crashes' = crashes
       PROVE  Goal
  BY <1>3, <1>4, <1>8, <1>9, <1>11
<1>12. ASSUME NEW c \in W, NEW x, B = A \cup {x}, V = W \ {c}, T = U \cup {c},
              used' = used, crashes' = crashes
       PROVE  Goal
  <2>1. Cardinality(B) + Cardinality(V) <= Cardinality(A) + Cardinality(W)
    BY <1>1, <1>7, <1>12, HandOver
  <2>2. Cardinality(B) <= Cardinality(A) + 1
    BY <1>1, <1>8, <1>12, FS_AddElement
  <2>3. Cardinality(T) = Cardinality(U) + 1
    BY <1>2, <1>7, <1>12, FS_AddElement
  <2>4. Cardinality(B) + Cardinality(V) <= N + crashes'
    BY <1>3, <1>4, <1>8, <1>12, <2>1
  <2>5. k \notin used' => Cardinality(B) <= Cardinality(T) + crashes'
    BY <1>3, <1>4, <1>8, <1>12, <2>2, <2>3
  <2> QED BY <2>4, <2>5
<1>13. ASSUME k \in used', B = A, V = W, crashes' = crashes
       PROVE  Goal
  BY <1>4, <1>13
<1>14. ASSUME NEW c \in Clients, U \ {c} \subseteq T,
              B = A, V \subseteq W, used' = used, crashes' = crashes + 1
       PROVE  Goal
  <2>1. Cardinality(V) <= Cardinality(W)
    BY <1>7, <1>14, FS_Subset
  <2>2. Cardinality(U) <= Cardinality(T) + 1
    <3>1. U \subseteq T \cup {c}
      BY <1>14
    <3>2. /\ IsFiniteSet(T \cup {c})
          /\ Cardinality(T \cup {c}) = IF c \in T THEN Cardinality(T) ELSE Cardinality(T) + 1
      BY <1>7, FS_AddElement
    <3>3. Cardinality(U) <= Cardinality(T \cup {c})
      BY <3>1, <3>2, FS_Subset
    <3> QED BY <1>8, <3>2, <3>3
  <2>3. Cardinality(B) + Cardinality(V) <= N + crashes'
    BY <1>3, <1>4, <1>8, <1>14, <2>1
  <2>4. k \notin used' => Cardinality(B) <= Cardinality(T) + crashes'
    BY <1>3, <1>4, <1>8, <1>14, <2>2
  <2> QED BY <2>3, <2>4
<1>15. Goal
  BY <1>6, <1>10, <1>11, <1>12, <1>13, <1>14
<1> QED BY <1>15 DEF B, V, T, N

\* Overlapping requests and crashes between the insert and the write of usedAt are the
\* only ways by which a single-use consent starts more than one run.
THEOREM HighRiskBounded == Spec => []HighRiskUsesBounded
<1>1. Init => UseBudget
  <2> SUFFICES ASSUME Init, NEW k \in HighRisk
               PROVE  /\ Cardinality(Uses(k)) <= Cardinality(Unmarked(k)) + crashes
                      /\ Cardinality(Uses(k)) + Cardinality(Waiting(k))
                           <= Cardinality(Clients) + crashes
    BY DEF UseBudget
  <2>1. Uses(k) = {} /\ Unmarked(k) = {} /\ Waiting(k) = {} /\ crashes = 0
    BY DEF Init, Uses, Unmarked, Waiting
  <2> QED
    BY <2>1, FS_EmptySet, FS_CardinalityType, RunGateAssumption
<1>2. TypeOK /\ RowsNumbered /\ UseBudget => HighRiskUsesBounded
  <2> SUFFICES ASSUME TypeOK, RowsNumbered, UseBudget, NEW k \in HighRisk
               PROVE  Cardinality(Uses(k)) <= Cardinality(Clients) + crashes
    BY DEF HighRiskUsesBounded, Uses
  <2>1. Cardinality(Uses(k)) + Cardinality(Waiting(k)) <= Cardinality(Clients) + crashes
    BY DEF UseBudget
  <2>2. IsFiniteSet(Uses(k)) /\ IsFiniteSet(Waiting(k))
    BY FS_Subset, RunGateAssumption DEF RowsNumbered, Uses, Waiting
  <2>3. /\ Cardinality(Uses(k)) \in Nat /\ Cardinality(Waiting(k)) \in Nat
        /\ Cardinality(Clients) \in Nat /\ crashes \in Nat
    BY <2>2, FS_CardinalityType, RunGateAssumption DEF TypeOK
  <2> QED BY <2>1, <2>3
<1> QED
  BY <1>1, <1>2, UseBudgetStep, AlwaysNumbered, TypeCorrect, PTL DEF Spec
====
