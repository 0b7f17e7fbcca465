---- MODULE PlanExecutorProofs ----
(***************************************************************************)
(* For any plan, budget and number of slots: no lease outlives its call,   *)
(* the node budget is overrun by less than one answer for each parallel    *)
(* node, a plan that was not stopped drops none of its nodes, and driver,  *)
(* tasks and reader never all wait for one another.                        *)
(***************************************************************************)
EXTENDS PlanExecutor, FiniteSetTheorems, SequenceTheorems, TLAPS

\* A task that has taken an engine on and not yet counted its answer.
Busy == {"pace", "refused", "engine", "absorb"}
Working == {n \in Steps : npc[n] \in Busy}

\* A call under way is for an input that is still on the node's list.
HasInput == \A n \in Steps : npc[n] \in Busy => left[n] >= 1

\* The scheduler's sets are the tasks under way and the tasks that are over.
Placed ==
    /\ running = {n \in Steps : npc[n] \notin {"new", "done"}}
    /\ settled = {n \in Steps : npc[n] = "done"}

\* The first nodes of a list, all of them, and that none is listed twice.
Firsts(r, k) == {r[i] : i \in 1..k}
Listed(r) == Firsts(r, Len(r))
Distinct(r) == \A i, j \in 1..Len(r) : r[i] = r[j] => i = j

\* The queue lists, once each, the nodes that have not begun and wait for nothing.
Queued ==
    /\ Distinct(ready)
    /\ Listed(ready) = {n \in Steps : npc[n] = "new" /\ deps[n] \subseteq settled}

\* A task has begun only after the nodes its node waits for were over.
Begun == \A n \in Steps : npc[n] # "new" => deps[n] \subseteq settled

\* No more than maxParallel tasks at once.
Parallel == Cardinality(running) <= MaxParallel

\* A failed call has brought nothing.
Honest == \A n \in Steps : got[n].status = "failed" => got[n].entities = 0

\* What is found and what the calls under way may still bring.
NodeBudget ==
    found + MaxResults * Cardinality(Working) <= MaxNewNodes - 1 + MaxResults * MaxParallel

\* The driver has left its loop for a reason, and the channel closes behind the last task.
Closing ==
    /\ dpc \in {"last", "closed"} => cancelled \/ exhausted \/ (ready = <<>> /\ running = {})
    /\ dpc = "closed" => running = {}
    /\ rpc = "done" => dpc = "closed"

\* A task between two inputs, or over, shows in a counter or was stopped.
Accounted ==
    \A n \in Steps : npc[n] \in {"input", "settle", "done"} => n \in counted \/ cancelled \/ exhausted

PlanInv ==
    /\ TypeOK
    /\ HasInput
    /\ Placed
    /\ Queued
    /\ Begun
    /\ LeasesMatchWork
    /\ Parallel
    /\ Honest
    /\ NodeBudget
    /\ Closing
    /\ Accounted

-----------------------------------------------------------------------------
(* The plan and its listings. *)

\* A plan has finitely many steps.
LEMMA StepsFinite == IsFiniteSet(Steps)
<1> DEFINE f == [i \in 1..Len(Plan) |-> Plan[i]]
<1>1. Len(Plan) \in Nat
  BY PlanAssumption
<1>2. IsFiniteSet(1..Len(Plan))
  BY <1>1, FS_Interval
<1>3. f \in Surjection(1..Len(Plan), Steps)
  BY DEF Steps, Surjection
<1> QED BY <1>2, <1>3, FS_Surjection

\* A listing in plan order holds each node once.
LEMMA Listing ==
    ASSUME NEW S \in SUBSET Steps, NEW s \in InPlanOrder(S)
    PROVE  /\ s \in Seq(Steps)
           /\ Listed(s) = S /\ Distinct(s)
<1>1. Cardinality(S) \in Nat
  BY StepsFinite, FS_Subset, FS_CardinalityType
<1> DEFINE k == Cardinality(S)
<1>2. /\ s \in [1..k -> S] /\ {s[i] : i \in 1..k} = S
      /\ \A i, j \in 1..k : i < j =>
           \E p, q \in 1..Len(Plan) : p < q /\ Plan[p] = s[i] /\ Plan[q] = s[j]
  BY DEF InPlanOrder
<1> HIDE DEF k
<1>3. s \in Seq(S) /\ Len(s) = k
  BY <1>1, <1>2, SeqDef DEF k
<1>4. s \in Seq(Steps)
  BY <1>3
<1>5. \A i, j \in 1..k : i < j => s[i] # s[j]
  <2>1. \A p, q \in 1..Len(Plan) : Plan[p] = Plan[q] => p = q
    BY PlanAssumption
  <2>2. Len(Plan) \in Nat
    BY PlanAssumption
  <2> QED BY <1>2, <2>1, <2>2
<1>6. \A i, j \in 1..k : s[i] = s[j] => i = j
  BY <1>1, <1>5 DEF k
<1> QED BY <1>2, <1>3, <1>4, <1>6 DEF Listed, Firsts, Distinct

\* Two listings without a common node make one.
LEMMA Appended ==
    ASSUME NEW r \in Seq(Steps), NEW s \in Seq(Steps), Distinct(r), Distinct(s),
           Listed(r) \cap Listed(s) = {}, NEW t, t = r \o s
    PROVE  t \in Seq(Steps) /\ Distinct(t) /\ Listed(t) = Listed(r) \cup Listed(s)
<1> USE DEF Distinct, Listed, Firsts
<1>1. /\ t \in Seq(Steps) /\ Len(t) = Len(r) + Len(s)
      /\ \A i \in 1..Len(t) : t[i] = IF i <= Len(r) THEN r[i] ELSE s[i - Len(r)]
  BY ConcatProperties
<1>2. Len(r) \in Nat /\ Len(s) \in Nat
  OBVIOUS
<1>3. \A i \in 1..Len(t) :
        \/ i \in 1..Len(r) /\ t[i] = r[i]
        \/ i - Len(r) \in 1..Len(s) /\ t[i] = s[i - Len(r)] /\ ~(i <= Len(r))
  BY <1>1, <1>2
<1>4. ASSUME NEW i \in 1..Len(t), NEW j \in 1..Len(t), t[i] = t[j]
      PROVE  i = j
  <2>1. CASE i \in 1..Len(r) /\ t[i] = r[i] /\ j \in 1..Len(r) /\ t[j] = r[j]
    BY <1>4, <2>1
  <2>2. CASE /\ i - Len(r) \in 1..Len(s) /\ t[i] = s[i - Len(r)]
             /\ j - Len(r) \in 1..Len(s) /\ t[j] = s[j - Len(r)]
    <3>1. i - Len(r) = j - Len(r)
      BY <1>4, <2>2
    <3>2. i \in Int /\ j \in Int /\ Len(r) \in Int
      BY <1>1, <1>2
    <3>3. \A x, y, z \in Int : x - z = y - z => x = y
      OBVIOUS
    <3> QED BY <3>1, <3>2, <3>3
  <2>3. ASSUME NEW a \in 1..Len(r), NEW b \in 1..Len(s)
        PROVE  r[a] # s[b]
    <3>1. r[a] \in {r[m] : m \in 1..Len(r)} /\ s[b] \in {s[m] : m \in 1..Len(s)}
      OBVIOUS
    <3> QED BY <3>1
  <2> QED BY <1>3, <1>4, <2>1, <2>2, <2>3
<1>5. {t[i] : i \in 1..Len(t)} \subseteq {r[i] : i \in 1..Len(r)} \cup {s[i] : i \in 1..Len(s)}
  BY <1>3
<1>6. ASSUME NEW i \in 1..Len(r) PROVE r[i] \in {t[j] : j \in 1..Len(t)}
  <2>1. i \in 1..Len(t) /\ t[i] = r[i]
    BY <1>1, <1>2
  <2> QED BY <2>1
<1>7. ASSUME NEW i \in 1..Len(s) PROVE s[i] \in {t[j] : j \in 1..Len(t)}
  <2> DEFINE j == i + Len(r)
  <2>1. j \in 1..Len(t) /\ ~(j <= Len(r)) /\ j - Len(r) = i
    BY <1>1, <1>2
  <2> HIDE DEF j
  <2>2. t[j] = s[i]
    BY <1>3, <2>1
  <2> QED BY <2>1, <2>2
<1>8. {t[i] : i \in 1..Len(t)} = {r[i] : i \in 1..Len(r)} \cup {s[i] : i \in 1..Len(s)}
  <2>1. {r[i] : i \in 1..Len(r)} \subseteq {t[j] : j \in 1..Len(t)}
    BY <1>6
  <2>2. {s[i] : i \in 1..Len(s)} \subseteq {t[j] : j \in 1..Len(t)}
    BY <1>7
  <2> QED BY <1>5, <2>1, <2>2
<1> QED BY <1>1, <1>4, <1>8

\* The rest of a listing.
LEMMA Rest ==
    ASSUME NEW r \in Seq(Steps), Distinct(r),
           NEW k \in 0..Len(r), NEW t, t = SubSeq(r, k + 1, Len(r))
    PROVE  t \in Seq(Steps) /\ Distinct(t) /\ Listed(t) = Listed(r) \ Firsts(r, k)
<1> USE DEF Distinct, Listed, Firsts
<1>1. Len(r) \in Nat /\ k \in Nat /\ k <= Len(r)
  OBVIOUS
<1>2. \A i \in (k + 1)..Len(r) : r[i] \in Steps
  BY <1>1
<1>3. /\ t \in Seq(Steps) /\ Len(t) = Len(r) - k
      /\ \A i \in 1..Len(t) : t[i] = r[i + k] /\ i + k \in 1..Len(r)
  <2>1. /\ t \in Seq(Steps)
        /\ Len(t) = IF k + 1 <= Len(r) THEN Len(r) - (k + 1) + 1 ELSE 0
        /\ \A i \in 1..(Len(r) - (k + 1) + 1) : t[i] = r[k + 1 + i - 1]
    BY <1>1, <1>2, SubSeqProperties
  <2>2. Len(t) = Len(r) - k
    BY <1>1, <2>1
  <2> QED BY <1>1, <2>1, <2>2
<1>4. ASSUME NEW i \in 1..Len(t), NEW j \in 1..Len(t), t[i] = t[j]
      PROVE  i = j
  <2>1. i + k = j + k
    BY <1>3, <1>4
  <2> QED BY <1>1, <2>1
<1>5. ASSUME NEW i \in 1..Len(t)
      PROVE  t[i] \in {r[j] : j \in 1..Len(r)} \ {r[j] : j \in 1..k}
  <2>1. i + k \in 1..Len(r) /\ i + k \notin 1..k /\ t[i] = r[i + k] /\ 1..k \subseteq 1..Len(r)
    BY <1>1, <1>3
  <2> QED BY <2>1
<1>6. ASSUME NEW i \in 1..Len(r), r[i] \notin {r[j] : j \in 1..k}
      PROVE  r[i] \in {t[j] : j \in 1..Len(t)}
  <2>1. i \notin 1..k
    BY <1>6
  <2>2. i - k \in 1..Len(t) /\ (i - k) + k = i
    BY <1>1, <1>3, <2>1
  <2> QED BY <1>3, <2>2
<1>7. {t[i] : i \in 1..Len(t)} \subseteq {r[i] : i \in 1..Len(r)} \ {r[i] : i \in 1..k}
  BY <1>5
<1>8. {r[i] : i \in 1..Len(r)} \ {r[i] : i \in 1..k} \subseteq {t[i] : i \in 1..Len(t)}
  BY <1>6
<1> QED BY <1>3, <1>4, <1>7, <1>8

\* The first k of a listing are no more than k.
LEMMA FirstFew ==
    ASSUME NEW r, NEW k \in Nat
    PROVE  IsFiniteSet(Firsts(r, k)) /\ Cardinality(Firsts(r, k)) <= k
<1> DEFINE f == [i \in 1..k |-> r[i]]
<1>1. f \in Surjection(1..k, Firsts(r, k))
  BY DEF Surjection, Firsts
<1>2. IsFiniteSet(1..k) /\ Cardinality(1..k) = k
  BY FS_Interval
<1> QED BY <1>1, <1>2, FS_Surjection

-----------------------------------------------------------------------------
(* A step of a task, its last excepted. *)

Leased == {"pace", "refused", "engine"}

\* Entities are added where the budget was just looked at, or where a call ends.
Spends(n, pc) ==
    \/ found' = found /\ (pc \in Busy => npc[n] \in Busy)
    \/ found < MaxNewNodes /\ found' = found
    \/ found < MaxNewNodes /\ found' <= found + MaxResults /\ pc \notin Busy
    \/ npc[n] \in Busy /\ found' <= found + MaxResults /\ pc \notin Busy

\* The task of n goes on to pc.
TaskStep(n, pc) ==
    /\ npc[n] \notin {"new", "done"} /\ pc \in NodePcs \ {"new", "done"}
    /\ npc' = [npc EXCEPT ![n] = pc]
    /\ left' \in [Steps -> Nat]
    /\ \A m \in Steps \ {n} : left'[m] = left[m]
    /\ pc \in Busy => left'[n] >= 1
    /\ held' = IF pc \in Leased THEN held \cup {n} ELSE held \ {n}
    /\ link' \in [Steps -> Nat] /\ room' \in [Steps -> Nat]
    /\ got' \in [Steps -> Outcome] /\ Honest'
    /\ used' \in Nat /\ buf' \in Nat
    /\ rpc' = rpc \/ (rpc = "waiting" /\ rpc' = "reading")
    /\ counted \subseteq counted' /\ counted' \subseteq Steps
    /\ cancelled' \in BOOLEAN /\ exhausted' \in BOOLEAN
    /\ (cancelled => cancelled') /\ (exhausted => exhausted')
    /\ pc \in {"input", "settle"} => n \in counted' \/ cancelled' \/ exhausted'
    /\ found' \in Nat /\ Spends(n, pc)
    /\ UNCHANGED <<sched, drv, env>>

\* The limits are numbers.
LEMMA Limits ==
    /\ MaxParallel \in Nat /\ MaxNewNodes \in Nat /\ MaxResults \in Nat
    /\ MaxParallel >= 1 /\ MaxNewNodes >= 1 /\ MaxResults >= 1
  BY PlanAssumption

\* Products of the budget.
LEMMA Answers ==
    ASSUME NEW k \in Nat, NEW m \in Nat, k <= m
    PROVE  /\ MaxResults * k \in Nat /\ MaxResults * m \in Nat
           /\ MaxResults * (k + 1) = MaxResults * k + MaxResults
           /\ MaxResults * k <= MaxResults * m
  BY Limits

\* What one answer takes from the budget.
LEMMA Spent ==
    ASSUME NEW f \in Nat, NEW g \in Nat, NEW y \in Nat, NEW z \in Nat, NEW r \in Nat,
           NEW m \in Nat, g <= f + r
    PROVE  /\ f < m /\ y + r <= z => g + y <= m - 1 + z
           /\ f + (y + r) <= m - 1 + z => g + y <= m - 1 + z
  OBVIOUS

\* Such a step keeps the invariant.
LEMMA TaskStepInv ==
    ASSUME PlanInv, NEW n \in Steps, NEW pc, TaskStep(n, pc)
    PROVE  PlanInv'
<1>1. TypeOK'
  BY DEF PlanInv, TypeOK, TaskStep, sched, drv, env
<1>2. /\ \A m \in Steps \ {n} : npc'[m] = npc[m]
      /\ npc'[n] = pc /\ npc[n] \notin {"new", "done"} /\ pc \notin {"new", "done"}
  BY DEF PlanInv, TypeOK, TaskStep
<1>3. HasInput'
  BY <1>2 DEF PlanInv, HasInput, TaskStep
<1>4. Placed'
  BY <1>2 DEF PlanInv, Placed, TaskStep, sched
<1>5. Queued' /\ Begun'
  <2>1. /\ ready' = ready /\ settled' = settled /\ deps' = deps
        /\ \A m \in Steps : npc'[m] = "new" <=> npc[m] = "new"
    BY <1>2 DEF TaskStep, sched, env
  <2> QED BY <2>1 DEF PlanInv, Queued, Begun
<1>6. LeasesMatchWork'
  BY <1>2 DEF PlanInv, LeasesMatchWork, TaskStep, Leased
<1>7. Parallel' /\ Honest'
  BY DEF PlanInv, Parallel, TaskStep, sched
<1>8. Closing'
  BY DEF PlanInv, Closing, TaskStep, sched, drv
<1>9. Accounted'
  BY <1>2 DEF PlanInv, Accounted, TaskStep
<1>10. NodeBudget'
  <2> DEFINE W == Working
             V == Working'
  <2>1. W \subseteq running /\ V \subseteq running /\ running \subseteq Steps
    BY <1>2 DEF PlanInv, Placed, Working, Busy, TypeOK
  <2>2. /\ npc[n] \in Busy <=> n \in W
        /\ pc \in Busy <=> n \in V
        /\ W \ {n} = V \ {n}
    BY <1>2 DEF Working
  <2>3. n \in running
    BY <1>2 DEF PlanInv, Placed
  <2>4. /\ Spends(n, pc) /\ found \in Nat /\ found' \in Nat
        /\ found + MaxResults * Cardinality(W) <= MaxNewNodes - 1 + MaxResults * MaxParallel
        /\ Cardinality(running) <= MaxParallel
    BY DEF PlanInv, NodeBudget, Parallel, TaskStep, TypeOK
  <2> SUFFICES found' + MaxResults * Cardinality(V) <= MaxNewNodes - 1 + MaxResults * MaxParallel
    BY DEF NodeBudget
  <2> HIDE DEF W, V
  <2>5. /\ IsFiniteSet(running) /\ IsFiniteSet(W) /\ IsFiniteSet(V) /\ IsFiniteSet(running \ {n})
        /\ Cardinality(running) \in Nat /\ Cardinality(W) \in Nat /\ Cardinality(V) \in Nat
        /\ Cardinality(V) <= Cardinality(running)
    BY <2>1, StepsFinite, FS_Subset, FS_CardinalityType
  <2>6. Cardinality(V) <= MaxParallel
    BY <2>4, <2>5, Limits
  <2> DEFINE x == MaxResults * Cardinality(W)
             y == MaxResults * Cardinality(V)
             z == MaxResults * MaxParallel
  <2>7. x \in Nat /\ y \in Nat /\ z \in Nat /\ y <= z /\ found \in Nat /\ found' \in Nat
    BY <2>4, <2>5, <2>6, Answers, Limits
  <2>8. CASE found' = found /\ (pc \in Busy => npc[n] \in Busy)
    <3>1. V \subseteq W
      BY <2>2, <2>8
    <3>2. Cardinality(V) <= Cardinality(W)
      BY <2>5, <3>1, FS_Subset
    <3>3. y <= x
      BY <2>5, <3>2, Answers
    <3> HIDE DEF x, y, z
    <3>4. found' + y <= MaxNewNodes - 1 + z
      BY <2>4, <2>7, <2>8, <3>3, Limits DEF x, z
    <3> QED BY <3>4 DEF y, z
  <2>9. CASE found < MaxNewNodes /\ found' = found
    <3> HIDE DEF x, y, z
    <3>4. found' + y <= MaxNewNodes - 1 + z
      BY <2>7, <2>9, Limits
    <3> QED BY <3>4 DEF y, z
  <2>10. CASE found < MaxNewNodes /\ found' <= found + MaxResults /\ pc \notin Busy
    <3>1. V \subseteq running \ {n}
      BY <2>1, <2>2, <2>10
    <3>2. Cardinality(running \ {n}) = Cardinality(running) - 1
      BY <2>3, <2>5, FS_RemoveElement
    <3>3. Cardinality(V) + 1 <= MaxParallel
      <4>1. Cardinality(V) <= Cardinality(running \ {n})
        BY <2>5, <3>1, FS_Subset
      <4> QED BY <2>4, <2>5, <3>2, <4>1, Limits
    <3>4. y + MaxResults <= z
      <4>1. MaxResults * (Cardinality(V) + 1) <= z
        BY <2>5, <3>3, Answers, Limits
      <4>2. MaxResults * (Cardinality(V) + 1) = y + MaxResults
        BY <2>5, Answers
      <4> QED BY <4>1, <4>2
    <3> HIDE DEF x, y, z
    <3>5. found < MaxNewNodes /\ found' <= found + MaxResults
      BY <2>10
    <3>6. found' + y <= MaxNewNodes - 1 + z
      BY <2>7, <3>4, <3>5, Limits, Spent
    <3> QED BY <3>6 DEF y, z
  <2>11. CASE npc[n] \in Busy /\ found' <= found + MaxResults /\ pc \notin Busy
    <3>1. V = W \ {n} /\ n \in W
      BY <2>2, <2>11
    <3>2. Cardinality(W) = Cardinality(V) + 1
      BY <2>5, <3>1, FS_RemoveElement
    <3>3. x = y + MaxResults
      BY <2>5, <3>2, Answers
    <3>4. found + x <= MaxNewNodes - 1 + z
      BY <2>4
    <3> HIDE DEF x, y, z
    <3>5. found' <= found + MaxResults
      BY <2>11
    <3>6. found' + y <= MaxNewNodes - 1 + z
      BY <2>7, <3>3, <3>4, <3>5, Limits, Spent
    <3> QED BY <3>6 DEF y, z
  <2> QED BY <2>4, <2>8, <2>9, <2>10, <2>11 DEF Spends
<1> QED BY <1>1, <1>3, <1>4, <1>5, <1>6, <1>7, <1>8, <1>9, <1>10 DEF PlanInv

\* A turn of the chain: the input is done, or a lease is taken for the next link.
Tried(n, pc, k, f, c) ==
    /\ pc \in {"input", "pace", "refused"}
    /\ npc' = [npc EXCEPT ![n] = pc]
    /\ left' = [left EXCEPT ![n] = IF pc = "input" THEN k - 1 ELSE k]
    /\ link' \in [Steps -> Nat]
    /\ held' = IF pc = "input" THEN held ELSE held \cup {n}
    /\ used' \in Nat
    /\ found' \in Nat /\ found' <= f + MaxResults /\ (pc # "input" => found' = f)
    /\ counted' = c \/ counted' = c \cup {n}
    /\ cancelled' \in BOOLEAN /\ (cancelled => cancelled')
    /\ pc = "input" => n \in counted' \/ cancelled'

\* TryLinks is such a turn.
LEMMA TryLinksTurns ==
    ASSUME TypeOK, NEW n \in Steps, NEW i \in Nat, NEW k \in Nat, NEW f \in Nat, NEW c,
           TryLinks(n, i, k, f, c)
    PROVE  \E pc \in {"input", "pace", "refused"} : Tried(n, pc, k, f, c)
<1>1. f + 0 = f /\ f <= f + MaxResults /\ \A h \in 0..MaxResults : f + h \in Nat /\ f + h <= f + MaxResults
  BY Limits
<1>2. /\ link \in [Steps -> Nat] /\ used \in Nat /\ cancelled \in BOOLEAN
  BY DEF TypeOK
<1>3. Usable(n, i) \subseteq Nat
  <2>1. Len(Chain[n]) \in Nat
    BY PlanAssumption
  <2> QED BY <2>1 DEF Usable
<1>4. ASSUME StepOver(n, k), found' \in Nat, found' <= f + MaxResults,
             counted' = c \/ counted' = c \cup {n}, cancelled' \in BOOLEAN, cancelled => cancelled',
             n \in counted' \/ cancelled'
      PROVE  Tried(n, "input", k, f, c)
  BY <1>2, <1>4 DEF StepOver, Tried, res
<1>5. CASE aborted /\ cancelled' = TRUE /\ counted' = c /\ found' = f /\ StepOver(n, k)
  BY <1>1, <1>4, <1>5
<1>6. CASE /\ counted' = c \cup {n} /\ found' = f
           /\ StepOver(n, k) /\ UNCHANGED cancelled
  BY <1>1, <1>2, <1>4, <1>6
<1>7. ASSUME UNCHANGED cancelled, NEW j \in Usable(n, i),
             \E h \in 0..MaxResults : found' = f + h /\ counted' = c \cup {n} /\ StepOver(n, k)
      PROVE  Tried(n, "input", k, f, c)
  BY <1>1, <1>2, <1>4, <1>7
<1>8. ASSUME UNCHANGED cancelled, NEW j \in Usable(n, i),
             held' = held \cup {n}, link' = [link EXCEPT ![n] = j], left' = [left EXCEPT ![n] = k],
             IF used < Quota
             THEN used' = used + 1 /\ npc' = [npc EXCEPT ![n] = "pace"]
             ELSE used' = used /\ npc' = [npc EXCEPT ![n] = "refused"],
             found' = f, counted' = c
      PROVE  Tried(n, "pace", k, f, c) \/ Tried(n, "refused", k, f, c)
  <2>1. j \in Nat /\ link' \in [Steps -> Nat] /\ used' \in Nat
    BY <1>2, <1>3, <1>8
  <2> QED BY <1>1, <1>2, <1>8, <2>1 DEF Tried
<1> QED BY <1>5, <1>6, <1>7, <1>8 DEF TryLinks

\* The fields of a task that a turn leaves alone.
TaskFrame ==
    /\ buf' \in Nat
    /\ rpc' = rpc \/ (rpc = "waiting" /\ rpc' = "reading")
    /\ UNCHANGED <<sched, drv, env>>

\* Push adds one burst and wakes the reader.
LEMMA Pushes ==
    ASSUME TypeOK, Push
    PROVE  buf' \in Nat /\ (rpc' = rpc \/ (rpc = "waiting" /\ rpc' = "reading"))
  BY DEF TypeOK, Push

\* runNode's loop is a step of the task.
LEMMA NextInputSteps ==
    ASSUME PlanInv, NEW n \in Steps, NEW k \in Nat, NextInput(n, k), TaskFrame,
           UNCHANGED <<room, got>>, npc[n] \in {"begin", "input"},
           k = 0 => n \in counted \/ cancelled \/ exhausted
    PROVE  \E pc : TaskStep(n, pc)
<1>0. /\ npc \in [Steps -> NodePcs] /\ left \in [Steps -> Nat] /\ link \in [Steps -> Nat]
      /\ room \in [Steps -> Nat] /\ got \in [Steps -> Outcome] /\ found \in Nat /\ used \in Nat
      /\ counted \subseteq Steps /\ cancelled \in BOOLEAN /\ exhausted \in BOOLEAN /\ late \in BOOLEAN
  BY DEF PlanInv, TypeOK
<1>1. n \notin held /\ Honest
  BY DEF PlanInv, LeasesMatchWork
<1>2. /\ room' \in [Steps -> Nat] /\ got' \in [Steps -> Outcome] /\ Honest'
  BY <1>0, <1>1 DEF Honest
<1>3. CASE /\ k = 0 \/ cancelled \/ OverBudget
           /\ exhausted' = (exhausted \/ (k > 0 /\ ~cancelled))
           /\ npc' = [npc EXCEPT ![n] = "settle"]
           /\ left' = [left EXCEPT ![n] = 0]
           /\ UNCHANGED <<link, res, cancelled, found, counted>>
  <2>0. k = 0 \/ k > 0
    OBVIOUS
  <2>1. n \in counted' \/ cancelled' \/ exhausted'
    BY <1>3, <2>0, Zenon
  <2>2. held' = held \ {n} /\ used' \in Nat
    BY <1>0, <1>1, <1>3 DEF res
  <2>3. exhausted' \in BOOLEAN /\ (exhausted => exhausted') /\ cancelled' = cancelled
    BY <1>0, <1>3, Zenon
  <2>4. /\ npc[n] \notin {"new", "done"} /\ "settle" \in NodePcs \ {"new", "done"}
        /\ left' \in [Steps -> Nat] /\ \A m \in Steps \ {n} : left'[m] = left[m]
        /\ link' \in [Steps -> Nat] /\ counted' = counted /\ found' = found
        /\ "settle" \notin Busy /\ "settle" \notin Leased
    BY <1>0, <1>3 DEF NodePcs, Busy, Leased
  <2>5. TaskStep(n, "settle")
    BY <1>0, <1>2, <1>3, <2>1, <2>2, <2>3, <2>4 DEF TaskStep, TaskFrame, Spends
  <2> QED BY <2>5
<1>4. CASE /\ k > 0 /\ ~cancelled /\ ~OverBudget
           /\ TryLinks(n, 1, k, found, counted)
           /\ UNCHANGED exhausted
  <2>1. PICK pc \in {"input", "pace", "refused"} : Tried(n, pc, k, found, counted)
    BY <1>0, <1>4, TryLinksTurns DEF PlanInv
  <2>2. found < MaxNewNodes
    BY <1>0, <1>4, Limits DEF OverBudget
  <2>3. Spends(n, pc)
    BY <2>1, <2>2 DEF Tried, Spends, Busy
  <2>4. /\ left' \in [Steps -> Nat] /\ \A m \in Steps \ {n} : left'[m] = left[m]
        /\ pc \in Busy => left'[n] >= 1
    BY <1>0, <1>4, <2>1 DEF Tried, Busy
  <2>5. held' = IF pc \in Leased THEN held \cup {n} ELSE held \ {n}
    BY <1>1, <2>1 DEF Tried, Leased
  <2>6. /\ counted \subseteq counted' /\ counted' \subseteq Steps
        /\ cancelled' \in BOOLEAN /\ (cancelled => cancelled')
        /\ exhausted' \in BOOLEAN /\ (exhausted => exhausted')
        /\ pc \in {"input", "settle"} => n \in counted' \/ cancelled' \/ exhausted'
    <3>1. /\ counted \subseteq counted' /\ counted' \subseteq Steps
      BY <1>0, <2>1 DEF Tried
    <3>2. exhausted' = exhausted /\ pc # "settle"
      BY <1>4, <2>1
    <3> QED BY <1>0, <2>1, <3>1, <3>2, Zenon DEF Tried
  <2>7. /\ npc[n] \notin {"new", "done"} /\ pc \in NodePcs \ {"new", "done"}
        /\ npc' = [npc EXCEPT ![n] = pc]
        /\ link' \in [Steps -> Nat] /\ used' \in Nat /\ found' \in Nat
    BY <2>1 DEF Tried, NodePcs
  <2>8. TaskStep(n, pc)
    BY <1>2, <2>3, <2>4, <2>5, <2>6, <2>7 DEF TaskStep, TaskFrame
  <2> QED BY <2>8
<1> QED BY <1>3, <1>4 DEF NextInput

\* Every action of a task but Settle is a step of the task.
LEMMA TaskSteps ==
    ASSUME PlanInv, NEW n \in Steps,
           \/ Begin(n) \/ Input(n) \/ PaceRefused(n) \/ Paced(n) \/ EngineReturns(n)
           \/ Absorb(n) \/ Crash(n)
    PROVE  \E pc : TaskStep(n, pc)
<1>0. /\ TypeOK /\ Honest
      /\ npc \in [Steps -> NodePcs] /\ left \in [Steps -> Nat] /\ link \in [Steps -> Nat]
      /\ room \in [Steps -> Nat] /\ got \in [Steps -> Outcome] /\ found \in Nat /\ used \in Nat
      /\ buf \in Nat /\ counted \subseteq Steps /\ cancelled \in BOOLEAN /\ exhausted \in BOOLEAN
  BY DEF PlanInv, TypeOK
<1>1. /\ npc[n] \in Busy => left[n] >= 1
      /\ n \in held <=> npc[n] \in Leased
  BY DEF PlanInv, HasInput, LeasesMatchWork, Leased
<1>2. CASE Begin(n)
  <2>1. PICK k \in Nat :
          \/ /\ k = 0
             /\ npc' = [npc EXCEPT ![n] = "settle"]
             /\ counted' = counted \cup {n}
             /\ UNCHANGED <<left, link, res, stop, found>>
          \/ k > 0 /\ NextInput(n, k)
    BY <1>2, Limits, PlanAssumption DEF Begin, Min2
  <2>2. TaskFrame /\ UNCHANGED <<room, got>> /\ npc[n] = "begin"
    BY <1>0, <1>2, Pushes DEF Begin, TaskFrame
  <2>3. CASE k > 0 /\ NextInput(n, k)
    BY <2>2, <2>3, NextInputSteps
  <2>4. CASE /\ npc' = [npc EXCEPT ![n] = "settle"]
             /\ counted' = counted \cup {n}
             /\ UNCHANGED <<left, link, res, stop, found>>
    <3>1. /\ "settle" \in NodePcs \ {"new", "done"} /\ npc[n] \notin {"new", "done"}
          /\ "settle" \notin Busy /\ "settle" \notin Leased /\ n \notin held
      BY <1>1, <2>2 DEF NodePcs, Busy, Leased
    <3>2. TaskStep(n, "settle")
      BY <1>0, <2>2, <2>4, <3>1 DEF TaskStep, TaskFrame, Spends, res, stop, Honest
    <3> QED BY <3>2
  <2> QED BY <2>1, <2>3, <2>4
<1>3. CASE Input(n)
  <2>1. TaskFrame /\ UNCHANGED <<room, got>> /\ npc[n] = "input" /\ NextInput(n, left[n])
    BY <1>0, <1>3, Pushes DEF Input, TaskFrame
  <2>2. left[n] \in Nat /\ (n \in counted \/ cancelled \/ exhausted)
    BY <1>0, <2>1 DEF PlanInv, Accounted
  <2> QED BY <2>1, <2>2, NextInputSteps
<1>4. CASE PaceRefused(n)
  <2>1. TaskFrame /\ npc[n] = "refused"
    BY <1>0, <1>4, Pushes DEF PaceRefused, TaskFrame
  <2>2. /\ "input" \in NodePcs \ {"new", "done"} /\ npc[n] \notin {"new", "done"}
        /\ "input" \notin Busy /\ "input" \notin Leased /\ npc[n] \in Busy
    BY <2>1 DEF NodePcs, Busy, Leased
  <2>3. left' \in [Steps -> Nat] /\ \A m \in Steps \ {n} : left'[m] = left[m]
    BY <1>0, <1>1, <1>4, <2>2 DEF PaceRefused
  <2>4. link' \in [Steps -> Nat]
    BY <1>0, <1>4 DEF PaceRefused
  <2>5. TaskStep(n, "input")
    BY <1>0, <1>4, <2>1, <2>2, <2>3, <2>4 DEF PaceRefused, TaskStep, TaskFrame, Spends, stop, Honest
  <2> QED BY <2>5
<1>5. CASE Paced(n)
  <2>1. /\ "engine" \in NodePcs \ {"new", "done"} /\ npc[n] \notin {"new", "done"}
        /\ "engine" \in Busy /\ "engine" \in Leased /\ npc[n] \in Busy /\ n \in held
    BY <1>1, <1>5 DEF Paced, NodePcs, Busy, Leased
  <2>2. room' \in [Steps -> Nat]
    BY <1>0, <1>5, Limits DEF Paced, Min2
  <2>3. TaskStep(n, "engine")
    BY <1>0, <1>1, <1>5, <2>1, <2>2 DEF Paced, TaskStep, Spends, res, stop, Honest
  <2> QED BY <2>3
<1>6. CASE EngineReturns(n)
  <2>1. PICK o \in Outcome : /\ o.status = "failed" => o.entities = 0
                             /\ got' = [got EXCEPT ![n] = o]
    BY <1>6 DEF EngineReturns
  <2>2. /\ "absorb" \in NodePcs \ {"new", "done"} /\ npc[n] \notin {"new", "done"}
        /\ "absorb" \in Busy /\ "absorb" \notin Leased /\ npc[n] \in Busy
    BY <1>6 DEF EngineReturns, NodePcs, Busy, Leased
  <2>3. got' \in [Steps -> Outcome] /\ Honest'
    BY <1>0, <2>1 DEF Honest
  <2>4. room' \in [Steps -> Nat]
    BY <1>0, <1>6 DEF EngineReturns
  <2>5. TaskStep(n, "absorb")
    BY <1>0, <1>1, <1>6, <2>2, <2>3, <2>4 DEF EngineReturns, TaskStep, Spends, stop
  <2> QED BY <2>5
<1>7. ASSUME got' = [got EXCEPT ![n] = Nothing]
      PROVE  got' \in [Steps -> Outcome] /\ Honest'
  <2>1. Nothing \in Outcome /\ Nothing.entities = 0
    BY Limits DEF Nothing, Outcome
  <2> QED BY <1>0, <1>7, <2>1 DEF Honest
<1>8. CASE Crash(n)
  <2>1. /\ "settle" \in NodePcs \ {"new", "done"} /\ npc[n] \notin {"new", "done"}
        /\ "settle" \notin Busy /\ "settle" \notin Leased /\ n \notin held
    BY <1>1, <1>8 DEF Crash, NodePcs, Busy, Leased
  <2>2. got' \in [Steps -> Outcome] /\ Honest'
    BY <1>7, <1>8 DEF Crash
  <2>3. /\ left' \in [Steps -> Nat] /\ \A m \in Steps \ {n} : left'[m] = left[m]
        /\ link' \in [Steps -> Nat]
    BY <1>0, <1>8 DEF Crash
  <2>4. TaskStep(n, "settle")
    BY <1>0, <1>8, <2>1, <2>2, <2>3 DEF Crash, TaskStep, Spends, res, stop
  <2> QED BY <2>4
<1>9. CASE Absorb(n)
  <2> DEFINE o == got[n]
             more == /\ link[n] < Len(Chain[n])
                     /\ \/ o.status = "failed"
                        \/ o.status = "answered" /\ o.entities = 0 /\ ~o.exhaustive
             seen == IF o.status = "cancelled" THEN counted ELSE counted \cup {n}
  <2>1. PICK new \in 0..o.entities :
          IF more
          THEN TryLinks(n, link[n] + 1, left[n], found + new, seen)
          ELSE /\ found' = found + new /\ counted' = seen
               /\ cancelled' = (cancelled \/ o.status = "cancelled")
               /\ StepOver(n, left[n])
    BY <1>9 DEF Absorb
  <2>2. /\ got' = [got EXCEPT ![n] = Nothing] /\ npc[n] = "absorb"
        /\ UNCHANGED <<room, exhausted>> /\ TaskFrame
    BY <1>0, <1>9, Pushes DEF Absorb, TaskFrame
  <2>3. got' \in [Steps -> Outcome] /\ Honest'
    BY <1>7, <2>2
  <2>4. /\ o.entities \in 0..MaxResults /\ (o.status = "failed" => o.entities = 0)
        /\ npc[n] \in Busy /\ npc[n] \notin {"new", "done"} /\ n \notin held
        /\ left[n] \in Nat /\ left[n] >= 1
    BY <1>0, <1>1, <2>2 DEF Honest, Outcome, Busy, Leased
  <2>5. new \in Nat /\ new <= MaxResults /\ found + new \in Nat /\ found + new <= found + MaxResults
    BY <1>0, <2>4, Limits
  <2>6. seen \subseteq Steps /\ counted \subseteq seen
    BY <1>0
  <2>7. CASE more
    <3>1. new = 0 /\ found + new = found
      BY <1>0, <2>4, <2>7
    <3> HIDE DEF seen
    <3>2. PICK pc \in {"input", "pace", "refused"} : Tried(n, pc, left[n], found + new, seen)
      BY <1>0, <2>1, <2>4, <2>5, <2>7, TryLinksTurns
    <3>3. /\ pc \in NodePcs \ {"new", "done"} /\ npc' = [npc EXCEPT ![n] = pc]
          /\ link' \in [Steps -> Nat] /\ used' \in Nat /\ found' \in Nat
      BY <3>2 DEF Tried, NodePcs
    <3>4. /\ left' \in [Steps -> Nat] /\ \A m \in Steps \ {n} : left'[m] = left[m]
          /\ pc \in Busy => left'[n] >= 1
      BY <1>0, <2>4, <3>2 DEF Tried, Busy
    <3>5. held' = IF pc \in Leased THEN held \cup {n} ELSE held \ {n}
      BY <2>4, <3>2 DEF Tried, Leased
    <3>6. Spends(n, pc)
      BY <2>4, <3>1, <3>2 DEF Tried, Spends, Busy
    <3>7. counted \subseteq counted' /\ counted' \subseteq Steps
      BY <2>6, <3>2 DEF Tried
    <3>8. exhausted' = exhausted /\ pc # "settle"
      BY <2>2, <3>2
    <3>9. /\ cancelled' \in BOOLEAN /\ (cancelled => cancelled')
          /\ exhausted' \in BOOLEAN /\ (exhausted => exhausted')
          /\ pc \in {"input", "settle"} => n \in counted' \/ cancelled' \/ exhausted'
      BY <1>0, <3>2, <3>8, Zenon DEF Tried
    <3>10. room' \in [Steps -> Nat]
      BY <1>0, <2>2
    <3>11. TaskStep(n, pc)
      BY <2>2, <2>3, <2>4, <3>3, <3>4, <3>5, <3>6, <3>7, <3>9, <3>10 DEF TaskStep, TaskFrame
    <3> QED BY <3>11
  <2>8. CASE ~more
    <3>1. /\ found' = found + new /\ counted' = seen
          /\ cancelled' = (cancelled \/ o.status = "cancelled")
          /\ StepOver(n, left[n])
      BY <2>1, <2>8
    <3>2. n \in counted' \/ cancelled'
      BY <3>1
    <3>3. /\ "input" \in NodePcs \ {"new", "done"} /\ npc' = [npc EXCEPT ![n] = "input"]
          /\ "input" \notin Busy /\ "input" \notin Leased
          /\ left' \in [Steps -> Nat] /\ \A m \in Steps \ {n} : left'[m] = left[m]
          /\ link' \in [Steps -> Nat] /\ used' \in Nat /\ held' = held \ {n}
      BY <1>0, <2>4, <3>1 DEF StepOver, res, NodePcs, Busy, Leased
    <3>4. cancelled' \in BOOLEAN /\ (cancelled => cancelled') /\ exhausted' = exhausted
      BY <2>2, <3>1
    <3> HIDE DEF seen
    <3>5. TaskStep(n, "input")
      BY <1>0, <2>2, <2>3, <2>4, <2>5, <2>6, <3>1, <3>2, <3>3, <3>4 DEF TaskStep, TaskFrame, Spends
    <3> QED BY <3>5
  <2> QED BY <2>7, <2>8
<1> QED BY <1>2, <1>3, <1>4, <1>5, <1>6, <1>8, <1>9

-----------------------------------------------------------------------------
(* The end of a task. *)

\* Settle gives the node's place away and queues what waited for it alone.
LEMMA SettleInv ==
    ASSUME PlanInv, NEW n \in Steps, Settle(n)
    PROVE  PlanInv'
<1>0. /\ TypeOK /\ npc[n] = "settle" /\ npc' = [npc EXCEPT ![n] = "done"]
      /\ running' = running \ {n} /\ settled' = settled \cup {n}
      /\ UNCHANGED <<dpc, raced, woken, left, link, room, got, held, used, cancelled, exhausted,
                     aborted, late, deps, installed, found, counted>>
  BY DEF Settle, PlanInv, drv, res, stop, env
<1>1. buf' \in Nat /\ (rpc' = rpc \/ (rpc = "waiting" /\ rpc' = "reading"))
  BY Pushes DEF Settle, PlanInv
<1>2. /\ \A m \in Steps \ {n} : npc'[m] = npc[m]
      /\ npc'[n] = "done" /\ npc' \in [Steps -> NodePcs]
      /\ n \in running /\ n \notin settled
  BY <1>0 DEF PlanInv, TypeOK, Placed, NodePcs
<1>3. PICK s \in InPlanOrder(Unlocked(n)) : ready' = ready \o s
  BY DEF Settle
<1>4. s \in Seq(Steps) /\ Listed(s) = Unlocked(n) /\ Distinct(s)
  BY Listing DEF Unlocked
<1>5. Listed(ready) = {m \in Steps : npc[m] = "new" /\ deps[m] \subseteq settled}
  BY DEF PlanInv, Queued
<1>6. Listed(ready) \cap Unlocked(n) = {}
  BY <1>2, <1>5 DEF Unlocked
<1>7. /\ ready' \in Seq(Steps) /\ Distinct(ready')
      /\ Listed(ready') = Listed(ready) \cup Unlocked(n)
  <2>1. ready \in Seq(Steps) /\ Distinct(ready)
    BY DEF PlanInv, TypeOK, Queued
  <2>2. Listed(ready) \cap Listed(s) = {}
    BY <1>4, <1>6
  <2>3. /\ ready \o s \in Seq(Steps) /\ Distinct(ready \o s)
        /\ Listed(ready \o s) = Listed(ready) \cup Listed(s)
    BY <1>4, <2>1, <2>2, Appended, Zenon
  <2> QED BY <1>3, <1>4, <2>3, Zenon
<1>8. Queued'
  <2>0. \A m \in Steps : npc[m] # "new" => n \notin deps[m]
    BY <1>2 DEF PlanInv, Begun
  <2>1. \A m \in Unlocked(n) : m \in Steps /\ npc[m] = "new" /\ m # n
    BY <1>0, <2>0 DEF Unlocked
  <2>2. Listed(ready) \cup Unlocked(n) = {m \in Steps : npc'[m] = "new" /\ deps[m] \subseteq settled \cup {n}}
    <3>1. ASSUME NEW m \in Listed(ready) \cup Unlocked(n)
          PROVE  m \in Steps /\ npc'[m] = "new" /\ deps[m] \subseteq settled \cup {n}
      <4>1. m \in Steps /\ npc[m] = "new" /\ deps[m] \subseteq settled \cup {n}
        BY <1>5, <2>1 DEF Unlocked
      <4> QED BY <1>0, <1>2, <4>1
    <3>2. ASSUME NEW m \in Steps, npc'[m] = "new", deps[m] \subseteq settled \cup {n}
          PROVE  m \in Listed(ready) \cup Unlocked(n)
      <4>1. npc[m] = "new"
        BY <1>2, <3>2
      <4>2. CASE n \in deps[m]
        BY <3>2, <4>2 DEF Unlocked
      <4>3. CASE n \notin deps[m]
        BY <1>5, <3>2, <4>1, <4>3
      <4> QED BY <4>2, <4>3
    <3> QED BY <3>1, <3>2
  <2> QED BY <1>0, <1>7, <2>2 DEF Queued
<1>9. TypeOK'
  BY <1>0, <1>1, <1>2, <1>7 DEF TypeOK
<1>10. HasInput' /\ Placed' /\ Begun' /\ LeasesMatchWork' /\ Honest'
  <2>1. HasInput' /\ LeasesMatchWork' /\ Honest'
    BY <1>0, <1>2 DEF PlanInv, HasInput, LeasesMatchWork, Honest, Busy
  <2>2. Placed'
    BY <1>0, <1>2 DEF PlanInv, Placed
  <2>3. Begun'
    BY <1>0, <1>2 DEF PlanInv, Begun
  <2> QED BY <2>1, <2>2, <2>3
<1>11. Parallel'
  <2>1. IsFiniteSet(running)
    BY <1>0, StepsFinite, FS_Subset DEF TypeOK
  <2>2. IsFiniteSet(running \ {n}) /\ Cardinality(running \ {n}) <= Cardinality(running)
    BY <2>1, FS_Subset
  <2> QED BY <1>0, <2>1, <2>2, FS_CardinalityType, Limits DEF PlanInv, Parallel
<1>12. NodeBudget'
  <2>1. Working' = Working
    BY <1>0, <1>2 DEF Working, Busy
  <2> QED BY <1>0, <2>1 DEF PlanInv, NodeBudget
<1>13. Closing'
  BY <1>0, <1>1, <1>2 DEF PlanInv, Closing
<1>14. Accounted'
  BY <1>0, <1>2 DEF PlanInv, Accounted
<1> QED BY <1>8, <1>9, <1>10, <1>11, <1>12, <1>13, <1>14 DEF PlanInv

-----------------------------------------------------------------------------
(* The driver, the reader and the world. *)

\* scheduler.take hands out no more nodes than there is room for.
LEMMA TakeInv ==
    ASSUME PlanInv, DriverTake
    PROVE  PlanInv'
<1> DEFINE k == IF Room > Len(ready) THEN Len(ready) ELSE Room
           batch == Firsts(ready, k)
           Q == Listed(ready)
<1>0. /\ TypeOK
      /\ ready' = SubSeq(ready, k + 1, Len(ready)) /\ running' = running \cup batch
      /\ npc' = [m \in Steps |-> IF m \in batch THEN "begin" ELSE npc[m]]
      /\ raced' = running \cup batch
      /\ dpc' \in {"race", "last", "top"} /\ (dpc' = "last" => running' = {} /\ ready' = <<>>)
      /\ dpc = "top"
      /\ UNCHANGED <<settled, woken, left, link, room, got, held, used, cancelled, exhausted,
                     aborted, late, deps, installed, found, counted, buf, rpc>>
  BY DEF DriverTake, PlanInv, Firsts, res, stop, env
<1>1. /\ IsFiniteSet(running) /\ Cardinality(running) \in Nat
      /\ Cardinality(running) <= MaxParallel
  BY <1>0, StepsFinite, FS_Subset, FS_CardinalityType DEF TypeOK, PlanInv, Parallel
<1>2. Len(ready) \in Nat /\ ready \in Seq(Steps)
  BY <1>0 DEF TypeOK
<1>3. k \in 0..Len(ready) /\ k <= MaxParallel - Cardinality(running)
  BY <1>1, <1>2, Limits DEF Room
<1> HIDE DEF k
<1>4. ready' \in Seq(Steps) /\ Distinct(ready') /\ Listed(ready') = Q \ batch
  BY <1>0, <1>2, <1>3, Rest DEF PlanInv, Queued
<1>5. batch \subseteq Q
  BY <1>2, <1>3 DEF Listed, Firsts
<1>6. Q = {m \in Steps : npc[m] = "new" /\ deps[m] \subseteq settled}
  BY DEF PlanInv, Queued
<1>7. IsFiniteSet(batch) /\ Cardinality(batch) <= k
  BY <1>3, FirstFew
<1> HIDE DEF batch, Q
<1>8. \A m \in Steps : npc'[m] = IF m \in batch THEN "begin" ELSE npc[m]
  BY <1>0
<1>9. \A m \in batch : m \in Steps /\ npc[m] = "new" /\ deps[m] \subseteq settled
  BY <1>5, <1>6
<1>10. TypeOK'
  <2>1. npc' \in [Steps -> NodePcs]
    BY <1>0 DEF TypeOK, NodePcs
  <2>2. running' \subseteq Steps /\ raced' \subseteq Steps
    BY <1>0, <1>9 DEF TypeOK
  <2>3. dpc' \in {"top", "drain", "race", "last", "closed"}
    BY <1>0
  <2> QED BY <1>0, <1>4, <2>1, <2>2, <2>3 DEF TypeOK
<1>11. HasInput' /\ LeasesMatchWork' /\ Honest'
  BY <1>0, <1>8, <1>9 DEF PlanInv, HasInput, LeasesMatchWork, Honest, Busy
<1>12. Placed'
  BY <1>0, <1>8, <1>9 DEF PlanInv, Placed
<1>13. Queued'
  <2>1. Q \ batch = {m \in Steps : npc'[m] = "new" /\ deps[m] \subseteq settled}
    BY <1>6, <1>8
  <2> QED BY <1>0, <1>4, <2>1 DEF Queued
<1>14. Begun'
  BY <1>0, <1>8, <1>9 DEF PlanInv, Begun
<1>15. Parallel'
  <2>1. Cardinality(running \cup batch) = Cardinality(running) + Cardinality(batch) - Cardinality(running \cap batch)
    BY <1>1, <1>7, FS_Union
  <2>2. Cardinality(batch) \in Nat /\ Cardinality(running \cap batch) \in Nat
    BY <1>1, <1>7, FS_Subset, FS_CardinalityType
  <2>3. Cardinality(running \cup batch) <= MaxParallel
    BY <1>1, <1>2, <1>3, <1>7, <2>1, <2>2, Limits
  <2> QED BY <1>0, <2>3 DEF Parallel
<1>16. NodeBudget'
  <2>1. Working' = Working
    BY <1>8, <1>9 DEF Working, Busy
  <2> QED BY <1>0, <2>1 DEF PlanInv, NodeBudget
<1>17. Closing'
  BY <1>0 DEF PlanInv, Closing
<1>18. Accounted'
  BY <1>0, <1>8 DEF PlanInv, Accounted
<1> QED BY <1>10, <1>11, <1>12, <1>13, <1>14, <1>15, <1>16, <1>17, <1>18 DEF PlanInv

\* What the rest of the driver, the reader, Stop and the clock leave alone.
LEMMA OtherInv ==
    ASSUME PlanInv, UNCHANGED <<sched, node, res, found, counted, deps, installed>>,
           TypeOK', Closing', cancelled => cancelled', exhausted => exhausted'
    PROVE  PlanInv'
<1>1. /\ npc' = npc /\ left' = left /\ got' = got /\ held' = held /\ found' = found
      /\ counted' = counted /\ deps' = deps /\ ready' = ready /\ running' = running
      /\ settled' = settled
  BY DEF sched, node, res
<1>2. HasInput' /\ Placed' /\ Begun' /\ LeasesMatchWork' /\ Parallel' /\ Honest' /\ Accounted'
  BY <1>1 DEF PlanInv, HasInput, Placed, Begun, LeasesMatchWork, Parallel, Honest, Accounted
<1>3. Queued'
  BY <1>1 DEF PlanInv, Queued
<1>4. NodeBudget'
  BY <1>1 DEF PlanInv, NodeBudget, Working
<1> QED BY <1>2, <1>3, <1>4 DEF PlanInv

\* Every step keeps the invariant.
LEMMA PlanStep ==
    ASSUME PlanInv, [Next]_vars
    PROVE  PlanInv'
<1>0. TypeOK /\ Closing
  BY DEF PlanInv
<1>1. CASE DriverTake
  BY <1>1, TakeInv
<1>2. ASSUME NEW n \in Steps, Task(n)
      PROVE  PlanInv'
  BY <1>2, TaskSteps, TaskStepInv, SettleInv DEF Task
<1>3. CASE DriverWait \/ DriverWoken \/ DriverRaced
  <2>1. TypeOK' /\ Closing'
    BY <1>0, <1>3 DEF DriverWait, DriverWoken, DriverRaced, TypeOK, Closing, sched, node, res, stop, env
  <2> QED BY <1>3, <2>1, OtherInv DEF DriverWait, DriverWoken, DriverRaced, stop, env
<1>4. CASE DriverStop
  <2>1. cancelled' \/ exhausted'
    BY <1>4, Zenon DEF DriverStop
  <2>2. TypeOK' /\ Closing'
    BY <1>0, <1>4, <2>1 DEF DriverStop, TypeOK, Closing, sched, node, res, env
  <2> QED BY <1>4, <2>2, OtherInv DEF DriverStop, env
<1>5. CASE DriverClose
  <2>1. TypeOK' /\ Closing'
    BY <1>0, <1>5 DEF DriverClose, TypeOK, Closing, sched, node, res, stop, env
  <2> QED BY <1>5, <2>1, OtherInv DEF DriverClose, stop, env
<1>6. CASE Read \/ ReadNothing
  <2>1. woken' \in BOOLEAN
    BY <1>0, <1>6 DEF Read, ReadNothing, Drained, TypeOK
  <2>2. TypeOK' /\ Closing'
    BY <1>0, <1>6, <2>1 DEF Read, ReadNothing, TypeOK, Closing, sched, node, res, stop, env
  <2> QED BY <1>6, <2>2, OtherInv DEF Read, ReadNothing, stop, env
<1>7. CASE Abort \/ TimeUp
  <2>1. TypeOK' /\ Closing'
    BY <1>0, <1>7 DEF Abort, TimeUp, TypeOK, Closing, sched, drv, node, res, stop
  <2> QED BY <1>7, <2>1, OtherInv DEF Abort, TimeUp, stop
<1>8. CASE UNCHANGED vars
  <2>1. TypeOK' /\ Closing'
    BY <1>0, <1>8 DEF vars, TypeOK, Closing, sched, drv, node, res, stop, env
  <2> QED BY <1>8, <2>1, OtherInv DEF vars, stop, env
<1> QED BY <1>1, <1>2, <1>3, <1>4, <1>5, <1>6, <1>7, <1>8 DEF Next, Driver, Reader

\* The invariant holds when the plan starts.
LEMMA PlanInit ==
    ASSUME Init
    PROVE  PlanInv
<1>0. deps \in [Steps -> SUBSET Steps]
  BY PlanAssumption DEF Init
<1>1. /\ ready \in Seq(Steps) /\ Distinct(ready)
      /\ Listed(ready) = {n \in Steps : deps[n] = {}}
  BY Listing DEF Init
<1>2. \A n \in Steps : npc[n] = "new" /\ left[n] = 0 /\ got[n] = Nothing
  BY DEF Init
<1>3. Nothing \in Outcome /\ Nothing.entities = 0
  BY Limits DEF Nothing, Outcome
<1>4. TypeOK
  BY <1>1, <1>3 DEF Init, TypeOK, NodePcs
<1>5. HasInput /\ Honest /\ Accounted /\ Begun
  BY <1>2, <1>3 DEF HasInput, Honest, Accounted, Begun, Busy
<1>6. Placed /\ LeasesMatchWork
  BY <1>2 DEF Init, Placed, LeasesMatchWork
<1>7. Queued
  <2>1. \A n \in Steps : deps[n] \subseteq settled <=> deps[n] = {}
    BY DEF Init
  <2> QED BY <1>1, <1>2, <2>1 DEF Queued
<1>8. Parallel
  BY FS_EmptySet, Limits DEF Init, Parallel
<1>9. NodeBudget
  <2>1. Working = {} /\ found = 1
    BY <1>2 DEF Init, Working, Busy
  <2>2. Cardinality(Working) = 0 /\ MaxResults * 0 = 0
    BY <2>1, FS_EmptySet, Limits
  <2>3. 1 <= MaxResults * MaxParallel
    BY Limits
  <2> DEFINE z == MaxResults * MaxParallel
  <2>4. z \in Nat /\ 1 <= z
    BY <2>3, Limits
  <2> HIDE DEF z
  <2>5. found + 0 <= MaxNewNodes - 1 + z
    BY <2>1, <2>4, Limits
  <2> QED BY <2>2, <2>5 DEF NodeBudget, z
<1>10. Closing
  BY DEF Init, Closing
<1> QED BY <1>4, <1>5, <1>6, <1>7, <1>8, <1>9, <1>10 DEF PlanInv

\* The invariant holds throughout.
LEMMA PlanInvHolds == Spec => []PlanInv
<1>1. Init => PlanInv
  BY PlanInit
<1>2. PlanInv /\ [Next]_vars => PlanInv'
  BY PlanStep
<1> QED BY <1>1, <1>2, PTL DEF Spec

-----------------------------------------------------------------------------
\* The scheduler, the tasks, the leases and the channel of executePlan keep their types;
\* in particular no task counts an input off its list that is not there.
THEOREM PlanTypeCorrect == Spec => []TypeOK
<1>1. PlanInv => TypeOK
  BY DEF PlanInv
<1> QED BY <1>1, PlanInvHolds, PTL

\* For any chain of engines, quota and number of slots, every way out of runOneStep
\* gives the lease of the resource manager back.
THEOREM EveryLeaseReturned == Spec => []LeasesMatchWork
<1>1. PlanInv => LeasesMatchWork
  BY DEF PlanInv
<1> QED BY <1>1, PlanInvHolds, PTL

\* For any budget and parallelism, maxNewNodes is overrun by less than one full answer
\* for each parallel node.
THEOREM OvershootBounded == Spec => []NewNodesOvershootBounded
<1>1. ASSUME PlanInv PROVE NewNodesOvershootBounded
  <2>1. IsFiniteSet(Working) /\ Cardinality(Working) \in Nat
    BY StepsFinite, FS_Subset, FS_CardinalityType DEF Working
  <2> DEFINE x == MaxResults * Cardinality(Working)
             z == MaxParallel * MaxResults
  <2>2. x \in Nat /\ z \in Nat /\ z = MaxResults * MaxParallel
    BY <2>1, Limits
  <2>3. found \in Nat /\ found + x <= MaxNewNodes - 1 + z
    BY <1>1, <2>2 DEF PlanInv, NodeBudget, TypeOK
  <2> HIDE DEF x, z
  <2>4. found < MaxNewNodes + z
    BY <2>2, <2>3, Limits
  <2> QED BY <2>4 DEF z, NewNodesOvershootBounded
<1> QED BY <1>1, PlanInvHolds, PTL

\* Whatever the dependency graph, a plan that was neither stopped nor ran out of budget
\* has run every node, and each shows in a counter: buildDag leaves no cycle, so some node
\* that has not begun waits for nothing, and the scheduler has it in its queue.
THEOREM NoStepDropped == Spec => []NothingDropped
<1>1. ASSUME PlanInv PROVE NothingDropped
  <2> SUFFICES ASSUME Ended, ~cancelled, ~exhausted
               PROVE  settled = Steps /\ counted = Steps
    BY DEF NothingDropped
  <2>1. running = {} /\ ready = <<>>
    BY <1>1 DEF PlanInv, Closing, Ended
  <2>2. Listed(ready) = {}
    BY <2>1 DEF Listed, Firsts
  <2>3. /\ \A n \in Steps : npc[n] \in {"new", "done"}
        /\ settled = {n \in Steps : npc[n] = "done"}
    BY <1>1, <2>1 DEF PlanInv, Placed
  <2> DEFINE S == {n \in Steps : npc[n] = "new"}
  <2>4. S = {}
    <3> SUFFICES ASSUME S # {} PROVE FALSE
      OBVIOUS
    <3>1. deps \in Shapes /\ deps \in [Steps -> SUBSET Steps]
      BY <1>1, PlanAssumption DEF PlanInv, TypeOK
    <3>2. S \in SUBSET Steps
      OBVIOUS
    <3> HIDE DEF S
    <3>3. PICK n \in S : deps[n] \cap S = {}
      BY <3>1, <3>2, PlanAssumption
    <3>4. n \in Steps /\ npc[n] = "new" /\ deps[n] \subseteq settled
      BY <2>3, <3>1, <3>3 DEF S
    <3>5. n \in Listed(ready)
      BY <1>1, <3>4 DEF PlanInv, Queued
    <3> QED BY <2>2, <3>5
  <2>5. \A n \in Steps : npc[n] = "done"
    BY <2>3, <2>4
  <2>6. settled = Steps
    BY <2>3, <2>5
  <2>7. Steps \subseteq counted /\ counted \subseteq Steps
    BY <1>1, <2>5 DEF PlanInv, Accounted, TypeOK
  <2> QED BY <2>6, <2>7
<1> QED BY <1>1, PlanInvHolds, PTL

-----------------------------------------------------------------------------
(* Nobody waits for nobody. *)

\* Whoever waits on the channel or on the tasks has someone left to wake it.
Wakes ==
    /\ rpc = "waiting" => buf = 0 /\ dpc # "closed"
    /\ dpc = "drain" /\ ~woken => buf > 0
    /\ dpc = "race" => raced # {}

\* Until the reader has seen the end, the reader, a task or the driver has a step to take.
NoStandstill ==
    \/ Ended
    \/ rpc = "reading"
    \/ running # {}
    \/ dpc \in {"top", "last"} \/ (dpc = "drain" /\ woken) \/ (dpc = "race" /\ raced \ running # {})

\* A task leaves the driver alone, and pushes a burst or nothing.
LEMMA TaskPushes ==
    ASSUME NEW n \in Steps, Task(n)
    PROVE  UNCHANGED drv /\ (Push \/ UNCHANGED <<buf, rpc>>)
<1>1. CASE Begin(n) \/ Input(n) \/ PaceRefused(n) \/ Absorb(n) \/ Settle(n)
  BY <1>1, Zenon DEF Begin, Input, PaceRefused, Absorb, Settle
<1>2. CASE Paced(n) \/ EngineReturns(n) \/ Crash(n)
  BY <1>2 DEF Paced, EngineReturns, Crash
<1> QED BY <1>1, <1>2 DEF Task

\* No wake-up is lost: the reader wakes the driver with the last burst it takes, and a
\* push or the close of the channel wakes the reader.
LEMMA WakesStep ==
    ASSUME PlanInv, Wakes, [Next]_vars
    PROVE  Wakes'
<1>0. /\ buf \in Nat /\ woken \in BOOLEAN /\ HighWater \in Nat
      /\ rpc \in {"reading", "waiting", "done"}
  BY PlanAssumption DEF PlanInv, TypeOK
<1>1. ASSUME NEW n \in Steps, Task(n) PROVE Wakes'
  <2>1. UNCHANGED <<dpc, raced, woken>> /\ (Push \/ UNCHANGED <<buf, rpc>>)
    BY <1>1, TaskPushes DEF drv
  <2> QED BY <1>0, <2>1 DEF Wakes, Push
<1>2. CASE Read
  <2>1. buf' = buf - 1 /\ rpc' = "reading" /\ UNCHANGED <<dpc, raced>>
    BY <1>2 DEF Read
  <2>2. dpc = "drain" /\ ~woken' => buf' > 0
    <3>1. CASE buf = 1
      <4>1. woken' = (woken \/ dpc = "drain")
        BY <1>2, <3>1 DEF Read, Drained
      <4> QED BY <4>1, Zenon
    <3>2. CASE buf # 1
      BY <1>0, <1>2, <2>1, <3>2 DEF Read
    <3> QED BY <3>1, <3>2
  <2> QED BY <2>1, <2>2 DEF Wakes
<1>3. CASE ReadNothing
  <2>1. dpc = "drain" => woken'
    BY <1>3, Zenon DEF ReadNothing, Drained
  <2> QED BY <1>0, <1>3, <2>1 DEF ReadNothing, Wakes
<1>4. CASE DriverWait \/ DriverWoken
  BY <1>0, <1>4 DEF DriverWait, DriverWoken, Wakes
<1>5. CASE DriverStop \/ DriverRaced \/ DriverClose
  BY <1>0, <1>5 DEF DriverStop, DriverRaced, DriverClose, Wakes
<1>6. CASE DriverTake
  <2>1. /\ dpc' \in {"race", "last", "top"} /\ (dpc' = "race" => raced' # {})
        /\ UNCHANGED <<buf, rpc>>
    BY <1>6 DEF DriverTake
  <2> QED BY <1>6, <2>1 DEF DriverTake, Wakes
<1>7. CASE Abort \/ TimeUp \/ UNCHANGED vars
  <2>1. UNCHANGED <<dpc, raced, woken, buf, rpc>>
    BY <1>7 DEF Abort, TimeUp, vars, drv
  <2> QED BY <2>1 DEF Wakes
<1> QED BY <1>1, <1>2, <1>3, <1>4, <1>5, <1>6, <1>7 DEF Next, Driver, Reader

\* For any high-water mark, plan and limits: the driver that waits for the channel to
\* drain (waitForDrain), the reader that waits for an event (drain) and Promise.race never
\* all wait at once.  This is the safety half of PlanEnds.
THEOREM NeverAtStandstill == Spec => []NoStandstill
<1>1. Init => Wakes
  BY DEF Init, Wakes
<1>2. PlanInv /\ Wakes /\ [Next]_vars => Wakes'
  BY WakesStep
<1>3. PlanInv /\ Wakes => NoStandstill
  <2> SUFFICES ASSUME PlanInv, Wakes PROVE NoStandstill
    OBVIOUS
  <2>1. /\ rpc \in {"reading", "waiting", "done"}
        /\ dpc \in {"top", "drain", "race", "last", "closed"}
    BY DEF PlanInv, TypeOK
  <2>2. dpc = "race" /\ raced \ running = {} => running # {}
    BY DEF Wakes
  <2>3. rpc = "waiting" => dpc # "closed" /\ (dpc = "drain" => woken)
    BY DEF Wakes
  <2> QED BY <2>1, <2>2, <2>3, Zenon DEF NoStandstill, Ended
<1> QED BY <1>1, <1>2, <1>3, PlanInvHolds, PTL DEF Spec
====
