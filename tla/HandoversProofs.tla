---- MODULE HandoversProofs ----
(***************************************************************************)
(* Theorems about the machines of Handovers, for any jobs, workers,        *)
(* writers, batches and chunks.  The remote queue keeps its bound and runs *)
(* an engine at most once on a worker and once at home; the run log loses  *)
(* no line without an overlap or an unawaited batch; the ring buffer adds  *)
(* up.  (ProposalApplyProofs has those about the guard map.)               *)
(***************************************************************************)
EXTENDS Handovers, ProposalApplyProofs, SequenceTheorems

(* The remote queue. *)

\* A job that is still queued has been given to nobody, and no job to two workers.
GivenOnce ==
    /\ \A j \in Jobs : state[j] = "queued" => remote[j] = 0 /\ \A w \in Workers : work[w] # j
    /\ \A v, w \in Workers : work[v] = work[w] /\ work[v] # NoJob => v = w

\* A worker has run its job if it is about to post, and not before.
RunWhenPosting ==
    \A w \in Workers :
        IF posting[w] = "none" THEN work[w] # NoJob => remote[work[w]] = 0
        ELSE work[w] # NoJob /\ remote[work[w]] = 1

\* Results come from workers, and the local run is the last step of a call.
Sources ==
    \A j \in Jobs :
        /\ result[j] # "none" => remote[j] = 1
        /\ local[j] # 0 => local[j] = 1 /\ step[j] = "answered"

QueueInv == QueueTypeOK /\ GivenOnce /\ RunWhenPosting /\ Sources /\ RunsOnceEach

-----------------------------------------------------------------------------
\* put: what is left of a queue of at most n after one more job is at most n.
LEMMA BoundedAppend ==
    ASSUME NEW S, NEW s \in Seq(S), NEW e \in S, NEW n \in Nat \ {0}, Len(s) <= n
    PROVE  LET q == Append(s, e)
               r == IF Len(q) > n THEN Tail(q) ELSE q
           IN  r \in Seq(S) /\ Len(r) <= n
<1>1. /\ Append(s, e) \in Seq(S) /\ Append(s, e) # <<>>
      /\ Len(Append(s, e)) = Len(s) + 1
  BY AppendProperties
<1>2. /\ Tail(Append(s, e)) \in Seq(S)
      /\ Len(Tail(Append(s, e))) = Len(Append(s, e)) - 1
  BY <1>1, HeadTailProperties
<1>3. Len(s) \in Nat
  BY LenProperties
<1> QED BY <1>1, <1>2, <1>3

\* claim hands out one queued job, or marks it for an answer that is lost.
LEMMA ClaimTakes ==
    ASSUME QueueTypeOK, NEW w \in Workers, Claim(w)
    PROVE  \E j \in Jobs :
             /\ state[j] = "queued"
             /\ state' = [state EXCEPT ![j] = "claimed"]
             /\ work' = [work EXCEPT ![w] = j] \/ work' = work
<1>1. PICK i \in 1..Len(queue) :
        /\ state[queue[i]] = "queued"
        /\ state' = [state EXCEPT ![queue[i]] = "claimed"]
        /\ work' = [work EXCEPT ![w] = queue[i]] \/ work' = work
  BY DEF Claim
<1>2. queue[i] \in Jobs
  BY ElementOfSeq DEF QueueTypeOK
<1> QED BY <1>1, <1>2

\* Claims, answers, expiry and the bound of remote.ts keep every variable in its domain
\* and the queue within MaxJobs.
LEMMA QueueTypeStep == QueueAssumption /\ QueueTypeOK /\ [QueueNext]_qvars => QueueTypeOK'
<1> SUFFICES ASSUME QueueAssumption, QueueTypeOK, [QueueNext]_qvars
             PROVE  QueueTypeOK'
  OBVIOUS
<1> USE DEF QueueTypeOK, Results
<1>1. ASSUME NEW j \in Jobs, Enqueue(j) PROVE QueueTypeOK'
  <2>1. queue' \in Seq(Jobs) /\ Len(queue') <= MaxJobs
    BY <1>1, BoundedAppend DEF Enqueue, QueueAssumption
  <2> QED BY <1>1, <2>1 DEF Enqueue, qworkers
<1>2. ASSUME NEW j \in Jobs, Settled(j) PROVE QueueTypeOK'
  BY <1>2 DEF Settled, qjobs, qworkers
<1>3. ASSUME NEW j \in Jobs, RunLocally(j) PROVE QueueTypeOK'
  BY <1>3 DEF RunLocally, qjobs, qworkers
<1>4. ASSUME NEW w \in Workers, Claim(w) PROVE QueueTypeOK'
  <2>1. PICK j \in Jobs : /\ state' = [state EXCEPT ![j] = "claimed"]
                          /\ work' = [work EXCEPT ![w] = j] \/ work' = work
    BY <1>4, ClaimTakes
  <2>2. state' \in [Jobs -> {"queued", "claimed", "done", "failed", "expired"}]
    BY <2>1
  <2>3. work' \in [Workers -> Jobs \cup {NoJob}]
    BY <2>1
  <2> QED BY <1>4, <2>2, <2>3 DEF Claim, qcalls
<1>5. ASSUME NEW w \in Workers, Execute(w) PROVE QueueTypeOK'
  BY <1>5 DEF Execute, qjobs, qcalls
<1>6. ASSUME NEW w \in Workers, Complete(w) PROVE QueueTypeOK'
  <2>1. work' \in [Workers -> Jobs \cup {NoJob}] /\ posting' \in [Workers -> Results \cup {"none"}]
    BY <1>6 DEF Complete, WorkerFree
  <2>2. state' \in [Jobs -> {"queued", "claimed", "done", "failed", "expired"}]
    BY <1>6 DEF Complete
  <2>3. result' \in [Jobs -> Results \cup {"none"}]
    BY <1>6 DEF Complete
  <2> QED BY <1>6, <2>1, <2>2, <2>3 DEF Complete, qcalls
<1>7. ASSUME NEW w \in Workers, WorkerLost(w) PROVE QueueTypeOK'
  BY <1>7 DEF WorkerLost, WorkerFree, qjobs, qcalls
<1>8. ASSUME ExpireStale PROVE QueueTypeOK'
  BY <1>8 DEF ExpireStale, qcalls, qworkers
<1>9. ASSUME UNCHANGED qvars PROVE QueueTypeOK'
  BY <1>9 DEF qvars, qjobs, qcalls, qworkers
<1> QED BY <1>1, <1>2, <1>3, <1>4, <1>5, <1>6, <1>7, <1>8, <1>9 DEF QueueNext

\* No step of an adapter, a worker or the queue gives a job out twice.
LEMMA QueueInvStep == QueueAssumption /\ QueueInv /\ [QueueNext]_qvars => QueueInv'
<1> SUFFICES ASSUME QueueAssumption, QueueInv, [QueueNext]_qvars
             PROVE  QueueInv'
  OBVIOUS
<1>0. QueueTypeOK' /\ QueueTypeOK
  BY QueueTypeStep DEF QueueInv
<1> USE DEF QueueTypeOK, Results, GivenOnce, RunWhenPosting, Sources, RunsOnceEach
<1>1. ASSUME NEW j \in Jobs, Enqueue(j) PROVE QueueInv'
  BY <1>0, <1>1 DEF QueueInv, Enqueue, qworkers
<1>2. ASSUME NEW j \in Jobs, Settled(j) PROVE QueueInv'
  <2>1. UNCHANGED <<queue, state, result, work, posting, remote, local>>
    BY <1>2 DEF Settled, qjobs, qworkers
  <2>2. GivenOnce' /\ RunWhenPosting'
    BY <2>1 DEF QueueInv
  <2>3. /\ local[j] = 0
        /\ step'[j] = "answered" /\ reply'[j] \in Results => remote[j] = 1
        /\ \A k \in Jobs \ {j} : step'[k] = step[k] /\ reply'[k] = reply[k]
    BY <1>0, <1>2 DEF QueueInv, Settled
  <2>4. Sources' /\ RunsOnceEach'
    BY <1>0, <2>1, <2>3 DEF QueueInv
  <2> QED BY <1>0, <2>2, <2>4 DEF QueueInv
<1>3. ASSUME NEW j \in Jobs, RunLocally(j) PROVE QueueInv'
  BY <1>0, <1>3 DEF QueueInv, RunLocally, qjobs, qworkers
<1>4. ASSUME NEW w \in Workers, Claim(w) PROVE QueueInv'
  <2>1. PICK j \in Jobs : /\ state[j] = "queued"
                          /\ state' = [state EXCEPT ![j] = "claimed"]
                          /\ work' = [work EXCEPT ![w] = j] \/ work' = work
    BY <1>0, <1>4, ClaimTakes
  <2>3. work[w] = NoJob /\ NoJob \notin Jobs
        /\ UNCHANGED <<queue, result, qcalls, posting, remote, local>>
    BY <1>4 DEF Claim, QueueAssumption
  <2>7. posting[w] = "none" /\ remote[j] = 0
    BY <1>0, <2>1, <2>3 DEF QueueInv
  <2>8. \A v \in Workers : work'[v] = work[v] \/ (v = w /\ work'[v] = j)
    BY <1>0, <2>1
  <2>9. \A k \in Jobs : state'[k] = "queued" => state[k] = "queued" /\ k # j
    BY <1>0, <2>1
  <2>4. GivenOnce'
    <3>1. \A k \in Jobs : state'[k] = "queued" =>
                remote'[k] = 0 /\ \A v \in Workers : work'[v] # k
      BY <2>3, <2>8, <2>9 DEF QueueInv
    <3>2. \A v \in Workers : work[v] # j
      BY <2>1 DEF QueueInv
    <3>3. ASSUME NEW u \in Workers, NEW v \in Workers, work'[u] = work'[v], work'[u] # NoJob
          PROVE  u = v
      BY <2>3, <2>8, <3>2, <3>3 DEF QueueInv
    <3> QED BY <3>1, <3>3
  <2>5. RunWhenPosting'
    <3> SUFFICES ASSUME NEW v \in Workers
                 PROVE  IF posting[v] = "none" THEN work'[v] # NoJob => remote[work'[v]] = 0
                        ELSE work'[v] # NoJob /\ remote[work'[v]] = 1
      BY <2>3
    <3> QED BY <2>7, <2>8 DEF QueueInv
  <2>6. Sources' /\ RunsOnceEach'
    BY <1>0, <2>3 DEF QueueInv, qcalls
  <2> QED BY <1>0, <2>4, <2>5, <2>6 DEF QueueInv
<1>5. ASSUME NEW w \in Workers, Execute(w) PROVE QueueInv'
  <2>1. work[w] \in Jobs /\ posting'[w] # "none" /\ \A v \in Workers \ {w} : posting'[v] = posting[v]
    BY <1>0, <1>5 DEF Execute
  <2>2. remote[work[w]] = 0
    BY <1>0, <1>5 DEF Execute, QueueInv
  <2>7. /\ remote'[work[w]] = 1
        /\ \A j \in Jobs \ {work[w]} : remote'[j] = remote[j]
    BY <1>0, <1>5, <2>1, <2>2 DEF Execute
  <2>3. UNCHANGED <<queue, state, result, step, reply, work, local>>
    BY <1>5 DEF Execute, qjobs, qcalls
  <2>4. GivenOnce'
    BY <1>0, <2>1, <2>2, <2>3, <2>7 DEF QueueInv
  <2>5. RunWhenPosting'
    BY <1>0, <2>1, <2>2, <2>3, <2>7 DEF QueueInv
  <2>6. Sources' /\ RunsOnceEach'
    BY <1>0, <2>1, <2>2, <2>3, <2>7 DEF QueueInv
  <2> QED BY <1>0, <2>4, <2>5, <2>6 DEF QueueInv
<1>6. ASSUME NEW w \in Workers, Complete(w) PROVE QueueInv'
  <2>1. /\ work[w] # NoJob /\ remote[work[w]] = 1
        /\ work' = [work EXCEPT ![w] = NoJob] /\ posting' = [posting EXCEPT ![w] = "none"]
        /\ UNCHANGED <<queue, step, reply, remote, local>>
        /\ \A j \in Jobs : state'[j] = "queued" => state[j] = "queued"
        /\ \A j \in Jobs : result'[j] # result[j] => j = work[w]
    BY <1>0, <1>6 DEF Complete, WorkerFree, QueueInv, qcalls
  <2>2. NoJob \notin Jobs
    BY DEF QueueAssumption
  <2>3. GivenOnce' /\ RunWhenPosting'
    BY <1>0, <2>1, <2>2 DEF QueueInv
  <2>4. Sources' /\ RunsOnceEach'
    BY <1>0, <2>1 DEF QueueInv
  <2> QED BY <1>0, <2>3, <2>4 DEF QueueInv
<1>7. ASSUME NEW w \in Workers, WorkerLost(w) PROVE QueueInv'
  <2>1. NoJob \notin Jobs
    BY DEF QueueAssumption
  <2> QED BY <1>0, <1>7, <2>1 DEF QueueInv, WorkerLost, WorkerFree, qjobs, qcalls
<1>8. ASSUME ExpireStale PROVE QueueInv'
  <2>1. \A j \in Jobs : state'[j] = "queued" => state[j] = "queued"
    BY <1>0, <1>8 DEF ExpireStale
  <2> QED BY <1>0, <1>8, <2>1 DEF QueueInv, ExpireStale, qcalls, qworkers
<1>9. ASSUME UNCHANGED qvars PROVE QueueInv'
  BY <1>9 DEF QueueInv, qvars, qjobs, qcalls, qworkers
<1> QED BY <1>1, <1>2, <1>3, <1>4, <1>5, <1>6, <1>7, <1>8, <1>9 DEF QueueNext

\* An empty queue, no worker at work and no call made satisfy the invariant.
LEMMA QueueInvInit == QueueAssumption /\ QueueInit => QueueInv
  BY DEF QueueAssumption, QueueInit, QueueInv, QueueTypeOK, Results, GivenOnce,
         RunWhenPosting, Sources, RunsOnceEach

-----------------------------------------------------------------------------
\* The invariant holds throughout.
LEMMA QueueAlways == QueueSpec => []QueueInv
<1>1. QueueInit => QueueInv
  BY QueueAssumption, QueueInvInit
<1>2. QueueInv /\ [QueueNext]_qvars => QueueInv'
  BY QueueAssumption, QueueInvStep
<1> QED BY <1>1, <1>2, PTL DEF QueueSpec

\* The remote queue never holds more than MaxJobs jobs, and every job, call and worker is
\* in a state that remote.ts, queueAdapter.ts and remoteWorker.ts know.
THEOREM QueueTypeCorrect == QueueSpec => []QueueTypeOK
<1>1. QueueInv => QueueTypeOK
  BY DEF QueueInv
<1> QED BY <1>1, QueueAlways, PTL

\* Whatever is lost, dropped, expired or claimed late, a job runs at most once on a worker
\* (claim of remote.ts) and once at home (the fallback of queueAdapter.ts), and an answer
\* that is not from home is a worker's.
THEOREM EnginesRunOnceEach == QueueSpec => []RunsOnceEach
<1>1. QueueInv => RunsOnceEach
  BY DEF QueueInv
<1> QED BY <1>1, QueueAlways, PTL
-----------------------------------------------------------------------------
(* The run log. *)

\* No two writers overlapped, and none was done with a batch still on its way.
Clean == ~overlapped /\ ~unawaited

\* The numbers of a batch, and those of all batches in flight.
Nos(b) == {r[1] : r \in b}
FlightNos == UNION {Nos(f[2]) : f \in flights}

\* The lines of a batch.
Texts(b) == {r[2] : r \in b}

OneAtWork == \A v, w \in AtWork : v = w

\* Whoever is at work numbers its next line past every other line.
Ahead ==
    \A w \in AtWork :
        /\ \A k \in Taken : k < seqNo[w]
        /\ \A k \in FlightNos : k < seqNo[w]
        /\ \A k \in Nos(buffer[w]) : k < seqNo[w]

\* No two lines on their way have one number, and none has one that is taken.
Apart ==
    /\ FlightNos \cap Taken = {}
    /\ \A f, g \in flights : f # g => Nos(f[2]) \cap Nos(g[2]) = {}
    /\ \A w \in Writers : Nos(buffer[w]) \cap Taken = {} /\ Nos(buffer[w]) \cap FlightNos = {}

\* A batch that a writer has left behind is numbered below a line of the table.
Behind ==
    \A f \in flights : f[1] \in AtWork \/ \A k \in Nos(f[2]) : \E t \in Taken : k <= t

\* Only runners that are still logging hold lines back, and only runners send batches.
Quiet ==
    /\ \A w \in Writers : buffer[w] # {} => w \in Attempts /\ wst[w] = "open"
    /\ \A f \in flights : f[1] \in Attempts

LogTypeOK ==
    /\ table \subseteq Nat \X Lines
    /\ wst \in [Writers -> {"off", "open", "flushing", "closed", "dead"}]
    /\ seqNo \in [Writers -> Nat] /\ buffer \in [Writers -> SUBSET (Nat \X Lines)]
    /\ flights \subseteq Writers \X SUBSET (Nat \X Lines)
    /\ sent \subseteq Lines
    /\ overlapped \in BOOLEAN /\ unawaited \in BOOLEAN

RingTypeOK ==
    /\ tail \in Seq(0..MaxPushed)
    /\ head \in Nat /\ elided \in Nat /\ pushed \in 0..MaxPushed

\* What was sent is in the table or on its way.
Kept == sent \subseteq InTable \cup InFlight

Order == OneAtWork /\ Ahead /\ Apart /\ Behind /\ Kept

LogInv == LogTypeOK /\ Quiet /\ (Clean => Order)

\* The numbers of a batch and one more row.
LEMMA NosAdded ==
    ASSUME NEW A, NEW k, NEW l
    PROVE  Nos(A \cup {<<k, l>>}) = Nos(A) \cup {k}
<1> DEFINE x == <<k, l>>
<1>1. x[1] = k
  OBVIOUS
<1> HIDE DEF x
<1>2. Nos(A \cup {x}) = Nos(A) \cup {x[1]}
  BY Zenon DEF Nos
<1> QED BY <1>1, <1>2 DEF x

\* A batch leaves: its numbers and its lines are in flight.
LEMMA Sent ==
    ASSUME NEW w, NEW b, flights' = flights \cup {<<w, b>>}
    PROVE  FlightNos' = FlightNos \cup Nos(b) /\ InFlight' = InFlight \cup Texts(b)
<1> DEFINE f == <<w, b>>
<1>1. f[2] = b
  OBVIOUS
<1>2. flights' = flights \cup {f}
  OBVIOUS
<1> HIDE DEF f
<1>3. FlightNos' = FlightNos \cup Nos(f[2])
  <2>1. FlightNos' = UNION {Nos(g[2]) : g \in flights'}
    BY DEF FlightNos, Nos
  <2> QED BY <1>2, <2>1, Zenon DEF FlightNos
<1>4. InFlight' = InFlight \cup Texts(f[2])
  BY <1>2, Zenon DEF InFlight, Texts
<1> QED BY <1>1, <1>3, <1>4

\* A batch whose numbers are free enters the table as a whole.
LEMMA Entered ==
    ASSUME NEW b, table' = Inserted(b)
    PROVE  /\ Taken' = Taken \cup Nos(b)
           /\ Nos(b) \cap Taken = {} => InTable' = InTable \cup Texts(b)
           /\ InTable \subseteq InTable'
<1>1. table' = table \cup {r \in b : r[1] \notin Taken}
  BY DEF Inserted
<1>2. Taken' = Taken \cup Nos(b)
  <2>1. ASSUME NEW k \in Taken' PROVE k \in Taken \cup Nos(b)
    BY <1>1, <2>1, Zenon DEF Taken, Nos
  <2>2. ASSUME NEW k \in Taken \cup Nos(b) PROVE k \in Taken'
    <3>1. CASE k \in Taken
      BY <1>1, <3>1, Zenon DEF Taken
    <3>2. CASE k \notin Taken
      <4>1. PICK r \in b : r[1] = k
        BY <2>2, <3>2, Zenon DEF Nos
      <4>2. r \in table'
        BY <1>1, <3>2, <4>1
      <4> QED BY <4>1, <4>2, Zenon DEF Taken
    <3> QED BY <3>1, <3>2
  <2> QED BY <2>1, <2>2
<1>3. ASSUME Nos(b) \cap Taken = {} PROVE InTable' = InTable \cup Texts(b)
  <2>1. \A r \in b : r[1] \notin Taken
    BY <1>3, Zenon DEF Nos
  <2>2. table' = table \cup b
    BY <1>1, <2>1
  <2> QED BY <2>2, Zenon DEF InTable, Texts
<1>4. InTable \subseteq InTable'
  BY <1>1, Zenon DEF InTable
<1> QED BY <1>2, <1>3, <1>4

\* A batch that leaves flight, and the numbers it leaves behind.
LEMMA Fewer ==
    ASSUME flights' \subseteq flights
    PROVE  /\ FlightNos' \subseteq FlightNos
           /\ \A g \in flights' : Nos(g[2]) \subseteq FlightNos'
           /\ \A g \in flights : Nos(g[2]) \subseteq FlightNos
<1>1. FlightNos' = UNION {Nos(g[2]) : g \in flights'}
  BY DEF FlightNos, Nos
<1> QED BY <1>1, Zenon DEF FlightNos

\* Numbers are naturals.
LEMMA Numbers ==
    ASSUME LogTypeOK
    PROVE  /\ Taken \subseteq Nat /\ FlightNos \subseteq Nat
           /\ \A w \in Writers : Nos(buffer[w]) \subseteq Nat /\ seqNo[w] \in Nat
<1>1. Taken \subseteq Nat
  BY DEF LogTypeOK, Taken
<1>2. \A f \in flights : f[2] \subseteq Nat \X Lines
  BY DEF LogTypeOK
<1>3. \A b : b \subseteq Nat \X Lines => Nos(b) \subseteq Nat
  BY DEF Nos
<1>4. FlightNos \subseteq Nat
  BY <1>2, <1>3, Zenon DEF FlightNos
<1>5. \A w \in Writers : buffer[w] \subseteq Nat \X Lines /\ seqNo[w] \in Nat
  BY DEF LogTypeOK
<1> QED BY <1>1, <1>3, <1>4, <1>5

\* The buffer of a writer with its next line.
WithLine(w) == buffer[w] \cup {<<seqNo[w], <<w, seqNo[w]>>>>}

\* The rows of a parse of n lines.
ParseRows(w, n) == {<<seqNo[w] + i, <<w, i>>>> : i \in 0..(n - 1)}

\* One more line is a row.
LEMMA WithLineType ==
    ASSUME LogTypeOK, NEW w \in Writers
    PROVE  /\ WithLine(w) \in SUBSET (Nat \X Lines)
           /\ Texts(WithLine(w)) \subseteq Lines
           /\ Nos(WithLine(w)) = Nos(buffer[w]) \cup {seqNo[w]}
<1>1. seqNo[w] \in Nat /\ buffer[w] \in SUBSET (Nat \X Lines)
  BY DEF LogTypeOK
<1>2. <<w, seqNo[w]>> \in Lines
  BY <1>1 DEF Lines
<1>3. WithLine(w) \in SUBSET (Nat \X Lines)
  BY <1>1, <1>2 DEF WithLine
<1>4. Texts(WithLine(w)) \subseteq Lines
  BY <1>3 DEF Texts
<1>5. Nos(WithLine(w)) = Nos(buffer[w]) \cup {seqNo[w]}
  BY NosAdded DEF WithLine
<1> QED BY <1>3, <1>4, <1>5

\* Log, read without its LET.
LEMMA LogStep ==
    ASSUME LogTypeOK, NEW w \in Writers, Log(w)
    PROVE  /\ w \in Attempts /\ wst[w] = "open"
           /\ \/ /\ flights' = flights \cup {<<w, WithLine(w)>>}
                 /\ sent' = sent \cup Texts(WithLine(w))
                 /\ buffer' = [buffer EXCEPT ![w] = {}]
              \/ /\ buffer' = [buffer EXCEPT ![w] = WithLine(w)]
                 /\ UNCHANGED <<flights, sent>>
           /\ seqNo' = [seqNo EXCEPT ![w] = @ + 1]
           /\ UNCHANGED <<table, wst, overlapped, unawaited, ring>>
  BY DEF Log, WithLine, Texts

\* LastLog likewise.
LEMMA LastLogStep ==
    ASSUME LogTypeOK, NEW w \in Writers, LastLog(w)
    PROVE  /\ w \in Attempts /\ wst[w] = "open"
           /\ flights' = flights \cup {<<w, WithLine(w)>>}
           /\ sent' = sent \cup Texts(WithLine(w))
           /\ buffer' = [buffer EXCEPT ![w] = {}]
           /\ seqNo' = [seqNo EXCEPT ![w] = @ + 1]
           /\ \E s \in {"closed", "flushing"} :
                /\ wst' = [wst EXCEPT ![w] = s]
                /\ unawaited' \in BOOLEAN
                /\ ~unawaited' => ~unawaited /\ s = "flushing"
           /\ UNCHANGED <<table, overlapped, ring>>
<1> DEFINE b == WithLine(w)
           full == Cardinality(b) >= FlushEvery
           s == IF full THEN "closed" ELSE "flushing"
<1>1. /\ wst' = [wst EXCEPT ![w] = s] /\ unawaited' = (unawaited \/ full)
  BY DEF LastLog, WithLine
<1>2. unawaited' \in BOOLEAN /\ (~unawaited' => ~unawaited /\ s = "flushing")
  BY <1>1
<1>3. s \in {"closed", "flushing"}
  OBVIOUS
<1>4. \E t \in {"closed", "flushing"} :
                /\ wst' = [wst EXCEPT ![w] = t]
                /\ unawaited' \in BOOLEAN
                /\ ~unawaited' => ~unawaited /\ t = "flushing"
  <2> HIDE DEF s
  <2> QED BY <1>1, <1>2, <1>3
<1> QED BY <1>4 DEF LastLog, WithLine, Texts

\* Every step of a writer keeps the log's variables in their domains, and only runners at
\* work hold lines back.
LEMMA LogTypeStep ==
    ASSUME OutputAssumption, LogTypeOK, Quiet, LogNext
    PROVE  LogTypeOK' /\ Quiet'
<1> DEFINE Goal == LogTypeOK' /\ Quiet'
<1>0. /\ \A w \in Writers : seqNo[w] \in Nat
      /\ Attempts \subseteq Writers /\ Parses \subseteq Writers
      /\ \A w \in Writers : w \in Attempts => w \notin Parses
  BY DEF LogTypeOK, OutputAssumption, Writers
<1>1. ASSUME NEW w \in Writers, Start(w) PROVE Goal
  <2>1. PICK k \in NextSeq : seqNo' = [seqNo EXCEPT ![w] = k]
    BY <1>1 DEF Start
  <2>2. k \in Nat
    BY <2>1 DEF NextSeq, LogTypeOK
  <2>3. seqNo' \in [Writers -> Nat]
    BY <2>1, <2>2 DEF LogTypeOK
  <2> QED BY <1>1, <2>3 DEF Start, LogTypeOK, Quiet
<1>2. ASSUME NEW w \in Writers, Log(w) PROVE Goal
  <2>1. LogTypeOK'
    BY <1>0, <1>2, LogStep, WithLineType DEF LogTypeOK
  <2>2. Quiet'
    BY <1>2, LogStep DEF LogTypeOK, Quiet
  <2> QED BY <2>1, <2>2
<1>3. ASSUME NEW w \in Writers, LastLog(w) PROVE Goal
  <2>1. LogTypeOK'
    BY <1>0, <1>3, LastLogStep, WithLineType DEF LogTypeOK
  <2>2. Quiet'
    BY <1>3, LastLogStep DEF LogTypeOK, Quiet
  <2> QED BY <2>1, <2>2
<1>4. ASSUME NEW w \in Writers, ParseLog(w) PROVE Goal
  <2>1. PICK n \in 1..2 :
          /\ table' = Inserted(ParseRows(w, n))
          /\ sent' = sent \cup Texts(ParseRows(w, n))
    BY <1>4 DEF ParseLog, ParseRows, Texts
  <2>2. ParseRows(w, n) \subseteq Nat \X Lines
    BY <1>0 DEF ParseRows, Lines
  <2>3. table' \subseteq Nat \X Lines /\ sent' \subseteq Lines
    BY <2>1, <2>2 DEF LogTypeOK, Inserted, Texts
  <2>4. Quiet'
    BY <1>0, <1>4 DEF ParseLog, LogTypeOK, Quiet
  <2> QED BY <1>4, <2>3, <2>4 DEF ParseLog, LogTypeOK
<1>5. ASSUME NEW w \in Writers, Die(w) PROVE Goal
  BY <1>5 DEF Die, LogTypeOK, Quiet
<1>6. ASSUME NEW f \in flights, Land(f) PROVE Goal
  <2>1. f[1] \in Writers /\ f[2] \subseteq Nat \X Lines
    BY DEF LogTypeOK
  <2>2. table' \subseteq Nat \X Lines
    BY <1>6, <2>1 DEF Land, LogTypeOK, Inserted
  <2>3. /\ wst' \in [Writers -> {"off", "open", "flushing", "closed", "dead"}]
        /\ \A w \in Writers : wst[w] = "open" => wst'[w] = "open"
    BY <1>6, <2>1 DEF Land, LogTypeOK
  <2>4. flights' \subseteq flights /\ UNCHANGED <<seqNo, buffer, sent, overlapped, unawaited>>
    BY <1>6 DEF Land
  <2> QED BY <2>2, <2>3, <2>4 DEF LogTypeOK, Quiet
<1> QED BY <1>1, <1>2, <1>3, <1>4, <1>5, <1>6 DEF LogNext

\* A batch leaves its writer, which stays at work.
LEMMA OrderSent ==
    ASSUME LogTypeOK, Quiet, Order, NEW w \in Writers,
           w \in AtWork, AtWork' = AtWork,
           flights' = flights \cup {<<w, WithLine(w)>>},
           sent' = sent \cup Texts(WithLine(w)),
           buffer' = [buffer EXCEPT ![w] = {}],
           seqNo' = [seqNo EXCEPT ![w] = @ + 1],
           table' = table
    PROVE  Order'
<1> DEFINE b == WithLine(w)
<1>1. FlightNos' = FlightNos \cup Nos(b) /\ InFlight' = InFlight \cup Texts(b)
  BY Sent
<1>2. Taken' = Taken /\ InTable' = InTable
  BY DEF Taken, InTable
<1>3. Nos(b) = Nos(buffer[w]) \cup {seqNo[w]}
  BY WithLineType
<1>4. /\ Taken \subseteq Nat /\ FlightNos \subseteq Nat /\ Nos(buffer[w]) \subseteq Nat
      /\ seqNo[w] \in Nat
  BY Numbers
<1>5. \A v \in AtWork : v = w
  BY DEF Order, OneAtWork
<1>6. seqNo'[w] = seqNo[w] + 1 /\ buffer'[w] = {} /\ \A v \in Writers \ {w} : buffer'[v] = buffer[v]
  BY DEF LogTypeOK
<1>7. Nos({}) = {}
  BY DEF Nos
<1>8. /\ \A k \in Taken : k < seqNo[w]
      /\ \A k \in FlightNos : k < seqNo[w]
      /\ \A k \in Nos(buffer[w]) : k < seqNo[w]
  BY DEF Order, Ahead
<1>9. Nos(b) \cap Taken = {} /\ Nos(b) \cap FlightNos = {}
  <2>1. Nos(buffer[w]) \cap Taken = {} /\ Nos(buffer[w]) \cap FlightNos = {}
    BY DEF Order, Apart
  <2>2. seqNo[w] \notin Taken /\ seqNo[w] \notin FlightNos
    BY <1>4, <1>8
  <2> QED BY <1>3, <2>1, <2>2, Zenon
<1>10. \A v \in Writers \ {w} : buffer[v] = {}
  BY <1>5 DEF Quiet, AtWork
<1>11. \A v \in Writers : buffer'[v] = {}
  BY <1>6, <1>10
<1> HIDE DEF b
<1>a. OneAtWork'
  BY DEF Order, OneAtWork
<1>b. Ahead'
  <2> SUFFICES ASSUME NEW v \in AtWork'
               PROVE  /\ \A k \in Taken' : k < seqNo'[v]
                      /\ \A k \in FlightNos' : k < seqNo'[v]
                      /\ \A k \in Nos(buffer'[v]) : k < seqNo'[v]
    BY DEF Ahead, Nos
  <2>1. v = w /\ seqNo'[v] = seqNo[w] + 1
    BY <1>5, <1>6
  <2>2. \A k \in FlightNos' : k \in Nat /\ k < seqNo[w] + 1
    BY <1>1, <1>3, <1>4, <1>8
  <2>3. \A k \in Taken' : k \in Nat /\ k < seqNo[w] + 1
    BY <1>2, <1>4, <1>8
  <2> QED BY <1>6, <1>7, <2>1, <2>2, <2>3
<1>c. Apart'
  <2>1. FlightNos' \cap Taken' = {}
    BY <1>1, <1>2, <1>9, Zenon DEF Order, Apart
  <2>2. ASSUME NEW f \in flights', NEW g \in flights', f # g
        PROVE  Nos(f[2]) \cap Nos(g[2]) = {}
    <3>1. \A h \in flights : Nos(h[2]) \subseteq FlightNos
      BY Zenon DEF FlightNos
    <3>2. \A h \in flights' : h \in flights \/ (h = <<w, b>> /\ h[2] = b)
      BY DEF b
    <3>3. CASE f \in flights /\ g \in flights
      BY <2>2, <3>3 DEF Order, Apart
    <3>4. CASE f \in flights /\ g \notin flights
      BY <1>9, <3>1, <3>2, <3>4
    <3>5. CASE f \notin flights /\ g \in flights
      BY <1>9, <3>1, <3>2, <3>5
    <3>6. CASE f \notin flights /\ g \notin flights
      BY <2>2, <3>2, <3>6
    <3> QED BY <3>3, <3>4, <3>5, <3>6
  <2> QED BY <1>7, <1>11, <2>1, <2>2 DEF Apart, Nos
<1>d. Behind'
  <2> SUFFICES ASSUME NEW f \in flights'
               PROVE  f[1] \in AtWork' \/ \A k \in Nos(f[2]) : \E t \in Taken' : k <= t
    BY DEF Behind, Nos
  <2>1. CASE f \in flights
    BY <1>2, <2>1 DEF Order, Behind
  <2>2. CASE f = <<w, WithLine(w)>>
    BY <2>2
  <2> QED BY <2>1, <2>2
<1>e. Kept'
  BY <1>1, <1>2, Zenon DEF Order, Kept, b
<1> QED BY <1>a, <1>b, <1>c, <1>d, <1>e DEF Order

\* A line stays in the buffer.
LEMMA OrderBuffered ==
    ASSUME LogTypeOK, Quiet, Order, NEW w \in Writers,
           w \in AtWork, AtWork' = AtWork,
           buffer' = [buffer EXCEPT ![w] = WithLine(w)],
           seqNo' = [seqNo EXCEPT ![w] = @ + 1],
           UNCHANGED <<table, flights, sent>>
    PROVE  Order'
<1>1. /\ FlightNos' = FlightNos /\ InFlight' = InFlight
      /\ Taken' = Taken /\ InTable' = InTable
  BY DEF FlightNos, Nos, InFlight, Taken, InTable
<1>3. Nos(WithLine(w)) = Nos(buffer[w]) \cup {seqNo[w]}
  BY WithLineType
<1>4. /\ Taken \subseteq Nat /\ FlightNos \subseteq Nat /\ Nos(buffer[w]) \subseteq Nat
      /\ seqNo[w] \in Nat
  BY Numbers
<1>5. \A v \in AtWork : v = w
  BY DEF Order, OneAtWork
<1>6. /\ seqNo'[w] = seqNo[w] + 1 /\ buffer'[w] = WithLine(w)
      /\ \A v \in Writers \ {w} : buffer'[v] = buffer[v]
  BY DEF LogTypeOK
<1>8. /\ \A k \in Taken : k < seqNo[w]
      /\ \A k \in FlightNos : k < seqNo[w]
      /\ \A k \in Nos(buffer[w]) : k < seqNo[w]
  BY DEF Order, Ahead
<1>9. Nos(WithLine(w)) \cap Taken = {} /\ Nos(WithLine(w)) \cap FlightNos = {}
  <2>1. Nos(buffer[w]) \cap Taken = {} /\ Nos(buffer[w]) \cap FlightNos = {}
    BY DEF Order, Apart
  <2>2. seqNo[w] \notin Taken /\ seqNo[w] \notin FlightNos
    BY <1>4, <1>8
  <2> QED BY <1>3, <2>1, <2>2, Zenon
<1>a. OneAtWork'
  BY DEF Order, OneAtWork
<1>b. Ahead'
  <2> SUFFICES ASSUME NEW v \in AtWork'
               PROVE  /\ \A k \in Taken' : k < seqNo'[v]
                      /\ \A k \in FlightNos' : k < seqNo'[v]
                      /\ \A k \in Nos(buffer'[v]) : k < seqNo'[v]
    BY DEF Ahead, Nos
  <2>1. v = w /\ seqNo'[v] = seqNo[w] + 1 /\ buffer'[v] = WithLine(w)
    BY <1>5, <1>6
  <2>2. \A k \in Nos(WithLine(w)) : k \in Nat /\ k < seqNo[w] + 1
    BY <1>3, <1>4, <1>8
  <2>3. \A k \in Taken' \cup FlightNos' : k \in Nat /\ k < seqNo[w] + 1
    BY <1>1, <1>4, <1>8
  <2> QED BY <2>1, <2>2, <2>3
<1>c. Apart'
  <2>1. \A v \in Writers : Nos(buffer'[v]) \cap Taken' = {} /\ Nos(buffer'[v]) \cap FlightNos' = {}
    BY <1>1, <1>6, <1>9 DEF Order, Apart
  <2>2. \A f, g \in flights' : f # g => Nos(f[2]) \cap Nos(g[2]) = {}
    BY DEF Order, Apart
  <2>3. FlightNos' \cap Taken' = {}
    BY <1>1 DEF Order, Apart
  <2> QED BY <2>1, <2>2, <2>3 DEF Apart, Nos
<1>d. Behind'
  <2> SUFFICES ASSUME NEW f \in flights'
               PROVE  f[1] \in AtWork' \/ \A k \in Nos(f[2]) : \E t \in Taken' : k <= t
    BY DEF Behind, Nos
  <2> QED BY <1>1 DEF Order, Behind
<1>e. Kept'
  BY <1>1 DEF Order, Kept
<1> QED BY <1>a, <1>b, <1>c, <1>d, <1>e DEF Order

\* A writer starts when nobody is at work.
LEMMA OrderStart ==
    ASSUME LogTypeOK, Quiet, Order, NEW w \in Writers, Start(w), AtWork = {}
    PROVE  Order'
<1>1. /\ FlightNos' = FlightNos /\ InFlight' = InFlight
      /\ Taken' = Taken /\ InTable' = InTable /\ buffer' = buffer /\ flights' = flights
      /\ sent' = sent
  BY DEF Start, FlightNos, Nos, InFlight, Taken, InTable
<1>2. PICK k \in NextSeq : seqNo' = [seqNo EXCEPT ![w] = k]
  BY DEF Start
<1>3. seqNo'[w] = k /\ k \in Nat /\ \A t \in Taken : t < k
  BY <1>2 DEF NextSeq, LogTypeOK, Taken
<1>4. AtWork' = {w}
  BY DEF Start, AtWork, LogTypeOK
<1>5. \A v \in Writers : buffer[v] = {}
  BY DEF Quiet, AtWork
<1>6. Taken \subseteq Nat /\ FlightNos \subseteq Nat
  BY Numbers
<1>7. Nos({}) = {}
  BY DEF Nos
<1>8. \A n \in FlightNos : n < k
  <2> SUFFICES ASSUME NEW n \in FlightNos PROVE n < k
    OBVIOUS
  <2>1. PICK f \in flights : n \in Nos(f[2])
    BY DEF FlightNos
  <2>2. \E t \in Taken : n <= t
    BY <2>1 DEF Order, Behind
  <2> QED BY <1>3, <1>6, <2>2
<1>a. OneAtWork'
  BY <1>4 DEF OneAtWork
<1>b. Ahead'
  <2> SUFFICES ASSUME NEW v \in AtWork'
               PROVE  /\ \A n \in Taken' : n < seqNo'[v]
                      /\ \A n \in FlightNos' : n < seqNo'[v]
                      /\ \A n \in Nos(buffer'[v]) : n < seqNo'[v]
    BY DEF Ahead, Nos
  <2> QED BY <1>1, <1>3, <1>4, <1>5, <1>7, <1>8
<1>c. Apart'
  BY <1>1 DEF Order, Apart, Nos
<1>d. Behind'
  <2> SUFFICES ASSUME NEW f \in flights'
               PROVE  f[1] \in AtWork' \/ \A n \in Nos(f[2]) : \E t \in Taken' : n <= t
    BY DEF Behind, Nos
  <2> QED BY <1>1 DEF Order, Behind
<1>e. Kept'
  BY <1>1 DEF Order, Kept
<1> QED BY <1>a, <1>b, <1>c, <1>d, <1>e DEF Order

\* A batch lands: all its numbers are free, and if it is the one that its writer waits
\* for, it is numbered above whatever that writer still has in flight.
LEMMA OrderLand ==
    ASSUME LogTypeOK, Quiet, Order, NEW f \in flights, Land(f)
    PROVE  Order'
<1>1. /\ flights' = flights \ {f} /\ table' = Inserted(f[2])
      /\ UNCHANGED <<seqNo, buffer, sent>>
  BY DEF Land
<1>2. /\ Taken' = Taken \cup Nos(f[2]) /\ InTable \subseteq InTable'
      /\ Nos(f[2]) \cap Taken = {} => InTable' = InTable \cup Texts(f[2])
  BY <1>1, Entered
<1>3. /\ FlightNos' \subseteq FlightNos
      /\ \A g \in flights' : Nos(g[2]) \subseteq FlightNos'
      /\ \A g \in flights : Nos(g[2]) \subseteq FlightNos
  BY <1>1, Fewer
<1>4. f[1] \in Writers
  BY DEF LogTypeOK
<1>5. \A w \in AtWork' : w \in AtWork
  BY <1>4 DEF Land, AtWork, LogTypeOK
<1>6. ASSUME NEW w \in AtWork, w \notin AtWork'
      PROVE  w = f[1] /\ \E r \in f[2] : r[1] = seqNo[w] - 1
  BY <1>4, <1>6 DEF Land, AtWork, LogTypeOK
<1>7. /\ Taken \subseteq Nat /\ FlightNos \subseteq Nat
      /\ \A w \in Writers : Nos(buffer[w]) \subseteq Nat /\ seqNo[w] \in Nat
  BY Numbers
<1>8. Nos(f[2]) \cap Taken = {}
  BY <1>3 DEF Order, Apart
<1>9. FlightNos' \cap Nos(f[2]) = {}
  <2> SUFFICES ASSUME NEW n \in FlightNos', n \in Nos(f[2]) PROVE FALSE
    OBVIOUS
  <2>1. PICK g \in flights' : n \in Nos(g[2])
    BY DEF FlightNos, Nos
  <2>2. g \in flights /\ g # f
    BY <1>1
  <2> QED BY <2>1, <2>2 DEF Order, Apart
<1>a. OneAtWork'
  BY <1>5 DEF Order, OneAtWork
<1>b. Ahead'
  <2> SUFFICES ASSUME NEW v \in AtWork'
               PROVE  /\ \A n \in Taken' : n < seqNo'[v]
                      /\ \A n \in FlightNos' : n < seqNo'[v]
                      /\ \A n \in Nos(buffer'[v]) : n < seqNo'[v]
    BY DEF Ahead, Nos
  <2> QED BY <1>1, <1>2, <1>3, <1>5 DEF Order, Ahead
<1>c. Apart'
  <2>1. FlightNos' \cap Taken' = {}
    BY <1>2, <1>3, <1>9 DEF Order, Apart
  <2>2. \A g, h \in flights' : g # h => Nos(g[2]) \cap Nos(h[2]) = {}
    BY <1>1 DEF Order, Apart
  <2>3. \A w \in Writers : Nos(buffer'[w]) \cap Taken' = {} /\ Nos(buffer'[w]) \cap FlightNos' = {}
    BY <1>1, <1>2, <1>3 DEF Order, Apart
  <2> QED BY <2>1, <2>2, <2>3 DEF Apart, Nos
<1>d. Behind'
  <2> SUFFICES ASSUME NEW g \in flights', g[1] \notin AtWork', NEW n \in Nos(g[2])
               PROVE  \E t \in Taken' : n <= t
    BY DEF Behind, Nos
  <2>1. g \in flights /\ n \in FlightNos
    BY <1>1, <1>3
  <2>2. CASE g[1] \notin AtWork
    BY <1>2, <2>1, <2>2 DEF Order, Behind
  <2>3. CASE g[1] \in AtWork
    <3>1. PICK r \in f[2] : r[1] = seqNo[g[1]] - 1
      BY <1>6, <2>3
    <3>2. seqNo[g[1]] - 1 \in Taken'
      BY <1>2, <3>1 DEF Nos
    <3>3. n < seqNo[g[1]] /\ n \in Nat /\ seqNo[g[1]] \in Nat
      BY <1>7, <2>1, <2>3 DEF Order, Ahead, AtWork
    <3>4. n <= seqNo[g[1]] - 1
      BY <3>3
    <3> QED BY <3>2, <3>4
  <2> QED BY <2>2, <2>3
<1>e. Kept'
  <2>1. InFlight \subseteq InFlight' \cup Texts(f[2])
    <3> SUFFICES ASSUME NEW l \in InFlight, l \notin Texts(f[2]) PROVE l \in InFlight'
      OBVIOUS
    <3>1. PICK g \in flights : l \in Texts(g[2])
      BY DEF InFlight, Texts
    <3>2. g \in flights'
      BY <1>1, <3>1
    <3> QED BY <3>1, <3>2 DEF InFlight, Texts
  <2> QED BY <1>1, <1>2, <1>8, <2>1 DEF Order, Kept
<1> QED BY <1>a, <1>b, <1>c, <1>d, <1>e DEF Order

\* A parse appends its lines past every other, and is done.
LEMMA OrderParse ==
    ASSUME OutputAssumption, LogTypeOK, Quiet, Order, NEW w \in Writers, ParseLog(w)
    PROVE  Order'
<1>1. PICK n \in 1..2 :
          /\ table' = Inserted(ParseRows(w, n))
          /\ sent' = sent \cup Texts(ParseRows(w, n))
  BY DEF ParseLog, ParseRows, Texts
<1>2. w \in Parses /\ w \in AtWork /\ UNCHANGED <<seqNo, buffer, flights>>
  BY DEF ParseLog, AtWork
<1>3. \A v \in AtWork : v = w
  BY <1>2 DEF Order, OneAtWork
<1>4. AtWork' = {}
  BY <1>3 DEF ParseLog, AtWork, LogTypeOK
<1>5. \A v \in Writers : buffer[v] = {}
  BY <1>2, <1>3 DEF Quiet, AtWork, OutputAssumption
<1>6. \A f \in flights : f[1] \notin AtWork
  BY <1>2, <1>3 DEF Quiet, OutputAssumption
<1>7. /\ FlightNos' = FlightNos /\ InFlight' = InFlight
  BY <1>2 DEF FlightNos, Nos, InFlight
<1>8. /\ Taken \subseteq Nat /\ FlightNos \subseteq Nat /\ seqNo[w] \in Nat
  BY Numbers
<1>9. \A k \in Nos(ParseRows(w, n)) : k \in Nat /\ k >= seqNo[w]
  BY <1>8 DEF Nos, ParseRows
<1>10. /\ \A k \in Taken : k < seqNo[w]
       /\ \A k \in FlightNos : k < seqNo[w]
  BY <1>2 DEF Order, Ahead
<1>11. Nos(ParseRows(w, n)) \cap Taken = {} /\ Nos(ParseRows(w, n)) \cap FlightNos = {}
  BY <1>8, <1>9, <1>10
<1>12. /\ Taken' = Taken \cup Nos(ParseRows(w, n))
       /\ InTable' = InTable \cup Texts(ParseRows(w, n))
  BY <1>1, <1>11, Entered
<1>13. Nos({}) = {}
  BY DEF Nos
<1>a. OneAtWork' /\ Ahead'
  BY <1>4 DEF OneAtWork, Ahead
<1>c. Apart'
  <2>1. FlightNos' \cap Taken' = {}
    BY <1>7, <1>11, <1>12 DEF Order, Apart
  <2>2. \A g, h \in flights' : g # h => Nos(g[2]) \cap Nos(h[2]) = {}
    BY <1>2 DEF Order, Apart
  <2>3. \A v \in Writers : Nos(buffer'[v]) = {}
    BY <1>2, <1>5, <1>13
  <2> QED BY <2>1, <2>2, <2>3 DEF Apart, Nos
<1>d. Behind'
  <2> SUFFICES ASSUME NEW f \in flights', NEW k \in Nos(f[2])
               PROVE  \E t \in Taken' : k <= t
    BY DEF Behind, Nos
  <2> QED BY <1>2, <1>6, <1>12 DEF Order, Behind
<1>e. Kept'
  BY <1>1, <1>7, <1>12 DEF Order, Kept
<1> QED BY <1>a, <1>c, <1>d, <1>e DEF Order

\* A process dies and takes its lines along.
LEMMA OrderDie ==
    ASSUME LogTypeOK, Quiet, Order, NEW w \in Writers, Die(w)
    PROVE  Order'
<1>1. /\ flights' = {f \in flights : f[1] # w}
      /\ sent' = sent \ UNION {Texts(f[2]) : f \in {g \in flights : g[1] = w}}
      /\ UNCHANGED <<table, seqNo>> /\ buffer' = [buffer EXCEPT ![w] = {}]
  BY DEF Die, Texts
<1>2. Taken' = Taken /\ InTable' = InTable
  BY <1>1 DEF Taken, InTable
<1>3. /\ FlightNos' \subseteq FlightNos
      /\ \A g \in flights : Nos(g[2]) \subseteq FlightNos
  BY <1>1, Fewer
<1>4. AtWork' = AtWork \ {w}
  BY DEF Die, AtWork, LogTypeOK
<1>5. Nos({}) = {}
  BY DEF Nos
<1>6. \A v \in Writers : Nos(buffer'[v]) \subseteq Nos(buffer[v])
  BY <1>1, <1>5 DEF LogTypeOK
<1>a. OneAtWork'
  BY <1>4 DEF Order, OneAtWork
<1>b. Ahead'
  <2> SUFFICES ASSUME NEW v \in AtWork'
               PROVE  /\ \A n \in Taken' : n < seqNo'[v]
                      /\ \A n \in FlightNos' : n < seqNo'[v]
                      /\ \A n \in Nos(buffer'[v]) : n < seqNo'[v]
    BY DEF Ahead, Nos
  <2>1. v \in AtWork /\ v \in Writers
    BY <1>4 DEF AtWork
  <2> QED BY <1>1, <1>2, <1>3, <1>6, <2>1 DEF Order, Ahead
<1>c. Apart'
  <2>1. FlightNos' \cap Taken' = {}
    BY <1>2, <1>3 DEF Order, Apart
  <2>2. \A g, h \in flights' : g # h => Nos(g[2]) \cap Nos(h[2]) = {}
    BY <1>1 DEF Order, Apart
  <2>3. \A v \in Writers : Nos(buffer'[v]) \cap Taken' = {} /\ Nos(buffer'[v]) \cap FlightNos' = {}
    BY <1>2, <1>3, <1>6 DEF Order, Apart
  <2> QED BY <2>1, <2>2, <2>3 DEF Apart, Nos
<1>d. Behind'
  <2> SUFFICES ASSUME NEW f \in flights', f[1] \notin AtWork'
               PROVE  \A n \in Nos(f[2]) : \E t \in Taken' : n <= t
    BY DEF Behind, Nos
  <2> QED BY <1>1, <1>2, <1>4 DEF Order, Behind
<1>e. Kept'
  <2> SUFFICES ASSUME NEW l \in sent' PROVE l \in InTable' \cup InFlight'
    BY DEF Kept
  <2>1. CASE l \in InTable
    BY <1>2, <2>1
  <2>2. CASE l \notin InTable
    <3>1. l \in InFlight
      BY <1>1, <2>2 DEF Order, Kept
    <3>2. PICK f \in flights : l \in Texts(f[2])
      BY <3>1 DEF InFlight, Texts
    <3>3. f[1] # w
      BY <1>1, <3>2
    <3>4. f \in flights'
      BY <1>1, <3>3
    <3> QED BY <3>2, <3>4 DEF InFlight, Texts
  <2> QED BY <2>1, <2>2
<1> QED BY <1>a, <1>b, <1>c, <1>d, <1>e DEF Order

\* Unless writers overlap or a batch goes unawaited, every step keeps the order.
LEMMA LogInvStep ==
    ASSUME OutputAssumption, LogInv, LogNext
    PROVE  LogInv'
<1>0. LogTypeOK /\ Quiet /\ LogTypeOK' /\ Quiet'
  BY LogTypeStep DEF LogInv
<1> SUFFICES ASSUME Clean' PROVE Order'
  BY <1>0 DEF LogInv
<1>1. ~overlapped' /\ ~unawaited'
  BY DEF Clean
<1>2. ASSUME ~overlapped, ~unawaited PROVE Order
  BY <1>2 DEF LogInv, Clean
<1>3. ASSUME NEW w \in Writers, Start(w) PROVE Order'
  <2>1. ~overlapped /\ ~unawaited /\ AtWork = {}
    BY <1>0, <1>1, <1>3, Zenon DEF Start
  <2> QED BY <1>0, <1>2, <1>3, <2>1, OrderStart
<1>4. ASSUME NEW w \in Writers, Log(w) PROVE Order'
  <2>1. ~overlapped /\ ~unawaited /\ wst' = wst /\ table' = table
    BY <1>1, <1>4 DEF Log
  <2>2. w \in AtWork /\ AtWork' = AtWork
    BY <1>4, <2>1 DEF Log, AtWork
  <2> QED BY <1>0, <1>2, <1>4, <2>1, <2>2, LogStep, OrderSent, OrderBuffered
<1>5. ASSUME NEW w \in Writers, LastLog(w) PROVE Order'
  <2>1. /\ ~overlapped /\ ~unawaited /\ table' = table
        /\ wst[w] = "open" /\ wst' = [wst EXCEPT ![w] = "flushing"]
    BY <1>0, <1>1, <1>5, LastLogStep
  <2>2. w \in AtWork /\ AtWork' = AtWork
    BY <1>0, <2>1 DEF AtWork, LogTypeOK
  <2> QED BY <1>0, <1>2, <1>5, <2>1, <2>2, LastLogStep, OrderSent
<1>6. ASSUME NEW w \in Writers, ParseLog(w) PROVE Order'
  BY <1>0, <1>1, <1>2, <1>6, OrderParse DEF ParseLog
<1>7. ASSUME NEW w \in Writers, Die(w) PROVE Order'
  BY <1>0, <1>1, <1>2, <1>7, OrderDie DEF Die
<1>8. ASSUME NEW f \in flights, Land(f) PROVE Order'
  BY <1>0, <1>1, <1>2, <1>8, OrderLand DEF Land
<1> QED BY <1>3, <1>4, <1>5, <1>6, <1>7, <1>8 DEF LogNext

-----------------------------------------------------------------------------
(* The ring buffer. *)

\* The tail begins where the elided bytes end, and its chunks follow one another.
Layout ==
    /\ tail = <<>> => pushed = head /\ elided = 0
    /\ tail # <<>> => head >= HalfBytes /\ elided = tail[1] - head
    /\ \A i \in 1..Len(tail) : tail[i] < pushed
    /\ \A i, j \in 1..Len(tail) : i < j => tail[i] < tail[j]

RingInv == RingTypeOK /\ Layout /\ RingBounded

\* The end of a sequence from its element k on.
LEMMA FromElement ==
    ASSUME NEW S, NEW r \in Seq(S), NEW k \in 1..Len(r)
    PROVE  LET t == SubSeq(r, k, Len(r))
           IN  /\ t \in Seq(S) /\ Len(t) = Len(r) - k + 1
               /\ \A i \in 1..(Len(r) - k + 1) : t[i] = r[k + i - 1]
<1> DEFINE t == SubSeq(r, k, Len(r))
<1>1. /\ Len(r) \in Nat /\ k \in Int /\ Len(r) \in Int /\ k <= Len(r)
      /\ \A i \in 1..Len(r) : r[i] \in S
  BY ElementOfSeq, LenProperties
<1>2. \A i \in k..Len(r) : r[i] \in S
  BY <1>1
<1>3. /\ t \in Seq(S)
      /\ Len(t) = IF k <= Len(r) THEN Len(r) - k + 1 ELSE 0
      /\ \A i \in 1..(Len(r) - k + 1) : t[i] = r[k + i - 1]
  BY <1>1, <1>2, SubSeqProperties
<1> QED BY <1>1, <1>3

\* The chunks that are left after the loop of push.
LEMMA KeptChunks ==
    ASSUME RingTypeOK, Layout, NEW c \in 1..MaxChunk, pushed + c <= MaxPushed,
           NEW k \in FirstKept(Append(tail, pushed), pushed + c),
           tail' = SubSeq(Append(tail, pushed), k, Len(Append(tail, pushed)))
    PROVE  /\ tail' \in Seq(0..MaxPushed) /\ tail' # <<>>
           /\ tail'[1] = Append(tail, pushed)[k]
           /\ \A i \in 1..Len(tail') : tail'[i] <= pushed
           /\ \A i, j \in 1..Len(tail') : i < j => tail'[i] < tail'[j]
           /\ Append(tail, pushed)[1] <= tail'[1]
           /\ (pushed + c) - tail'[1] <= HalfBytes \/ tail'[1] = pushed
           /\ Append(tail, pushed)[1] = IF tail = <<>> THEN pushed ELSE tail[1]
<1> DEFINE all == Append(tail, pushed)
           n == Len(tail)
           t == tail'
<1>0. pushed \in 0..MaxPushed /\ tail \in Seq(0..MaxPushed)
  BY DEF RingTypeOK
<1>1. /\ all \in Seq(0..MaxPushed) /\ Len(all) = n + 1 /\ n \in Nat
      /\ \A i \in 1..n : all[i] = tail[i]
      /\ all[n + 1] = pushed
  BY <1>0, AppendProperties, LenProperties
<1>2. /\ k \in 1..Len(all)
      /\ (pushed + c) - all[k] <= HalfBytes \/ k = Len(all)
  BY DEF FirstKept
<1>3. t = SubSeq(all, k, Len(all))
  OBVIOUS
<1> HIDE DEF all, n, t
<1>4. \A i \in 1..(n + 1) : all[i] \in 0..MaxPushed
  BY <1>1, ElementOfSeq
<1>5. \A i \in 1..(n + 1) : all[i] <= pushed /\ (i <= n => all[i] < pushed)
  <2> TAKE i \in 1..(n + 1)
  <2>1. CASE i = n + 1
    BY <1>0, <1>1, <2>1
  <2>2. CASE i \in 1..n
    BY <1>0, <1>1, <1>4, <2>2 DEF Layout, n
  <2> QED BY <1>1, <2>1, <2>2
<1>6. \A i, j \in 1..(n + 1) : i < j => all[i] < all[j]
  <2> SUFFICES ASSUME NEW i \in 1..(n + 1), NEW j \in 1..(n + 1), i < j PROVE all[i] < all[j]
    OBVIOUS
  <2>1. CASE j = n + 1
    BY <1>1, <1>5, <2>1
  <2>2. CASE j \in 1..n
    <3>1. i \in 1..n
      BY <1>1, <2>2
    <3> QED BY <1>1, <2>2, <3>1 DEF Layout, n
  <2> QED BY <1>1, <2>1, <2>2
<1>7. /\ t \in Seq(0..MaxPushed)
      /\ Len(t) = (n + 1) - k + 1
      /\ \A i \in 1..((n + 1) - k + 1) : t[i] = all[k + i - 1]
  <2>1. /\ t \in Seq(0..MaxPushed) /\ Len(t) = Len(all) - k + 1
        /\ \A i \in 1..(Len(all) - k + 1) : t[i] = all[k + i - 1]
    BY <1>1, <1>2, <1>3, FromElement
  <2> QED BY <1>1, <2>1
<1>8. Len(t) \in Nat /\ Len(t) >= 1 /\ k \in 1..(n + 1)
  BY <1>1, <1>2, <1>7
<1>9. t[1] = all[k]
  BY <1>1, <1>7, <1>8
<1>10. t # <<>>
  BY <1>8, EmptySeq
<1>11. \A i \in 1..Len(t) : k + i - 1 \in 1..(n + 1) /\ t[i] = all[k + i - 1]
  BY <1>1, <1>7, <1>8
<1>12. \A i \in 1..Len(t) : t[i] <= pushed
  BY <1>5, <1>11
<1>13. \A i, j \in 1..Len(t) : i < j => t[i] < t[j]
  <2> SUFFICES ASSUME NEW i \in 1..Len(t), NEW j \in 1..Len(t), i < j PROVE t[i] < t[j]
    OBVIOUS
  <2>1. /\ k + i - 1 \in 1..(n + 1) /\ t[i] = all[k + i - 1]
        /\ k + j - 1 \in 1..(n + 1) /\ t[j] = all[k + j - 1]
    BY <1>11
  <2>2. k + i - 1 < k + j - 1
    BY <1>8
  <2> QED BY <1>6, <2>1, <2>2
<1>14. all[1] <= t[1]
  <2>1. CASE k = 1
    BY <1>1, <1>4, <1>9, <2>1
  <2>2. CASE k # 1
    <3>1. 1 < k /\ 1 \in 1..(n + 1)
      BY <1>1, <1>8, <2>2
    <3>2. all[1] < all[k] /\ all[1] \in Int /\ all[k] \in Int
      BY <1>4, <1>6, <1>8, <3>1
    <3> QED BY <1>9, <3>2
  <2> QED BY <2>1, <2>2
<1>15. (pushed + c) - t[1] <= HalfBytes \/ t[1] = pushed
  BY <1>1, <1>2, <1>9, Zenon
<1>16. all[1] = IF tail = <<>> THEN pushed ELSE tail[1]
  <2>1. CASE tail = <<>>
    <3>1. n = 0
      BY <2>1 DEF n
    <3> QED BY <1>1, <2>1, <3>1
  <2>2. CASE tail # <<>>
    <3>1. n >= 1
      BY <1>0, <2>2, EmptySeq, LenProperties DEF n
    <3> QED BY <1>1, <2>2, <3>1
  <2> QED BY <2>1, <2>2
<1> QED BY <1>7, <1>9, <1>10, <1>12, <1>13, <1>14, <1>15, <1>16 DEF all, t

\* push keeps the newest chunk, counts what it shifts out, and stays within the halves.
LEMMA RingStep ==
    ASSUME OutputAssumption, RingInv, RingNext
    PROVE  RingInv'
<1>1. PICK c \in 1..MaxChunk : PushChunk(c)
  BY DEF RingNext
<1>2. /\ pushed + c <= MaxPushed /\ pushed' = pushed + c
      /\ c \in Nat /\ c >= 1 /\ pushed \in Nat /\ head \in Nat /\ elided \in Nat
      /\ MaxChunk \in Nat /\ HalfBytes \in Nat \ {0} /\ MaxPushed \in Nat
      /\ tail \in Seq(0..MaxPushed) /\ c <= MaxChunk
  BY <1>1 DEF PushChunk, RingInv, RingTypeOK, OutputAssumption
<1>3. CASE head < HalfBytes
  <2>1. head' = head + c /\ tail' = tail /\ elided' = elided
    BY <1>1, <1>3 DEF PushChunk
  <2>2. tail = <<>> /\ pushed = head /\ elided = 0
    BY <1>2, <1>3 DEF RingInv, Layout
  <2>3. RingTypeOK'
    BY <1>2, <2>1 DEF RingTypeOK
  <2>4. Layout'
    BY <1>2, <2>1, <2>2 DEF Layout
  <2>5. RingBounded'
    <3>1. TailBytes' = 0
      BY <2>1, <2>2 DEF TailBytes
    <3> QED BY <1>2, <1>3, <2>1, <2>2, <3>1 DEF RingBounded
  <2> QED BY <2>3, <2>4, <2>5 DEF RingInv
<1>4. CASE ~(head < HalfBytes)
  <2>1. PICK k \in FirstKept(Append(tail, pushed), pushed + c) :
          /\ tail' = SubSeq(Append(tail, pushed), k, Len(Append(tail, pushed)))
          /\ elided' = elided + (Append(tail, pushed)[k] - Append(tail, pushed)[1])
          /\ head' = head
    BY <1>1, <1>4 DEF PushChunk
  <2> DEFINE first == Append(tail, pushed)[1]
  <2>2. /\ tail' \in Seq(0..MaxPushed) /\ tail' # <<>>
        /\ tail'[1] = Append(tail, pushed)[k]
        /\ \A i \in 1..Len(tail') : tail'[i] <= pushed
        /\ \A i, j \in 1..Len(tail') : i < j => tail'[i] < tail'[j]
        /\ first <= tail'[1]
        /\ (pushed + c) - tail'[1] <= HalfBytes \/ tail'[1] = pushed
        /\ first = IF tail = <<>> THEN pushed ELSE tail[1]
    BY <1>2, <2>1, KeptChunks DEF RingInv
  <2> HIDE DEF first
  <2>3. \A i \in 1..Len(tail') : tail'[i] \in Nat
    BY <1>2, <2>2, ElementOfSeq
  <2>4. 1 \in 1..Len(tail')
    BY <2>2, EmptySeq, LenProperties
  <2>5. tail # <<>> => 1 \in 1..Len(tail) /\ tail[1] \in Nat
    <3>1. tail # <<>> => 1 \in 1..Len(tail)
      BY <1>2, EmptySeq, LenProperties
    <3> QED BY <1>2, <3>1, ElementOfSeq
  <2>6. first \in Nat /\ elided = first - head
    BY <1>2, <2>2, <2>5 DEF RingInv, Layout
  <2> DEFINE u == tail'[1]
  <2>7. u \in Nat /\ u <= pushed /\ first <= u
    BY <2>2, <2>3, <2>4
  <2>8. /\ (pushed + c) - u <= HalfBytes \/ u = pushed
        /\ elided' = elided + (u - first)
    BY <2>1, <2>2 DEF first
  <2> HIDE DEF u
  <2>9. elided' = u - head /\ elided' \in Nat
    BY <1>2, <2>6, <2>7, <2>8
  <2>10. head' = head /\ head' \in Nat
    BY <1>2, <2>1
  <2>11. RingTypeOK'
    BY <1>2, <2>2, <2>9, <2>10 DEF RingTypeOK
  <2>12. Layout'
    <3>1. head' >= HalfBytes /\ elided' = tail'[1] - head'
      BY <1>2, <1>4, <2>9, <2>10 DEF u
    <3>2. ASSUME NEW i \in 1..Len(tail') PROVE tail'[i] < pushed'
      BY <1>2, <2>2, <2>3
    <3> QED BY <2>2, <3>1, <3>2 DEF Layout
  <2>13. RingBounded'
    <3>1. TailBytes' = (pushed + c) - u
      BY <1>2, <2>2 DEF TailBytes, u
    <3>2. TailBytes' <= HalfBytes \/ TailBytes' <= MaxChunk
      BY <1>2, <2>7, <2>8, <3>1
    <3>3. head < HalfBytes + MaxChunk
      BY DEF RingInv, RingBounded
    <3>4. pushed' = head' + TailBytes' + elided'
      BY <1>2, <2>7, <2>9, <2>10, <3>1
    <3> QED BY <2>2, <2>10, <3>2, <3>3, <3>4 DEF RingBounded
  <2> QED BY <2>11, <2>12, <2>13 DEF RingInv
<1> QED BY <1>3, <1>4

-----------------------------------------------------------------------------
(* Both of them. *)

OutputInv == LogInv /\ RingInv

\* An empty log and an empty buffer satisfy the invariants.
LEMMA OutputInvInit == OutputAssumption /\ OutputInit => OutputInv
<1> SUFFICES ASSUME OutputAssumption, OutputInit PROVE OutputInv
  OBVIOUS
<1>1. LogTypeOK /\ Quiet
  BY DEF OutputInit, LogTypeOK, Quiet
<1>2. AtWork = {} /\ FlightNos = {} /\ \A w \in Writers : Nos(buffer[w]) = {}
  BY DEF OutputInit, AtWork, FlightNos, Nos
<1>3. Order
  BY <1>2 DEF OutputInit, Order, OneAtWork, Ahead, Apart, Behind, Kept
<1>4. <<>> \in Seq(0..MaxPushed) /\ Len(<<>>) = 0
  BY EmptySeq
<1>5. RingTypeOK /\ Layout
  BY <1>4 DEF OutputInit, RingTypeOK, Layout, OutputAssumption
<1>6. RingBounded
  BY DEF OutputInit, RingBounded, TailBytes, OutputAssumption
<1> QED BY <1>1, <1>3, <1>5, <1>6 DEF OutputInv, LogInv, RingInv

\* A step that leaves the log's variables alone leaves its invariant alone.
LEMMA LogUnchanged == LogInv /\ UNCHANGED logvars => LogInv'
<1> SUFFICES ASSUME LogInv, UNCHANGED logvars PROVE LogInv'
  OBVIOUS
<1>1. LogTypeOK' /\ Quiet' /\ (Clean' <=> Clean)
  BY DEF LogInv, logvars, LogTypeOK, Quiet, Clean
<1>2. /\ AtWork' = AtWork /\ Taken' = Taken /\ FlightNos' = FlightNos
      /\ InTable' = InTable /\ InFlight' = InFlight
      /\ UNCHANGED <<table, seqNo, buffer, flights, sent>>
  BY DEF logvars, AtWork, Taken, FlightNos, Nos, InTable, InFlight
<1>3. OneAtWork' = OneAtWork /\ Kept' = Kept
  BY <1>2 DEF OneAtWork, Kept
<1>4. Ahead' = Ahead /\ Apart' = Apart /\ Behind' = Behind
  BY <1>2 DEF Ahead, Apart, Behind, Nos
<1> QED BY <1>1, <1>3, <1>4 DEF LogInv, Order

\* Likewise for the ring buffer.
LEMMA RingUnchanged == RingInv /\ UNCHANGED ring => RingInv'
  BY DEF RingInv, ring, RingTypeOK, Layout, RingBounded, TailBytes

\* Log and ring buffer leave each other alone.
LEMMA OutputInvStep == OutputAssumption /\ OutputInv /\ [OutputNext]_ovars => OutputInv'
<1> SUFFICES ASSUME OutputAssumption, OutputInv, [OutputNext]_ovars PROVE OutputInv'
  OBVIOUS
<1>1. CASE LogNext
  <2>1. UNCHANGED ring
    BY <1>1 DEF LogNext, Start, Log, LastLog, ParseLog, Die, Land
  <2> QED BY <1>1, <2>1, LogInvStep, RingUnchanged DEF OutputInv
<1>2. CASE RingNext
  <2>1. UNCHANGED logvars
    BY <1>2 DEF RingNext, PushChunk
  <2> QED BY <1>2, <2>1, RingStep, LogUnchanged DEF OutputInv
<1>3. CASE UNCHANGED ovars
  BY <1>3, RingUnchanged, LogUnchanged DEF OutputInv, ovars
<1> QED BY <1>1, <1>2, <1>3 DEF OutputNext

\* The invariants hold throughout.
LEMMA OutputAlways == OutputSpec => []OutputInv
<1>1. OutputInit => OutputInv
  BY OutputAssumption, OutputInvInit
<1>2. OutputInv /\ [OutputNext]_ovars => OutputInv'
  BY OutputAssumption, OutputInvStep
<1> QED BY <1>1, <1>2, PTL DEF OutputSpec

\* For any redeliveries, batches and crashes: a line that RunLogWriter or appendLog sent is
\* in the table or on its way, unless two writers were at work at once or the last line of
\* a run filled its batch.
THEOREM NoLineDropped == OutputSpec => []LinesKept
<1>1. OutputInv => LinesKept
  BY DEF OutputInv, LogInv, Clean, Order, Kept, LinesKept
<1> QED BY <1>1, OutputAlways, PTL

\* For chunks of any size: StreamRingBuffer holds the beginning and the end of the output,
\* counts exactly what is missing between them, and never outgrows its halves by more than
\* a chunk.
THEOREM RingAddsUp == OutputSpec => []RingBounded
<1>1. OutputInv => RingBounded
  BY DEF OutputInv, RingInv
<1> QED BY <1>1, OutputAlways, PTL

-----------------------------------------------------------------------------
(* Side by side. *)

\* A behaviour of the four machines is one of each of the specifications.
LEMMA PartsRun == HandoversSpec => ProposalSpec /\ QueueSpec /\ OutputSpec
<1>1. HandoversInit => ProposalInit /\ QueueInit /\ OutputInit
  BY DEF HandoversInit
<1>2. [HandoversNext]_hvars => [ProposalNext]_pvars /\ [QueueNext]_qvars /\ [OutputNext]_ovars
  BY DEF HandoversNext, hvars, OutputNext
<1> QED BY <1>1, <1>2, PTL DEF HandoversSpec, ProposalSpec, QueueSpec, OutputSpec

\* The applies of a proposal, the remote queue with its bound, the run log and the ring
\* buffer keep to their domains, for any constants.
THEOREM TypesCorrect == HandoversSpec => []TypesOK
<1>1. ApplyInv /\ QueueInv /\ OutputInv => TypesOK
  BY DEF ApplyInv, QueueInv, OutputInv, LogInv, RingInv, LogTypeOK, RingTypeOK, OutputTypeOK,
         TypesOK
<1> QED BY <1>1, PartsRun, AlwaysInv, QueueAlways, OutputAlways, PTL
====
