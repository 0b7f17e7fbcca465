---- MODULE RunOutput ----
(***************************************************************************)
(* What a run leaves behind besides its result: the structured log, which  *)
(* every attempt of the runner (runlog.ts) and the parse worker append to  *)
(* one table, and the two ends of the tool's output (StreamRingBuffer of   *)
(* artifacts.ts).                                                          *)
(*                                                                         *)
(* A log line is the pair of its writer and its number there.  A batch     *)
(* that was sent and has not reached the table yet is in flight; a runner  *)
(* that dies takes its buffer with it, and its flights land or are lost.   *)
(* Texts, levels, scrubbing and the publish to the channel are left out.   *)
(* A chunk in the tail of the ring buffer is the offset in the tool's      *)
(* output where it begins; it ends where the next one does.                *)
(***************************************************************************)
EXTENDS Integers, FiniteSets, Sequences

CONSTANTS
    Attempts,    \* runJob for the first delivery and its redeliveries
    Parses,      \* processParseJob, likewise
    FlushEvery,  \* lines a writer buffers
    MaxLines,    \* bound: lines a runner logs before its last one
    HalfBytes,   \* STREAM_HALF_BYTES
    MaxChunk,    \* bound: size of one chunk
    MaxPushed    \* bound: bytes the tool writes

ASSUME OutputAssumption ==
    /\ Attempts \cap Parses = {}
    /\ FlushEvery \in Nat \ {0} /\ MaxLines \in Nat
    /\ HalfBytes \in Nat \ {0} /\ MaxChunk \in Nat \ {0} /\ MaxPushed \in Nat

VARIABLES
    table,      \* run_log_entries: <<seq, line>>
    wst,        \* where each writer is
    seqNo,      \* RunLogWriter.seq, and appendLog's
    buffer,     \* RunLogWriter.buffer
    flights,    \* batches sent, with their writer
    sent,       \* (history) lines sent to the table by a writer that went on
    overlapped, \* (history) two writers were at work at once
    unawaited,  \* (history) a run was handed over with a batch still in flight
    head, tail, elided, pushed   \* the ring buffer and what it was given

logvars == <<table, wst, seqNo, buffer, flights, sent, overlapped, unawaited>>
ring == <<head, tail, elided, pushed>>
ovars == <<logvars, ring>>

Writers == Attempts \cup Parses
Lines == Writers \X Nat

OutputTypeOK ==
    /\ table \subseteq Nat \X Lines
    /\ wst \in [Writers -> {"off", "open", "flushing", "closed", "dead"}]
    /\ seqNo \in [Writers -> Nat] /\ buffer \in [Writers -> SUBSET (Nat \X Lines)]
    /\ flights \subseteq Writers \X SUBSET (Nat \X Lines)
    /\ sent \subseteq Lines
    /\ overlapped \in BOOLEAN /\ unawaited \in BOOLEAN
    /\ tail \in Seq(0..MaxPushed)
    /\ head \in Nat /\ elided \in Nat /\ pushed \in 0..MaxPushed

OutputInit ==
    /\ table = {} /\ wst = [w \in Writers |-> "off"]
    /\ seqNo = [w \in Writers |-> 0] /\ buffer = [w \in Writers |-> {}]
    /\ flights = {} /\ sent = {} /\ overlapped = FALSE /\ unawaited = FALSE
    /\ head = 0 /\ tail = <<>> /\ elided = 0 /\ pushed = 0

-----------------------------------------------------------------------------
(* The log. *)

\* MUTANT: the number of the last line, not the one after it
NextSeqLast == {k \in {0} \cup {r[1] : r \in table} : \A r \in table : r[1] <= k}

\* nextSeq: 0, or the number after the last one in the table
NextSeq == {k \in {0} \cup {r[1] + 1 : r \in table} : \A r \in table : r[1] < k}

Taken == {r[1] : r \in table}

\* createMany with skipDuplicates: rows whose number is taken are dropped
Inserted(batch) == table \cup {r \in batch : r[1] \notin Taken}

AtWork == {w \in Writers : wst[w] \in {"open", "flushing"}}

\* runJob: writer.start; processParseJob: appendLog reads the last number.  A job is
\* delivered again when its worker died or only seemed to.
Start(w) ==
    /\ wst[w] = "off"
    /\ w \in Parses => \E a \in Attempts : wst[a] = "closed"
    /\ wst' = [wst EXCEPT ![w] = "open"]
    /\ \E k \in NextSeq : seqNo' = [seqNo EXCEPT ![w] = k]
    /\ overlapped' = (overlapped \/ AtWork # {})
    /\ UNCHANGED <<table, buffer, flights, sent, unawaited, ring>>

\* log: one more line, and at FlushEvery a batch leaves that nobody waits for
Log(w) ==
    /\ w \in Attempts /\ wst[w] = "open" /\ seqNo[w] < MaxLines
    /\ LET b == buffer[w] \cup {<<seqNo[w], <<w, seqNo[w]>>>>}
       IN  IF Cardinality(b) >= FlushEvery
           THEN /\ flights' = flights \cup {<<w, b>>}
                /\ sent' = sent \cup {r[2] : r \in b}
                /\ buffer' = [buffer EXCEPT ![w] = {}]
           ELSE /\ buffer' = [buffer EXCEPT ![w] = b] /\ UNCHANGED <<flights, sent>>
    /\ seqNo' = [seqNo EXCEPT ![w] = @ + 1]
    /\ UNCHANGED <<table, wst, overlapped, unawaited, ring>>

\* the last line of the run, then await flush: with the buffer just emptied by that
\* line there is nothing to wait for, and the run is handed over at once
LastLog(w) ==
    /\ w \in Attempts /\ wst[w] = "open"
    /\ LET b == buffer[w] \cup {<<seqNo[w], <<w, seqNo[w]>>>>}
           full == Cardinality(b) >= FlushEvery
       IN  /\ flights' = flights \cup {<<w, b>>}
           /\ sent' = sent \cup {r[2] : r \in b}
           /\ wst' = [wst EXCEPT ![w] = IF full THEN "closed" ELSE "flushing"]
           /\ unawaited' = (unawaited \/ full)
    /\ buffer' = [buffer EXCEPT ![w] = {}]
    /\ seqNo' = [seqNo EXCEPT ![w] = @ + 1]
    /\ UNCHANGED <<table, overlapped, ring>>

\* the batch reaches the table; the awaited one lets runJob go on
Land(f) ==
    /\ f \in flights
    /\ table' = Inserted(f[2])
    /\ flights' = flights \ {f}
    /\ wst' = [wst EXCEPT ![f[1]] =
                   IF @ = "flushing" /\ \E r \in f[2] : r[1] = seqNo[f[1]] - 1
                   THEN "closed" ELSE @]
    /\ UNCHANGED <<seqNo, buffer, sent, overlapped, unawaited, ring>>

\* appendLog: the lines of the parse, numbered from what it read
ParseLog(w) ==
    /\ w \in Parses /\ wst[w] = "open"
    /\ \E n \in 1..2 :
         LET b == {<<seqNo[w] + i, <<w, i>>>> : i \in 0..(n - 1)}
         IN  /\ table' = Inserted(b)
             /\ sent' = sent \cup {r[2] : r \in b}
    /\ wst' = [wst EXCEPT ![w] = "closed"]
    /\ UNCHANGED <<seqNo, buffer, flights, overlapped, unawaited, ring>>

\* the process dies: what it had not sent is gone, what it had sent may be
Die(w) ==
    /\ wst[w] \in {"open", "flushing"}
    /\ wst' = [wst EXCEPT ![w] = "dead"]
    /\ buffer' = [buffer EXCEPT ![w] = {}]
    /\ LET mine == {f \in flights : f[1] = w}
       IN  /\ flights' = flights \ mine
           /\ sent' = sent \ UNION {{r[2] : r \in f[2]} : f \in mine}
    /\ UNCHANGED <<table, seqNo, overlapped, unawaited, ring>>

-----------------------------------------------------------------------------
(* The ring buffer. *)

\* tailBytes
TailBytes == IF tail = <<>> THEN 0 ELSE pushed - tail[1]

\* MUTANT: the new chunk is not counted before the loop
FirstKeptEarly(all, end) ==
    {k \in 1..Len(all) :
        /\ all[Len(all)] - all[k] <= HalfBytes \/ k = Len(all)
        /\ \A j \in 1..(k - 1) : all[Len(all)] - all[j] > HalfBytes}

\* the loop of push: chunks are shifted while over the half and more than one is left
FirstKept(all, end) ==
    {k \in 1..Len(all) :
        /\ end - all[k] <= HalfBytes \/ k = Len(all)
        /\ \A j \in 1..(k - 1) : end - all[j] > HalfBytes}

\* push(chunk)
PushChunk(c) ==
    /\ pushed + c <= MaxPushed
    /\ pushed' = pushed + c
    /\ IF head < HalfBytes
       THEN head' = head + c /\ UNCHANGED <<tail, elided>>
       ELSE /\ LET all == Append(tail, pushed)
               IN  \E k \in FirstKept(all, pushed + c) :
                     /\ tail' = SubSeq(all, k, Len(all))
                     /\ elided' = elided + (all[k] - all[1])
            /\ UNCHANGED head
    /\ UNCHANGED logvars

LogNext ==
    \/ \E w \in Writers : Start(w) \/ Log(w) \/ LastLog(w) \/ ParseLog(w) \/ Die(w)
    \/ \E f \in flights : Land(f)

RingNext == \E c \in 1..MaxChunk : PushChunk(c)

OutputNext == LogNext \/ RingNext

OutputSpec == OutputInit /\ [][OutputNext]_ovars

-----------------------------------------------------------------------------
InTable == {r[2] : r \in table}
InFlight == UNION {{r[2] : r \in f[2]} : f \in flights}

\* "The log is totally ordered even when the runner and the worker both write"
\* (runlog.ts): a line that was sent is in the table or on its way, and one that was on
\* its way is never dropped for a number already taken, unless two writers were at work
\* at once (a redelivery of a run that was not dead) or the run's last line filled the
\* batch, so that the await of flush waited for nothing.
LinesKept == ~overlapped /\ ~unawaited => sent \subseteq InTable \cup InFlight

\* StreamRingBuffer keeps the beginning and the end of the output and says how much it left
\* out: what lies between the two halves is what `elided` counts, the newest chunk is always
\* kept, and each half stays within STREAM_HALF_BYTES but for one chunk.
RingBounded ==
    /\ pushed = head + TailBytes + elided
    /\ head < HalfBytes + MaxChunk
    /\ TailBytes <= HalfBytes \/ TailBytes <= MaxChunk
    /\ pushed > head => tail # <<>>
====
