---- MODULE Projection ----
(***************************************************************************)
(* The projection of a board's document into the tables nodes and edges:   *)
(* after each store of a room, projectBoard loads the rows, computes with  *)
(* diffBoardDoc which of them the document is ahead of, and applies that   *)
(* in a transaction, retrying on failure.  Users keep editing meanwhile.   *)
(* A row is taken only if the entry is newer by version, or by updatedAt   *)
(* within a version; both are fields of the entry, so a merge of offline   *)
(* edits and an undo can leave them equal or set them back.                *)
(***************************************************************************)
EXTENDS Naturals

CONSTANTS
    Nodes,       \* node ids (edges are projected in the same way)
    Attempts,    \* 1 + the number of DEFAULT_RETRY_POLICY.delays
    MaxEdits,    \* bound: changes users make in a behaviour
    MaxFaults    \* bound: rejected queries and crashes in a behaviour

ASSUME ProjectionAssumption ==
    /\ Attempts \in Nat \ {0}
    /\ MaxEdits \in Nat
    /\ MaxFaults \in Nat

VARIABLES
    clock, known,         \* changes so far; node ids handed out
    doc, past,            \* the room's document; what undo would restore
    away, base, far,      \* a replica that edits offline, and where it left
    dirty,                \* a store of the room is due
    pc, attempt, want,    \* projectBoard: its attempt, the diff it computed
    rows, failed,         \* the projected rows, board.projectionFailed
    faults

docVars == <<clock, known, doc, past>>
awayVars == <<away, base, far>>
projVars == <<pc, attempt, want>>
vars == <<docVars, awayVars, dirty, projVars, rows, failed, faults>>

\* An entry: version, updatedAt, and the set of changes its content shows.  A
\* change is named by the time it was made.
Times == 0..MaxEdits
Entries == [version : Times, stamp : Times, body : SUBSET Times]
Absent == [version |-> 0, stamp |-> 0, body |-> {}]

\* A row: the version copied from the entry, the row's own updatedAt (the time
\* of the upsert), and the content.
Rows == [version : Times, at : Times, body : SUBSET Times]
NoRow == [version |-> 0, at |-> 0, body |-> {}]

Empty == [n \in Nodes |-> Absent]

Init ==
    /\ clock = 0 /\ known = {}
    /\ doc = Empty /\ past = Empty
    /\ away = FALSE /\ base = Empty /\ far = Empty
    /\ dirty = FALSE
    /\ pc = "idle" /\ attempt = 0 /\ want = Empty
    /\ rows = [n \in Nodes |-> NoRow]
    /\ failed = FALSE
    /\ faults = 0
----
(* The document. *)

\* A mutation at time t: bumpUpdated counts version and sets updatedAt.
Bumped(e, t) == [version |-> e.version + 1, stamp |-> t, body |-> e.body \cup {t}]

\* addNodes under a fresh id, updateNode or moveNodes, removeNodes.
Changes(n, e) == IF e = Absent
                 THEN {Bumped(e, clock + 1) : x \in {n} \ known}
                 ELSE {Bumped(e, clock + 1), Absent}

\* Mutant: a change of the document does not arm the store.
EditUnarmed(n) ==
    /\ clock < MaxEdits
    /\ \E e \in Changes(n, doc[n]) : doc' = [doc EXCEPT ![n] = e]
    /\ past' = [past EXCEPT ![n] = doc[n]]
    /\ clock' = clock + 1
    /\ known' = known \cup {n}
    /\ UNCHANGED <<awayVars, dirty, projVars, rows, failed, faults>>

\* A connected client's change is in the room at once.
Edit(n) ==
    /\ clock < MaxEdits
    /\ \E e \in Changes(n, doc[n]) : doc' = [doc EXCEPT ![n] = e]
    /\ past' = [past EXCEPT ![n] = doc[n]]
    /\ clock' = clock + 1
    /\ known' = known \cup {n}
    /\ dirty' = TRUE
    /\ UNCHANGED <<awayVars, projVars, rows, failed, faults>>

\* Undo, and redo after it: the fields of the entry, version and updatedAt
\* among them, go back to what they were.
Undo(n) ==
    /\ past[n] # doc[n]
    /\ doc' = [doc EXCEPT ![n] = past[n]]
    /\ past' = [past EXCEPT ![n] = doc[n]]
    /\ dirty' = TRUE
    /\ UNCHANGED <<clock, known, awayVars, projVars, rows, failed, faults>>

GoOffline ==
    /\ ~away
    /\ away' = TRUE
    /\ base' = doc
    /\ far' = doc
    /\ UNCHANGED <<docVars, dirty, projVars, rows, failed, faults>>

EditOffline(n) ==
    /\ away
    /\ clock < MaxEdits
    /\ \E e \in Changes(n, far[n]) : far' = [far EXCEPT ![n] = e]
    /\ clock' = clock + 1
    /\ known' = known \cup {n}
    /\ UNCHANGED <<doc, past, away, base, dirty, projVars, rows, failed, faults>>

\* What Yjs makes of two versions of an entry: a removal wins; of a field both
\* set, one value wins (version and updatedAt among them, so they come from
\* one side); changes to different fields are both kept.
Merged(b, d, f) ==
    IF f = b THEN {d}
    ELSE IF d = b THEN {f}
    ELSE IF Absent \in {d, f} THEN {Absent}
    ELSE {[w EXCEPT !.body = x] : w \in {d, f}, x \in {d.body \cup f.body}}
             \cup {d, f}

\* The replica reconnects.  An undo across a merge is left out.
Reconnect ==
    /\ away
    /\ doc' \in {m \in [Nodes -> UNION {Merged(base[n], doc[n], far[n]) : n \in Nodes}] :
                    \A n \in Nodes : m[n] \in Merged(base[n], doc[n], far[n])}
    /\ past' = [n \in Nodes |-> IF doc'[n] = doc[n] THEN past[n] ELSE doc'[n]]
    /\ dirty' = (dirty \/ doc' # doc)
    /\ away' = FALSE
    /\ base' = Empty
    /\ far' = Empty
    /\ UNCHANGED <<clock, known, projVars, rows, failed, faults>>
----
(* projectBoard. *)

Fault == /\ faults < MaxFaults
         /\ faults' = faults + 1

\* Mutant: only the times are compared.
IsNewerByTime(r, e) == r = NoRow \/ e.stamp > r.at

\* isNewer compares the entry with the row's version and the row's updatedAt.
IsNewer(r, e) ==
    \/ r = NoRow
    \/ e.version > r.version
    \/ e.version = r.version /\ e.stamp > r.at

\* The store hook has written the snapshot and calls projectBoard.
StartProjection ==
    /\ dirty
    /\ pc = "idle"
    /\ pc' = "load"
    /\ attempt' = 1
    /\ dirty' = FALSE
    /\ UNCHANGED <<docVars, awayVars, want, rows, failed, faults>>

\* loadPriorState answers; diffBoardDoc reads the document as it is now.
Diff ==
    /\ pc = "load"
    /\ pc' = "diffed"
    /\ want' = doc
    /\ UNCHANGED <<docVars, awayVars, dirty, attempt, rows, failed, faults>>

\* The row of n after the diff: deleted, upserted, or left.
NextRow(n, r) ==
    IF want[n] = Absent THEN NoRow
    ELSE IF IsNewer(r, want[n])
         THEN [version |-> want[n].version, at |-> clock, body |-> want[n].body]
         ELSE r

\* applyDiff commits.
ApplyDiff ==
    /\ pc = "diffed"
    /\ pc' = "applied"
    /\ rows' = [n \in Nodes |-> NextRow(n, rows[n])]
    /\ want' = Empty
    /\ UNCHANGED <<docVars, awayVars, dirty, attempt, failed, faults>>

MarkProjected ==
    /\ pc = "applied"
    /\ pc' = "idle"
    /\ attempt' = 0
    /\ failed' = FALSE
    /\ UNCHANGED <<docVars, awayVars, dirty, want, rows, faults>>

\* Mutant: the last retry is not made.
AttemptFailsEarly ==
    /\ pc \in {"load", "diffed", "applied"}
    /\ Fault
    /\ want' = Empty
    /\ IF attempt + 1 < Attempts
       THEN pc' = "load" /\ attempt' = attempt + 1
       ELSE pc' = "gaveUp" /\ attempt' = 0
    /\ UNCHANGED <<docVars, awayVars, dirty, rows, failed>>

\* Mutant: one retry more than there are delays.
AttemptFailsOnceMore ==
    /\ pc \in {"load", "diffed", "applied"}
    /\ Fault
    /\ want' = Empty
    /\ IF attempt <= Attempts
       THEN pc' = "load" /\ attempt' = attempt + 1
       ELSE pc' = "gaveUp" /\ attempt' = 0
    /\ UNCHANGED <<docVars, awayVars, dirty, rows, failed>>

\* A query of the attempt rejects: the next one, after a delay, starts over.
AttemptFails ==
    /\ pc \in {"load", "diffed", "applied"}
    /\ Fault
    /\ want' = Empty
    /\ IF attempt < Attempts
       THEN pc' = "load" /\ attempt' = attempt + 1
       ELSE pc' = "gaveUp" /\ attempt' = 0
    /\ UNCHANGED <<docVars, awayVars, dirty, rows, failed>>

MarkProjectionFailed ==
    /\ pc = "gaveUp"
    /\ pc' = "idle"
    /\ failed' = TRUE
    /\ UNCHANGED <<docVars, awayVars, dirty, attempt, want, rows, faults>>

\* The process dies, or markProjectionFailed rejects: the snapshot is stored,
\* and nothing projects it until the document changes again.
ProjectionLost ==
    /\ pc # "idle"
    /\ Fault
    /\ pc' = "idle"
    /\ attempt' = 0
    /\ want' = Empty
    /\ UNCHANGED <<docVars, awayVars, dirty, rows, failed>>
----
Users == \/ \E n \in Nodes : Edit(n) \/ Undo(n) \/ EditOffline(n)
         \/ GoOffline \/ Reconnect

Projector == \/ StartProjection \/ Diff \/ ApplyDiff \/ MarkProjected
             \/ AttemptFails \/ MarkProjectionFailed \/ ProjectionLost

Next == Users \/ Projector

\* The debounced hook runs, and its queries answer or reject.
Fairness == /\ WF_vars(StartProjection) /\ WF_vars(Diff) /\ WF_vars(ApplyDiff)
            /\ WF_vars(MarkProjected) /\ WF_vars(MarkProjectionFailed)

Spec == Init /\ [][Next]_vars
FairSpec == Spec /\ Fairness
----
(* Properties. *)

\* Every variable keeps to its domain.
TypeOK ==
    /\ clock \in Times /\ known \subseteq Nodes
    /\ doc \in [Nodes -> Entries] /\ past \in [Nodes -> Entries]
    /\ away \in BOOLEAN
    /\ base \in [Nodes -> Entries] /\ far \in [Nodes -> Entries]
    /\ dirty \in BOOLEAN
    /\ pc \in {"idle", "load", "diffed", "applied", "gaveUp"}
    /\ attempt \in 0..Attempts
    /\ want \in [Nodes -> Entries]
    /\ rows \in [Nodes -> Rows]
    /\ failed \in BOOLEAN
    /\ faults \in 0..MaxFaults

\* The row shows the entry: same content, or neither exists.
InLine(n) == /\ rows[n].body = doc[n].body
             /\ rows[n].version = doc[n].version

\* Nothing is being projected and nothing is due.
AtRest == pc = "idle" /\ ~dirty

\* The row is as new as the entry by the order isNewer goes by.
NotBehind(n) ==
    /\ doc[n] # Absent
    /\ \/ doc[n].version < rows[n].version
       \/ doc[n].version = rows[n].version /\ doc[n].stamp <= rows[n].at

\* After a projection a row differs from its entry only if it is not behind by
\* version and updatedAt: whatever was edited while it ran, or removed, is
\* projected by the next one.  Only a fault excuses more.
BehindOnlyInVersion ==
    AtRest /\ faults = 0 => \A n \in Nodes : InLine(n) \/ NotBehind(n)

\* A row that stands never goes back to an earlier version: a retry computes
\* its diff anew, and diffBoardDoc offers nothing older than the row.
RowsNeverGoBack ==
    [][\A n \in Nodes :
         rows[n].version <= rows'[n].version \/ rows'[n] = NoRow]_vars

\* projectionFailed is raised only when every attempt of a projection failed.
FlaggedAfterAllAttempts == failed => faults >= Attempts

\* A version the rows lack is projected in the end, unless something failed.
VersionsAreProjected ==
    \A n \in Nodes :
        doc[n].version > rows[n].version
            ~> (doc[n].version <= rows[n].version \/ faults > 0)

\* A projection is "what a projector must do to bring `nodes`/`edges` rows in
\* line with the doc": with nothing due and nothing failed they are.
RowsInLine == AtRest /\ faults = 0 => \A n \in Nodes : InLine(n)
====
