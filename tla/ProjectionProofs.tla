---- MODULE ProjectionProofs ----
(***************************************************************************)
(* For every set of nodes and every retry policy: rows never go back, and  *)
(* at rest and without faults they are behind the document only in the     *)
(* sense of isNewer.                                                       *)
(***************************************************************************)
EXTENDS Projection, TLAPS

\* No entry counts more versions than there were changes.
VersionsCounted == \A n \in Nodes : /\ doc[n].version <= clock
                                    /\ past[n].version <= clock
                                    /\ base[n].version <= clock
                                    /\ far[n].version <= clock

\* While no change is due, the diff is that of the document, and the rows are
\* as its application leaves them; giving up takes a fault.
DiffIsCurrent ==
    faults = 0 =>
        /\ pc # "gaveUp"
        /\ ~dirty /\ pc = "diffed" => want = doc
        /\ ~dirty /\ pc \in {"idle", "applied"} =>
               \A n \in Nodes : InLine(n) \/ NotBehind(n)

\* The inductive invariant.
IInv == TypeOK /\ VersionsCounted /\ DiffIsCurrent

----
\* A change of an entry counts at most one version.
LEMMA ChangesType ==
    ASSUME TypeOK, clock < MaxEdits, NEW n \in Nodes,
           NEW f \in Entries, f.version <= clock, NEW e \in Changes(n, f)
    PROVE  e \in Entries /\ e.version <= clock + 1
<1>1. clock + 1 \in Times /\ 0 \in Times /\ f.version + 1 \in Times
  BY ProjectionAssumption DEF TypeOK, Times, Entries
<1>2. Bumped(f, clock + 1) \in Entries /\ Bumped(f, clock + 1).version <= clock + 1
  BY <1>1 DEF Bumped, Entries, Times, TypeOK
<1>3. Absent \in Entries /\ Absent.version <= clock + 1
  BY <1>1 DEF Absent, Entries, TypeOK, Times
<1>4. e \in {Bumped(f, clock + 1), Absent}
  BY DEF Changes
<1> QED BY <1>2, <1>3, <1>4

\* A merge invents no version.
LEMMA MergedType ==
    ASSUME TypeOK, NEW b \in Entries, NEW d \in Entries, NEW f \in Entries,
           d.version <= clock, f.version <= clock, NEW e \in Merged(b, d, f)
    PROVE  e \in Entries /\ e.version <= clock
<1>1. Absent \in Entries /\ Absent.version <= clock
  BY ProjectionAssumption DEF Absent, Entries, TypeOK, Times
<1>2. ASSUME NEW w \in {d, f}
      PROVE  /\ [w EXCEPT !.body = d.body \cup f.body] \in Entries
             /\ [w EXCEPT !.body = d.body \cup f.body].version <= clock
  BY DEF Entries
<1>3. e \in {d, f, Absent} \/ \E w \in {d, f} : e = [w EXCEPT !.body = d.body \cup f.body]
  BY DEF Merged
<1> QED BY <1>1, <1>2, <1>3

\* The board before the first node is a document of absent entries.
LEMMA EmptyType == Empty \in [Nodes -> Entries]
  BY ProjectionAssumption DEF Empty, Absent, Entries, Times

\* The row applyDiff leaves is a row, and shows the entry or is not behind it.
LEMMA NextRowShows ==
    ASSUME TypeOK, NEW n \in Nodes
    PROVE  /\ NextRow(n, rows[n]) \in Rows
           /\ \/ /\ NextRow(n, rows[n]).body = want[n].body
                 /\ NextRow(n, rows[n]).version = want[n].version
              \/ /\ want[n] # Absent
                 /\ NextRow(n, rows[n]) = rows[n]
                 /\ \/ want[n].version < rows[n].version
                    \/ want[n].version = rows[n].version /\ want[n].stamp <= rows[n].at
<1>1. want[n] \in Entries /\ rows[n] \in Rows /\ clock \in Times
  BY DEF TypeOK
<1>2. CASE want[n] = Absent
  BY <1>2, ProjectionAssumption DEF NextRow, NoRow, Absent, Rows, Times
<1>3. CASE want[n] # Absent /\ IsNewer(rows[n], want[n])
  BY <1>1, <1>3 DEF NextRow, Rows, Entries
<1>4. CASE want[n] # Absent /\ ~IsNewer(rows[n], want[n])
  BY <1>1, <1>4 DEF NextRow, IsNewer, Rows, Entries, Times
<1> QED BY <1>2, <1>3, <1>4

----
\* A new board, with no rows and nothing due, satisfies the invariant.
LEMMA InitIInv == Init => IInv
<1> SUFFICES ASSUME Init PROVE IInv OBVIOUS
<1>1. NoRow \in Rows
  BY ProjectionAssumption DEF NoRow, Rows, Times
<1>0. 0 \in Times /\ 0 \in 0..Attempts /\ 0 \in 0..MaxFaults
  BY ProjectionAssumption DEF Times
<1>2. TypeOK
  BY <1>0, <1>1, EmptyType DEF Init, TypeOK
<1>a. clock = 0 /\ doc = Empty /\ past = Empty /\ base = Empty /\ far = Empty
  BY DEF Init
<1>b. \A n \in Nodes : Empty[n].version <= 0
  <2>1. Absent.version = 0 /\ 0 <= 0
    BY DEF Absent
  <2> QED BY <2>1, Zenon DEF Empty
<1>3. VersionsCounted
  BY <1>a, <1>b, Zenon DEF VersionsCounted
<1>4. DiffIsCurrent
  BY DEF Init, DiffIsCurrent, InLine, Empty, Absent, NoRow
<1> QED BY <1>2, <1>3, <1>4 DEF IInv

\* Every step of users and projector keeps the types and the version bound.
LEMMA NextType == IInv /\ [Next]_vars => TypeOK' /\ VersionsCounted'
<1> SUFFICES ASSUME IInv, [Next]_vars PROVE TypeOK' /\ VersionsCounted' OBVIOUS
<1>t. TypeOK /\ VersionsCounted
  BY DEF IInv
<1>a. 0 \in 0..Attempts /\ 1 \in 0..Attempts
  BY ProjectionAssumption
<1>1. ASSUME NEW n \in Nodes, Edit(n) PROVE TypeOK' /\ VersionsCounted'
  <2>1. doc[n] \in Entries /\ doc[n].version <= clock
    BY <1>t DEF TypeOK, VersionsCounted
  <2>2. PICK e \in Changes(n, doc[n]) : doc' = [doc EXCEPT ![n] = e]
    BY <1>1 DEF Edit
  <2>3. e \in Entries /\ e.version <= clock + 1
    BY <1>1, <1>t, <2>1, <2>2, ChangesType DEF Edit
  <2>c. clock + 1 \in Times
    BY <1>1, <1>t, ProjectionAssumption DEF TypeOK, Edit, Times
  <2>4. TypeOK'
    BY <1>1, <1>t, <2>c, <2>2, <2>3 DEF TypeOK, Edit, awayVars, projVars
  <2>5. \A m \in Nodes : doc'[m].version <= clock + 1 /\ past'[m].version <= clock + 1
    BY <1>1, <1>t, <2>1, <2>2, <2>3 DEF TypeOK, VersionsCounted, Edit, Entries, Times
  <2>6. \A m \in Nodes : base'[m].version <= clock + 1 /\ far'[m].version <= clock + 1
    BY <1>1, <1>t DEF TypeOK, VersionsCounted, Edit, Entries, Times, awayVars
  <2> QED BY <1>1, <2>4, <2>5, <2>6 DEF VersionsCounted, Edit
<1>2. ASSUME NEW n \in Nodes, Undo(n) PROVE TypeOK' /\ VersionsCounted'
  BY <1>2, <1>t DEF TypeOK, VersionsCounted, Undo, awayVars, projVars
<1>3. ASSUME NEW n \in Nodes, EditOffline(n) PROVE TypeOK' /\ VersionsCounted'
  <2>1. far[n] \in Entries /\ far[n].version <= clock
    BY <1>t DEF TypeOK, VersionsCounted
  <2>2. PICK e \in Changes(n, far[n]) : far' = [far EXCEPT ![n] = e]
    BY <1>3 DEF EditOffline
  <2>3. e \in Entries /\ e.version <= clock + 1
    BY <1>3, <1>t, <2>1, <2>2, ChangesType DEF EditOffline
  <2>c. clock + 1 \in Times
    BY <1>3, <1>t, ProjectionAssumption DEF TypeOK, EditOffline, Times
  <2>4. TypeOK'
    BY <1>3, <1>t, <2>c, <2>2, <2>3 DEF TypeOK, EditOffline, projVars
  <2>5. \A m \in Nodes : far'[m].version <= clock + 1
    BY <1>t, <2>2, <2>3 DEF TypeOK, VersionsCounted, Entries, Times
  <2>6. \A m \in Nodes : /\ doc'[m].version <= clock + 1
                         /\ past'[m].version <= clock + 1
                         /\ base'[m].version <= clock + 1
    BY <1>3, <1>t DEF TypeOK, VersionsCounted, EditOffline, Entries, Times
  <2> QED BY <1>3, <2>4, <2>5, <2>6 DEF VersionsCounted, EditOffline
<1>4. CASE GoOffline
  BY <1>4, <1>t DEF TypeOK, VersionsCounted, GoOffline, docVars, projVars
<1>5. CASE Reconnect
  <2>1. ASSUME NEW n \in Nodes
        PROVE  doc'[n] \in Entries /\ doc'[n].version <= clock
    <3>1. doc'[n] \in Merged(base[n], doc[n], far[n])
      BY <1>5 DEF Reconnect
    <3> QED BY <1>t, <3>1, MergedType DEF TypeOK, VersionsCounted
  <2>2. doc' \in [Nodes -> Entries]
    BY <1>5, <2>1 DEF Reconnect
  <2>3. past' \in [Nodes -> Entries] /\ \A n \in Nodes : past'[n].version <= clock
    BY <1>5, <1>t, <2>1 DEF Reconnect, TypeOK, VersionsCounted
  <2>4. \A n \in Nodes : Empty[n].version <= clock
    BY <1>t, ProjectionAssumption DEF Empty, Absent, TypeOK, Times
  <2>5. dirty' \in BOOLEAN
    BY <1>5 DEF Reconnect
  <2> QED
    BY <1>5, <1>t, <2>1, <2>2, <2>3, <2>4, <2>5, EmptyType
    DEF Reconnect, TypeOK, VersionsCounted, projVars
<1>6. CASE StartProjection
  BY <1>6, <1>t, <1>a DEF StartProjection, TypeOK, VersionsCounted, docVars, awayVars
<1>7. CASE Diff
  BY <1>7, <1>t DEF Diff, TypeOK, VersionsCounted, docVars, awayVars
<1>8. CASE ApplyDiff
  <2>1. rows' \in [Nodes -> Rows]
    BY <1>8, <1>t, NextRowShows DEF ApplyDiff
  <2> QED BY <1>8, <1>t, <2>1, EmptyType DEF ApplyDiff, TypeOK, VersionsCounted, docVars, awayVars
<1>9. CASE MarkProjected
  BY <1>9, <1>t, <1>a DEF MarkProjected, TypeOK, VersionsCounted, docVars, awayVars
<1>10. CASE AttemptFails
  <2>1. attempt' \in 0..Attempts /\ faults' \in 0..MaxFaults
    BY <1>10, <1>t, ProjectionAssumption DEF AttemptFails, Fault, TypeOK
  <2> QED BY <1>10, <1>t, <2>1, EmptyType DEF AttemptFails, TypeOK, VersionsCounted, docVars, awayVars
<1>11. CASE MarkProjectionFailed
  BY <1>11, <1>t DEF MarkProjectionFailed, TypeOK, VersionsCounted, docVars, awayVars
<1>12. CASE ProjectionLost
  <2>1. faults' \in 0..MaxFaults
    BY <1>12, <1>t, ProjectionAssumption DEF ProjectionLost, Fault, TypeOK
  <2> QED
    BY <1>12, <1>t, <1>a, <2>1, EmptyType
    DEF ProjectionLost, TypeOK, VersionsCounted, docVars, awayVars
<1>13. CASE UNCHANGED vars
  BY <1>13, <1>t DEF vars, docVars, awayVars, projVars, TypeOK, VersionsCounted
<1> QED
  BY <1>1, <1>2, <1>3, <1>4, <1>5, <1>6, <1>7, <1>8, <1>9, <1>10, <1>11, <1>12, <1>13
  DEF Next, Users, Projector

\* Every step keeps the diff current: a change of the document makes a store
\* due, a fault is counted, and applyDiff leaves rows that are not behind.
LEMMA NextDiff == IInv /\ [Next]_vars => DiffIsCurrent'
<1> SUFFICES ASSUME IInv, [Next]_vars, faults' = 0 PROVE DiffIsCurrent'
  BY DEF DiffIsCurrent
<1>t. TypeOK /\ DiffIsCurrent
  BY DEF IInv
<1>0. faults = 0 => /\ pc # "gaveUp"
                    /\ ~dirty /\ pc = "diffed" => want = doc
                    /\ ~dirty /\ pc \in {"idle", "applied"} =>
                           \A n \in Nodes : InLine(n) \/ NotBehind(n)
  BY <1>t DEF DiffIsCurrent
<1>1. ASSUME NEW n \in Nodes, Edit(n) \/ Undo(n) PROVE DiffIsCurrent'
  BY <1>1, <1>0 DEF Edit, Undo, DiffIsCurrent, projVars
<1>2. ASSUME UNCHANGED <<doc, dirty, pc, want, rows, faults>> PROVE DiffIsCurrent'
  BY <1>2, <1>0 DEF DiffIsCurrent, InLine, NotBehind
<1>3. CASE Reconnect
  <2>1. CASE doc' = doc /\ ~dirty
    <3>1. UNCHANGED <<doc, pc, want, rows, faults>> /\ ~dirty
      BY <1>3, <2>1 DEF Reconnect, projVars
    <3> QED BY <3>1, <1>0 DEF DiffIsCurrent, InLine, NotBehind
  <2>2. CASE doc' # doc \/ dirty
    <3>1. dirty' /\ UNCHANGED <<pc, faults>>
      BY <1>3, <2>2 DEF Reconnect, projVars
    <3> QED BY <3>1, <1>0 DEF DiffIsCurrent
  <2> QED BY <2>1, <2>2
<1>4. CASE StartProjection
  BY <1>4 DEF StartProjection, DiffIsCurrent
<1>5. CASE Diff
  BY <1>5 DEF Diff, DiffIsCurrent, docVars
<1>6. CASE ApplyDiff
  <2>1. faults = 0 /\ doc' = doc /\ dirty' = dirty /\ pc = "diffed" /\ pc' = "applied"
    BY <1>6 DEF ApplyDiff, docVars
  <2>2. ASSUME ~dirty', NEW n \in Nodes PROVE InLine(n)' \/ NotBehind(n)'
    <3>1. want[n] = doc'[n]
      BY <1>0, <2>1, <2>2
    <3>2. rows'[n] = NextRow(n, rows[n])
      BY <1>6 DEF ApplyDiff
    <3> QED BY <1>t, <3>1, <3>2, NextRowShows DEF InLine, NotBehind
  <2> QED BY <2>1, <2>2 DEF DiffIsCurrent
<1>7. CASE MarkProjected
  <2>1. UNCHANGED <<doc, dirty, rows, faults>> /\ pc = "applied" /\ pc' = "idle"
    BY <1>7 DEF MarkProjected, docVars
  <2> QED BY <2>1, <1>0 DEF DiffIsCurrent, InLine, NotBehind
<1>8. CASE AttemptFails \/ ProjectionLost
  <2>1. faults' = faults + 1 /\ faults \in Nat
    BY <1>8, <1>t DEF AttemptFails, ProjectionLost, Fault, TypeOK
  <2> QED BY <2>1
<1>9. CASE MarkProjectionFailed
  BY <1>9, <1>0 DEF MarkProjectionFailed
<1>10. CASE GoOffline \/ (\E n \in Nodes : EditOffline(n)) \/ UNCHANGED vars
  <2>1. UNCHANGED <<doc, dirty, pc, want, rows, faults>>
    BY <1>10 DEF GoOffline, EditOffline, vars, docVars, projVars
  <2> QED BY <2>1, <1>2
<1> QED
  BY <1>1, <1>3, <1>4, <1>5, <1>6, <1>7, <1>8, <1>9, <1>10
  DEF Next, Users, Projector

\* The invariant holds in every state the users and projectBoard can reach.
LEMMA Inductive == Spec => []IInv
  BY InitIInv, NextType, NextDiff, PTL DEF Spec, IInv

----
\* Every variable of the projector and the document keeps to its domain, for
\* every set of nodes and every bound.
THEOREM TypeCorrect == Spec => []TypeOK
  BY Inductive, PTL DEF IInv

\* At rest and without faults, what the rows lack is only what isNewer refuses:
\* no change that arrives between the read of the document and the write of the
\* rows is forgotten.
THEOREM BehindOnlyByTheGuard == Spec => []BehindOnlyInVersion
<1>1. IInv => BehindOnlyInVersion
  BY DEF IInv, DiffIsCurrent, BehindOnlyInVersion, AtRest
<1> QED BY <1>1, Inductive, PTL

\* No projection and no retry of one takes a row back to an earlier version.
THEOREM NeverBack == Spec => RowsNeverGoBack
<1> DEFINE Forward == \A n \in Nodes :
                         rows[n].version <= rows'[n].version \/ rows'[n] = NoRow
<1>1. IInv /\ [Next]_vars => [Forward]_vars
  <2> SUFFICES ASSUME IInv, Next PROVE Forward
    OBVIOUS
  <2>0. TypeOK /\ rows \in [Nodes -> Rows]
    BY DEF IInv, TypeOK
  <2>1. CASE ApplyDiff
    <3> SUFFICES ASSUME NEW n \in Nodes
                 PROVE  rows[n].version <= rows'[n].version \/ rows'[n] = NoRow
      OBVIOUS
    <3>1. rows'[n] = NextRow(n, rows[n])
      BY <2>1 DEF ApplyDiff
    <3>2. rows[n] \in Rows /\ want[n] \in Entries
      BY <2>0 DEF TypeOK
    <3>3. rows[n].version \in Nat /\ want[n].version \in Nat
      BY <3>2 DEF Rows, Entries, Times
    <3>4. NoRow.version = 0
      BY DEF NoRow
    <3> QED BY <3>1, <3>3, <3>4 DEF NextRow, IsNewer
  <2>2. CASE rows' = rows
    <3>1. \A n \in Nodes : rows[n].version \in Nat
      BY <2>0 DEF Rows, Times
    <3> QED BY <2>2, <3>1
  <2> QED
    BY <2>1, <2>2
    DEF Next, Users, Projector, Edit, Undo, EditOffline, GoOffline, Reconnect,
        StartProjection, Diff, MarkProjected, AttemptFails,
        MarkProjectionFailed, ProjectionLost
<1> QED BY <1>1, Inductive, PTL DEF Spec, RowsNeverGoBack

----
\* Every attempt but the first was paid for by a fault, and giving up by as many
\* faults as there are attempts; so is the flag, which a later success clears.
AttemptsPaid ==
    /\ pc \in {"load", "diffed", "applied"} => attempt >= 1 /\ attempt - 1 <= faults
    /\ pc = "gaveUp" => Attempts <= faults
    /\ FlaggedAfterAllAttempts

\* Every step keeps the count of attempts and faults.
LEMMA NextAttempt == TypeOK /\ AttemptsPaid /\ [Next]_vars => AttemptsPaid'
<1> SUFFICES ASSUME TypeOK, AttemptsPaid, [Next]_vars PROVE AttemptsPaid'
  OBVIOUS
<1> USE DEF AttemptsPaid, FlaggedAfterAllAttempts
<1>0. faults \in Nat /\ attempt \in Nat /\ Attempts \in Nat
  BY ProjectionAssumption DEF TypeOK
<1>1. CASE Users \/ UNCHANGED vars
  <2>1. UNCHANGED <<pc, attempt, failed, faults>>
    BY <1>1 DEF Users, Edit, Undo, EditOffline, GoOffline, Reconnect, vars, projVars
  <2> QED BY <2>1
<1>2. CASE StartProjection
  BY <1>0, <1>2 DEF StartProjection
<1>3. CASE Diff \/ ApplyDiff
  BY <1>3 DEF Diff, ApplyDiff
<1>4. CASE MarkProjected
  BY <1>4 DEF MarkProjected
<1>5. CASE AttemptFails
  BY <1>0, <1>5 DEF AttemptFails, Fault
<1>6. CASE MarkProjectionFailed
  BY <1>6 DEF MarkProjectionFailed
<1>7. CASE ProjectionLost
  BY <1>0, <1>7 DEF ProjectionLost, Fault
<1> QED BY <1>1, <1>2, <1>3, <1>4, <1>5, <1>6, <1>7 DEF Next, Projector

\* projectionFailed is raised only after DEFAULT_RETRY_POLICY has been used up: every
\* attempt of one projection met a rejected query.
THEOREM FlagMeansAllFailed == Spec => []FlaggedAfterAllAttempts
<1>1. Init => AttemptsPaid
  BY DEF Init, AttemptsPaid, FlaggedAfterAllAttempts
<1>2. AttemptsPaid => FlaggedAfterAllAttempts
  BY DEF AttemptsPaid
<1> QED BY <1>1, <1>2, NextAttempt, TypeCorrect, PTL DEF Spec
====
