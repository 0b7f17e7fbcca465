---- MODULE BoardSyncProofs ----
(***************************************************************************)
(* For every set of clients, edits and headless writes: an open room       *)
(* covers the stored edits, and BoardSync implements DurableEdits.         *)
(***************************************************************************)
EXTENDS BoardSync, TLAPS

\* Replicas hold no edit that nobody made.
KnownEdits == /\ \A c \in Clients : local[c] \cap Edits \subseteq made
              /\ room \cap Edits \subseteq made
              /\ latest \cap Edits \subseteq made

\* A socket keeps its room in memory.
ConnectedToRoom == \A c \in Clients : conn[c] => loaded

\* A store hook holds a past state of the open room.  While no other writer has
\* taken the next row number, that state covers the stored edits.
StoreFresh ==
    stPc = "read" => /\ loaded
                     /\ stState \subseteq room
                     /\ stPrior <= seq
                     /\ seq = stPrior => latest \cap Edits \subseteq stState

\* A headless request whose row number is still free holds the stored document.
HeadlessFresh ==
    \A i \in Imports : hPc[i] = "read" =>
        /\ hPrior[i] <= seq
        /\ hPrior[i] = seq => hDoc[i] = latest

\* The inductive invariant.
IInv == /\ TypeOK
        /\ KnownEdits
        /\ ConnectedToRoom
        /\ RoomCoversStoredEdits
        /\ StoreFresh
        /\ HeadlessFresh

----
\* The type invariant is inductive by itself: no step of a client, of the
\* store hook, of a headless writer or a crash leaves a variable's domain.
LEMMA TypeStep == TypeOK /\ [Next]_vars => TypeOK'
<1> SUFFICES ASSUME TypeOK, [Next]_vars PROVE TypeOK'
  OBVIOUS
<1> USE BoardSyncAssumption DEF TypeOK, Updates
<1>1. CASE UNCHANGED vars
  BY <1>1 DEF vars, clientVars, roomVars, snapVars, storeVars, headlessVars
<1>2. ASSUME NEW c \in Clients, NEW e \in Edits, Edit(c, e) PROVE TypeOK'
  BY <1>2 DEF Edit, roomVars, snapVars, storeVars, headlessVars
<1>3. ASSUME NEW c \in Clients, Connect(c) PROVE TypeOK'
  BY <1>3 DEF Connect, roomVars, snapVars, storeVars, headlessVars
<1>4. ASSUME NEW c \in Clients, Push(c) PROVE TypeOK'
  BY <1>4 DEF Push, clientVars, snapVars, storeVars, headlessVars
<1>5. ASSUME NEW c \in Clients, Pull(c) PROVE TypeOK'
  BY <1>5 DEF Pull, roomVars, snapVars, storeVars, headlessVars
<1>6. ASSUME NEW c \in Clients, Disconnect(c) PROVE TypeOK'
  <2>1. dirty' \in BOOLEAN
    BY <1>6 DEF Disconnect
  <2> QED
    BY <1>6, <2>1 DEF Disconnect, snapVars, storeVars, headlessVars
<1>7. ASSUME NEW i \in Imports, HeadlessRead(i) PROVE TypeOK'
  BY <1>7 DEF HeadlessRead, clientVars, roomVars, snapVars, storeVars
<1>8. ASSUME NEW i \in Imports, HeadlessSkips(i) PROVE TypeOK'
  BY <1>8 DEF HeadlessSkips, EndHeadless, clientVars, roomVars, snapVars, storeVars
<1>9. ASSUME NEW i \in Imports, HeadlessWrite(i) PROVE TypeOK'
  BY <1>9 DEF HeadlessWrite, EndHeadless, clientVars, roomVars, snapVars, storeVars
<1>10. CASE StoreRead
  BY <1>10 DEF StoreRead, clientVars, snapVars, headlessVars
<1>11. CASE StoreWrite
  BY <1>11 DEF StoreWrite, EndStore, clientVars, roomVars, snapVars, headlessVars
<1>12. CASE Unload
  BY <1>12 DEF Unload, clientVars, snapVars, storeVars, headlessVars
<1>13. CASE Crash
  <2> USE <1>13 DEF Crash, EndStore, snapVars
  <2>1. conn' \in [Clients -> BOOLEAN]
    BY Zenon
  <2>2. hPc' \in [Imports -> {"idle", "read", "skipped", "applied", "refused"}]
    OBVIOUS
  <2>3. hPrior' \in [Imports -> Nat] /\ hDoc' \in [Imports -> SUBSET Updates]
    OBVIOUS
  <2>4. loaded' \in BOOLEAN /\ dirty' \in BOOLEAN
    BY Zenon
  <2>5. /\ made' \subseteq Edits
        /\ local' \in [Clients -> SUBSET Updates]
        /\ drops' \in 0..MaxDrops /\ crashes' \in 0..MaxCrashes
        /\ room' \subseteq Updates /\ latest' \subseteq Updates
        /\ seq' \in Nat /\ conflicts' \in Nat
    OBVIOUS
  <2>6. stPc' \in {"idle", "read"} /\ stPrior' \in Nat /\ stState' \subseteq Updates
    OBVIOUS
  <2> QED
    BY <2>1, <2>2, <2>3, <2>4, <2>5, <2>6, Zenon
<1> QED
  BY <1>1, <1>2, <1>3, <1>4, <1>5, <1>6, <1>7, <1>8, <1>9, <1>10, <1>11,
     <1>12, <1>13 DEF Next, ClientNext, HeadlessNext

\* The initial state is an empty board that nobody has open.
LEMMA TypeInit == Init => TypeOK
<1> SUFFICES ASSUME Init PROVE TypeOK
  OBVIOUS
<1> USE BoardSyncAssumption DEF Init, Updates
<1>1. conn \in [Clients -> BOOLEAN] /\ loaded \in BOOLEAN /\ dirty \in BOOLEAN
  BY Zenon
<1>2. local \in [Clients -> SUBSET Updates]
  OBVIOUS
<1>3. hPc \in [Imports -> {"idle", "read", "skipped", "applied", "refused"}]
  OBVIOUS
<1>4. hPrior \in [Imports -> Nat] /\ hDoc \in [Imports -> SUBSET Updates]
  OBVIOUS
<1>5. /\ made \subseteq Edits /\ room \subseteq Updates /\ latest \subseteq Updates
      /\ drops \in 0..MaxDrops /\ crashes \in 0..MaxCrashes
      /\ seq \in Nat /\ conflicts \in Nat
  OBVIOUS
<1>6. stPc \in {"idle", "read"} /\ stPrior \in Nat /\ stState \subseteq Updates
  OBVIOUS
<1> QED
  BY <1>1, <1>2, <1>3, <1>4, <1>5, <1>6, Zenon DEF TypeOK

\* Every variable of the sync service keeps to its domain, for any clients,
\* edits and headless writes.
THEOREM TypeCorrect == Spec => []TypeOK
  BY TypeInit, TypeStep, PTL DEF Spec
----
\* Every step keeps the inductive invariant: the type, what the replicas may
\* hold, and how room, store hook and headless requests relate to the store.
LEMMA InvStep == IInv /\ [Next]_vars => IInv'
<1> SUFFICES ASSUME IInv, [Next]_vars PROVE IInv'
  OBVIOUS
<1>0. TypeOK /\ TypeOK'
  BY TypeStep DEF IInv
<1> DEFINE Rest == /\ KnownEdits
                   /\ ConnectedToRoom
                   /\ RoomCoversStoredEdits
                   /\ StoreFresh
                   /\ HeadlessFresh
<1> SUFFICES Rest'
  BY <1>0 DEF IInv
<1> USE <1>0, BoardSyncAssumption
      DEF IInv, TypeOK, Updates, KnownEdits, ConnectedToRoom,
          RoomCoversStoredEdits, StoreFresh, HeadlessFresh
<1>1. CASE UNCHANGED vars
  BY <1>1 DEF vars, clientVars, roomVars, snapVars, storeVars, headlessVars
<1>2. ASSUME NEW c \in Clients, NEW e \in Edits, Edit(c, e) PROVE Rest'
  BY <1>2 DEF Edit, roomVars, snapVars, storeVars, headlessVars
<1>3. ASSUME NEW c \in Clients, Connect(c) PROVE Rest'
  BY <1>3 DEF Connect, roomVars, snapVars, storeVars, headlessVars
<1>4. ASSUME NEW c \in Clients, Push(c) PROVE Rest'
  BY <1>4 DEF Push, clientVars, snapVars, storeVars, headlessVars
<1>5. ASSUME NEW c \in Clients, Pull(c) PROVE Rest'
  BY <1>5 DEF Pull, roomVars, snapVars, storeVars, headlessVars
<1>6. ASSUME NEW c \in Clients, Disconnect(c) PROVE Rest'
  BY <1>6 DEF Disconnect, snapVars, storeVars, headlessVars
<1>7. ASSUME NEW i \in Imports, HeadlessRead(i) PROVE Rest'
  BY <1>7 DEF HeadlessRead, clientVars, roomVars, snapVars, storeVars
<1>8. ASSUME NEW i \in Imports, HeadlessSkips(i) PROVE Rest'
  BY <1>8 DEF HeadlessSkips, EndHeadless, clientVars, roomVars, snapVars, storeVars
<1>9. ASSUME NEW i \in Imports, HeadlessWrite(i) PROVE Rest'
  BY <1>9 DEF HeadlessWrite, EndHeadless, clientVars, roomVars, snapVars, storeVars
<1>10. CASE StoreRead
  BY <1>10 DEF StoreRead, clientVars, snapVars, headlessVars
<1>11. CASE StoreWrite
  BY <1>11 DEF StoreWrite, EndStore, clientVars, roomVars, snapVars, headlessVars
<1>12. CASE Unload
  BY <1>12 DEF Unload, clientVars, snapVars, storeVars, headlessVars
<1>13. CASE Crash
  BY <1>13 DEF Crash, EndStore, snapVars
<1> QED
  BY <1>1, <1>2, <1>3, <1>4, <1>5, <1>6, <1>7, <1>8, <1>9, <1>10, <1>11,
     <1>12, <1>13 DEF Next, ClientNext, HeadlessNext

\* The inductive invariant holds initially.
LEMMA InvInit == Init => IInv
  BY TypeInit DEF Init, IInv, KnownEdits, ConnectedToRoom,
     RoomCoversStoredEdits, StoreFresh, HeadlessFresh

\* An open room holds every stored edit, for any number of clients and of
\* headless writers: whatever the store hook writes next drops none.
THEOREM RoomCovers == Spec => []RoomCoversStoredEdits
<1>1. IInv => RoomCoversStoredEdits
  BY DEF IInv
<1> QED
  BY <1>1, InvInit, InvStep, PTL DEF Spec

----
\* Under the invariant each step of the sync service is a step of
\* DurableEdits or leaves its variables alone: Edit is Make, a row that the
\* store hook or a headless request inserts is Store.
LEMMA StepRefines ==
    IInv /\ IInv' /\ [Next]_vars
        => [StoredEdits!Next]_<<made, latest \cap Edits>>
<1> SUFFICES ASSUME IInv, IInv', [Next]_vars
             PROVE  \/ StoredEdits!Make
                    \/ StoredEdits!Store
                    \/ UNCHANGED <<made, latest \cap Edits>>
  BY DEF StoredEdits!Next
<1>1. ASSUME NEW c \in Clients, NEW e \in Edits, Edit(c, e)
      PROVE  StoredEdits!Make
  BY <1>1 DEF Edit, snapVars, StoredEdits!Make
<1>2. ASSUME UNCHANGED made,
             latest \cap Edits \subseteq latest' \cap Edits,
             latest' \cap Edits \subseteq made
      PROVE  StoredEdits!Store
  <2>1. latest' \cap Edits = (latest \cap Edits) \cup (latest' \cap Edits)
    BY <1>2
  <2> QED
    BY <1>2, <2>1, Zenon DEF StoredEdits!Store
<1>3. CASE StoreWrite
  <2>1. CASE seq = stPrior
    <3>1. latest \cap Edits \subseteq stState
      BY <1>3, <2>1 DEF StoreWrite, IInv, StoreFresh
    <3>2. latest' = stState /\ UNCHANGED made
      BY <1>3, <2>1 DEF StoreWrite, clientVars
    <3>3. latest' \cap Edits \subseteq made
      BY <3>2 DEF IInv, KnownEdits
    <3> QED
      BY <1>2, <3>1, <3>2, <3>3
  <2>2. CASE seq # stPrior
    BY <1>3, <2>2 DEF StoreWrite, clientVars, snapVars
  <2> QED
    BY <2>1, <2>2
<1>4. ASSUME NEW i \in Imports, HeadlessWrite(i)
      PROVE  StoredEdits!Store \/ UNCHANGED <<made, latest \cap Edits>>
  <2>1. CASE seq = hPrior[i]
    \* The import itself is no edit, so the stored edits are the same.
    <3>1. hDoc[i] = latest
      BY <1>4, <2>1 DEF HeadlessWrite, IInv, HeadlessFresh
    <3>2. latest' = latest \cup {i} /\ UNCHANGED made
      BY <1>4, <2>1, <3>1 DEF HeadlessWrite, clientVars
    <3> QED
      BY <3>2, BoardSyncAssumption
  <2>2. CASE seq # hPrior[i]
    BY <1>4, <2>2 DEF HeadlessWrite, clientVars, snapVars
  <2> QED
    BY <2>1, <2>2
<1>5. ASSUME \/ UNCHANGED vars
             \/ \E c \in Clients : Connect(c) \/ Push(c) \/ Pull(c) \/ Disconnect(c)
             \/ \E i \in Imports : HeadlessRead(i) \/ HeadlessSkips(i)
             \/ StoreRead \/ Unload \/ Crash
      PROVE  UNCHANGED <<made, latest \cap Edits>>
  BY <1>5 DEF Connect, Push, Pull, Disconnect, HeadlessRead, HeadlessSkips,
     StoreRead, Unload, Crash, vars, clientVars, snapVars
<1> QED
  BY <1>1, <1>3, <1>4, <1>5 DEF Next, ClientNext, HeadlessNext

\* The sync service implements DurableEdits: through crashes, reloads and
\* racing headless writers, an edit that was stored stays stored.
THEOREM SyncImplementsDurableEdits == Spec => EditsAreDurable
<1>1. Init => StoredEdits!Init
  BY DEF Init, StoredEdits!Init
<1>2. Spec => []IInv
  BY InvInit, InvStep, PTL DEF Spec
<1> QED
  BY <1>1, <1>2, StepRefines, PTL DEF Spec, EditsAreDurable, StoredEdits!Spec
====
