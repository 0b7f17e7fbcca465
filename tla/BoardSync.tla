---- MODULE BoardSync ----
(***************************************************************************)
(* One board in apps/sync: the browsers' replicas, the Hocuspocus room     *)
(* that holds the document in memory, the BoardSnapshot table it is stored *)
(* to, and the two HTTP routes (proposal apply, node patch) that write     *)
(* that table without the room.  A Y.Doc is a CRDT: it is modelled as the  *)
(* set of the updates it has absorbed, and merging as union.               *)
(***************************************************************************)
EXTENDS Naturals, FiniteSets

CONSTANTS
    Clients,     \* browsers with write access to the board
    Edits,       \* updates the browsers make
    Imports,     \* headless writes: proposal applies and node patches
    MaxDrops,    \* bound: sockets closed in a behaviour
    MaxCrashes   \* bound: crashes of the sync process in a behaviour

ASSUME BoardSyncAssumption ==
    /\ Edits \cap Imports = {}
    /\ MaxDrops \in Nat
    /\ MaxCrashes \in Nat

VARIABLES
    made,                       \* edits made so far
    local, conn, drops,         \* per client: its replica, its socket
    loaded, room, dirty,        \* the room: in memory, its doc, store due
    seq, latest,                \* highest snapshot row: its number, its doc
    stPc, stPrior, stState,     \* the store hook in progress
    hPc, hPrior, hDoc,          \* per import: its HTTP request
    conflicts,                  \* store hooks that lost the race for a seq
    crashes

clientVars == <<made, local, conn, drops>>
roomVars == <<loaded, room, dirty>>
snapVars == <<seq, latest>>
storeVars == <<stPc, stPrior, stState, conflicts>>
headlessVars == <<hPc, hPrior, hDoc>>
vars == <<clientVars, roomVars, snapVars, storeVars, headlessVars, crashes>>

Updates == Edits \cup Imports

Init ==
    /\ made = {}
    /\ local = [c \in Clients |-> {}]
    /\ conn = [c \in Clients |-> FALSE]
    /\ drops = 0
    /\ loaded = FALSE /\ room = {} /\ dirty = FALSE
    /\ seq = 0 /\ latest = {}
    /\ stPc = "idle" /\ stPrior = 0 /\ stState = {}
    /\ hPc = [i \in Imports |-> "idle"]
    /\ hPrior = [i \in Imports |-> 0]
    /\ hDoc = [i \in Imports |-> {}]
    /\ conflicts = 0
    /\ crashes = 0
----
(* Browsers. *)

\* A local-first edit: it needs no connection.
Edit(c, e) ==
    /\ e \notin made
    /\ made' = made \cup {e}
    /\ local' = [local EXCEPT ![c] = @ \cup {e}]
    /\ UNCHANGED <<conn, drops, roomVars, snapVars, storeVars, headlessVars, crashes>>

\* Mutant: fetch answers null, the room opens with an empty document.
ConnectFresh(c) ==
    /\ ~conn[c]
    /\ conn' = [conn EXCEPT ![c] = TRUE]
    /\ IF loaded
       THEN UNCHANGED roomVars
       ELSE /\ loaded' = TRUE
            /\ room' = {}
            /\ dirty' = FALSE
    /\ UNCHANGED <<made, local, drops, snapVars, storeVars, headlessVars,
                   crashes>>

\* onAuthenticate admits the client; the first one makes Hocuspocus call
\* Database.fetch, which reads the highest snapshot.
Connect(c) ==
    /\ ~conn[c]
    /\ conn' = [conn EXCEPT ![c] = TRUE]
    /\ IF loaded
       THEN UNCHANGED roomVars
       ELSE /\ loaded' = TRUE
            /\ room' = latest
            /\ dirty' = FALSE
    /\ UNCHANGED <<made, local, drops, snapVars, storeVars, headlessVars,
                   crashes>>

\* Mutants: the store is not armed; the replica is kept as one opaque update.
PushUnarmed(c) ==
    /\ conn[c]
    /\ ~(local[c] \subseteq room)
    /\ room' = room \cup local[c]
    /\ UNCHANGED <<clientVars, loaded, dirty, snapVars, storeVars, headlessVars,
                   crashes>>

PushOpaque(c) ==
    /\ conn[c]
    /\ local[c] \notin room
    /\ room' = room \cup {local[c]}
    /\ dirty' = TRUE
    /\ UNCHANGED <<clientVars, loaded, snapVars, storeVars, headlessVars,
                   crashes>>

\* The client's missing updates reach the room; a change arms the debounced
\* store.
Push(c) ==
    /\ conn[c]
    /\ ~(local[c] \subseteq room)
    /\ room' = room \cup local[c]
    /\ dirty' = TRUE
    /\ UNCHANGED <<clientVars, loaded, snapVars, storeVars, headlessVars,
                   crashes>>

Pull(c) ==
    /\ conn[c]
    /\ ~(room \subseteq local[c])
    /\ local' = [local EXCEPT ![c] = @ \cup room]
    /\ UNCHANGED <<made, conn, drops, roomVars, snapVars, storeVars,
                   headlessVars, crashes>>

\* The last one to leave makes Hocuspocus store the document at once.
Disconnect(c) ==
    /\ conn[c]
    /\ drops < MaxDrops
    /\ drops' = drops + 1
    /\ conn' = [conn EXCEPT ![c] = FALSE]
    /\ dirty' = (dirty \/ \A d \in Clients \ {c} : ~conn[d])
    /\ UNCHANGED <<made, local, loaded, room, snapVars, storeVars,
                   headlessVars, crashes>>

\* Hocuspocus drops the document of an empty room after that store.
Unload ==
    /\ loaded /\ ~dirty /\ stPc = "idle"
    /\ \A c \in Clients : ~conn[c]
    /\ loaded' = FALSE
    /\ room' = {}
    /\ UNCHANGED <<clientVars, dirty, snapVars, storeVars, headlessVars,
                   crashes>>
----
(* Database.store. *)

\* The room's state is encoded and the highest row read,
StoreRead ==
    /\ loaded /\ dirty /\ stPc = "idle"
    /\ stPc' = "read"
    /\ stState' = room
    /\ stPrior' = seq
    /\ dirty' = FALSE
    /\ UNCHANGED <<clientVars, loaded, room, snapVars, headlessVars, conflicts,
                   crashes>>

EndStore == stPc' = "idle" /\ stPrior' = 0 /\ stState' = {}

\* an await later the next row is inserted; @@unique([boardId, seq]) rejects
\* it when another writer took the number, and the hook fails.
StoreWrite ==
    /\ stPc = "read"
    /\ EndStore
    /\ IF seq = stPrior
       THEN /\ seq' = stPrior + 1
            /\ latest' = stState
            /\ UNCHANGED conflicts
       ELSE /\ conflicts' = conflicts + 1
            /\ UNCHANGED snapVars
    /\ UNCHANGED <<clientVars, roomVars, headlessVars, crashes>>
----
(* applyProposalToBoard and patchNodeData. *)

EndHeadless(i, outcome) ==
    /\ hPc' = [hPc EXCEPT ![i] = outcome]
    /\ hPrior' = [hPrior EXCEPT ![i] = 0]
    /\ hDoc' = [hDoc EXCEPT ![i] = {}]

\* 422 when the board was never stored.
HeadlessRead(i) ==
    /\ hPc[i] = "idle"
    /\ seq > 0
    /\ hPc' = [hPc EXCEPT ![i] = "read"]
    /\ hPrior' = [hPrior EXCEPT ![i] = seq]
    /\ hDoc' = [hDoc EXCEPT ![i] = latest]
    /\ UNCHANGED <<clientVars, roomVars, snapVars, storeVars, crashes>>

\* The node to patch is not in the stored document: no row is written.
HeadlessSkips(i) ==
    /\ hPc[i] = "read"
    /\ EndHeadless(i, "skipped")
    /\ UNCHANGED <<clientVars, roomVars, snapVars, storeVars, crashes>>

\* Mutant: the headless write overwrites whatever row took its number.
HeadlessWriteUnchecked(i) ==
    /\ hPc[i] = "read"
    /\ EndHeadless(i, "applied")
    /\ seq' = hPrior[i] + 1
    /\ latest' = hDoc[i] \cup {i}
    /\ UNCHANGED <<clientVars, roomVars, storeVars, crashes>>

\* The update goes into the next row, not into the room; the same unique
\* index turns a lost race into a 422.
HeadlessWrite(i) ==
    /\ hPc[i] = "read"
    /\ IF seq = hPrior[i]
       THEN /\ EndHeadless(i, "applied")
            /\ seq' = hPrior[i] + 1
            /\ latest' = hDoc[i] \cup {i}
       ELSE /\ EndHeadless(i, "refused")
            /\ UNCHANGED snapVars
    /\ UNCHANGED <<clientVars, roomVars, storeVars, crashes>>
----
(* The sync process dies with its room and the requests in progress. *)
Crash ==
    /\ crashes < MaxCrashes
    /\ crashes' = crashes + 1
    /\ conn' = [c \in Clients |-> FALSE]
    /\ loaded' = FALSE /\ room' = {} /\ dirty' = FALSE
    /\ EndStore
    /\ hPc' = [i \in Imports |-> IF hPc[i] = "read" THEN "refused" ELSE hPc[i]]
    /\ hPrior' = [i \in Imports |-> 0]
    /\ hDoc' = [i \in Imports |-> {}]
    /\ UNCHANGED <<made, local, drops, snapVars, conflicts>>
----
ClientNext(c) == \/ \E e \in Edits : Edit(c, e)
                 \/ Connect(c) \/ Push(c) \/ Pull(c) \/ Disconnect(c)

HeadlessNext(i) == HeadlessRead(i) \/ HeadlessSkips(i) \/ HeadlessWrite(i)

Next == \/ \E c \in Clients : ClientNext(c)
        \/ \E i \in Imports : HeadlessNext(i)
        \/ StoreRead \/ StoreWrite \/ Unload \/ Crash

\* Clients reconnect and Yjs syncs; the debounced store hook runs.
Fairness == /\ \A c \in Clients : WF_vars(Connect(c)) /\ WF_vars(Push(c))
                                  /\ WF_vars(Pull(c))
            /\ WF_vars(StoreRead) /\ WF_vars(StoreWrite)

Spec == Init /\ [][Next]_vars
FairSpec == Spec /\ Fairness
----
(* Properties. *)

\* Every variable keeps to its domain.
TypeOK ==
    /\ made \subseteq Edits
    /\ local \in [Clients -> SUBSET Updates]
    /\ conn \in [Clients -> BOOLEAN]
    /\ drops \in 0..MaxDrops
    /\ loaded \in BOOLEAN /\ room \subseteq Updates /\ dirty \in BOOLEAN
    /\ seq \in Nat /\ latest \subseteq Updates
    /\ stPc \in {"idle", "read"} /\ stPrior \in Nat /\ stState \subseteq Updates
    /\ hPc \in [Imports -> {"idle", "read", "skipped", "applied", "refused"}]
    /\ hPrior \in [Imports -> Nat]
    /\ hDoc \in [Imports -> SUBSET Updates]
    /\ conflicts \in Nat
    /\ crashes \in 0..MaxCrashes

\* An open room is never behind the store in what users edited, so the next
\* store cannot drop an edit, whichever headless writes went past the room.
RoomCoversStoredEdits == loaded => latest \cap Edits \subseteq room

\* The stored edits only grow, through crashes, reloads and headless writers
\* that race for the same row number.
StoredEdits == INSTANCE DurableEdits WITH durable <- latest \cap Edits
EditsAreDurable == StoredEdits!Spec

\* An edit reaches the store, unless a store hook lost the race for its row:
\* nothing repeats that hook until the document changes again.
EditsReachStore ==
    \A e \in Edits : e \in made ~> (e \in latest \/ conflicts > 0)

\* A headless apply is "stored and picked up by every connected client through
\* Hocuspocus": once in the stored document it stays there.
ImportsAreDurable ==
    [][\A i \in Imports : i \in latest => i \in latest']_vars
====
