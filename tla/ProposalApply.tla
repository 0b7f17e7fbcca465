---- MODULE ProposalApply ----
(***************************************************************************)
(* Headless apply of an import proposal: proposals.applySelected of the    *)
(* API reads the proposal's row, has apps/sync apply the selected items to *)
(* the board's latest snapshot, and then records what became of them.      *)
(*                                                                         *)
(* An action is what runs between two awaits.  The id an item is given is  *)
(* the number of the snapshot row that brought it, 0 for none, so a card   *)
(* is the pair <<item, row>>.  The open room, which may overwrite the      *)
(* snapshot, is BoardSync's subject and is left out here; so are           *)
(* placement, provenance texts, field values, and the run's appliedAt and  *)
(* the audit row that follow the record.                                   *)
(***************************************************************************)
EXTENDS Integers, FiniteSets

CONSTANTS
    Callers,   \* clients with a token
    Cards,     \* items of kind new_node
    Links,     \* items of kind new_edge
    Patches,   \* items of kind enrich and conflict
    Fixed,     \* cards the board had before the run
    Ends,      \* for each link, what it joins: Cards (temp refs) or Fixed
    PatchOf,   \* for each patch, its target in Fixed
    MaxCalls,  \* bound: calls made
    MaxEdits   \* bound: deletions by the board's other editors

Items == Cards \cup Links \cup Patches

ASSUME ProposalAssumption ==
    /\ Ends \in [Links -> SUBSET (Cards \cup Fixed)]
    /\ PatchOf \in [Patches -> Fixed]
    /\ MaxCalls \in Nat /\ MaxEdits \in Nat
    /\ IsFiniteSet(Callers)

VARIABLES
    ppc,      \* where a call is
    pick,     \* selectedItemIds
    seen,     \* row.appliedItems as the call read it
    base,     \* the snapshot row it loaded
    out,      \* result.tempIdMap
    row,      \* importProposal.appliedItems
    snap,     \* number of the latest snapshot row
    board,    \* cards of that snapshot
    edges,    \* edges of that snapshot: the link's own pair and its ends
    patched,  \* patches written
    calls, edits,
    made,     \* (history) every card and link ever written
    races,    \* (history) calls begun while another was under way
    unheard   \* (history) writes whose caller never recorded them

call == <<ppc, pick, seen, base, out, calls>>
doc == <<snap, board, edges, patched, made>>
pvars == <<call, doc, row, edits, races, unheard>>

NoIds == [i \in Items |-> 0]

ProposalTypeOK ==
    /\ ppc \in [Callers -> {"idle", "read", "loaded", "answered"}]
    /\ pick \in [Callers -> SUBSET Items]
    /\ seen \in [Callers -> [Items -> Nat]] /\ out \in [Callers -> [Items -> Nat]]
    /\ base \in [Callers -> Nat] /\ calls \in 0..MaxCalls
    /\ row \in [Items -> Nat]
    /\ snap \in Nat /\ edits \in 0..MaxEdits /\ races \in Nat /\ unheard \in Nat
    /\ board \subseteq (Cards \cup Fixed) \X Nat
    /\ \A e \in edges : e[1] \in Links \X Nat /\ e[2] \subseteq (Cards \cup Fixed) \X Nat
    /\ patched \subseteq Patches
    /\ made \subseteq Items \X Nat

ProposalInit ==
    /\ ppc = [c \in Callers |-> "idle"] /\ pick = [c \in Callers |-> {}]
    /\ seen = [c \in Callers |-> NoIds] /\ out = [c \in Callers |-> NoIds]
    /\ base = [c \in Callers |-> 0] /\ calls = 0
    /\ row = NoIds
    /\ snap = 0 /\ board = {<<x, 0>> : x \in Fixed} /\ edges = {}
    /\ patched = {}
    /\ edits = 0 /\ made = {} /\ races = 0 /\ unheard = 0

\* the call of c is over
Finish(c) ==
    /\ ppc' = [ppc EXCEPT ![c] = "idle"]
    /\ pick' = [pick EXCEPT ![c] = {}]
    /\ seen' = [seen EXCEPT ![c] = NoIds]
    /\ out' = [out EXCEPT ![c] = NoIds]
    /\ base' = [base EXCEPT ![c] = 0]
    /\ UNCHANGED calls

\* applySelected: read the row
Request(c) ==
    /\ ppc[c] = "idle" /\ calls < MaxCalls
    /\ \E s \in SUBSET Items \ {{}} : pick' = [pick EXCEPT ![c] = s]
    /\ seen' = [seen EXCEPT ![c] = row]
    /\ ppc' = [ppc EXCEPT ![c] = "read"]
    /\ calls' = calls + 1
    /\ races' = IF \E d \in Callers \ {c} : ppc[d] # "idle" THEN races + 1 ELSE races
    /\ UNCHANGED <<base, out, doc, row, edits, unheard>>

\* applyProposalToBoard: store.latest
Load(c) ==
    /\ ppc[c] = "read"
    /\ base' = [base EXCEPT ![c] = snap]
    /\ ppc' = [ppc EXCEPT ![c] = "loaded"]
    /\ UNCHANGED <<pick, seen, out, calls, doc, row, edits, races, unheard>>

\* expired, no provenance, no network: an error before anything was written
Refused(c) ==
    /\ ppc[c] \in {"read", "loaded"}
    /\ Finish(c)
    /\ UNCHANGED <<doc, row, edits, races, unheard>>

\* MUTANT: new cards without a look at the guard map
NewCardsAll(c) == pick[c] \cap Cards

\* new_node items this call brings
NewCards(c) == {i \in pick[c] \cap Cards : seen[c][i] = 0}

\* tempIdMap once the cards have their ids
TempIds(c) == [i \in Items |-> IF i \in NewCards(c) THEN snap + 1 ELSE seen[c][i]]

\* resolveRef: a temp ref is looked up in the map alone, a fixed card on the board
Resolves(c, x) ==
    IF x \in Cards THEN TempIds(c)[x] # 0 ELSE <<x, 0>> \in board

\* new_edge items that are not skipped as target_missing
NewLinks(c) ==
    {l \in pick[c] \cap Links : seen[c][l] = 0 /\ \A x \in Ends[l] : Resolves(c, x)}

EndIds(c, l) == {<<x, IF x \in Cards THEN TempIds(c)[x] ELSE 0>> : x \in Ends[l]}

\* MUTANT: a row number that is taken does not stop the call
WriteLost(c) ==
    /\ ppc[c] = "loaded" /\ snap # base[c]
    /\ out' = [out EXCEPT ![c] = [i \in Items |->
                   IF i \in NewLinks(c) THEN snap + 1 ELSE TempIds(c)[i]]]
    /\ ppc' = [ppc EXCEPT ![c] = "answered"]
    /\ UNCHANGED <<pick, seen, base, calls, doc, row, edits, races, unheard>>

\* the insert of the next snapshot row violates @@unique([boardId, seq]): 422
WriteRefused(c) ==
    /\ ppc[c] = "loaded" /\ snap # base[c]
    /\ Finish(c)
    /\ UNCHANGED <<doc, row, edits, races, unheard>>

\* applyProposal and store.write; a conflict may be resolved to keep the old value
Write(c) ==
    /\ ppc[c] = "loaded" /\ snap = base[c]
    /\ snap' = snap + 1
    /\ board' = board \cup {<<i, snap + 1>> : i \in NewCards(c)}
    /\ edges' = edges \cup {<<<<l, snap + 1>>, EndIds(c, l)>> : l \in NewLinks(c)}
    /\ \E kept \in SUBSET (pick[c] \cap Patches) :
         patched' = patched \cup {p \in (pick[c] \cap Patches) \ kept : <<PatchOf[p], 0>> \in board}
    /\ made' = made \cup {<<i, snap + 1>> : i \in NewCards(c) \cup NewLinks(c)}
    /\ out' = [out EXCEPT ![c] = [i \in Items |->
                   IF i \in NewLinks(c) THEN snap + 1 ELSE TempIds(c)[i]]]
    /\ ppc' = [ppc EXCEPT ![c] = "answered"]
    /\ UNCHANGED <<pick, seen, base, calls, row, edits, races, unheard>>

\* the answer is lost, or the API dies before its update
Unheard(c) ==
    /\ ppc[c] = "answered"
    /\ unheard' = unheard + 1
    /\ Finish(c)
    /\ UNCHANGED <<doc, row, edits, races>>

\* importProposal.update: the map it read, overlaid with the map it got back
Record(c) ==
    /\ ppc[c] = "answered"
    /\ row' = [i \in Items |-> IF out[c][i] # 0 THEN out[c][i] ELSE seen[c][i]]
    /\ Finish(c)
    /\ UNCHANGED <<doc, edits, races, unheard>>

\* an editor of the board removes a card, and its edges with it
RemoveCard ==
    /\ edits < MaxEdits /\ edits' = edits + 1
    /\ \E x \in board :
         /\ board' = board \ {x}
         /\ edges' = {e \in edges : x \notin e[2]}
    /\ snap' = snap + 1
    /\ UNCHANGED <<call, patched, made, row, races, unheard>>

ProposalNext ==
    \/ \E c \in Callers :
         \/ Request(c) \/ Load(c) \/ Refused(c) \/ WriteRefused(c) \/ Write(c)
         \/ Unheard(c) \/ Record(c)
    \/ RemoveCard

ProposalSpec == ProposalInit /\ [][ProposalNext]_pvars

-----------------------------------------------------------------------------
Copies(i) == {w \in 1..snap : <<i, w>> \in made}

\* The guard map makes apply idempotent for cards and edges up to its races: an item is
\* on the board once, and once more at most for every call that began while another was
\* under way (runs.ts writes the map it read before the remote apply) and for every
\* write whose answer was lost.
CopiesBounded == \A i \in Items : Cardinality(Copies(i)) <= 1 + races + unheard

\* What the row calls applied was written to the board: neither a refused snapshot row
\* nor a lost update of the map leaves an entry for a card that never was, which no
\* later apply could bring.
RowIsTrue == \A i \in Items : row[i] # 0 => <<i, row[i]>> \in made
====
