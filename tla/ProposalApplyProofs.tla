---- MODULE ProposalApplyProofs ----
(***************************************************************************)
(* For any callers, items and bounds: the guard map of a proposal names    *)
(* only what was written, and an item has at most one copy more than there *)
(* were overlapping calls and unrecorded writes.                           *)
(***************************************************************************)
EXTENDS ProposalApply, FiniteSetTheorems, TLAPS

\* Every copy was made by a snapshot row of the past.
PastRows == \A m \in made : m[2] \in 1..snap

\* Whatever map is around, in the row or in a call, names only what was written.
Backed ==
    \A i \in Items :
        /\ row[i] # 0 => <<i, row[i]>> \in made
        /\ \A c \in Callers :
             /\ seen[c][i] # 0 => <<i, seen[c][i]>> \in made
             /\ out[c][i] # 0 => <<i, out[c][i]>> \in made

\* The calls that may still write item i again, or record a map without it.
Ignorant(i) ==
    {c \in Callers : \/ ppc[c] \in {"read", "loaded"} /\ seen[c][i] = 0
                     \/ ppc[c] = "answered" /\ out[c][i] = 0}

\* A call is about to record item i.
Shielded(i) == \E c \in Callers : ppc[c] = "answered" /\ out[c][i] # 0

\* A call that comes next would find the row without item i.
Open(i) == IF row[i] = 0 /\ Ignorant(i) = {} /\ ~Shielded(i) THEN 1 ELSE 0

\* The copies made and those that may still be made without another overlap or loss.
Budget ==
    \A i \in Items :
        Cardinality(Copies(i)) + Cardinality(Ignorant(i)) + Open(i) <= 1 + races + unheard

ApplyInv == ProposalTypeOK /\ PastRows /\ Backed /\ Budget

-----------------------------------------------------------------------------
\* The end of a call leaves its fields at rest.
LEMMA FinishType ==
    ASSUME ProposalTypeOK, NEW c \in Callers, Finish(c)
    PROVE  /\ ppc' \in [Callers -> {"idle", "read", "loaded", "answered"}]
           /\ pick' \in [Callers -> SUBSET Items]
           /\ seen' \in [Callers -> [Items -> Nat]] /\ out' \in [Callers -> [Items -> Nat]]
           /\ base' \in [Callers -> Nat] /\ calls' \in 0..MaxCalls
<1>1. NoIds \in [Items -> Nat]
  BY DEF NoIds
<1> QED BY <1>1 DEF ProposalTypeOK, Finish

\* The map that a call has after its cards and links are made.
LEMMA MapType ==
    ASSUME ProposalTypeOK, NEW c \in Callers
    PROVE  [i \in Items |-> IF i \in NewLinks(c) THEN snap + 1 ELSE TempIds(c)[i]]
               \in [Items -> Nat]
<1>1. snap + 1 \in Nat /\ seen[c] \in [Items -> Nat]
  BY DEF ProposalTypeOK
<1>2. TempIds(c) \in [Items -> Nat]
  BY <1>1 DEF TempIds
<1> QED BY <1>1, <1>2

\* No step of a call or of another editor leaves a variable's domain.
LEMMA TypeStep == ProposalAssumption /\ ProposalTypeOK /\ [ProposalNext]_pvars => ProposalTypeOK'
<1> SUFFICES ASSUME ProposalAssumption, ProposalTypeOK, [ProposalNext]_pvars
             PROVE  ProposalTypeOK'
  OBVIOUS
<1>1. ASSUME NEW c \in Callers, Request(c) PROVE ProposalTypeOK'
  <2>1. calls' \in 0..MaxCalls /\ races' \in Nat
    BY <1>1 DEF Request, ProposalTypeOK, ProposalAssumption
  <2> QED BY <1>1, <2>1 DEF Request, ProposalTypeOK, doc
<1>2. ASSUME NEW c \in Callers, Load(c) PROVE ProposalTypeOK'
  BY <1>2 DEF Load, ProposalTypeOK, doc
<1>3. ASSUME NEW c \in Callers, Refused(c) PROVE ProposalTypeOK'
  BY <1>3, FinishType DEF Refused, ProposalTypeOK, doc
<1>4. ASSUME NEW c \in Callers, WriteRefused(c) PROVE ProposalTypeOK'
  BY <1>4, FinishType DEF WriteRefused, ProposalTypeOK, doc
<1>5. ASSUME NEW c \in Callers, Write(c) PROVE ProposalTypeOK'
  <2>1. snap \in Nat /\ snap' = snap + 1
    BY <1>5 DEF Write, ProposalTypeOK
  <2>2. NewCards(c) \subseteq Cards /\ NewLinks(c) \subseteq Links
    BY DEF NewCards, NewLinks
  <2>3. board' \subseteq (Cards \cup Fixed) \X Nat /\ made' \subseteq Items \X Nat
    BY <1>5, <2>1, <2>2 DEF Write, ProposalTypeOK, Items
  <2>4. \A l \in NewLinks(c) : EndIds(c, l) \subseteq (Cards \cup Fixed) \X Nat
    <3> SUFFICES ASSUME NEW l \in NewLinks(c), NEW x \in Ends[l]
                 PROVE  /\ x \in Cards \cup Fixed
                        /\ (IF x \in Cards THEN TempIds(c)[x] ELSE 0) \in Nat
      BY DEF EndIds
    <3>1. x \in Cards \cup Fixed
      BY <2>2 DEF ProposalAssumption
    <3>2. seen[c] \in [Items -> Nat]
      BY DEF ProposalTypeOK
    <3> QED BY <2>1, <3>1, <3>2 DEF TempIds, Items
  <2>5. \A e \in edges' : e[1] \in Links \X Nat /\ e[2] \subseteq (Cards \cup Fixed) \X Nat
    <3>1. edges' = edges \cup {<<<<l, snap + 1>>, EndIds(c, l)>> : l \in NewLinks(c)}
      BY <1>5 DEF Write
    <3> QED BY <2>1, <2>2, <2>4, <3>1 DEF ProposalTypeOK
  <2>6. patched' \subseteq Patches
    BY <1>5 DEF Write, ProposalTypeOK
  <2>7. out' \in [Callers -> [Items -> Nat]]
    BY <1>5, MapType DEF Write, ProposalTypeOK
  <2>8. ppc' \in [Callers -> {"idle", "read", "loaded", "answered"}]
    BY <1>5 DEF Write, ProposalTypeOK
  <2> QED BY <1>5, <2>1, <2>3, <2>5, <2>6, <2>7, <2>8 DEF Write, ProposalTypeOK
<1>6. ASSUME NEW c \in Callers, Unheard(c) PROVE ProposalTypeOK'
  BY <1>6, FinishType DEF Unheard, ProposalTypeOK, doc
<1>7. ASSUME NEW c \in Callers, Record(c) PROVE ProposalTypeOK'
  <2>1. row' \in [Items -> Nat]
    BY <1>7 DEF Record, ProposalTypeOK
  <2> QED BY <1>7, <2>1, FinishType DEF Record, ProposalTypeOK, doc
<1>8. ASSUME RemoveCard PROVE ProposalTypeOK'
  <2>1. edits' \in 0..MaxEdits /\ snap' \in Nat
    BY <1>8 DEF RemoveCard, ProposalTypeOK, ProposalAssumption
  <2>2. /\ board' \subseteq board
        /\ edges' \subseteq edges
    BY <1>8 DEF RemoveCard
  <2> QED BY <1>8, <2>1, <2>2 DEF RemoveCard, ProposalTypeOK, call
<1>9. ASSUME UNCHANGED pvars PROVE ProposalTypeOK'
  BY <1>9 DEF ProposalTypeOK, pvars, call, doc
<1> QED BY <1>1, <1>2, <1>3, <1>4, <1>5, <1>6, <1>7, <1>8, <1>9 DEF ProposalNext

-----------------------------------------------------------------------------
\* What Write adds to the history, and what map it returns.
LEMMA WriteMakes ==
    ASSUME ProposalTypeOK, NEW c \in Callers, Write(c)
    PROVE  /\ made' = made \cup {<<i, snap + 1>> : i \in NewCards(c) \cup NewLinks(c)}
           /\ NewCards(c) \cup NewLinks(c) \subseteq {i \in Items : seen[c][i] = 0}
           /\ \A i \in Items : out'[c][i] = IF i \in NewCards(c) \cup NewLinks(c)
                                            THEN snap + 1 ELSE seen[c][i]
           /\ \A d \in Callers \ {c} : out'[d] = out[d]
<1>1. NewCards(c) \subseteq Items /\ NewLinks(c) \subseteq Items
  BY DEF NewCards, NewLinks, Items
<1>2. \A i \in Items : TempIds(c)[i] = IF i \in NewCards(c) THEN snap + 1 ELSE seen[c][i]
  BY DEF TempIds
<1>3. \A i \in NewCards(c) \cup NewLinks(c) : seen[c][i] = 0
  BY DEF NewCards, NewLinks
<1>4. out' = [out EXCEPT ![c] = [i \in Items |->
                   IF i \in NewLinks(c) THEN snap + 1 ELSE TempIds(c)[i]]]
  BY DEF Write
<1>5. out'[c] = [i \in Items |-> IF i \in NewLinks(c) THEN snap + 1 ELSE TempIds(c)[i]]
  BY <1>4 DEF ProposalTypeOK
<1>6. \A d \in Callers \ {c} : out'[d] = out[d]
  BY <1>4 DEF ProposalTypeOK
<1>7. \A i \in Items : out'[c][i] = IF i \in NewCards(c) \cup NewLinks(c)
                                    THEN snap + 1 ELSE seen[c][i]
  BY <1>2, <1>5
<1>8. made' = made \cup {<<i, snap + 1>> : i \in NewCards(c) \cup NewLinks(c)}
  BY DEF Write
<1> QED BY <1>1, <1>3, <1>6, <1>7, <1>8

\* Rows are numbered upwards and copies carry the number of their row.
LEMMA PastStep ==
    ProposalTypeOK /\ PastRows /\ [ProposalNext]_pvars => PastRows' /\ made \subseteq made'
<1> SUFFICES ASSUME ProposalTypeOK, PastRows, [ProposalNext]_pvars
             PROVE  PastRows' /\ made \subseteq made'
  OBVIOUS
<1>0. snap \in Nat
  BY DEF ProposalTypeOK
<1>1. ASSUME NEW c \in Callers, Write(c) PROVE PastRows' /\ made \subseteq made'
  <2>1. snap' = snap + 1
    BY <1>1 DEF Write
  <2>2. made' = made \cup {<<i, snap + 1>> : i \in NewCards(c) \cup NewLinks(c)}
    BY <1>1, WriteMakes
  <2>3. ASSUME NEW m \in made' PROVE m[2] \in 1..snap'
    <3>1. CASE m \in made
      BY <1>0, <2>1, <3>1 DEF PastRows
    <3>2. CASE m \in {<<i, snap + 1>> : i \in NewCards(c) \cup NewLinks(c)}
      BY <1>0, <2>1, <3>2
    <3> QED BY <2>2, <3>1, <3>2
  <2> QED BY <2>2, <2>3 DEF PastRows
<1>2. ASSUME RemoveCard PROVE PastRows' /\ made \subseteq made'
  <2>1. snap' = snap + 1 /\ made' = made
    BY <1>2 DEF RemoveCard
  <2> QED BY <1>0, <2>1 DEF PastRows
<1>3. ASSUME UNCHANGED doc PROVE PastRows' /\ made \subseteq made'
  BY <1>3 DEF PastRows, doc
<1> QED
  BY <1>1, <1>2, <1>3 DEF ProposalNext, Request, Load, Refused, WriteRefused, Unheard, Record, pvars

\* A call that ends carries no map any more; the others keep theirs.
LEMMA FinishMaps ==
    ASSUME ProposalTypeOK, NEW c \in Callers, Finish(c)
    PROVE  /\ ppc'[c] = "idle" /\ \A i \in Items : seen'[c][i] = 0 /\ out'[c][i] = 0
           /\ \A d \in Callers \ {c} : ppc'[d] = ppc[d] /\ seen'[d] = seen[d] /\ out'[d] = out[d]
  BY DEF ProposalTypeOK, Finish, NoIds

\* No map ever names a copy that was not written: a refused row leaves none behind.
LEMMA BackedStep ==
    ProposalTypeOK /\ PastRows /\ Backed /\ [ProposalNext]_pvars => Backed'
<1> SUFFICES ASSUME ProposalTypeOK, PastRows, Backed, [ProposalNext]_pvars, NEW i \in Items
             PROVE  /\ row'[i] # 0 => <<i, row'[i]>> \in made'
                    /\ \A c \in Callers :
                         /\ seen'[c][i] # 0 => <<i, seen'[c][i]>> \in made'
                         /\ out'[c][i] # 0 => <<i, out'[c][i]>> \in made'
  BY DEF Backed
<1> DEFINE Goal == /\ row'[i] # 0 => <<i, row'[i]>> \in made'
                   /\ \A c \in Callers :
                        /\ seen'[c][i] # 0 => <<i, seen'[c][i]>> \in made'
                        /\ out'[c][i] # 0 => <<i, out'[c][i]>> \in made'
<1>0. made \subseteq made'
  BY PastStep
<1>1. ASSUME NEW c \in Callers, Request(c) PROVE Goal
  <2>1. UNCHANGED <<row, out>> /\ seen'[c] = row /\ \A d \in Callers \ {c} : seen'[d] = seen[d]
    BY <1>1 DEF Request, ProposalTypeOK
  <2> QED BY <1>0, <2>1 DEF Backed
<1>2. ASSUME NEW c \in Callers, Write(c) PROVE Goal
  <2>1. UNCHANGED <<row, seen>>
    BY <1>2 DEF Write
  <2>2. out'[c][i] # 0 => <<i, out'[c][i]>> \in made'
    <3>1. CASE i \in NewCards(c) \cup NewLinks(c)
      <4>1. out'[c][i] = snap + 1
        BY <1>2, <3>1, WriteMakes
      <4>2. made' = made \cup {<<k, snap + 1>> : k \in NewCards(c) \cup NewLinks(c)}
        BY <1>2, WriteMakes
      <4> QED BY <3>1, <4>1, <4>2
    <3>2. CASE i \notin NewCards(c) \cup NewLinks(c)
      <4>1. out'[c][i] = seen[c][i]
        BY <1>2, <3>2, WriteMakes
      <4> QED BY <1>0, <4>1 DEF Backed
    <3> QED BY <3>1, <3>2
  <2>3. \A d \in Callers \ {c} : out'[d] = out[d]
    BY <1>2, WriteMakes
  <2> QED BY <1>0, <2>1, <2>2, <2>3 DEF Backed
<1>3. ASSUME NEW c \in Callers, Finish(c), UNCHANGED row PROVE Goal
  BY <1>0, <1>3, FinishMaps DEF Backed
<1>4. ASSUME NEW c \in Callers, Record(c) PROVE Goal
  <2>1. row'[i] = IF out[c][i] # 0 THEN out[c][i] ELSE seen[c][i]
    BY <1>4 DEF Record
  <2>2. Finish(c)
    BY <1>4 DEF Record
  <2> QED BY <1>0, <2>1, <2>2, FinishMaps DEF Backed
<1>5. ASSUME UNCHANGED <<row, seen, out>> PROVE Goal
  BY <1>0, <1>5 DEF Backed
<1> QED
  BY <1>1, <1>2, <1>3, <1>4, <1>5
  DEF ProposalNext, Load, Refused, WriteRefused, Unheard, RemoveCard, pvars, call

-----------------------------------------------------------------------------
\* Copies and ignorant calls can be counted.
LEMMA Countable ==
    ASSUME ProposalAssumption, ProposalTypeOK, NEW i \in Items
    PROVE  /\ IsFiniteSet(Copies(i)) /\ Cardinality(Copies(i)) \in Nat
           /\ IsFiniteSet(Ignorant(i)) /\ Cardinality(Ignorant(i)) \in Nat
           /\ Open(i) \in {0, 1} /\ races \in Nat /\ unheard \in Nat
<1>1. IsFiniteSet(1..snap)
  BY FS_Interval DEF ProposalTypeOK
<1>2. Copies(i) \in SUBSET (1..snap)
  BY DEF Copies
<1>3. Ignorant(i) \in SUBSET Callers
  BY DEF Ignorant
<1>4. IsFiniteSet(Copies(i)) /\ IsFiniteSet(Ignorant(i))
  BY <1>1, <1>2, <1>3, FS_Subset DEF ProposalAssumption
<1>5. Cardinality(Copies(i)) \in Nat /\ Cardinality(Ignorant(i)) \in Nat
  BY <1>4, FS_CardinalityType
<1> QED BY <1>4, <1>5 DEF Open, ProposalTypeOK

\* A call that ends was ignorant or not, and the others stay what they are.
LEMMA FinishCounts ==
    ASSUME ProposalTypeOK, NEW c \in Callers, Finish(c), NEW i \in Items
    PROVE  Ignorant(i)' = Ignorant(i) \ {c}
<1>1. /\ ppc'[c] = "idle"
      /\ \A d \in Callers \ {c} : ppc'[d] = ppc[d] /\ seen'[d] = seen[d] /\ out'[d] = out[d]
  BY FinishMaps
<1> QED BY <1>1 DEF Ignorant

\* A copy is paid for when a call overlaps another or is not recorded; every other step
\* only moves the right to make one from call to call or back to the row.
LEMMA BudgetStep ==
    ProposalAssumption /\ ProposalTypeOK /\ ProposalTypeOK' /\ PastRows /\ Budget
        /\ [ProposalNext]_pvars => Budget'
<1> SUFFICES ASSUME ProposalAssumption, ProposalTypeOK, ProposalTypeOK', PastRows, Budget,
                    [ProposalNext]_pvars, NEW i \in Items
             PROVE  Cardinality(Copies(i)') + Cardinality(Ignorant(i)') + Open(i)'
                        <= 1 + races' + unheard'
  BY DEF Budget
<1> DEFINE K == Cardinality(Copies(i))
           G == Cardinality(Ignorant(i))
           Goal == Cardinality(Copies(i)') + Cardinality(Ignorant(i)') + Open(i)'
                       <= 1 + races' + unheard'
<1>a. /\ K \in Nat /\ G \in Nat /\ Open(i) \in {0, 1} /\ races \in Nat /\ unheard \in Nat
      /\ IsFiniteSet(Copies(i)) /\ IsFiniteSet(Ignorant(i))
  BY Countable
<1>b. /\ Cardinality(Copies(i)') \in Nat /\ Cardinality(Ignorant(i)') \in Nat
      /\ Open(i)' \in {0, 1} /\ races' \in Nat /\ unheard' \in Nat
  <2>1. IsFiniteSet(1..snap') /\ IsFiniteSet(Callers)
    BY FS_Interval DEF ProposalTypeOK, ProposalAssumption
  <2>2. Copies(i)' \in SUBSET (1..snap') /\ Ignorant(i)' \in SUBSET Callers
    BY DEF Copies, Ignorant
  <2>3. IsFiniteSet(Copies(i)') /\ IsFiniteSet(Ignorant(i)')
    BY <2>1, <2>2, FS_Subset
  <2>4. Cardinality(Copies(i)') \in Nat /\ Cardinality(Ignorant(i)') \in Nat
    BY <2>3, FS_CardinalityType
  <2> QED BY <2>4 DEF Open, ProposalTypeOK
<1>c. K + G + Open(i) <= 1 + races + unheard
  BY DEF Budget
<1>d. ASSUME UNCHANGED made, snap' = snap \/ snap' = snap + 1 PROVE Copies(i)' = Copies(i)
  BY <1>d DEF Copies, PastRows, ProposalTypeOK
<1>e. \A c \in Callers : Cardinality(Ignorant(i) \ {c}) = IF c \in Ignorant(i) THEN G - 1 ELSE G
  BY <1>a, FS_RemoveElement
<1>f. \A c \in Callers : c \notin Ignorant(i) => Cardinality(Ignorant(i) \cup {c}) = G + 1
  BY <1>a, FS_AddElement
<1>g. Ignorant(i) # {} => G >= 1
  BY <1>a, FS_EmptySet
<1> HIDE DEF K, G
<1>1. ASSUME NEW c \in Callers, Request(c) PROVE Goal
  <2>1. /\ ppc[c] = "idle" /\ ppc'[c] = "read" /\ seen'[c] = row
        /\ \A d \in Callers \ {c} : ppc'[d] = ppc[d] /\ seen'[d] = seen[d]
        /\ UNCHANGED <<out, row, made, snap, unheard>>
    BY <1>1 DEF Request, ProposalTypeOK, doc
  <2>2. Copies(i)' = Copies(i)
    BY <1>d, <2>1
  <2>3. c \notin Ignorant(i) /\ Ignorant(i)' = Ignorant(i) \cup (IF row[i] = 0 THEN {c} ELSE {})
    BY <2>1 DEF Ignorant
  <2>4. Shielded(i)' <=> Shielded(i)
    BY <2>1 DEF Shielded
  <2>5. races' = IF \E d \in Callers \ {c} : ppc[d] # "idle" THEN races + 1 ELSE races
    BY <1>1 DEF Request
  <2>6. CASE row[i] # 0
    <3>1. Ignorant(i)' = Ignorant(i) /\ Open(i)' = 0
      BY <2>1, <2>3, <2>6 DEF Open
    <3> QED BY <1>a, <1>c, <2>1, <2>2, <2>5, <3>1 DEF K, G
  <2>7. CASE row[i] = 0
    <3>1. Cardinality(Ignorant(i)') = G + 1 /\ Open(i)' = 0
      BY <1>f, <2>3, <2>7 DEF Open
    <3>2. CASE races' = races + 1
      BY <1>a, <1>c, <2>1, <2>2, <3>1, <3>2 DEF K
    <3>3. CASE \A d \in Callers : ppc[d] = "idle"
      <4>1. Ignorant(i) = {} /\ ~Shielded(i)
        BY <3>3 DEF Ignorant, Shielded
      <4>2. Open(i) = 1 /\ races' \in {races, races + 1}
        BY <2>5, <2>7, <4>1 DEF Open
      <4> QED BY <1>a, <1>c, <2>1, <2>2, <3>1, <4>2 DEF K
    <3> QED BY <2>1, <2>5, <3>2, <3>3
  <2> QED BY <2>6, <2>7
<1>2. ASSUME NEW c \in Callers, Load(c) PROVE Goal
  <2>1. /\ ppc[c] = "read" /\ ppc'[c] = "loaded" /\ \A d \in Callers \ {c} : ppc'[d] = ppc[d]
        /\ UNCHANGED <<seen, out, row, made, snap, races, unheard>>
    BY <1>2 DEF Load, ProposalTypeOK, doc
  <2>2. Copies(i)' = Copies(i)
    BY <1>d, <2>1
  <2>3. Ignorant(i)' = Ignorant(i)
    BY <2>1 DEF Ignorant
  <2>4. Shielded(i)' <=> Shielded(i)
    BY <2>1 DEF Shielded
  <2>5. Open(i)' = Open(i)
    BY <2>1, <2>3, <2>4 DEF Open
  <2> QED BY <1>c, <2>1, <2>2, <2>3, <2>5 DEF K, G
<1>3. ASSUME NEW c \in Callers, Finish(c), ppc[c] \in {"read", "loaded"},
             UNCHANGED <<made, snap, row, races, unheard>>
      PROVE  Goal
  <2>1. Copies(i)' = Copies(i) /\ Ignorant(i)' = Ignorant(i) \ {c}
    BY <1>3, <1>d, FinishCounts
  <2>2. Shielded(i)' <=> Shielded(i)
    BY <1>3, FinishMaps DEF Shielded
  <2>3. CASE c \in Ignorant(i)
    BY <1>3, <1>a, <1>b, <1>c, <1>e, <2>1, <2>3 DEF K
  <2>4. CASE c \notin Ignorant(i)
    <3>1. Ignorant(i)' = Ignorant(i)
      BY <2>1, <2>4
    <3>2. Open(i)' = Open(i)
      BY <1>3, <2>2, <3>1 DEF Open
    <3> QED BY <1>3, <1>c, <2>1, <3>1, <3>2 DEF K, G
  <2> QED BY <2>3, <2>4
<1>4. ASSUME NEW c \in Callers, Write(c) PROVE Goal
  <2>1. /\ ppc[c] = "loaded" /\ ppc'[c] = "answered" /\ \A d \in Callers \ {c} : ppc'[d] = ppc[d]
        /\ UNCHANGED <<seen, row, races, unheard>> /\ snap' = snap + 1
    BY <1>4 DEF Write, ProposalTypeOK
  <2>2. /\ \A d \in Callers \ {c} : out'[d] = out[d]
        /\ out'[c][i] = IF i \in NewCards(c) \cup NewLinks(c) THEN snap + 1 ELSE seen[c][i]
        /\ made' = made \cup {<<k, snap + 1>> : k \in NewCards(c) \cup NewLinks(c)}
        /\ i \in NewCards(c) \cup NewLinks(c) => seen[c][i] = 0
    BY <1>4, WriteMakes
  <2>3. snap \in Nat
    BY DEF ProposalTypeOK
  <2>4. CASE i \in NewCards(c) \cup NewLinks(c)
    <3>1. Copies(i)' = Copies(i) \cup {snap + 1} /\ snap + 1 \notin Copies(i)
      <4>1. \A w : <<i, w>> \in made' <=> <<i, w>> \in made \/ w = snap + 1
        BY <2>2, <2>4
      <4>2. \A w : <<i, w>> \in made => w \in 1..snap
        BY DEF PastRows
      <4> QED BY <2>1, <2>3, <4>1, <4>2 DEF Copies
    <3>2. Cardinality(Copies(i)') = K + 1
      BY <1>a, <3>1, FS_AddElement DEF K
    <3>3. c \in Ignorant(i) /\ Ignorant(i)' = Ignorant(i) \ {c} /\ Shielded(i)'
      BY <2>1, <2>2, <2>3, <2>4 DEF Ignorant, Shielded
    <3>4. Open(i)' = 0
      BY <3>3 DEF Open
    <3> QED BY <1>a, <1>c, <1>e, <2>1, <3>2, <3>3, <3>4
  <2>5. CASE i \notin NewCards(c) \cup NewLinks(c)
    <3>1. \A w : <<i, w>> \in made' <=> <<i, w>> \in made
      BY <2>2, <2>5
    <3>2. Copies(i)' = Copies(i)
      BY <2>1, <2>3, <3>1 DEF Copies, PastRows
    <3>3. Ignorant(i)' = Ignorant(i)
      BY <2>1, <2>2, <2>5 DEF Ignorant
    <3>4. Shielded(i) => Shielded(i)'
      BY <2>1, <2>2 DEF Shielded
    <3>5. Open(i)' <= Open(i)
      BY <2>1, <3>3, <3>4 DEF Open
    <3> QED BY <1>a, <1>b, <1>c, <2>1, <3>2, <3>3, <3>5 DEF K, G
  <2> QED BY <2>4, <2>5
<1>5. ASSUME NEW c \in Callers, Unheard(c) PROVE Goal
  <2>1. Finish(c) /\ UNCHANGED <<made, snap, races>> /\ unheard' = unheard + 1
    BY <1>5 DEF Unheard, doc
  <2>2. Copies(i)' = Copies(i) /\ Ignorant(i)' = Ignorant(i) \ {c}
    BY <1>d, <2>1, FinishCounts
  <2> QED BY <1>a, <1>b, <1>c, <1>e, <2>1, <2>2 DEF K
<1>6. ASSUME NEW c \in Callers, Record(c) PROVE Goal
  <2>1. /\ Finish(c) /\ UNCHANGED <<made, snap, races, unheard>> /\ ppc[c] = "answered"
        /\ row'[i] = IF out[c][i] # 0 THEN out[c][i] ELSE seen[c][i]
    BY <1>6 DEF Record, doc
  <2>2. Copies(i)' = Copies(i) /\ Ignorant(i)' = Ignorant(i) \ {c}
    BY <1>d, <2>1, FinishCounts
  <2>3. CASE c \in Ignorant(i)
    BY <1>a, <1>b, <1>c, <1>e, <2>1, <2>2, <2>3 DEF K
  <2>4. CASE c \notin Ignorant(i)
    <3>1. Open(i)' = 0
      BY <2>1, <2>4 DEF Ignorant, Open
    <3> QED BY <1>a, <1>c, <1>e, <2>1, <2>2, <2>4, <3>1 DEF K
  <2> QED BY <2>3, <2>4
<1>7. ASSUME UNCHANGED <<ppc, seen, out, row, made, races, unheard>>,
             snap' = snap \/ snap' = snap + 1
      PROVE  Goal
  <2>1. Copies(i)' = Copies(i)
    BY <1>7, <1>d
  <2>2. Ignorant(i)' = Ignorant(i) /\ (Shielded(i)' <=> Shielded(i))
    BY <1>7 DEF Ignorant, Shielded
  <2>3. Open(i)' = Open(i)
    BY <1>7, <2>2 DEF Open
  <2> QED BY <1>7, <1>c, <2>1, <2>2, <2>3 DEF K, G
<1>8. ASSUME NEW c \in Callers, Refused(c) \/ WriteRefused(c) PROVE Goal
  BY <1>3, <1>8 DEF Refused, WriteRefused, doc
<1>9. ASSUME RemoveCard \/ UNCHANGED pvars PROVE Goal
  BY <1>7, <1>9 DEF RemoveCard, pvars, call, doc
<1> HIDE DEF Goal
<1>10. Goal
  BY <1>1, <1>2, <1>4, <1>5, <1>6, <1>8, <1>9 DEF ProposalNext
<1> QED BY <1>10 DEF Goal

-----------------------------------------------------------------------------
\* A proposal nobody has applied satisfies the invariant.
LEMMA InvInit == ProposalAssumption /\ ProposalInit => ApplyInv
<1> SUFFICES ASSUME ProposalAssumption, ProposalInit PROVE ApplyInv
  OBVIOUS
<1>1. NoIds \in [Items -> Nat]
  BY DEF NoIds
<1>2. ProposalTypeOK
  BY <1>1 DEF ProposalInit, ProposalTypeOK, ProposalAssumption
<1>3. PastRows /\ Backed
  BY DEF PastRows, Backed, ProposalInit, NoIds
<1>4. \A i \in Items : Copies(i) = {} /\ Ignorant(i) = {}
  BY DEF Copies, Ignorant, ProposalInit
<1>5. races = 0 /\ unheard = 0
  BY DEF ProposalInit
<1>6. Budget
  <2> SUFFICES ASSUME NEW i \in Items
               PROVE  Cardinality(Copies(i)) + Cardinality(Ignorant(i)) + Open(i)
                          <= 1 + races + unheard
    BY DEF Budget
  <2>1. Cardinality(Copies(i)) = 0 /\ Cardinality(Ignorant(i)) = 0
    BY <1>4, FS_EmptySet
  <2>2. Open(i) \in {0, 1}
    BY DEF Open
  <2> QED BY <1>5, <2>1, <2>2
<1> QED BY <1>2, <1>3, <1>6 DEF ApplyInv

\* The invariant holds throughout.
LEMMA AlwaysInv == ProposalSpec => []ApplyInv
<1>1. ProposalInit => ApplyInv
  BY ProposalAssumption, InvInit
<1>2. ApplyInv /\ [ProposalNext]_pvars => ApplyInv'
  BY ProposalAssumption, TypeStep, PastStep, BackedStep, BudgetStep DEF ApplyInv
<1> QED BY <1>1, <1>2, PTL DEF ProposalSpec

\* Whatever calls of applySelected overlap, are refused or lose their answer, an entry of
\* appliedItems stands for something that was written to the board.
THEOREM GuardMapIsTrue == ProposalSpec => []RowIsTrue
<1>1. ApplyInv => RowIsTrue
  BY DEF ApplyInv, Backed, RowIsTrue
<1> QED BY <1>1, AlwaysInv, PTL

\* An item is written once, and once more at most for every overlapping call of
\* applySelected and for every write that was never recorded.
THEOREM CopiesAreBounded == ProposalSpec => []CopiesBounded
<1>1. ApplyInv => CopiesBounded
  <2> SUFFICES ASSUME ApplyInv, NEW i \in Items
               PROVE  Cardinality(Copies(i)) <= 1 + races + unheard
    BY DEF CopiesBounded
  <2>1. ProposalTypeOK /\ Budget
    BY DEF ApplyInv
  <2>2. /\ Cardinality(Copies(i)) \in Nat /\ Cardinality(Ignorant(i)) \in Nat
        /\ Open(i) \in {0, 1} /\ races \in Nat /\ unheard \in Nat
    BY <2>1, ProposalAssumption, Countable
  <2>3. Cardinality(Copies(i)) + Cardinality(Ignorant(i)) + Open(i) <= 1 + races + unheard
    BY <2>1 DEF Budget
  <2> QED BY <2>2, <2>3
<1> QED BY <1>1, AlwaysInv, PTL
====
