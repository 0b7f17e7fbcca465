---- MODULE CanvasGestureProofs ----
(***************************************************************************)
(* For any fingers, cards and groups: the machine keeps to its states, no  *)
(* gesture outlives the last pointer, a locked card moves only with a      *)
(* gesture that took it earlier or with its group, and a gesture that is   *)
(* written to the document is closed.                                      *)
(***************************************************************************)
EXTENDS CanvasGesture, TLAPS

\* A user interface of the model whose cards have a place or are gone.
Good(u) == u \in UI /\ \A n \in Nodes : u.pos[n] # Bare

\* From u to v no card is taken or moved.
Still(u, v) ==
    /\ Good(v)
    /\ v.st.ids \subseteq u.st.ids
    /\ \A n \in Nodes : v.pos[n] = u.pos[n] \/ v.pos[n] = Gone

\* Nor does the machine begin to follow a pointer.
Calm(u, v) == Still(u, v) /\ (PointerGesture(v.st) => PointerGesture(u.st))

\* LockedMovesOnlyStale for one step.
LockRule(u, v) ==
    /\ (v.st.ids \ u.st.ids) \cap locked = {}
    /\ \A n \in locked :
         v.pos[n] # u.pos[n] /\ v.pos[n] # Gone
         => \/ n \in u.st.ids \/ (u.st.name = "resizing" /\ u.st.on.id = n)
            \/ n \in Group /\ \E m \in Group \ {n} : v.pos[m] # u.pos[m]

\* A step that keeps the rule and does not begin to follow a pointer.
Proper(u, v) ==
    Good(v) /\ LockRule(u, v) /\ (PointerGesture(v.st) => PointerGesture(u.st))

\* While a pointer is followed, one is down that no pinch has swallowed.
Followed == PointerGesture(ui.st) /\ ~lost => down \ pinchPtrs # {}

\* What the normalizer remembers is down, unless a lift went unseen.
Tracked == ~lost => active \subseteq down /\ pinchPtrs \subseteq down

CanvasInv ==
    /\ CanvasTypeOK
    /\ Good(ui)
    /\ Tracked
    /\ Followed

-----------------------------------------------------------------------------
(* States of the machine. *)

\* The states at rest, and what can be made of a state.
LEMMA StateForms ==
    /\ Idle \in States /\ SpacePan \in States /\ Editing \in States
    /\ ~PointerGesture(Idle) /\ ~PointerGesture(SpacePan) /\ ~PointerGesture(Editing)
    /\ Idle.ids = {} /\ SpacePan.ids = {} /\ Editing.ids = {}
  BY DEF Idle, SpacePan, Editing, States, Targets, Canvas, Target, PointerGesture

\* A target with a card or an edge names a thing.
LEMMA TargetIds ==
    ASSUME NEW t \in Targets, t.t # "canvas"
    PROVE  t.id \in Things
  BY DEF Targets, Canvas, Target

\* What can be hit is a target.
LEMMA HitsAreTargets ==
    ASSUME NEW u \in UI
    PROVE  Hits(u) \subseteq Targets
<1>1. Alive(u) \subseteq Things /\ Nodes \subseteq Things /\ Edge \in Things
  BY DEF Alive, Things
<1> SUFFICES ASSUME NEW t \in Hits(u) PROVE t \in Targets
  OBVIOUS
<1>2. CASE t = Canvas
  BY <1>2 DEF Targets
<1>3. CASE \E k \in {"node", "port", "handle", "edge", "waypoint"}, x \in Things : t = Target(k, x)
  BY <1>3 DEF Targets, Target
<1> QED BY <1>1, <1>2, <1>3 DEF Hits

-----------------------------------------------------------------------------
(* The document and the selection. *)

\* Only the fields that are given change.
LEMMA UIForms ==
    ASSUME NEW u \in UI
    PROVE  /\ u.st \in States /\ u.sel \subseteq Things /\ u.cap \subseteq Pointers
           /\ u.pos \in [Things -> Places \cup {Gone, Bare}]
           /\ u.phase \in {"closed", "open", "cancelled"}
  BY DEF UI

\* selection.set moves nothing.
LEMMA SelectCalm ==
    ASSUME NEW u, Good(u), NEW xs \in SUBSET Things,
           NEW mode \in {"replace", "subtract", "add", "toggle"}
    PROVE  /\ Calm(u, Select(u, xs, mode))
           /\ Select(u, xs, mode).st = u.st /\ Select(u, xs, mode).pos = u.pos
  BY DEF Good, UI, Select, Calm, Still

\* A deletion takes cards away and moves none.
LEMMA DeleteCalm ==
    ASSUME NEW u, Good(u), NEW xs
    PROVE  Calm(u, Delete(u, xs))
<1> DEFINE dead == xs \cup (IF xs \cap Nodes \cap Alive(u) # {} THEN {Edge} ELSE {})
           f == [x \in Things |-> IF x \in dead THEN Gone ELSE u.pos[x]]
<1>1. f \in [Things -> Places \cup {Gone, Bare}]
  BY UIForms DEF Good
<1>2. \A n \in Nodes : f[n] = u.pos[n] \/ f[n] = Gone
  BY DEF Things
<1>3. Gone # Bare
  BY DEF Gone, Bare
<1> HIDE DEF f, dead
<1>4. Delete(u, xs) = [u EXCEPT !.pos = f]
  BY DEF Delete, f, dead
<1> QED BY <1>1, <1>2, <1>3, <1>4 DEF Good, UI, Calm, Still

\* MoveNodes moves living cards of the set, and with one card of the group all of it.
LEMMA MoveNodesGood ==
    ASSUME CanvasAssumption, NEW u, Good(u), NEW ids \in SUBSET Nodes
    PROVE  LET v == MoveNodes(u, ids)
           IN  /\ Good(v) /\ v.st = u.st
               /\ \A n \in Nodes : v.pos[n] # u.pos[n] =>
                    n \in ids \/ (n \in Group /\ \E m \in Group : m \in ids /\ v.pos[m] # u.pos[m])
<1> DEFINE moved == WithGroup(u, ids) \cap Alive(u)
           f == [x \in Things |-> IF x \in moved THEN 1 - u.pos[x] ELSE u.pos[x]]
<1>1. WithGroup(u, ids) \subseteq Nodes
  BY DEF WithGroup, CanvasAssumption
<1>2. \A n \in moved : n \in Nodes /\ u.pos[n] \in {0, 1}
  BY <1>1, UIForms DEF Good, Alive, Things, Places
<1>3. f \in [Things -> Places \cup {Gone, Bare}]
  BY <1>2, UIForms DEF Good, Places
<1>4. \A n \in Nodes : f[n] # Bare
  BY <1>2 DEF Good, Bare, Things
<1>5. \A n \in Nodes : f[n] # u.pos[n] <=> n \in moved
  BY <1>2 DEF Things
<1>6. ASSUME NEW n \in Nodes, n \in moved, n \notin ids
      PROVE  n \in Group /\ \E m \in Group : m \in ids /\ m \in moved
  BY <1>6 DEF WithGroup
<1> HIDE DEF f, moved
<1>7. MoveNodes(u, ids) = [u EXCEPT !.phase = "closed", !.pos = f]
  BY DEF MoveNodes, f, moved
<1>8. Group \subseteq Nodes
  BY DEF CanvasAssumption
<1>9. /\ MoveNodes(u, ids) \in UI /\ MoveNodes(u, ids).st = u.st
      /\ MoveNodes(u, ids).pos = f
  BY <1>3, <1>7 DEF Good, UI
<1> QED BY <1>4, <1>5, <1>6, <1>8, <1>9 DEF Good

\* Place moves one thing that is there.
LEMMA PlaceGood ==
    ASSUME NEW u, Good(u), NEW x, NEW q \in Places, NEW phase \in {"closed", "open"}
    PROVE  LET v == Place(u, x, q, phase)
           IN  /\ Good(v) /\ v.st = u.st
               /\ \A y \in Things \ {x} : v.pos[y] = u.pos[y]
<1> DEFINE f == [u.pos EXCEPT ![x] = IF u.pos[x] \in Places THEN q ELSE u.pos[x]]
<1>1. u.pos \in [Things -> Places \cup {Gone, Bare}]
  BY UIForms DEF Good
<1>2. f \in [Things -> Places \cup {Gone, Bare}]
  BY <1>1
<1>3. \A n \in Nodes : f[n] # Bare
  BY <1>1 DEF Good, Things, Places, Bare
<1>4. \A y \in Things \ {x} : f[y] = u.pos[y]
  BY <1>1
<1> HIDE DEF f
<1>5. Place(u, x, q, phase) = [u EXCEPT !.phase = phase, !.pos = f]
  BY DEF Place, f, Good, UI
<1>6. /\ Place(u, x, q, phase) \in UI /\ Place(u, x, q, phase).st = u.st
      /\ Place(u, x, q, phase).pos = f
  BY <1>2, <1>5 DEF Good, UI
<1> QED BY <1>3, <1>4, <1>6 DEF Good

-----------------------------------------------------------------------------
(* The machine's reactions. *)

\* Captures and releases change nothing else.
LEMMA CaptureCalm ==
    ASSUME NEW u, Good(u), NEW p \in Pointers
    PROVE  /\ Calm(u, Press(u, p)) /\ Press(u, p).st = u.st
           /\ Good(Lift(u, p)) /\ Lift(u, p).st = u.st /\ Lift(u, p).pos = u.pos
  BY DEF Good, UI, Press, Lift, Calm, Still

\* abort ends whatever was under way.
LEMMA AbortCalm ==
    ASSUME NEW u, Good(u)
    PROVE  Calm(u, Abort(u)) /\ ~PointerGesture(Abort(u).st)
<1> DEFINE s == IF u.st.name = "panning" /\ u.st.space THEN SpacePan ELSE Idle
           c == u.cap \ {u.st.ptr}
           f == IF u.st.name \in {"draggingNodes", "resizing", "draggingWaypoint"}
                THEN "cancelled" ELSE u.phase
<1>1. s \in States /\ ~PointerGesture(s) /\ s.ids = {}
  BY StateForms
<1>2. c \subseteq Pointers /\ f \in {"closed", "open", "cancelled"}
  BY UIForms DEF Good
<1> HIDE DEF s, c, f
<1>3. Abort(u) = [u EXCEPT !.st = s, !.cap = c, !.phase = f]
  BY DEF Abort, s, c, f
<1> QED BY <1>1, <1>2, <1>3 DEF Good, UI, Calm, Still

\* A press replaces the gesture and moves no card.
LEMMA DownStill ==
    ASSUME CanvasAssumption, NEW u, Good(u), NEW p \in Pointers,
           NEW button \in {"left", "middle", "right"},
           NEW mode \in {"replace", "toggle", "subtract"}, NEW t \in Targets, NEW q \in Places
    PROVE  Still(u, Down(u, p, button, mode, t, q))
<1> DEFINE grab == [Idle EXCEPT !.ptr = p, !.on = t]
           take(s) == [u EXCEPT !.st = s, !.cap = u.cap \cup {p}]
           g1 == [grab EXCEPT !.name = "panning", !.space = (u.st.name = "spacePan")]
           g2 == [grab EXCEPT !.name = "resizing"]
           g3 == [grab EXCEPT !.name = "draggingWaypoint"]
           g4 == [grab EXCEPT !.name = "connecting"]
           g5 == [grab EXCEPT !.name = "pressPending", !.mode = mode]
<1>0. grab \in States /\ grab.ids = {}
  BY DEF Idle, States, Pointers
<1> HIDE DEF grab
<1>1. \A s \in {g1, g2, g3, g4, g5} : s \in States /\ s.ids = {}
  <2>1. g1 \in States /\ g1.ids = {}
    BY <1>0 DEF States
  <2>2. g2 \in States /\ g2.ids = {}
    BY <1>0 DEF States
  <2>3. g3 \in States /\ g3.ids = {}
    BY <1>0 DEF States
  <2>4. g4 \in States /\ g4.ids = {}
    BY <1>0 DEF States
  <2>5. g5 \in States /\ g5.ids = {}
    BY <1>0 DEF States
  <2> HIDE DEF g1, g2, g3, g4, g5
  <2> QED BY <2>1, <2>2, <2>3, <2>4, <2>5
<1>2. \A s \in {g1, g2, g3, g4, g5} :
        /\ Still(u, take(s)) /\ Good(take(s)) /\ take(s).st = s /\ take(s).pos = u.pos
  <2> SUFFICES ASSUME NEW s \in States, s.ids = {}
               PROVE  /\ Still(u, take(s)) /\ take(s).st = s /\ take(s).pos = u.pos
    BY <1>1 DEF Still
  <2> QED BY DEF Still, Good, UI
<1>3. Still(u, Place(take(g3), Edge, q, "open"))
  <2>1. Good(take(g3)) /\ take(g3).st = g3 /\ take(g3).pos = u.pos /\ g3.ids = {}
    BY <1>1, <1>2
  <2>2. \A n \in Nodes : n \in Things \ {Edge}
    BY DEF Things, CanvasAssumption
  <2> HIDE DEF take, g3
  <2> QED BY <2>1, <2>2, PlaceGood DEF Still
<1>4. Still(u, [u EXCEPT !.st = Idle]) /\ Still(u, u)
  BY StateForms DEF Still, Good, UI
<1>5. Down(u, p, button, mode, t, q) \in
        {[u EXCEPT !.st = Idle], u, take(g1), take(g2), take(g4), take(g5),
         Place(take(g3), Edge, q, "open")}
  BY DEF Down, grab
<1> HIDE DEF take, g1, g2, g3, g4, g5
<1> QED BY <1>2, <1>3, <1>4, <1>5

\* A drag set holds living, unlocked cards.
LEMMA DragSetUnlocked ==
    ASSUME NEW u, NEW n
    PROVE  DragSet(u, n) \subseteq Nodes /\ DragSet(u, n) \cap locked = {}
  BY DEF DragSet, Unlocked

\* What moves no card keeps the rule about locks.
LEMMA StillKeepsLocks ==
    ASSUME NEW u, NEW v, Still(u, v), locked \subseteq Nodes
    PROVE  LockRule(u, v)
  BY DEF Still, LockRule

\* Nor does a calm step do anything else.
LEMMA CalmIsProper ==
    ASSUME NEW u, NEW v, Calm(u, v), locked \subseteq Nodes
    PROVE  Proper(u, v)
  BY StillKeepsLocks DEF Calm, Still, Proper

\* A move begins a drag of unlocked cards, resizes or does nothing.
LEMMA MoveProper ==
    ASSUME CanvasAssumption, NEW u, Good(u), locked \subseteq Nodes,
           NEW beyond \in BOOLEAN, NEW q \in Places
    PROVE  Proper(u, Move(u, beyond, q))
<1> DEFINE s == u.st
           drag == IF s.on.t = "node" THEN DragSet(u, s.on.id) ELSE {}
           v == Move(u, beyond, q)
<1> SUFFICES Proper(u, v)
  OBVIOUS
<1>0. s \in States /\ u \in UI
  BY UIForms DEF Good
<1>1. CASE s.name = "pressPending" /\ beyond /\ drag = {}
  <2> DEFINE g == [s EXCEPT !.name = "marquee"]
  <2>1. v = [u EXCEPT !.st = g]
    BY <1>1 DEF Move
  <2>2. g \in States /\ g.ids = s.ids /\ (PointerGesture(g) => PointerGesture(s))
    BY <1>0, <1>1 DEF States, PointerGesture
  <2> HIDE DEF g, v
  <2>3. Calm(u, v)
    BY <2>1, <2>2 DEF Calm, Still, Good, UI
  <2> QED BY <2>3, CalmIsProper
<1>2. CASE s.name = "pressPending" /\ beyond /\ drag # {}
  <2> DEFINE g == [s EXCEPT !.name = "draggingNodes", !.ids = drag]
             sel == IF s.on.id \in u.sel THEN u.sel ELSE {s.on.id}
  <2>1. v = [u EXCEPT !.st = g, !.sel = sel, !.phase = "open"]
    BY <1>2 DEF Move
  <2>2. drag \subseteq Nodes /\ drag \cap locked = {}
    BY DragSetUnlocked
  <2>3. s.on.t = "node" /\ s.on \in Targets
    BY <1>0, <1>2 DEF States
  <2>4. sel \subseteq Things
    BY <1>0, <2>3, TargetIds, UIForms
  <2> HIDE DEF drag
  <2>5. g \in States /\ g.ids = drag /\ (PointerGesture(g) => PointerGesture(s))
    BY <1>0, <1>2, <2>2 DEF States, PointerGesture
  <2> HIDE DEF g, sel, v
  <2>6. v \in UI /\ v.st = g /\ v.pos = u.pos
    BY <2>1, <2>4, <2>5 DEF Good, UI
  <2> QED BY <2>2, <2>5, <2>6 DEF Good, LockRule, Proper
<1>3. CASE s.name = "resizing"
  <2>1. v = Place(u, s.on.id, q, "open")
    BY <1>3 DEF Move
  <2>2. Good(v) /\ v.st = u.st /\ \A y \in Things \ {s.on.id} : v.pos[y] = u.pos[y]
    BY <2>1, PlaceGood
  <2> HIDE DEF v
  <2> QED BY <1>3, <2>2 DEF LockRule, Things, Proper
<1>4. CASE s.name = "draggingWaypoint"
  <2>1. v = Place(u, Edge, q, "open")
    BY <1>4 DEF Move
  <2>2. Good(v) /\ v.st = u.st /\ \A y \in Things \ {Edge} : v.pos[y] = u.pos[y]
    BY <2>1, PlaceGood
  <2> HIDE DEF v
  <2> QED BY <2>2 DEF LockRule, Things, CanvasAssumption, Proper
<1>5. CASE v = u
  <2> HIDE DEF v
  <2> QED BY <1>5 DEF LockRule, Proper
<1>6. \/ s.name = "pressPending" /\ beyond /\ drag = {}
      \/ s.name = "pressPending" /\ beyond /\ drag # {}
      \/ s.name = "resizing" \/ s.name = "draggingWaypoint"
      \/ v = u
  BY DEF Move
<1> HIDE DEF v, drag
<1> QED BY <1>1, <1>2, <1>3, <1>4, <1>5, <1>6

\* A lift drops the gesture; what a drag had taken moves, with its group.
LEMMA UpProper ==
    ASSUME CanvasAssumption, NEW u, Good(u), locked \subseteq Nodes,
           NEW p \in Pointers, NEW hits \in SUBSET Nodes, NEW q \in Places
    PROVE  Proper(u, Up(u, p, hits, q)) /\ ~PointerGesture(Up(u, p, hits, q).st)
<1> DEFINE s == u.st
           w == [u EXCEPT !.st = IF s.name = "panning" /\ s.space THEN SpacePan ELSE Idle,
                          !.cap = u.cap \ {p}]
           picked == IF s.on.t \in {"node", "edge"} THEN {s.on.id} ELSE {}
           v == Up(u, p, hits, q)
<1> SUFFICES Proper(u, v) /\ ~PointerGesture(v.st)
  OBVIOUS
<1>0. s \in States /\ s.on \in Targets /\ s.ids \subseteq Nodes
  BY UIForms DEF Good, States
<1>1. picked \subseteq Things /\ hits \subseteq Things
  BY <1>0, TargetIds DEF Things
<1>2. Good(w) /\ Calm(u, w) /\ ~PointerGesture(w.st) /\ w.pos = u.pos /\ w.st.ids = {}
  <2> DEFINE r == IF s.name = "panning" /\ s.space THEN SpacePan ELSE Idle
  <2>1. r \in States /\ ~PointerGesture(r) /\ r.ids = {}
    BY StateForms
  <2> HIDE DEF r
  <2>2. w = [u EXCEPT !.st = r, !.cap = u.cap \ {p}]
    BY DEF r
  <2> HIDE DEF w
  <2> QED BY <2>1, <2>2 DEF Good, UI, Calm, Still
<1> HIDE DEF w, picked
<1>3. CASE v = u /\ s.name \in {"idle", "spacePan", "editing"}
  <2> HIDE DEF v
  <2> QED BY <1>3 DEF LockRule, Proper, PointerGesture
<1>4. CASE v = w
  <2> HIDE DEF v
  <2> QED BY <1>2, <1>4, CalmIsProper
<1>5. CASE \E xs \in SUBSET Things, m \in {"replace", "subtract", "add", "toggle"} :
             v = Select(w, xs, m)
  <2> HIDE DEF v
  <2>1. Good(v) /\ v.st = w.st /\ v.pos = w.pos
    BY <1>2, <1>5, SelectCalm DEF Calm, Still
  <2> QED BY <1>2, <2>1 DEF LockRule, Proper
<1>6. CASE v = MoveNodes(w, s.ids)
  <2> HIDE DEF v
  <2>1. /\ Good(v) /\ v.st = w.st
        /\ \A n \in Nodes : v.pos[n] # w.pos[n] =>
             n \in s.ids \/ (n \in Group /\ \E m \in Group : m \in s.ids /\ v.pos[m] # w.pos[m])
    BY <1>0, <1>2, <1>6, MoveNodesGood
  <2> QED BY <1>2, <2>1 DEF LockRule, Proper
<1>7. CASE v = [w EXCEPT !.phase = "closed"]
  <2> HIDE DEF v
  <2>1. Good(v) /\ v.st = w.st /\ v.pos = w.pos
    BY <1>2, <1>7 DEF Good, UI
  <2> QED BY <1>2, <2>1 DEF LockRule, Proper
<1>8. CASE v = Place(w, Edge, q, "closed")
  <2> HIDE DEF v
  <2>1. Good(v) /\ v.st = w.st /\ \A y \in Things \ {Edge} : v.pos[y] = w.pos[y]
    BY <1>2, <1>8, PlaceGood
  <2> QED BY <1>2, <2>1 DEF LockRule, Things, CanvasAssumption, Proper
<1>9. \/ v = u /\ s.name \in {"idle", "spacePan", "editing"}
      \/ v = w
      \/ \E xs \in SUBSET Things, m \in {"replace", "subtract", "add", "toggle"} :
           v = Select(w, xs, m)
      \/ v = MoveNodes(w, s.ids)
      \/ v = [w EXCEPT !.phase = "closed"]
      \/ v = Place(w, Edge, q, "closed")
  <2>1. CASE s.name \in {"idle", "spacePan", "editing"}
    BY <2>1 DEF Up
  <2>2. CASE s.name = "pressPending"
    <3>1. v = w \/ v = Select(w, picked, s.mode)
      BY <2>2 DEF Up, w, picked
    <3>2. s.mode \in {"replace", "subtract", "toggle"}
      BY <1>0 DEF States
    <3> HIDE DEF v
    <3> QED BY <1>1, <3>1, <3>2
  <2>3. CASE s.name = "marquee"
    <3>1. v = Select(w, hits, IF s.mode = "toggle" THEN "add" ELSE "replace")
      BY <2>3 DEF Up, w
    <3> HIDE DEF v
    <3> QED BY <1>1, <3>1
  <2>4. CASE s.name = "draggingNodes"
    BY <2>4 DEF Up, w
  <2>5. CASE s.name = "resizing"
    BY <2>5 DEF Up, w
  <2>6. CASE s.name = "draggingWaypoint"
    BY <2>6 DEF Up, w
  <2>7. CASE s.name \in {"panning", "connecting"}
    BY <2>7 DEF Up, w
  <2> HIDE DEF v
  <2> QED BY <1>0, <2>1, <2>2, <2>3, <2>4, <2>5, <2>6, <2>7 DEF States
<1> HIDE DEF v
<1> QED BY <1>3, <1>4, <1>5, <1>6, <1>7, <1>8, <1>9

\* A double click places a waypoint or opens the editor.
LEMMA DblclickCalm ==
    ASSUME CanvasAssumption, NEW u, Good(u), NEW t \in Targets, NEW q \in Places
    PROVE  Calm(u, Dblclick(u, t, q))
<1>1. Calm(u, [u EXCEPT !.st = Editing]) /\ Calm(u, u)
  BY StateForms DEF Calm, Still, Good, UI
<1>2. Calm(u, [u EXCEPT !.pos[Edge] = q])
  <2> DEFINE f == [u.pos EXCEPT ![Edge] = q]
  <2>1. u.pos \in [Things -> Places \cup {Gone, Bare}]
    BY UIForms DEF Good
  <2>2. f \in [Things -> Places \cup {Gone, Bare}] /\ \A n \in Nodes : f[n] = u.pos[n]
    BY <2>1 DEF CanvasAssumption, Things
  <2> HIDE DEF f
  <2>3. [u EXCEPT !.pos[Edge] = q] = [u EXCEPT !.pos = f]
    BY DEF f, Good, UI
  <2> QED BY <2>2, <2>3 DEF Calm, Still, Good, UI
<1> QED BY <1>1, <1>2 DEF Dblclick

\* A long press drops the gesture, or strips the edge.
LEMMA HoldCalm ==
    ASSUME CanvasAssumption, NEW u, Good(u), NEW t \in Targets
    PROVE  Calm(u, Hold(u, t))
<1> DEFINE w == IF t.t \in {"node", "edge"} /\ t.id \notin u.sel
                THEN Select(u, {t.id}, "replace") ELSE u
<1>1. Good(w) /\ w.pos = u.pos
  <2>1. t.t \in {"node", "edge"} => {t.id} \in SUBSET Things
    BY TargetIds
  <2> QED BY <2>1, SelectCalm DEF Calm, Still
<1> HIDE DEF w
<1>2. Calm(u, [w EXCEPT !.st = Idle])
  BY <1>1, StateForms DEF Calm, Still, Good, UI
<1>3. Calm(u, [u EXCEPT !.pos[Edge] = Bare])
  <2> DEFINE f == [u.pos EXCEPT ![Edge] = Bare]
  <2>1. u.pos \in [Things -> Places \cup {Gone, Bare}]
    BY UIForms DEF Good
  <2>2. f \in [Things -> Places \cup {Gone, Bare}] /\ \A n \in Nodes : f[n] = u.pos[n]
    BY <2>1 DEF CanvasAssumption, Things
  <2> HIDE DEF f
  <2>3. [u EXCEPT !.pos[Edge] = Bare] = [u EXCEPT !.pos = f]
    BY DEF f, Good, UI
  <2> QED BY <2>2, <2>3 DEF Calm, Still, Good, UI
<1> QED BY <1>2, <1>3 DEF Hold, w

\* A key moves unlocked cards with their group, and follows no pointer.
LEMMA KeyProper ==
    ASSUME CanvasAssumption, NEW u, Good(u), locked \subseteq Nodes,
           NEW k \in Keys, NEW x
    PROVE  Proper(u, Key(u, k, x))
<1> DEFINE c == [Idle EXCEPT !.name = "connecting", !.on = Target("node", x)]
           w == [u EXCEPT !.st = Idle]
           ids == u.sel \cap Unlocked(u)
           v == Key(u, k, x)
<1> SUFFICES Proper(u, v)
  OBVIOUS
<1>1. Calm(u, u) /\ Calm(u, w) /\ Calm(u, [u EXCEPT !.st = SpacePan])
      /\ Calm(u, [u EXCEPT !.st = Editing]) /\ w.pos = u.pos /\ w.st = Idle
  BY StateForms DEF Calm, Still, Good, UI
<1>2. Calm(u, [u EXCEPT !.sel = {}]) /\ Calm(u, [u EXCEPT !.sel = Alive(u) \cap Nodes])
  <2>1. {} \subseteq Things /\ Alive(u) \cap Nodes \subseteq Things
    BY DEF Things
  <2> QED BY <2>1 DEF Calm, Still, Good, UI
<1>3. CASE x \in Nodes /\ v = [u EXCEPT !.st = c]
  <2>1. Target("node", x) \in Targets
    BY <1>3 DEF Targets, Target, Things
  <2>2. c \in States /\ ~PointerGesture(c) /\ c.ids = {}
    BY <2>1 DEF Idle, States, PointerGesture
  <2> HIDE DEF c, v
  <2>3. Calm(u, v)
    BY <1>3, <2>2 DEF Calm, Still, Good, UI
  <2> QED BY <2>3, CalmIsProper
<1>4. CASE v = MoveNodes(w, ids)
  <2>1. ids \subseteq Nodes /\ ids \cap locked = {}
    BY DEF Unlocked
  <2>2. Good(w)
    BY <1>1 DEF Calm, Still
  <2> HIDE DEF v, w, ids
  <2>3. /\ Good(v) /\ v.st = w.st
        /\ \A n \in Nodes : v.pos[n] # w.pos[n] =>
             n \in ids \/ (n \in Group /\ \E m \in Group : m \in ids /\ v.pos[m] # w.pos[m])
    BY <1>4, <2>1, <2>2, MoveNodesGood
  <2> QED BY <1>1, <2>1, <2>3, StateForms DEF LockRule, Proper
<1>5. \/ v \in {u, w, [u EXCEPT !.st = SpacePan], [u EXCEPT !.st = Editing],
                [u EXCEPT !.sel = {}], [u EXCEPT !.sel = Alive(u) \cap Nodes],
                Abort(u), Delete(u, u.sel)}
      \/ x \in Nodes /\ v = [u EXCEPT !.st = c]
      \/ v = MoveNodes(w, ids)
  BY DEF Key, Keys
<1> HIDE DEF v, w, ids, c
<1>6. CASE v \in {u, w, [u EXCEPT !.st = SpacePan], [u EXCEPT !.st = Editing],
                  [u EXCEPT !.sel = {}], [u EXCEPT !.sel = Alive(u) \cap Nodes],
                  Abort(u), Delete(u, u.sel)}
  <2>1. Calm(u, Abort(u)) /\ Calm(u, Delete(u, u.sel))
    BY AbortCalm, DeleteCalm
  <2>2. Calm(u, v)
    BY <1>1, <1>2, <1>6, <2>1, Zenon
  <2> QED BY <2>2, CalmIsProper
<1> QED BY <1>3, <1>4, <1>5, <1>6

-----------------------------------------------------------------------------
(* The raw events. *)

\* Steps that move nothing compose.
LEMMA StillComposes ==
    ASSUME NEW u, NEW v, NEW w, Still(u, v), Still(v, w)
    PROVE  Still(u, w)
  BY DEF Still

\* The invariant holds when the board is opened.
LEMMA CanvasInvInit ==
    ASSUME CanvasAssumption, CanvasInit
    PROVE  CanvasInv
<1>1. PICK sc \in Scenes :
         /\ hands = sc[1]
         /\ ui = [st |-> Idle, sel |-> {}, cap |-> {}, phase |-> "closed",
                  pos |-> [y \in Things |-> IF y \in sc[2] THEN 0 ELSE Gone]]
  BY DEF CanvasInit
<1>2. hands \subseteq Pointers
  BY <1>1 DEF CanvasAssumption
<1> DEFINE f == [y \in Things |-> IF y \in sc[2] THEN 0 ELSE Gone]
<1>3. f \in [Things -> Places \cup {Gone, Bare}]
  BY DEF Places
<1>4. \A n \in Nodes : f[n] # Bare
  BY DEF Things, Gone, Bare
<1> HIDE DEF f
<1>5. ui = [st |-> Idle, sel |-> {}, cap |-> {}, phase |-> "closed", pos |-> f]
  BY <1>1 DEF f
<1>6. ui \in UI /\ ui.st = Idle /\ ui.pos = f
  BY <1>3, <1>5, StateForms DEF UI
<1>7. CanvasTypeOK
  BY <1>2, <1>6 DEF CanvasInit, CanvasTypeOK
<1> QED BY <1>4, <1>6, <1>7, StateForms DEF CanvasInit, CanvasInv, Good, Tracked, Followed

\* Every event keeps the invariant and the rule about locks.
LEMMA CanvasStep ==
    ASSUME CanvasAssumption, CanvasInv, CanvasNext
    PROVE  CanvasInv' /\ LockRule(ui, ui')
<1> USE DEF CanvasInv
<1>0. /\ hands \subseteq Pointers /\ down \subseteq hands /\ active \subseteq Pointers
      /\ pinchPtrs \subseteq Pointers /\ locked \subseteq Nodes /\ ui \in UI
  BY DEF CanvasTypeOK
<1>h. Hits(ui) \subseteq Targets
  BY <1>0, HitsAreTargets
<1>1. ASSUME NEW p \in Pointers, PinchStart(p)
      PROVE  CanvasInv' /\ LockRule(ui, ui')
  <2> DEFINE w == Press(ui, p)
  <2>1. Good(w) /\ Still(ui, w)
    BY CaptureCalm DEF Calm, Still
  <2>2. Good(Abort(w)) /\ Still(w, Abort(w))
    BY <2>1, AbortCalm DEF Calm, Still
  <2>3. Still(Abort(w), ui') /\ ~PointerGesture(ui'.st)
    BY <1>1, <2>2, AbortCalm DEF Calm, PinchStart
  <2> HIDE DEF w
  <2>4. Still(ui, ui') /\ ui' \in UI
    BY <2>1, <2>2, <2>3, StillComposes DEF Still, Good
  <2>5. CanvasTypeOK' /\ Tracked'
    BY <1>1, <2>4 DEF PinchStart, CanvasTypeOK, Tracked
  <2>6. Good(ui)' /\ LockRule(ui, ui')
    BY <1>0, <2>4, StillKeepsLocks DEF Still, Good
  <2> QED BY <2>3, <2>5, <2>6 DEF Followed
<1>2. ASSUME NEW p \in Pointers, PointerDown(p)
      PROVE  CanvasInv' /\ LockRule(ui, ui')
  <2>1. PICK b \in {"left", "middle", "right"}, m \in Modes, t \in Hits(ui), q \in Places :
          LET u == Down(Press(ui, p), p, b, m, t, q)
          IN  \/ recent /\ recent' = FALSE /\ timer' = timer /\ ui' = Dblclick(u, t, q)
              \/ recent' = recent /\ timer' = TRUE /\ ui' = u
    BY <1>2 DEF PointerDown
  <2> DEFINE w == Press(ui, p)
             u == Down(w, p, b, m, t, q)
  <2>2. Good(w) /\ Still(ui, w)
    BY CaptureCalm DEF Calm, Still
  <2>3. m \in {"replace", "toggle", "subtract"} /\ t \in Targets
    BY <1>h DEF CanvasAssumption
  <2> HIDE DEF w
  <2>4. Still(w, u) /\ Good(u)
    <3>1. Still(w, u)
      BY <2>2, <2>3, DownStill
    <3> HIDE DEF u
    <3> QED BY <3>1 DEF Still
  <2>5. /\ ui' = u \/ ui' = Dblclick(u, t, q)
        /\ recent' \in BOOLEAN /\ timer' \in BOOLEAN
    BY <2>1 DEF w, CanvasTypeOK
  <2> HIDE DEF u
  <2>6. Still(u, ui')
    BY <2>3, <2>4, <2>5, DblclickCalm DEF Calm, Still
  <2>7. Still(ui, ui') /\ ui' \in UI
    BY <2>2, <2>4, <2>6, StillComposes DEF Still, Good
  <2>8. CanvasTypeOK' /\ Tracked'
    BY <1>2, <2>5, <2>7 DEF PointerDown, CanvasTypeOK, Tracked
  <2>9. Good(ui)' /\ LockRule(ui, ui')
    BY <1>0, <2>7, StillKeepsLocks DEF Still, Good
  <2>10. Followed'
    BY <1>2 DEF PointerDown, Tracked, Followed
  <2> QED BY <2>8, <2>9, <2>10
<1>3. ASSUME NEW p \in Pointers, PointerMove(p)
      PROVE  CanvasInv' /\ LockRule(ui, ui')
  <2>1. PICK far \in BOOLEAN, beyond \in BOOLEAN, q \in Places :
          timer' = (timer /\ ~(p \in active /\ far)) /\ ui' = Move(ui, beyond, q)
    BY <1>3 DEF PointerMove
  <2>2. Proper(ui, ui')
    BY <1>0, <2>1, MoveProper
  <2>3. Good(ui)' /\ LockRule(ui, ui') /\ ui' \in UI
    BY <2>2 DEF Proper, Good
  <2>4. CanvasTypeOK' /\ Tracked'
    BY <1>3, <2>1, <2>3 DEF PointerMove, CanvasTypeOK, Tracked
  <2>5. Followed'
    BY <1>3, <2>2 DEF PointerMove, Proper, Followed
  <2> QED BY <2>3, <2>4, <2>5
<1>4. ASSUME NEW p \in Pointers, PointerUp(p)
      PROVE  CanvasInv' /\ LockRule(ui, ui')
  <2>1. PICK hits \in SUBSET Nodes, q \in Places : ui' = Lift(Up(ui, p, hits, q), p)
    BY <1>4 DEF PointerUp
  <2> DEFINE w == Up(ui, p, hits, q)
  <2>2. Proper(ui, w) /\ ~PointerGesture(w.st)
    BY <1>0, UpProper
  <2> HIDE DEF w
  <2>3. ui' = Lift(w, p)
    BY <2>1 DEF w
  <2>4. Good(w) /\ LockRule(ui, w)
    BY <2>2 DEF Proper
  <2>5. Good(ui') /\ ui'.st = w.st /\ ui'.pos = w.pos
    BY <2>3, <2>4, CaptureCalm
  <2>6. Good(ui)' /\ LockRule(ui, ui') /\ ui' \in UI
    BY <2>4, <2>5 DEF LockRule, Good
  <2>7. CanvasTypeOK' /\ Tracked'
    BY <1>4, <2>6 DEF PointerUp, CanvasTypeOK, Tracked
  <2> QED BY <2>2, <2>5, <2>6, <2>7 DEF Followed
<1>5. ASSUME NEW p \in Pointers, PinchUp(p)
      PROVE  CanvasInv' /\ LockRule(ui, ui')
  <2>1. Good(ui') /\ ui'.st = ui.st /\ ui'.pos = ui.pos
    BY <1>5, CaptureCalm DEF PinchUp
  <2>2. Good(ui)' /\ LockRule(ui, ui') /\ ui' \in UI
    BY <2>1 DEF LockRule, Good
  <2>3. CanvasTypeOK' /\ Tracked'
    BY <1>5, <2>2 DEF PinchUp, CanvasTypeOK, Tracked
  <2>4. Followed'
    BY <1>5, <2>1 DEF PinchUp, Followed
  <2> QED BY <2>2, <2>3, <2>4
<1>6. ASSUME NEW p \in Pointers, LostUp(p)
      PROVE  CanvasInv' /\ LockRule(ui, ui')
  <2>1. Good(ui)' /\ LockRule(ui, ui') /\ ui' = ui
    BY <1>6 DEF LostUp, LockRule, Good
  <2>2. CanvasTypeOK' /\ Tracked'
    BY <1>6 DEF LostUp, normalizer, CanvasTypeOK, Tracked
  <2>3. Followed'
    BY <1>6 DEF LostUp, Followed
  <2> QED BY <2>1, <2>2, <2>3
<1>7. ASSUME NEW p \in Pointers, PointerCancel(p)
      PROVE  CanvasInv' /\ LockRule(ui, ui')
  <2>1. Still(ui, Abort(ui)) /\ ~PointerGesture(Abort(ui).st)
    BY AbortCalm DEF Calm
  <2>2. Good(ui') /\ ui'.st = Abort(ui).st /\ ui'.pos = Abort(ui).pos
    BY <1>7, <2>1, CaptureCalm DEF PointerCancel, Still
  <2>3. Still(ui, ui') /\ ui' \in UI
    BY <2>1, <2>2 DEF Still, Good
  <2>4. Good(ui)' /\ LockRule(ui, ui')
    BY <1>0, <2>3, StillKeepsLocks DEF Still, Good
  <2>5. CanvasTypeOK' /\ Tracked'
    BY <1>7, <2>3 DEF PointerCancel, CanvasTypeOK, Tracked
  <2> QED BY <2>1, <2>2, <2>4, <2>5 DEF Followed
<1>8. ASSUME Blur
      PROVE  CanvasInv' /\ LockRule(ui, ui')
  <2>1. Still(ui, ui') /\ ~PointerGesture(ui'.st) /\ ui' \in UI
    BY <1>8, AbortCalm DEF Calm, Still, Good, Blur
  <2>2. Good(ui)' /\ LockRule(ui, ui')
    BY <1>0, <2>1, StillKeepsLocks DEF Still, Good
  <2>3. CanvasTypeOK' /\ Tracked'
    BY <1>8, <2>1 DEF Blur, CanvasTypeOK, Tracked
  <2> QED BY <2>1, <2>2, <2>3 DEF Followed
<1>9. ASSUME ui' \in UI, Proper(ui, ui'), timer' \in BOOLEAN,
             UNCHANGED <<hands, down, active, recent, pinch, pinchPtrs, lost, locked>>
      PROVE  CanvasInv' /\ LockRule(ui, ui')
  <2>1. Good(ui)' /\ LockRule(ui, ui')
    BY <1>9 DEF Proper, Good
  <2>2. CanvasTypeOK' /\ Tracked'
    BY <1>9 DEF CanvasTypeOK, Tracked
  <2>3. Followed'
    BY <1>9 DEF Proper, Followed
  <2> QED BY <2>1, <2>2, <2>3
<1>10. CASE LongPress
  <2>1. Calm(ui, ui')
    BY <1>10, <1>h, HoldCalm DEF LongPress
  <2>2. Proper(ui, ui') /\ ui' \in UI
    BY <1>0, <2>1, CalmIsProper DEF Calm, Still, Good
  <2> QED BY <1>9, <1>10, <2>2 DEF LongPress
<1>11. CASE KeyDown
  <2>1. Proper(ui, ui')
    BY <1>0, <1>11, KeyProper DEF KeyDown
  <2>2. ui' \in UI
    BY <2>1 DEF Proper, Good
  <2> QED BY <1>9, <1>11, <2>1, <2>2 DEF KeyDown, normalizer, CanvasTypeOK
<1>12. CASE KeyUpSpace
  <2>1. Calm(ui, ui')
    BY <1>12, StateForms DEF KeyUpSpace, Calm, Still, Good, UI
  <2>2. Proper(ui, ui') /\ ui' \in UI
    BY <1>0, <2>1, CalmIsProper DEF Calm, Still, Good
  <2> QED BY <1>9, <1>12, <2>2 DEF KeyUpSpace, normalizer, CanvasTypeOK
<1>13. ASSUME NEW n \in Nodes, RemoteLock(n)
       PROVE  CanvasInv' /\ LockRule(ui, ui')
  <2>1. Good(ui)' /\ LockRule(ui, ui') /\ ui' = ui
    BY <1>13 DEF RemoteLock, LockRule, Good
  <2>2. CanvasTypeOK' /\ Tracked'
    BY <1>13 DEF RemoteLock, normalizer, CanvasTypeOK, Tracked
  <2>3. Followed'
    BY <1>13 DEF RemoteLock, normalizer, Followed
  <2> QED BY <2>1, <2>2, <2>3
<1>14. ASSUME NEW n \in Nodes, RemoteDelete(n)
       PROVE  CanvasInv' /\ LockRule(ui, ui')
  <2>1. Calm(ui, ui')
    BY <1>14, DeleteCalm DEF RemoteDelete
  <2>2. Proper(ui, ui') /\ ui' \in UI
    BY <1>0, <2>1, CalmIsProper DEF Calm, Still, Good
  <2> QED BY <1>9, <1>14, <2>2 DEF RemoteDelete, normalizer, CanvasTypeOK
<1> QED BY <1>1, <1>2, <1>3, <1>4, <1>5, <1>6, <1>7, <1>8, <1>10, <1>11, <1>12, <1>13, <1>14
        DEF CanvasNext

\* A stutter changes nothing.
LEMMA CanvasStutter ==
    ASSUME CanvasInv, UNCHANGED cvars
    PROVE  CanvasInv' /\ LockRule(ui, ui')
<1>1. ui' = ui /\ lost' = lost /\ down' = down /\ pinchPtrs' = pinchPtrs /\ active' = active
  BY DEF cvars, normalizer
<1>2. CanvasTypeOK'
  BY DEF CanvasInv, CanvasTypeOK, cvars, normalizer
<1> QED BY <1>1, <1>2 DEF CanvasInv, Good, Tracked, Followed, LockRule

\* The invariant holds throughout.
LEMMA CanvasInvHolds == CanvasSpec => []CanvasInv
<1>1. CanvasInit => CanvasInv
  BY CanvasAssumption, CanvasInvInit
<1>2. CanvasInv /\ [CanvasNext]_cvars => CanvasInv'
  BY CanvasAssumption, CanvasStep, CanvasStutter
<1> QED BY <1>1, <1>2, PTL DEF CanvasSpec

-----------------------------------------------------------------------------
\* The pointers, the machine, the selection and the document of fsm.ts, gestures.ts and
\* the engine keep their types through every event.
THEOREM CanvasTypeCorrect == CanvasSpec => []CanvasTypeOK
<1>1. CanvasInv => CanvasTypeOK
  BY DEF CanvasInv
<1> QED BY <1>1, CanvasInvHolds, PTL

\* However presses, lifts, pinches, cancels and blurs interleave, no gesture of fsm.ts
\* outlives the last pointer, unless gestures.ts was never told of a lift.
THEOREM RestsWhenNothingTouches == CanvasSpec => []RestWhenNothingTouches
<1>1. CanvasInv => RestWhenNothingTouches
  BY DEF CanvasInv, Followed, RestWhenNothingTouches
<1> QED BY <1>1, CanvasInvHolds, PTL

\* resolveDragSet, nudge and the resize handle take no locked card: one moves only with
\* a gesture that took it before the lock, or along with its group.
THEOREM LocksHold == CanvasSpec => LockedMovesOnlyStale
<1>1. CanvasInv /\ [CanvasNext]_cvars =>
        [/\ (ui'.st.ids \ ui.st.ids) \cap locked = {}
         /\ \A n \in locked :
              ui'.pos[n] # ui.pos[n] /\ ui'.pos[n] # Gone
              => \/ n \in ui.st.ids \/ (ui.st.name = "resizing" /\ ui.st.on.id = n)
                 \/ n \in Group /\ \E m \in Group \ {n} : ui'.pos[m] # ui.pos[m]]_cvars
  BY CanvasAssumption, CanvasStep DEF LockRule
<1> QED BY <1>1, CanvasInvHolds, PTL DEF CanvasSpec, LockedMovesOnlyStale

-----------------------------------------------------------------------------
(* Undo brackets. *)

\* From u to v a gesture that the host writes goes on, or is closed.
Closes(u, v) == Written(u.st) /\ v.phase = "open" => v.st.name = u.st.name

\* abort announces the end of a gesture that was written.
LEMMA AbortCloses ==
    ASSUME NEW u \in UI
    PROVE  Closes(u, Abort(u))
<1> SUFFICES ASSUME Written(u.st) PROVE Abort(u).phase = "cancelled"
  BY DEF Closes
<1> QED BY DEF Abort, Written, UI

\* A move goes on with the gesture.
LEMMA MoveCloses ==
    ASSUME NEW u, Good(u), NEW beyond \in BOOLEAN, NEW q \in Places
    PROVE  Closes(u, Move(u, beyond, q))
<1> SUFFICES ASSUME Written(u.st) PROVE Move(u, beyond, q).st = u.st
  BY DEF Closes
<1>1. u.st.name \in {"draggingNodes", "resizing", "draggingWaypoint"}
  BY DEF Written
<1>2. Place(u, u.st.on.id, q, "open").st = u.st /\ Place(u, Edge, q, "open").st = u.st
  BY PlaceGood
<1>3. Move(u, beyond, q) \in {u, Place(u, u.st.on.id, q, "open"), Place(u, Edge, q, "open")}
  BY <1>1 DEF Move
<1> QED BY <1>2, <1>3

\* A lift sends the phase 'end' of the gesture.
LEMMA UpCloses ==
    ASSUME CanvasAssumption, NEW u, Good(u), NEW p \in Pointers,
           NEW hits \in SUBSET Nodes, NEW q \in Places
    PROVE  Closes(u, Up(u, p, hits, q))
<1> SUFFICES ASSUME Written(u.st) PROVE Up(u, p, hits, q).phase = "closed"
  BY DEF Closes
<1> DEFINE v == [u EXCEPT !.st = IF u.st.name = "panning" /\ u.st.space THEN SpacePan ELSE Idle,
                          !.cap = u.cap \ {p}]
<1>1. v \in UI
  BY StateForms DEF Good, UI
<1>2. u.st.name \in {"draggingNodes", "resizing", "draggingWaypoint"}
  BY DEF Written
<1>3. Up(u, p, hits, q) \in {MoveNodes(v, u.st.ids), [v EXCEPT !.phase = "closed"],
                             Place(v, Edge, q, "closed")}
  BY <1>2 DEF Up
<1> HIDE DEF v
<1>4. /\ MoveNodes(v, u.st.ids).phase = "closed" /\ [v EXCEPT !.phase = "closed"].phase = "closed"
      /\ Place(v, Edge, q, "closed").phase = "closed"
  BY <1>1 DEF MoveNodes, Place, UI
<1> QED BY <1>3, <1>4

\* While a pointer's gesture is under way the keyboard can only cancel it.
LEMMA KeyCloses ==
    ASSUME NEW u \in UI, NEW k \in Keys, NEW x
    PROVE  Closes(u, Key(u, k, x))
<1> SUFFICES ASSUME Written(u.st) PROVE Key(u, k, x) \in {u, Abort(u)}
  BY AbortCloses DEF Closes
<1>1. u.st.name \notin {"idle", "spacePan", "editing", "connecting"}
  BY DEF Written
<1> QED BY <1>1 DEF Key, Keys

\* Every event but a further press and the long press closes what it ends.
LEMMA StepCloses ==
    ASSUME CanvasAssumption, CanvasInv, CanvasNext
    PROVE  Closes(ui, ui') \/ down' \ down # {} \/ (timer /\ ~timer')
<1>0. Good(ui) /\ ui \in UI /\ down \subseteq Pointers
  BY DEF CanvasInv, Good, CanvasTypeOK
<1>1. ASSUME NEW p \in Pointers, PinchStart(p) \/ PointerDown(p)
      PROVE  down' \ down # {}
  BY <1>1 DEF PinchStart, PointerDown
<1>2. ASSUME NEW p \in Pointers, PointerMove(p)
      PROVE  Closes(ui, ui')
  BY <1>0, <1>2, MoveCloses DEF PointerMove
<1>3. ASSUME NEW u \in UI, NEW p \in Pointers, Closes(ui, u)
      PROVE  Closes(ui, Lift(u, p))
  <2>1. Lift(u, p).phase = u.phase /\ Lift(u, p).st = u.st
    BY DEF Lift, UI
  <2> QED BY <1>3, <2>1 DEF Closes
<1>4. ASSUME NEW p \in Pointers, PointerUp(p)
      PROVE  Closes(ui, ui')
  <2>1. PICK hits \in SUBSET Nodes, q \in Places : ui' = Lift(Up(ui, p, hits, q), p)
    BY <1>4 DEF PointerUp
  <2>2. Up(ui, p, hits, q) \in UI
    BY <1>0, UpProper DEF Proper, Good, CanvasInv, CanvasTypeOK
  <2> QED BY <1>0, <1>3, <2>1, <2>2, UpCloses
<1>5. ASSUME NEW p \in Pointers, PinchUp(p)
      PROVE  Closes(ui, ui')
  BY <1>0, <1>3, <1>5 DEF PinchUp, Closes
<1>6. ASSUME NEW p \in Pointers, PointerCancel(p)
      PROVE  Closes(ui, ui')
  <2>1. Abort(ui) \in UI
    BY <1>0, AbortCalm DEF Calm, Still, Good
  <2> QED BY <1>0, <1>3, <1>6, <2>1, AbortCloses DEF PointerCancel
<1>7. CASE Blur
  BY <1>0, <1>7, AbortCloses DEF Blur
<1>8. CASE LongPress
  BY <1>8 DEF LongPress
<1>9. CASE KeyDown
  BY <1>0, <1>9, KeyCloses DEF KeyDown
<1>10. CASE KeyUpSpace
  BY <1>10 DEF KeyUpSpace, Written, Closes
<1>11. ASSUME NEW n \in Nodes, RemoteDelete(n)
       PROVE  Closes(ui, ui')
  <2>1. ui'.st = ui.st
    BY <1>0, <1>11 DEF RemoteDelete, Delete, UI
  <2> QED BY <2>1 DEF Closes
<1>12. CASE ui' = ui
  BY <1>12 DEF Closes
<1> QED
  BY <1>1, <1>2, <1>4, <1>5, <1>6, <1>7, <1>8, <1>9, <1>10, <1>11, <1>12
     DEF CanvasNext, LostUp, RemoteLock

\* fsm.ts sends 'end' or 'cancel' for every gesture the host has begun to write, unless
\* another pointer goes down or the long press of gestures.ts fires.
THEOREM EveryBracketCloses == CanvasSpec => BracketsClosed
<1>1. CanvasInv /\ [CanvasNext]_cvars =>
        [Written(ui.st) /\ ui.phase = "open" /\ ui'.phase = "open" /\ ui'.st.name # ui.st.name
         => down' \ down # {} \/ (timer /\ ~timer')]_cvars
  BY CanvasAssumption, StepCloses DEF Closes
<1> QED BY <1>1, CanvasInvHolds, PTL DEF CanvasSpec, BracketsClosed
====
