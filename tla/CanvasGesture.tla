---- MODULE CanvasGesture ----
(***************************************************************************)
(* One analyst's hands on the board: raw pointer and key events go through *)
(* the normalizer (gestures.ts) into the interaction state machine         *)
(* (fsm.ts), whose effects the engine applies (engine.ts) and whose        *)
(* intents the host writes into the document (applyIntents.ts).            *)
(*                                                                         *)
(* An action is one raw event with everything it dispatches.               *)
(* Abstractions:                                                           *)
(*   - a card's box, or the waypoint of the one edge (it joins the cards), *)
(*     is one of two positions, and a move goes to the other one;          *)
(*   - what lies under the pointer, whether a move passes the threshold    *)
(*     and what a marquee covers are free choices;                         *)
(*   - hover is idle, the selection is a set, its anchor any member;       *)
(*   - camera, guides, z-order and the edges drawn by a connection change  *)
(*     nothing here; contextmenu, edit-end and window leave exist in       *)
(*     fsm.ts but no adapter sends them.                                   *)
(***************************************************************************)
EXTENDS Integers, FiniteSets

CONSTANTS
    Mouse,    \* the one mouse (or pen) pointer
    Touches,  \* fingers
    Nodes,    \* cards on the board
    Edge,     \* the edge between them
    Group,    \* cards that were grouped
    Modes,    \* selection modes the modifiers are pressed for
    Scenes,   \* pairs of the pointers at hand and the things on the board
    NoPtr

Pointers == Touches \cup {Mouse}
Things == Nodes \cup {Edge}
Gone == -1    \* deleted from the document
Bare == -2    \* an edge without waypoint
Places == 0..1

ASSUME CanvasAssumption ==
    /\ Mouse \notin Touches /\ NoPtr \notin Pointers
    /\ Edge \notin Nodes /\ Group \subseteq Nodes
    /\ Modes \subseteq {"replace", "toggle", "subtract"}
    /\ Scenes \subseteq (SUBSET Pointers) \X (SUBSET Things)

VARIABLES
    hands,     \* the pointers this analyst has
    down,      \* pointers that touch the surface
    active,    \* gestures.ts: the pointers it believes are down
    timer,     \* long-press timer armed
    recent,    \* lastUp is set
    pinch,     \* two fingers drive the camera
    pinchPtrs, \* pointers whose events the pinch swallows
    lost,      \* (history) a lift went unseen since the last blur
    locked,    \* cards with the locked flag
    ui         \* the machine, the selection, captures, the document (UI below)

normalizer == <<active, timer, recent, pinch, pinchPtrs>>
cvars == <<hands, down, lost, normalizer, locked, ui>>

\* HitTarget; the canvas is an id-less target
Target(k, x) == [t |-> k, id |-> x]
Canvas == Target("canvas", NoPtr)
Targets == {Canvas} \cup [t : {"node", "port", "handle", "edge", "waypoint"}, id : Things]

\* FsmState: one record for all states, unused fields at rest
States == [name : {"idle", "spacePan", "pressPending", "panning", "marquee", "draggingNodes",
                   "resizing", "connecting", "draggingWaypoint", "editing"},
           ptr : Pointers \cup {NoPtr}, on : Targets, ids : SUBSET Nodes,
           mode : {"replace", "toggle", "subtract"},
           space : BOOLEAN]
Idle == [name |-> "idle", ptr |-> NoPtr, on |-> Canvas, ids |-> {},
         mode |-> "replace", space |-> FALSE]
SpacePan == [Idle EXCEPT !.name = "spacePan"]
Editing == [Idle EXCEPT !.name = "editing"]

\* phase: the last phase the host has seen of a continuous intent
UI == [st : States, sel : SUBSET Things, cap : SUBSET Pointers,
       pos : [Things -> Places \cup {Gone, Bare}], phase : {"closed", "open", "cancelled"}]

CanvasTypeOK ==
    /\ hands \subseteq Pointers /\ down \subseteq hands /\ active \subseteq Pointers /\ pinchPtrs \subseteq Pointers
    /\ timer \in BOOLEAN /\ recent \in BOOLEAN /\ pinch \in BOOLEAN /\ lost \in BOOLEAN
    /\ locked \subseteq Nodes /\ ui \in UI

CanvasInit ==
    /\ down = {} /\ active = {} /\ pinchPtrs = {}
    /\ timer = FALSE /\ recent = FALSE /\ pinch = FALSE
    /\ lost = FALSE /\ locked = {}
    /\ \E sc \in Scenes :
         /\ hands = sc[1]
         /\ ui = [st |-> Idle, sel |-> {}, cap |-> {}, phase |-> "closed",
                  pos |-> [x \in Things |-> IF x \in sc[2] THEN 0 ELSE Gone]]

-----------------------------------------------------------------------------
(* The document and the selection. *)

Alive(u) == {x \in Things : u.pos[x] # Gone}
HasWaypoint(u) == u.pos[Edge] \in Places

\* hitTest: handles of the one selected card, waypoints of a selected edge
Hits(u) ==
    {Canvas}
    \cup {Target(k, n) : k \in {"node", "port"}, n \in Alive(u) \cap Nodes}
    \cup {Target("handle", n) : n \in {m \in Alive(u) \cap Nodes : u.sel = {m}}}
    \cup {Target("edge", x) : x \in Alive(u) \cap {Edge}}
    \cup {Target("waypoint", x) : x \in {y \in u.sel \cap {Edge} : HasWaypoint(u)}}

\* selection.set
Select(u, xs, mode) ==
    [u EXCEPT !.sel = CASE mode = "replace" -> xs
                        [] mode = "subtract" -> u.sel \ xs
                        [] mode = "add" -> u.sel \cup xs
                        [] mode = "toggle" -> (u.sel \ xs) \cup (xs \ u.sel)]

\* applyIntent 'delete', or the same by a collaborator: a card takes its edge along
Delete(u, xs) ==
    LET dead == xs \cup (IF xs \cap Nodes \cap Alive(u) # {} THEN {Edge} ELSE {})
    IN  [u EXCEPT !.pos = [x \in Things |-> IF x \in dead THEN Gone ELSE u.pos[x]]]

\* withGroupSiblings: a group moves as one object, whatever its flags
WithGroup(u, ids) ==
    IF ids \cap Group \cap Alive(u) # {} THEN ids \cup Group ELSE ids

\* MUTANT: a card that was deleted meanwhile is moved too
MoveNodesGone(u, ids) ==
    [u EXCEPT !.phase = "closed",
              !.pos = [x \in Things |-> IF x \in WithGroup(u, ids)
                                        THEN 1 - u.pos[x] ELSE u.pos[x]]]

\* applyIntent 'move-nodes' with deltas (phase 'end')
MoveNodes(u, ids) ==
    [u EXCEPT !.phase = "closed",
              !.pos = [x \in Things |-> IF x \in WithGroup(u, ids) \cap Alive(u)
                                        THEN 1 - u.pos[x] ELSE u.pos[x]]]

\* applyIntent 'resize-node' and 'edge-waypoint' move: written at once
Place(u, x, q, phase) ==
    [u EXCEPT !.phase = phase,
              !.pos[x] = IF u.pos[x] \in Places THEN q ELSE u.pos[x]]

-----------------------------------------------------------------------------
(* reduce: one operator per event. *)

\* MUTANT: the locked flag is not looked at
UnlockedAll(u) == Alive(u) \cap Nodes

Unlocked(u) == (Alive(u) \cap Nodes) \ locked

\* resolveDragSet
DragSet(u, n) == (IF n \in u.sel THEN u.sel ELSE {n}) \cap Unlocked(u)

\* MUTANT: the aborted gesture is not announced
AbortQuiet(u) == [u EXCEPT !.st = Idle, !.cap = u.cap \ {u.st.ptr}]

\* abort: Escape, pointercancel and blur; the host ignores phase 'cancel'
Abort(u) ==
    LET s == u.st
        rest == IF s.name = "panning" /\ s.space THEN SpacePan ELSE Idle
    IN  [u EXCEPT !.st = rest, !.cap = u.cap \ {s.ptr},
                  !.phase = IF s.name \in {"draggingNodes", "resizing", "draggingWaypoint"}
                            THEN "cancelled" ELSE u.phase]

\* onPointerDown: the state it finds matters only to the editor and to the hand
Down(u, p, button, mode, t, q) ==
    LET grab == [Idle EXCEPT !.ptr = p, !.on = t]
        take(s) == [u EXCEPT !.st = s, !.cap = u.cap \cup {p}]
    IN  IF u.st.name = "editing" THEN [u EXCEPT !.st = Idle]
        ELSE IF button = "middle" \/ u.st.name = "spacePan"
        THEN take([grab EXCEPT !.name = "panning", !.space = (u.st.name = "spacePan")])
        ELSE IF button # "left" THEN u
        ELSE IF t.t = "handle" /\ t.id \in Unlocked(u)
        THEN take([grab EXCEPT !.name = "resizing"])
        ELSE IF t.t = "waypoint"
        THEN Place(take([grab EXCEPT !.name = "draggingWaypoint"]), Edge, q, "open")
        ELSE IF t.t = "port" THEN take([grab EXCEPT !.name = "connecting"])
        ELSE take([grab EXCEPT !.name = "pressPending", !.mode = mode])

\* onPointerMove: whichever pointer it comes from
Move(u, beyond, q) ==
    LET s == u.st
        drag == IF s.on.t = "node" THEN DragSet(u, s.on.id) ELSE {}
    IN  CASE s.name = "pressPending" /\ beyond /\ drag = {} ->
               [u EXCEPT !.st = [s EXCEPT !.name = "marquee"]]
          [] s.name = "pressPending" /\ beyond /\ drag # {} ->
               [u EXCEPT !.st = [s EXCEPT !.name = "draggingNodes", !.ids = drag],
                         !.sel = IF s.on.id \in u.sel THEN u.sel ELSE {s.on.id},
                         !.phase = "open"]
          [] s.name = "resizing" -> Place(u, s.on.id, q, "open")
          [] s.name = "draggingWaypoint" -> Place(u, Edge, q, "open")
          [] OTHER -> u

\* onPointerUp: whichever pointer it comes from; what a resize ends with is written already
Up(u, p, hits, q) ==
    LET s == u.st
        v == [u EXCEPT !.st = IF s.name = "panning" /\ s.space THEN SpacePan ELSE Idle,
                       !.cap = u.cap \ {p}]
        picked == IF s.on.t \in {"node", "edge"} THEN {s.on.id} ELSE {}
    IN  CASE s.name \in {"idle", "spacePan", "editing"} -> u
          [] s.name = "pressPending" ->
               IF picked = {} /\ s.mode # "replace" THEN v ELSE Select(v, picked, s.mode)
          [] s.name = "marquee" ->
               Select(v, hits, IF s.mode = "toggle" THEN "add" ELSE "replace")
          [] s.name = "draggingNodes" -> MoveNodes(v, s.ids)
          [] s.name = "resizing" -> [v EXCEPT !.phase = "closed"]
          [] s.name = "draggingWaypoint" -> Place(v, Edge, q, "closed")
          [] s.name \in {"panning", "connecting"} -> v

\* dblclick: a waypoint on an edge, the editor on a card
Dblclick(u, t, q) ==
    IF u.st.name # "editing" /\ t.t = "edge" /\ u.pos[Edge] = Bare
    THEN [u EXCEPT !.pos[Edge] = q]
    ELSE IF u.st.name # "editing" /\ t.t = "node" /\ t.id \in Unlocked(u)
    THEN [u EXCEPT !.st = Editing] ELSE u

\* longpress: over a waypoint the gesture goes on, elsewhere it is dropped
Hold(u, t) ==
    LET v == IF t.t \in {"node", "edge"} /\ t.id \notin u.sel
             THEN Select(u, {t.id}, "replace") ELSE u
    IN  IF t.t = "waypoint" THEN [u EXCEPT !.pos[Edge] = Bare] ELSE [v EXCEPT !.st = Idle]

\* onKeyDown; x is the selection's anchor
Key(u, k, x) ==
    LET s == u.st.name
        resting == s \in {"idle", "spacePan"}
    IN  CASE s = "editing" -> IF k = "Escape" THEN [u EXCEPT !.st = Idle] ELSE u
          [] s # "editing" /\ k = "Escape" ->
               IF resting THEN [u EXCEPT !.sel = {}] ELSE Abort(u)
          [] s = "idle" /\ k = "Space" -> [u EXCEPT !.st = SpacePan]
          [] s = "idle" /\ k = "c" ->
               IF x \in Nodes \cap Alive(u)
               THEN [u EXCEPT !.st = [Idle EXCEPT !.name = "connecting", !.on = Target("node", x)]]
               ELSE u
          \* a connection made with the keyboard has no pointer
          [] s = "connecting" /\ k = "Enter" /\ u.st.ptr = NoPtr -> [u EXCEPT !.st = Idle]
          [] resting /\ k = "SelectAll" -> [u EXCEPT !.sel = Alive(u) \cap Nodes]
          [] resting /\ k = "Arrow" ->
               LET v == [u EXCEPT !.st = Idle]
               IN  IF u.sel \cap Unlocked(u) = {} THEN v
                   ELSE MoveNodes(v, u.sel \cap Unlocked(u))
          [] resting /\ k = "Delete" -> Delete(u, u.sel)
          [] resting /\ k = "Enter" ->
               IF x \in Nodes \cap Alive(u) THEN [u EXCEPT !.st = Editing] ELSE u
          [] resting /\ k = "h" ->
               [u EXCEPT !.st = IF s = "spacePan" THEN Idle ELSE SpacePan]
          [] OTHER -> u

Keys == {"Escape", "Space", "c", "SelectAll", "Arrow", "Delete", "Enter", "h"}

-----------------------------------------------------------------------------
(* The normalizer: raw events in. *)

\* a finger is captured by the browser when it goes down
Press(u, p) == IF p \in Touches THEN [u EXCEPT !.cap = u.cap \cup {p}] ELSE u

Pair(ps) == Cardinality(ps \cap Touches) = 2

\* MUTANT: the first finger's gesture is not cancelled
PinchStartSilent(p) ==
    /\ p \in hands \ down /\ Pair(active \cup {p})
    /\ down' = down \cup {p} /\ active' = active \cup {p}
    /\ timer' = FALSE /\ pinch' = TRUE /\ pinchPtrs' = pinchPtrs \cup active \cup {p}
    /\ ui' = Press(ui, p)
    /\ UNCHANGED <<hands, recent, lost, locked>>

\* second finger down: abandon what the first began (every active pointer is
\* cancelled, two at least), pan and zoom from here on
PinchStart(p) ==
    /\ p \in hands \ down /\ Pair(active \cup {p})
    /\ down' = down \cup {p} /\ active' = active \cup {p}
    /\ timer' = FALSE /\ pinch' = TRUE /\ pinchPtrs' = pinchPtrs \cup active \cup {p}
    /\ ui' = Abort(Abort(Press(ui, p)))
    /\ UNCHANGED <<hands, recent, lost, locked>>

PointerDown(p) ==
    /\ p \in hands \ down /\ ~Pair(active \cup {p})
    /\ down' = down \cup {p} /\ active' = active \cup {p}
    /\ \E b \in IF p \in Touches THEN {"left"} ELSE {"left", "middle", "right"},
          m \in Modes, t \in Hits(ui), q \in Places :
         LET u == Down(Press(ui, p), p, b, m, t, q)
         IN  \/ recent /\ recent' = FALSE /\ timer' = timer /\ ui' = Dblclick(u, t, q)
             \/ recent' = recent /\ timer' = TRUE /\ ui' = u
    /\ UNCHANGED <<hands, pinch, pinchPtrs, lost, locked>>

\* far: this one move is longer than the threshold, only that disarms the long press
PointerMove(p) ==
    /\ p \in down \cup (hands \cap {Mouse})
    /\ ~(p \in pinchPtrs /\ ~pinch) /\ ~(Pair(active) /\ pinch)
    /\ \E far \in BOOLEAN, beyond \in BOOLEAN, q \in Places :
         /\ timer' = (timer /\ ~(p \in active /\ far))
         /\ ui' = Move(ui, beyond, q)
    /\ UNCHANGED <<hands, down, active, recent, pinch, pinchPtrs, lost, locked>>

\* the browser lets go of a capture when its pointer is gone
Lift(u, p) == [u EXCEPT !.cap = u.cap \ {p}]

PointerUp(p) ==
    /\ p \in down /\ p \notin pinchPtrs
    /\ down' = down \ {p} /\ active' = active \ {p}
    /\ timer' = FALSE /\ recent' = TRUE
    /\ \E hits \in SUBSET (Alive(ui) \cap Nodes), q \in Places :
         ui' = Lift(Up(ui, p, hits, q), p)
    /\ UNCHANGED <<hands, pinch, pinchPtrs, lost, locked>>

PinchUp(p) ==
    /\ p \in down /\ p \in pinchPtrs
    /\ down' = down \ {p} /\ active' = active \ {p} /\ pinchPtrs' = pinchPtrs \ {p}
    /\ timer' = FALSE /\ pinch' = FALSE
    /\ ui' = Lift(ui, p)
    /\ UNCHANGED <<hands, recent, lost, locked>>

\* lifted off the canvas while not captured: the surface is not told
LostUp(p) ==
    /\ p \in down /\ p \notin ui.cap
    /\ down' = down \ {p} /\ lost' = TRUE
    /\ UNCHANGED <<hands, normalizer, locked, ui>>

PointerCancel(p) ==
    /\ p \in down
    /\ down' = down \ {p} /\ active' = active \ {p} /\ pinchPtrs' = pinchPtrs \ {p}
    /\ timer' = FALSE /\ pinch' = FALSE
    /\ ui' = Lift(Abort(ui), p)
    /\ UNCHANGED <<hands, recent, lost, locked>>

Blur ==
    /\ active' = {} /\ pinchPtrs' = {} /\ timer' = FALSE /\ pinch' = FALSE
    /\ ui' = Abort(ui) /\ lost' = FALSE
    /\ UNCHANGED <<hands, down, recent, locked>>

\* LONG_PRESS_MS after the press; the target is looked up where the press was
LongPress ==
    /\ timer /\ timer' = FALSE
    /\ \E t \in Hits(ui) : ui' = Hold(ui, t)
    /\ UNCHANGED <<hands, down, active, recent, pinch, pinchPtrs, lost, locked>>

KeyDown ==
    /\ \E k \in Keys, x \in IF ui.sel = {} THEN {NoPtr} ELSE ui.sel : ui' = Key(ui, k, x)
    /\ UNCHANGED <<hands, down, lost, normalizer, locked>>

KeyUpSpace ==
    /\ ui.st.name = "spacePan"
    /\ ui' = [ui EXCEPT !.st = Idle]
    /\ UNCHANGED <<hands, down, lost, normalizer, locked>>

\* a collaborator locks or deletes a card
RemoteLock(n) ==
    /\ n \in Alive(ui) \cap Nodes /\ n \notin locked
    /\ locked' = locked \cup {n}
    /\ UNCHANGED <<hands, down, lost, normalizer, ui>>

RemoteDelete(n) ==
    /\ n \in Alive(ui) \cap Nodes
    /\ ui' = Delete(ui, {n})
    /\ UNCHANGED <<hands, down, lost, normalizer, locked>>

CanvasNext ==
    \/ \E p \in Pointers :
         \/ PinchStart(p) \/ PointerDown(p) \/ PointerMove(p) \/ PointerUp(p)
         \/ PinchUp(p) \/ LostUp(p) \/ PointerCancel(p)
    \/ Blur \/ LongPress \/ KeyDown \/ KeyUpSpace
    \/ \E n \in Nodes : RemoteLock(n) \/ RemoteDelete(n)

CanvasSpec == CanvasInit /\ [][CanvasNext]_cvars

-----------------------------------------------------------------------------
PointerGesture(s) ==
    /\ s.name \in {"pressPending", "panning", "marquee", "draggingNodes", "resizing",
                   "connecting", "draggingWaypoint"}
    /\ s.ptr # NoPtr

Written(s) == s.name \in {"draggingNodes", "resizing", "draggingWaypoint"}

\* No gesture outlives the last finger: whatever the order of presses, lifts, pinches,
\* cancels and blurs, when nothing touches the surface the machine follows no pointer,
\* unless a lift off the canvas went unseen (gestures.ts swallows the lifts of a pinch,
\* fsm.ts ignores which pointer an event is of, abort gives captures back).
RestWhenNothingTouches == down = {} /\ ~lost => ~PointerGesture(ui.st)

\* A gesture whose writes the host has begun is closed by an 'end' or a 'cancel', where
\* applyIntent separates undo steps; only another pointer's press and the long press of
\* gestures.ts leave it open.
BracketsClosed ==
    [][Written(ui.st) /\ ui.phase = "open" /\ ui'.phase = "open" /\ ui'.st.name # ui.st.name
       => down' \ down # {} \/ (timer /\ ~timer')]_cvars

\* "Locked nodes never move" (resolveDragSet, nudge, the resize handle): no gesture takes
\* a locked card, and a locked card moves only with a gesture that took it before a
\* collaborator locked it, or dragged along by its group.
LockedMovesOnlyStale ==
    [][/\ (ui'.st.ids \ ui.st.ids) \cap locked = {}
       /\ \A n \in locked :
            ui'.pos[n] # ui.pos[n] /\ ui'.pos[n] # Gone
            => \/ n \in ui.st.ids \/ (ui.st.name = "resizing" /\ ui.st.on.id = n)
               \/ n \in Group /\ \E m \in Group \ {n} : ui'.pos[m] # ui.pos[m]]_cvars
====
