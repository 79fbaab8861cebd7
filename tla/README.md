# hexengine: a TLA+ model

hexengine is a server-authoritative engine for hex-and-counter games. Browser
clients send requests over WebSockets; one `GameServer` owns the game state,
checks each request, executes undoable *actions* through an `ActionManager`, and
broadcasts the new state. What a faction may do next is declared as *arcs*: small
state machines of segments and transitions, driven by a generic runner. Titles (game
packs) plug in through hooks; the repository's own title is hexdemo, a game of combats,
retreats and advances.

Paths below are relative to `src/src/hexengine/`, those that start with `games/` or
`docs/` to `src/`.

## Contents

1. Inventory of the system
2. Modules, and how they correspond to the code
3. Runs: what each checks, bounds, fairness
4. Proofs
5. Disagreements found
6. What is not modelled
7. What could come next

## 1. Inventory

| Part | State it keeps | Operations | Hard because | Correct means | Module |
|---|---|---|---|---|---|
| State actions (`state/actions.py`, `game_state.py`, `arcs/cursor.py`, private actions of `server/arcs/movement_arc_effects.py`) | immutable `GameState`: units, turn, engine buckets (arc cursor, movement arc payload), title session bucket, rng log; each action's saved fields | `apply`, `revert`, `should_revert_prior` for 14 kinds | a revert reads fields saved by an earlier apply | revert after apply is the identity; saved fields are never stale | StateActions |
| Action manager (`state/action_manager.py`) | current state, history, pointer | `execute`, `undo`, `redo`, `replace_state` | undo takes a pair, redo one entry; the redo tail goes before apply | the current state is a function of the pointer; undo and redo never raise | ActionHistory, ActionManager |
| Arc runner (`arcs/runner.py`, `spec.py`, `cursor.py`) | the cursor, inside the game state | `begin_arc`, `submit_event` | automatic segments, one suspended frame, effects executed before the target | rests on a segment with an owner; never raises for a declared arc | ArcRunner |
| Movement arc (`arcs/movement_arc_build.py`, `movement_arc_decl.py`, `server/arcs/movement_arc_effects.py`) | payload: path, index, budget, gate, interrupt queue, saved turn | open, step, open interrupts, pass, finish | several factions act inside another's move | each window in order, the turn comes back, the rest of the path stays affordable | MovementArc |
| Movement rules (`state/logic.py`, `retreat_path.py`) | none | reachable hexes, shortest path, legality of moves and retreats | zones of control, stacking, budget; one search written twice | the search finds the cheapest legal path | MovementRules, MoveSearch, RetreatPath |
| Game server, turns and moves (`server/game_server.py`, `server/arcs/authority_movement.py`, `authority_arc_runtime.py`, `arcs/schedule.py`) | the manager, last broadcast | `MoveUnit`, `PassMovementInterrupt`, `NextPhase`, attribute patches, plain actions, undo, redo, load_snapshot | a request is several actions; broadcast, spending and phase change in an order | cursor, payload and turn agree; a move costs one action; clients show what the server has | MovementServer |
| Attack pipeline (`server/arcs/authority_attack.py`, `arcs/title/`, `games/hexdemo/combat/`) | the title's session bucket | validate, resolve, commit, refuse | several actions, one may fail; where the cursor is put back | nothing half done that the game cannot leave | CombatRules, CombatServer |
| Combat arc (`authoring/patterns/combat.py`, `games/hexdemo/combat/graph.py`, `authority_combat_cleanup.py`) | cursor, obligations, offers | retreat, retreat step by step, disrupt, advance, decline | a stepwise retreat runs on another arc and has to come back into its gate | obligations are met before the phase goes on | CombatArc, CombatServer |
| Sessions (`server/game_server.py` join/leave, `websocket_server.py`, `client/websocket_client.py`) | players, factions taken, sequence number; connection, identity | join, leave, connect again, send, broadcast | order of joins, losses, events of abandoned sockets | one player per faction; connected players get the newest update | Session |
| Browser client (`game/game.py`, `game/arcs/`, `game/events/mouse.py`) | drafts, previews, drags, the walk along a path | clicks, drags, Confirm, Cancel, message handlers | answers and updates arrive while the draft changes | what is offered is accepted; what is confirmed is done | ClientDrafts |
| Previews (`server/preview.py`, `server/map_selection.py`, `games/hexdemo/combat/planning.py`, `movement/retreat_preview.py`) | none | answers to drafts and drags | the rules written a second time | agrees with the rules that check the request | Previews |
| Markers (`server/game_server.py`, `state/marker_placement.py`) | list beside the state | add, move, remove | not part of the history | stand where they may | ClientDrafts |
| Hex mathematics, edges, corners, lines of sight (`hexes/`, `map/layout.py`) | none | rounding, lines, rays, outlines, paths of edges | rounding, ties, walks along borders | lines and outlines are whole, sight is mutual | HexMath, EdgePaths, Sight, BoardGeometry |
| Snapshot wire (`state/snapshot.py`) | none | to and from JSON | every default is written twice | the round trip is the identity | Snapshot |
| Scenario loading (`scenarios/`) | none during a match | parsing, ids, stacking, features, first state | made-up ids, defaults from four places, spines of edges | all units are placed; what loads survives the wire | ScenarioFile, Loading |
| Title packs, hook registration, authoring checks, presentation | none during a match | lookup, registration, drawing | | | |

**Concurrency.** The server runs in one asyncio loop. `handle_message` is a
coroutine, but everything it awaits completes without suspending: `_send_message`
calls the registered handlers synchronously and these only create tasks
(`websocket_server.py:137-150`). So requests are handled one at a time, and the model
takes a whole handler as one step. The order *inside* a handler (execute, broadcast,
spend, advance) is kept, because an exception can end it anywhere and because the
broadcast shows the state of its own moment. What does run concurrently is delivery
to clients, the browsers, and the ends of connections: modules Session and ClientDrafts.

## 2. Modules

```
StateActions ─ ActionHistory ─┬─ ActionManager ─ MCActionManager
                              │       └ refines Timeline
                              ├─ ArcRunner (instantiated as Runner by MovementArc)
                              └─ MovementRules ─┬─ MovementArc ─ MovementServer ─ MCMovementServer
                                                │                    │  └ refines TurnOrder
                                                └─ RetreatPath ─ CombatRules
        MovementArc + CombatRules = CombatArc ─┬─ Previews
        MovementServer + CombatArc = CombatServer ─ MCCombat     (refines Engagement)
        CombatServer + Previews = ClientDrafts ─ MCDrafts

Session ─ MCSession                     (refines Seating)

HexMath ─┬─ MoveSearch ────────────────────────────┐
         └─ EdgePaths ─┬─ Sight ─ BoardGeometry ───┼─ MCBoard
                       └─ Snapshot ─ ScenarioFile ─ Loading ─┘

StateActions_proofs ─┬─ ActionManager_proofs
                     └─ MovementServer_proofs ─ CombatArc_proofs ─ CombatServer_proofs
Session_proofs;  Board_proofs (of MoveSearch, BoardGeometry, Snapshot and Loading)
Folding (instantiated by MovementServer_proofs and Board_proofs)
```

**Actions and history**

* **StateActions**: the state as a record, the action kinds, and for each kind when
  `apply` raises (`CanApply`), what it returns (`Apply`), what it remembers (`Saved`)
  and the same for `revert`. An object in the history is an entry `[act, saved]`.
  The two private actions of `movement_arc_effects.py` are one kind, `ArcStep`: they
  write the same payload, turn and gate, from a flow that one builds and the other
  advances. Factions, hexes, values and phases are sets; health, graphics, terrain and
  `turn_number` are left out.
* **ActionHistory**: `ActionManager`'s methods as functions on
  `[state, history, pointer]`, including what they leave behind when they raise.
* **ActionManager**: the machine of these functions. `timeline` (the state committed at
  each pointer) and `lossyUndone` are history variables.
* **Timeline**: abstract. A line of snapshots with a cursor; commit, back, forward.

**The server**

* **ArcRunner**: segments, transitions, targets (`Goto`, `Interrupt`, `RESUME`,
  `DONE`), `begin_arc`, `submit_event`, automatic steps with their cap. Guards and
  effects are names interpreted by the instance. Every operator returns the manager
  *and* whether an exception stopped it.
* **MovementRules**: legality of moves as minima over simple paths. That the code's Dijkstra
  loop computes these minima is the matter of **MoveSearch**, one pop of the heap per step.
* **MovementArc**: the declared movement arc and routine arcs, their guards and effects. A title's own
  arcs enter as constants `Overlay...`.
* **MovementServer**: one action per request kind. `mgr` is the manager, `published`
  the state in the last broadcast, `failed` whether the last request died of an exception
  of the runner. `Presented` holds the segments whose ui_mode the title's presentation knows: a broadcast
  of another one raises before anything is sent (`server/game_server.py:2467`).
* **TurnOrder**: abstract. Slots of a schedule, moves that cost one action, and a word
  that may be passed while a move is under way. No arcs, cursors, history.
* **RetreatPath**: where a unit that must retreat may go: in one request (server), as a path drawn hex by
  hex (client), as a whole stack.
* **CombatRules**: hexdemo's attacks: who may attack whom, columns and rows of the results table, losses of
  steps, disruption, and what is left to be done, in the session bucket.
* **CombatArc**: hexdemo's overlay arc, built by the engine's pattern.
* **CombatServer**: MovementServer with the requests of a fight. An attack that the rules refuse has moved the cursor
  by then; what is put back is modelled (`RefuseAttack`, `PutBack`).
* **Engagement**: abstract. Idle, retreating, advancing; who has attacked in this phase.

**Clients**

* **Session**: the clients' connections, the server's players and factions taken, and the messages
  between them. The game state is the faction to act and a count of changes: what a request
  does to it is MovementServer's matter. `Game.connect` drops its client object and makes
  another, the server gives every connection a new player id; so the number of a connection
  stands for socket, player id and client object alike. A dropped object lives on while
  the browser has events for its socket, and its callbacks still reach the Game. What it knew is
  forgotten in the model, since nothing reads it. Messages without effect on the client
  (errors, results, `player_left`, logs) are not queued. The environment: sockets deliver in order
  (each send is a task of its own, and the loop starts tasks in the order they were made); a
  connection may be lost at any time, with any tail of what was on its way to the server; the
  browser may tell the client by an error or only by a close event, at once or late;
  an attempt to connect that was given up fails before the next one to the same host opens.
* **Seating**: abstract. A faction is free or held by one player, a player holds at most one,
  and a faction changes hands only through being free.
* **Previews**: what the server answers to a draft (attack plan, retreat path, marker) or to the start of a drag.
* **ClientDrafts**: one player's client beside the server, over two FIFO channels. The client is a record; each
  handler an operator from record to record with the messages it sends. Request ids are modelled by marking
  older questions and answers of the same family stale. Clients of other factions act on the server directly.

**Board, files, wire**

* **HexMath, EdgePaths, Sight**: cube coordinates, rounding over a common denominator, lines, neighbours, offsets;
  edges, corners, walks over corners, stitched spines, outlines; rays, blocking by hexes and edges.
* **BoardGeometry**: probes, inputs of the library grown one step at a time (a pair of hexes with obstacles, a
  drawn path, a painted region), and what the library promises for them.
* **Snapshot**: the wire form. A dict is a function of the keys that are present.
* **ScenarioFile, Loading**: reading a file row by row, and the first state made from it. A behaviour is an
  author who writes the file; each of its states may be loaded.

Correspondence of actions to code:

| Action | Code |
|---|---|
| `Execute`, `ExecuteRaises` | `ActionManager.execute`, normal and with a raising `apply` |
| `Undo`, `Redo`, `ReplaceState` | the methods of those names |
| `OpenStepwise`, `MoveAtOnce` | `handle_authority_move_unit_normal` and, for a move of one step, the generic branch of `_handle_action_request` |
| `ContinueMove` | `continue_stepwise_move_unit` |
| `PassMovementInterrupt` | that branch of `_handle_action_request`, `drive_movement_arc_event` |
| `RequestNextPhase`, `RequestPlain`, `RequestPatch` | `_handle_action_request`; `_create_action` for the plain ones |
| `RequestUndo`, `RequestRedo`, `LoadSnapshot` | `_handle_undo_request`, `_handle_redo_request`, `_handle_load_snapshot` |
| `Attack`, `RefuseAttack` | `handle_authority_attack`, accepted and refused after the cursor was moved |
| `RetreatAtOnce`, `OpenRetreat`, `ContinueRetreat` | the retreat branches of `authority_movement.py` and `authority_arc_runtime.py` |
| `CombatDisruptInsteadOfRetreat`, `CombatAdvance`, `CombatDeclineAdvance`, `AdvanceByMove` | the gates' requests in `_handle_action_request` |
| `HandleJoin`, `HandleLeave`, `HandleRequest` | `_handle_join_game`, `_handle_leave_game`; any request that ends in `_broadcast_state_update`, or is refused |
| `Accept`, `ServerEnds` | `GameWebSocketServer._handle_connection`: start, and its `finally` |
| `GameConnect`, `GameDisconnect`, `SendRequest` | `Game.connect` (with the title-load arc), `disconnect`, `execute_action` and `load_snapshot_dict` |
| `OnOpen`, `OnMessage`, `OnClose`, `OnError`, `ConnectionHealthTick` | the handlers of `BrowserWebSocketClient` |
| `BrowserNotices`, `Cut` | the browser, the network (external) |
| `Presses`, `PressesMarker`, `EndsPhase`, `AnswersGate` and the other steps of `UserActs` | the mouse handlers and panel buttons |
| `Receive` | `Game`'s handlers of updates, previews and drag answers |
| `AnswersAsk`, `AnswersDragAsk`, `Serves...` | the server's handlers of what the client sent |

In MovementServer a refused request changes nothing and is no action, with the exceptions that are
modelled: a stepwise open that the arc refuses, and a refused attack, have executed cursor actions by then.

A title enters MovementServer through constants: `InterruptsAt` (interrupt hook), `StepCosts`,
`Budgets`, `ZocOn`, `MaxStack`, `Stepwise`, `Schedule`, `RoutineActions`, `AfterPhase`, `Presented` and `Overlay...`.

Operators with a comment "Slip" are plausible programming errors beside the definition
they would replace; with any of them the property that names the hazard fails. They are
used by nothing.

## 3. Runs

| Run | Configuration | Checks | Result |
|---|---|---|---|
| history | `MCActionManager.cfg` | `TimelineInv`, `EntriesReplay`, `UndoNeverRaises`, `RedoNeverRaises`, `BoardFollowsHistory`, implements `Timeline` | hold; about 209,000 states |
| movement | `MCMovementServer.cfg` | `TypeOK`, `CursorMatchesGate`, `RestIsAffordable`, `QueueIsRestOfHook`, `RunnerNeverRaises`, `WindowsInOrder`, implements `TurnOrder` | hold; about 27,000 states |
| moves_end | `MCMovesEnd.cfg` | `MovesEnd` (liveness) | holds; about 200 states |
| server_undo | `MCServerUndo.cfg` | `UnitsArePublished`, `UndoNeverFails` | hold; about 23,000 states |
| combat | `MCCombat.cfg` | `StateIsPublishedAtRest`, `GateMatchesBucket`, `RetreatsCoverTheirDistance`, implements `Engagement`, `EngagementsEnd` (liveness) | hold; about 8,200 states |
| drafts | `MCDrafts.cfg` | `PlanPreviewIsCurrent`, `OfferedIsAccepted`, `RetreatsAreWalked` (liveness) | hold; about 83,000 states |
| seating | `MCSession.cfg` | `SeatsAgree`, `IdentityAgrees`, `ConnectedFlagIsCurrent`, implements `Seating` | hold; about 394,000 states |
| updates | `MCUpdates.cfg` | `NoUpdateLost`, `ViewAdvances`, `GhostsLeave` and `UpdatesArrive` (liveness) | hold; about 218,000 states |
| board | `MCBoard.cfg` | `RaysAreUnbroken`, `SightIsMutual`, `PathsAreUnbroken`, `OutlineIsWhole`, `CostsAreCheapest`, `NoStepImproves`, `UnitsAreAllPlaced`, `GameSurvivesTheWire` | hold; about 37,000 states |
| stale_broadcast, stacks, unseen_walk | the cfg of that name | one property each | violated, see 5 |

Six more configurations state what the code or its docs promise and are violated; they are kept to be run by
hand and are described in 5: `MCDeletionUndo` (with MCActionManager), `MCUndoneOpen` and `MCBlockedPath` (with
MCMovementServer), `MCRejoin` (with MCSession), `MCImpatient` (with MCDrafts), `MCBoardByHand` (with MCBoard; two invariants, run it with `-continue`).

**history.** Two units and one that can be added, two hexes, three factions, every kind
of action, history up to `MaxHistory` = 3. Three is enough for an action of one kind below a
coupled pair, for a redo tail of two entries that is cut, and for an undo that stops inside
what used to be a pair. Inexact actions are included; the properties that speak of exact
values are guarded by `lossyUndone`, those on raising (`UndoNeverRaises`) and on who is on the
board are not. The refinement of `Timeline` holds until something inexact is undone and again from the
next replacement of the state.

**movement.** Five hexes with a detour and rough ground, three units, three factions,
a rota of three slots of which one allows no moves. Hooks give two factions a window on one hex,
one on another, and blue's own moves are interrupted by red. Plain requests meddle (delete
either unit, add one on the path, spend an action), patches run, and a snapshot may be loaded
at any time. `MaxTicks` = 4 wraps the schedule; `MaxDebt` = 1 lets a plain `SpendAction` take the
count to zero and below. `MaxUndo` = 0 forgets the history after each request, so undo is off
here: with it the cursor may be anywhere (5), and the properties say what the code does between
requests. `MaxAutoSteps` is 4 where the code has 256: no declared arc takes more than two
automatic steps in a row, and the runner would raise (`RunnerNeverRaises`) if it did.

**moves_end.** Fairness: a player who is the one awaited eventually answers: the moving
faction sends its next step, a responder passes. This is fairness of people, not of the code;
without it nobody has to act, and the server has no timeout. What the code must do, and the run
shows, is that *these two* answers suffice: one of them is always accepted. Plain requests are
off, since an interrupting faction may otherwise make the continuation illegal, and stacking is
unlimited (see `MCBlockedPath`).

**server_undo.** The history keeps four entries (`MaxUndo`): a stepwise open leaves four,
so requests can be undone completely, and partly from any later request. Undo, redo,
new requests and snapshots mix freely, with zones of control, short budgets and an added unit.

**combat.** A strip of ten hexes, `Columns` = 5 by two; one infantry unit with artillery of range 2 behind it against a stack
of two, with hills under the artillery. Red and blue have a combat phase of two attacks and a move each
(`MaxTicks` = 2: red's phase and blue's, and then the move is the bound). Attacks by one unit or both, against the whole stack or,
invalid, half of it; dice in three rows of the table and, in the last, either outcome of the morale check, so that nothing,
step losses, disruption, retreats of one to three hexes, and vacated hexes all occur.
Five columns leave room to retreat three hexes. `Presented` is what the title's registry knows, so
the state in the middle of a retreat path is not sent (5), and `StateIsPublishedAtRest` speaks of the rest of the time.
`PlayersAnswerGates`: while some answer to a gate, or the next step of a retreat, would be accepted, the players eventually
give one. As in moves_end this is fairness of people; the code's part is that there *is* such an answer
and that answers lead out. A unit that has nowhere to retreat to would break this; the scenario leaves it room (5).

**drafts.** The strip of the run above with another scenario: the client of the red player, in the red combat phase, the blue
one, whose attack may rout the red infantry, or the red move phase with a marker. It clicks on five hexes (`Clicked`), on
units and markers, drags, confirms, cancels, takes back, ends the phase; at most two messages are on their way (`MaxPending`),
which is enough for an answer to a question that has been replaced, and for an update between a question and its answer.
Paths have up to four hexes, one more than the longest retreat. `Presented` has the two segments that the
title's registry lacks: the walk is checked for a title that does present them, else it ends after its first step (unseen_walk).
`Patient`: the player leaves the map alone while a retreat is walked; `MCImpatient.cfg` shows what happens otherwise.
`MessagesArrive`: what is on its way is eventually received, and the server handles what it received, again weak fairness
with the enabling condition spelled out. Nothing is assumed of the player.

**seating.** Two users of the same name (the hard case for identity), two factions, three connections:
one user's third connection meets the other's and the end of their own first. One user names a
faction, the other does not. Updates need no change of state here (`MaxChanges` = 0): every join
is answered with one.

**updates.** Three users, one of whom names a faction the title does not have, two connections, two
changes: a join before, between and after changes, with requests of the wrong player, snapshots
of either turn, and losses anywhere. Fairness: the server handles what it has received and ends a handler whose connection
is gone, the browser delivers what has arrived. The first and last are the event loops; that
the end of a connection is noticed is the keepalive of the `websockets` library, which closes a
connection whose pings are not answered. No fairness is assumed of users, of the network, or
of the browser's close events.

**board.** Three kinds of behaviour in one machine, of which only one moves: probes, searches, files.
Probes: lines from three hexes to every hex of a board of radius 3, which has every
direction, all ties of a line that runs exactly between hexes, and rays of every slope up to a third; up to two obstacles (hexes or edges) near the
start; drawn paths of hexes and painted regions of up to five cells (`MaxCells`), enough for a path
that touches itself, a ring around nothing, and a region with a waist. Searches: all boards of five hexes with two ways round, of
which the first found may be the dearer; rough ground, dear edges, walls, zones of control, occupied and
closed hexes in combination. The order of equal entries in the heap is left open. Files: four rows to begin with and up to three more
(`MaxRows` = 7), of rows made to collide: two archetypes (whose prefixes differ only by a character `_unit_id_token` drops) and hand-written ids share a prefix, units take attributes from four places, several
stand on one hex, two rows of terrain name one hex, features are right and wrong. Three rows
are enough for an id made up between two that are written. `InitialState` was compared with the code on 300 random files, and the walks
over corners on 400 random paths, with equal results.

Deadlock is checked in the runs of ActionManager, MovementServer and combat: `LoadSnapshot`, like
`ReplaceState`, is always possible. It is not in those of Session, where everybody may have left
and the bound `MaxConns` be used up, of drafts, where `MaxTicks` ends the game, and of board, whose probes and searches are finite.
Symmetry is not used: units, hexes and factions all have roles.

## 4. Proofs

The seven modules `..._proofs` and Folding are checked by TLAPS, for every value of the constants.

**StateActions_proofs, ActionManager_proofs.** All units, factions, hexes, actions and bounds. Assumptions: the interrupt
hook returns sequences of factions without repetitions (`dedupe_faction_ids` makes them so), the set of units is finite,
`None` is none of the values it is compared with, the actions are of the fourteen kinds, and initial states are game states.

1. `RevertApply`: for every action that can be applied and is not lossy there, `Revert(Entry(a, s), Apply(a, s)) = s`.
   By cases over the fourteen kinds. This is the only place that looks into the actions.
2. `ApplyType`, `RevertType`: apply and revert stay within `GameStates`; that the next stack index
   exists needs that a finite non-empty set of naturals has a greatest member.
3. The inductive invariant `IInv` (module `ActionManager_proofs`) is the conjunction of `TypeOK`,
   `TimelineInv`, `EntriesReplay` and `BoardFollowsHistory`. None but the last is inductive alone: that the state
   is on the timeline survives an undo only because the entry replays its place in the timeline
   (`EntriesReplay` with `RevertApply`), and this survives a redo only because the state is on the timeline,
   so that what the redo saves is what the entry had saved before. `BoardFollowsHistory` carries
   the part of this that survives lossy undos, from which `UndoNeverRaises` follows.
4. `TypeCorrect`, `StateOnTimeline`, `HistoryReplays`, `BoardReplays`, `UndoTotal`, `RedoTotal` are its consequences.
5. `Refinement`: every step of the manager is a step of `Timeline` or a stutter, until something inexact is
   undone; from the next replacement of the state it is again.

**Session_proofs.** Any number of users, factions and connections, from `SessionAssumption`: the factions are a finite
list that is not empty, every user has a name, and `None` is no value of anything else.

1. `SeatSteps`: every step seats one player in a free faction (`Seated`), forgets one (`Forgotten`), or leaves both
   lists alone. `FactionForFree` is the lemma that what a newcomer is given is free.
2. `SeatsAgree` with its types is inductive from there: `SeatsCorrect`. Each of the three kinds of step is a step
   of `Seating` or a stutter: `SeatingRefined`.
3. `IdentityCorrect` needs more, because identity comes with a message: `IdentityInv` says that a player who does not
   know itself has its own `player_joined` as the first message on its way (`OwnJoinFirst`), which is so because
   nothing is sent to a connection that has not joined or does not listen (`SilentTo`), and because it asks to join
   once, before anything else (`JoinsOnce`, `Fresh`). `Types` is `TypeOK` with counters that are not bounded; it is
   proved inductive on the way (`TypesStep`).
4. `ConnectedFlagCorrect`: only the client that the Game holds can be in another state than disconnected, and while
   an attempt that was given up still owes its error event, the flag is not set. The proof rests on the browser's
   part (one attempt at a time to a host), which is a guard of the model.
5. `UpdatesReach` (`NoUpdateLost`), on top of `IdentityInv`: for a player who listens, the last update in its queue,
   or what it shows when the queue holds none, is what the server has. Every step that changes the state broadcasts it
   to all players, and a newcomer is sent it with its `player_joined`; `LostInv` keeps the two together with the fact
   that whoever listens and has joined is one of those players.
6. `ViewsAdvance` (`ViewAdvances`): what a player shows, followed by the updates in its queue in their order, counts its
   changes upwards and never beyond the server's count (`InOrder`). A message taken leaves such a sequence, a
   broadcast appends the newest count, and whatever is lost is lost from the sequence; so no step brings back an older view.

**Folding.** The models fold with `FoldLeft`, and the library says of folds only that they are recursive functions of sets. This module
proves for any operator that the fold over a sequence runs through its members in turn (`Unrolled`), and is instantiated
with the operator of each fold. It rests on induction over numbers. The library's induction theorem takes
an operator and cannot be used; `NumberInduction` is stated for sets and derived from the library's theorem that `<` is well founded.

**MovementServer_proofs.** All boards, schedules, units, factions, hooks, plain requests and snapshots, with every history bound. What
a *title* must be is said by predicates over the constants, the hypotheses of the theorems:

* `PlainTitle`: it registers no overlay arc (that is CombatServer), its after-phase hook only patches the session bucket (the
  engine's default, or hexdemo's), the routine arcs and segments are declared, and it starts on cursors the engine writes.
* `AllPresented`: every segment a cursor can stand on has a presentation (without one, see `unseen_walk` in 5).
* `SettledStarts`: the scenario has no move open, and scenario and snapshots are states as the server leaves them. The client sends as snapshot
  what it was shown, or a file with one; a snapshot may be in the middle of a move. `RestingStarts`, for the refinement
  alone, excludes that, since the abstract order has no saved turn to compare with.
* `SpendsForward`: a plain `SpendAction` request spends an amount that is not negative, as the client's do.

All of them hold of the instance that the run `movement` checks; `Orderly` (below) is an invariant of that run too.

1. *What a handler does* (sections 1 to 5). The arc runner is instantiated by the movement arc; `RunnerApplies` and its
   neighbours say that its actions are those of StateActions. For each segment there is a lemma with its transitions, for each
   event the lemma that computes the manager that `submit_event` and the automatic steps behind it leave (`OpenSegment`,
   `StepResolveSegment` and so on): after at most two automatic steps the arc rests on `continue` or `interrupt`, or is
   done, and the cap is out of reach.
2. *Undo* (sections 6 to 9, the full `Spec`). That no revert raises is not inductive, for a revert raises when its unit is gone, and
   whether it is gone when the entry's turn comes depends on what the entries above it bring back. `Healthy` says
   that there is a sequence of boards, one for each place in the history, such that every entry finds its units on the board above it
   and leaves the one below it (`BoardsOf`, `Carries`). A new entry extends it, a cut of the redo tail shortens it, forgetting the
   oldest entries drops its head, undo and redo walk along it. `Sound` adds the types and that the units shown are those of the state; it is
   inductive. From it: `TypeCorrect`, `UndoIsSafe` (`UndoNeverFails`), `UnitsAlwaysPublished` (`UnitsArePublished`).
3. *Play without undo and redo* (sections 10 to 13). `ForwardSpec` is `Spec` without these two requests. The restriction is not for convenience:
   with undo the properties are false (`MCUndoneOpen`). The run `movement` has `MaxUndo` = 0, and so checks exactly these
   behaviours. `Settled` says how the server rests between two requests: no move and a routine cursor; or a move at `continue`, with the
   turn as the slot has it; or a window, with the first of the queue as current faction and the turn to go back to saved; and in both the
   queue is the end of the hook's list, and the budget left pays for the path left. It is what the requested properties need of each
   other: the queue can be known only when the gate is, the turn that comes back only when the slot is. `Orderly` (`Settled`,
   and nothing has failed) is inductive; `Moved` is what one request may do to a settled state, and there is one lemma per handler.
   From `Orderly`: `CursorAlwaysMatches`, `RestAlwaysAffordable`, `QueueAlwaysRestOfHook`, `RunnerIsSafe`; with `Moved`: `WindowsStayInOrder`.
4. *Refinement.* `Turned` reads `Moved` as a step of the schedule, and every such step is one of `TurnOrder` or a stutter: `TurnsInOrder`
   (`ImplementsTurnOrder`).

**CombatArc_proofs, CombatServer_proofs.** All boards, units, attacks, dice, losses and histories; the conditions on the *title* are again a
predicate over the constants, `CombatTitle`: it registers hexdemo's arc and hooks as module CombatArc has them (a title without
windows and stepwise moves), its names are declared, the segments of hexdemo's own table are presented (those of a walked retreat may
or may not be, see `unseen_walk` in 5), the plain requests are those that spend actions, and scenario and saved games are states
in which the server has come to rest. The instance of the run `combat` is such a title. `EngagementAssumption` says that an attack names
lists of units that are not empty.

The specification is `CombatForwardSpec`: every request of `CombatNext` but undo and redo, which can leave the cursor of one place in the
history with the bucket of another. The run `combat` has `MaxUndo` = 0 and checks exactly these behaviours.

1. *The inductive invariant.* `GateMatchesBucket` is not inductive. Whether a gate may be left depends on who still owes a retreat; a
   retreat that is walked leaves the gate's cursor for the movement arc's, and the gate it comes back to is computed from the bucket; the
   offer of an advance names hexes and units taken from `last_combat`, which has to be still true of the board. `AtRest` says all of it: the
   state is at the routine, at a retreat gate, in the middle of a walked retreat, or at the offer of an advance (`AtRoutine`,
   `AtRetreat`, `Walking`, `AtAdvance`); those who owe a retreat are on the board, of one faction, owing the same distance (`Owed`); those
   who fought are present, and it is still their turn (`Fought`); a walked path starts where the unit stood and ends as far as it
   owes; and the clients have been shown the state, unless a retreat is being walked. TLC found it invariant on the instance of the run `combat` before it was proved.
2. *What a handler does.* Sections 1 to 8 compute it: `begin_arc` and `submit_event` on hexdemo's arc, one lemma for each segment (the automatic
   segments `classify` and `resolve` end after at most two steps), a fold over the units that retreat or are disrupted together, the
   bucket after each kind of patch, and the arms of the results table, of which each owes nothing, or
   the same distance to the units of one side. Sections 9 to 15 have a lemma per request (those
   from section 12 on in CombatServer_proofs): the engine's plain requests, the end of a phase, moves and saved games, attacks that are accepted, refused or resolved at once, a retreat in
   one request, the opening, a step and the end of a walked one, disruption instead, the advance and its refusal.
3. *One step of the engagement.* `FightStep` is what a request may do to such a state, and every one of those lemmas ends in it: nothing
   (`Calm`), the phase ends (`PhaseTurns`), an attack (`Struck`), fewer units owe a retreat, each of the others having covered its distance or been
   disrupted where it stood (`Yielded`), or the advance is answered (`Answered`). `CombatStep` puts them together.
4. *Conclusions.* `CombatStaysAtRest` is the invariant; from it `GateAlwaysMatchesBucket` (`GateMatchesBucket`) and `RestAlwaysPublished`
   (`StateIsPublishedAtRest`); with `FightStep`, `RetreatsAlwaysCover` (`RetreatsCoverTheirDistance`).
5. *Refinement.* `FightIsForetold` reads each arm of `FightStep` as a step of `Engagement` or a stutter: `EngagementsInOrder`
   (`ImplementsEngagement`), for a scenario that does not begin inside an engagement.

**Board_proofs: the search for moves.** All boards with costs that are not negative, and any order among equal entries of the heap.
`SearchIsSettled` (`NoStepImproves`): when the heap is empty, no legal step reaches a hex cheaper than reported, and
every hex but the start was reached by a legal step from a hex that is itself reported and may be left. The invariant: the start costs nothing;
no entry of the heap is cheaper than what is known of its hex (`HeapIsNoCheaper`); a hex waits in the heap, or may not
be left, or its neighbours know (`WaitingOrRelaxed`); and every cost is at least that of the predecessor and the
step (`ReachedByAStep`). `SearchIsCheapest` (`CostsAreCheapest`): the finished search reports exactly the hexes
that a legal path within the budget leads to, each at the cost of a cheapest one. Along any legal path no hex is reported
dearer than the path is up to there, because a hex that is waiting or settled has told its neighbours (induction on the
place in the path); in the other direction the search keeps a walk of legal steps to every hex it reports, at the
reported cost, and a cheapest walk can be cut down to a simple path.

**Board_proofs: geometry, wire and loading.** All boards, of any size, and any hexes and edges that block; all game states; and all scenario files.

1. *The hexes of a line.* `LinesAreUnbroken`, and for both rays too `RaysAlwaysUnbroken` (`RaysAreUnbroken`): each is a chain of
   neighbours from the one end to the other, although each of its hexes is rounded on its own. The points of a line and of a ray are one
   thing, `Spot`: a point on the way, over the denominator n * m, moved to the side by less than a quarter of a hex (`Aside`; `NudgeIs` says that
   a ray is). The coordinate that has furthest to go is close to a whole number at every point; `NearestHex` says that cube rounding then
   keeps it, whichever coordinate it recomputes. The others go the other way, by at most a unit a point, and rounding
   keeps that (`ClosestStep`, `CoordinateStep`), so two points in succession round to neighbours (`SpotStep`). The numerators are integers and the
   arithmetic is exact. The code computes in floating point, and moves a ray by a millionth of a unit of length, the model by a millionth of
   a step of the line: the same as long as neither reaches the next rounding.
2. *Sight.* `SightAlwaysMutual` (`SightIsMutual`). The left ray of the way there is the right ray of the way back, point by point
   (`NudgeBack`, `RayBack`), so the same hexes are between the ends (`BetweenBack`) and, an edge being the same from both sides, the
   same edges are crossed (`EdgesBack`). That the edges are those between the hexes of the ray needs the polyline through it and
   the removal of repetitions undone again (`ChainReadBack`): two folds, by the facts of Folding. The obstacle is a member
   of two finite sets of which a least one is taken (`FirstBlockIs`, `ObstacleIs`).
3. *The probes.* `ProbeOK`, that a sight probe is a pair of hexes, is inductive under `ProbeSpec`, whose steps are those of the run `board`.
4. *The wire.* `StateReads`: for every game state, whatever its units, features, terrain, turn and values, the dict that is written can be
   read, and reads back as that state, for every field that may be left out at its default. One lemma for each part (`HexReads` to
   `TurnReads`), then the whole.
5. *Loading.* `UnitsAlwaysPlaced` (`UnitsAreAllPlaced`), whatever rows the author starts from and adds. Two folds again, and two invariants. `HasRead`: after k
   rows there are k units, with distinct ids that are all taken note of (`ReadsOneMore`). A made-up id is free because one of the numbers tried
   must be: there are more of them than ids in use (`NumberIsFree`, the pigeonhole principle). `HasPlaced`: the first k rows are on the board at their
   hexes, each above the active ones before it (`PlacesOneMore`); later rows do not touch them, their ids being different. Assumed: tables of units
   and lists of positions are lists (`FileAssumption`; `parse_positions_list` raises for anything else), and two numbers behind a token
   make two ids (`MadeUpIdsTell`): it is so of decimal numerals, but TLA+ defines ToString by an unspecified choice.

Only model-checked:

* liveness (`MovesEnd`, `EngagementsEnd`, `RetreatsAreWalked`, `GhostsLeave`, `UpdatesArrive`) and whatever else needs ENABLED, which the prover does
  not have;
* the clients' drafts (`OfferedIsAccepted`, `PlanPreviewIsCurrent`), which relate the previews of one module to the checks of another and
  hold for the rules of the small instance;
* paths of edges and outlines (`PathsAreUnbroken`, `OutlineIsWhole`), which are searches breadth first whose results would need induction
  over a path;
* `GameSurvivesTheWire`: that the wire keeps every game state is `StateReads`, but that what is loaded is one needs the hexes of detours and
  outlines, the same searches.

Neither proved nor checked: a fight with undo and redo in it. An undo takes back one action of a request that is several (5), and
`GateMatchesBucket` is not promised between them. What survives undo, `UndoNeverFails` and `UnitsArePublished`, is proved for titles without combat.

## 5. Disagreements found

What the code does and what a doc, docstring or comment says. With a run of their own:

* `stale_broadcast`: after the last step of a stepwise move the action is spent, and perhaps the phase
  advanced, after the only broadcast (`server/arcs/authority_movement.py:342`).
* `stacks`: a stack that retreats along a path is put where it exceeds the stacking limit (`authority_movement.py:503`);
  `authority_combat_cleanup.py` says "Validate the full stacked retreat before the combat arc applies the move", and
  `game_server.py:2298` that beyond the limit is always illegal. Only the unit that walks is checked.
* `unseen_walk`: `games/hexdemo/ui/segment_registry.py:97-113` raises for the ui_modes of the engine's movement arc
  (`awaiting_continue`, `awaiting_interrupt`), and `_broadcast_state_update` (`game_server.py:2467`) looks them up before it sends:
  the state in the middle of a path reaches nobody. `tests/test_combat_hexdemo.py:1076` passes because it sends the steps itself.

With a configuration to run by hand:

* `MCDeletionUndo`: `DeleteUnit` of a unit that is inactive already, then undo: the unit is active
  (`state/actions.py:283`, docstring at 260).
* `MCUndoneOpen`: two undos after a step that opened windows leave the cursor on `step_resolve`; the next pass
  raises in `submit_event` (`arcs/runner.py:234`).
* `MCBlockedPath`: a path may pass through a full friendly hex, its steps may not (`authority_movement.py:305`, every step is
  checked as a move that ends there; `state/logic.py:174`: "A unit may still traverse through friendly-occupied hexes");
  then the move cannot go on and `NextPhase` is refused.
* `MCRejoin`: reconnecting is said to be supported (`game/game.py:476`), but a client that names its faction and is back
  before the server has noticed the end of its old connection is refused (`server/game_server.py:841`), and stays
  connected without having joined.
* `MCImpatient`: a click on the walking unit in the middle of a walk, or the late preview of a retreat that was cancelled, takes away
  the client's place in the path, and nothing in the client continues the walk.
* `MCBoardByHand`, `OutlineCloses`: `perimeter_hex_path` (`centerline.py`) gives an open chain for a trapezoid of five hexes; "Simply
  connected regions yield one closed loop". (Of two separate triangles it gives one loop, where it promises a ValueError.)
* `MCBoardByHand`, `MadeUpIdsAreUnique`: an id made up for a row may be the explicit id of a later one, and the file is refused;
  `load_scenario` says "Omit `id` on a row to auto-assign a unique id".

Plain to read in the code and in the modules, without a run:

* *History.* `ApplyCombatEffects.revert` (`state/actions.py:604`) gives back the state unchanged, against
  `StateAction.revert`'s docstring (`action_manager.py:34`); `LossyAt` marks it. An undo takes back one action, a request is
  several (`server/protocol/client.py:14`, `game_server.py:1962`). Markers are outside the history.
* *Sessions.* When a connection ends, the player is deleted and its faction free (`game_server.py:2432-2441`);
  `docs/MULTIPLAYER_INTEGRATION.md:248` says it is marked as disconnected and keeps its state, line 252
  that it comes back with the same id. The first update has number 0, the client starts at 0 and warns of an
  "Out-of-order state update" (`websocket_client.py:441-443`).
* *Retreats.* A unit with no legal retreat, or one deleted while it owes one, leaves a gate that only undo opens. The first step
  of a retreat path is not charged and its hex is checked less than the others; a continuation
  that costs more than is left is "Illegal continuation move" for good. `validate_retreat_path` checks adjacency, number, distance
  and the last hex only. A retreat of three hexes can be drawn into a dead end, though
  "Extensions are filtered so the draft can still complete" (`retreat_path.py`). `retreat_preview.py` has a stacking limit of 3 of its own.
* *Attacks.* A refused attack leaves two cursor entries in the history and cuts the redo tail; when there was no cursor before, it stays on
  the attack segment and `NextPhase` is refused (`authority_attack.py:161-173`).
* *Client.* The index of the next step advances when the step is sent, so a step lost with its connection is never sent again. A refused
  move leaves unit or marker drawn where it was dropped, though `_handle_error` means to "Re-snap visuals to committed state". A selection
  changed just before Confirm commits the older preview (`docs/TURN_ACTION_DOCK_CONTRACT.md:44`: "the preview hook answers for that
  snapshot only"). A draft of two or more hexes outlives the obligation it was for, with Confirm enabled. During the opponent's retreat
  the current faction is offered marker drags that are refused. An advance can never be dragged, since those drags get no
  constraints. A marker's preview gives way to an empty attack plan on every update. `confirm_attack_plan` calls a method that does not
  exist. Clicks faster than answers append to an old preview without end.
* *Geometry.* `shortest_edge_key_path_hex_corridor_vertex_space` finds no walk in some corridors that have one (its tree reaches
  both corners of the goal without crossing it) and the loader takes the stitched spine. `wedge` takes its hex as absolute; `polygon`
  misses hexes; `convex_hull` drops an extreme hex on ties; `pixel_to_hex` rounds q and r separately.
* *Loading.* Ids `id~i` of edge features are made after the check for duplicates; markers have no such check; `grid_hexes` leaves
  out features and markers.

## 6. What is not modelled

* Presentation (SVG, DOM, styles, tooltips, panel layout): output only. Hover and highlights likewise.
* Title lookup, hook registration and the authoring checks: sequential code before a match, which refuses a wrong title and
  keeps no state. What a title *declares* enters the models as constants; hexdemo's declarations are CombatArc and CombatRules.
* `AddMarker` and `RemoveMarker`: the server and `Game.execute_action` know them, no part of the interface makes one. Colours, graphics and styles except as fields on the wire.
* In HexMath: vectors, rotations, `polygon`, `wedge`, hulls. `tools/import_hextml_map.py`, an importer of one other format.
* In ClientDrafts: undo, redo and saved games loaded while a draft is open; other players change the state by the requests of the phase.
  The browser's message queue and timers are Session's matter, drafts are over connections that stay.
* `_handle_join_game`'s branch for a player who joins twice: no client does.
* Costs and budgets are integers where the code has floats with a tolerance of 1e-9, and the title's own
  `after_phase_transition` and spending hooks are the engine's defaults, save for hexdemo's clearing of its bucket.

## 7. What could come next

1. Proofs of the clients' drafts on top of those of `CombatServer`: what a preview offers is accepted, for all boards.
2. A crash of the server: nothing is saved, so this is a new match; with persistence `LoadSnapshot` is where it would enter.
3. The combat title with interrupts: the movement arc's windows inside a retreat.
4. Drafts over connections that break, Session and ClientDrafts together.
