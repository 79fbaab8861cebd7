------------------------------ MODULE CombatArc ------------------------------
(***************************************************************************)
(* The combat arc of hexdemo (games/hexdemo/combat/graph.py, arc.py, and   *)
(* the pattern authoring/patterns/combat.py): the overlay arc that takes   *)
(* an attack through the retreats it causes to the advance it allows.      *)
(*                                                                         *)
(* A title's arcs are the constants Overlay... of module MovementArc; a    *)
(* configuration gives them the values defined here.                       *)
(***************************************************************************)
EXTENDS MovementArc, CombatRules

\* segment_wire.py: what the segment at the cursor lets a faction do; without a
\* cursor nothing is allowed, and nothing is denied either.
SegmentAllows(s, f, action) ==
    /\ s.engine.cursor # None
    /\ LET segment == Runner!Segment(s.engine.cursor)
       IN  Runner!ResolveOwner(segment.owner, s) = f /\ action \in segment.allowed_actions

SegmentDenies(s, f, action) == s.engine.cursor # None /\ ~SegmentAllows(s, f, action)

-----------------------------------------------------------------------------
(* The graph. *)

RetreatMove(target) == On("MoveUnit", "is_retreat_fulfillment", "apply_retreat_step", target)

Settle ==
    <<On("AUTO", "has_pending_retreat", "none", Goto("retreat_gate")),
      On("AUTO", "advance_available", "open_advance", Goto("advance_gate")),
      On("AUTO", "always", "none", DONE)>>

CombatSegments ==
    {"attack", "classify", "retreat_gate", "retreat_or_disrupt_gate", "resolve",
     "advance_gate"}

CombatGraph ==
    [entry |-> "classify",
     segments |-> [x \in CombatSegments |->
       CASE x = "attack" ->
              Owned("CURRENT", {"Attack"},
                    <<On("Attack", "always", "attack_arc_effect", Goto("classify"))>>)
         [] x = "classify" ->
              Owned("NO_OWNER", {},
                    <<On("AUTO", "disrupt_offered", "none", Goto("retreat_or_disrupt_gate"))>>
                      \o Settle)
         [] x = "retreat_gate" ->
              Owned("retreating_in_combat", {"MoveUnit"}, <<RetreatMove(Goto("resolve"))>>)
         [] x = "retreat_or_disrupt_gate" ->
              Owned("retreating_in_combat", {"MoveUnit", "CombatDisruptInsteadOfRetreat"},
                    <<RetreatMove(Goto("resolve")),
                      On("CombatDisruptInsteadOfRetreat", "always", "disrupt_instead",
                         Goto("resolve"))>>)
         [] x = "resolve" -> Owned("NO_OWNER", {}, Settle)
         [] x = "advance_gate" ->
              Owned("CURRENT", {"CombatAdvance", "MoveUnit", "CombatDeclineAdvance"},
                    <<On("CombatAdvance", "always", "resolve_advance", DONE),
                      On("MoveUnit", "is_combat_advance_move", "resolve_advance", DONE),
                      On("CombatDeclineAdvance", "always", "clear_advance_gate", DONE)>>)]]

CombatArcs == [combat |-> CombatGraph]

\* The segments whose ui_mode PRESENTATION_BY_UI_MODE knows; resolve_presentation_id
\* raises for the others, those of the engine's movement arc among them.
KnownSegments == {"routine", "attack", "retreat_gate", "retreat_or_disrupt_gate", "advance_gate"}

\* Slip: the gates wait for the faction whose turn it is.
OwnerIsCurrent(key, s) == s.turn.current_faction

\* retreating_faction of combat/arc.py; the movement arc has a resolver of its own.
CombatOwner(key, s) == IF key = "retreating_in_combat" THEN RetreatingFaction(s) ELSE None

-----------------------------------------------------------------------------
(* Guards and effects (rules.py, HexdemoCombatRules). *)

CombatPasses(guard, ctx) ==
    LET s == ctx.state
    IN  CASE guard = "disrupt_offered" -> DisruptInsteadOffered(s) /\ RetreatsPending(s)
          [] guard = "has_pending_retreat" -> RetreatsPending(s)
          [] guard = "advance_available" -> AdvanceIsOpen(s)
          [] guard = "is_retreat_fulfillment" -> HexesRemaining(s, ctx.params.unit_id) > 0
          [] guard = "is_combat_advance_move" ->
                IsAdvanceMove(s, ctx.owner, ctx.params.unit_id, ctx.params.to_hex)

CombatEffect(effect, ctx) ==
    LET s == ctx.state
        p == ctx.params
    IN  CASE effect = "attack_arc_effect" -> AttackActions(s, p)
          [] effect = "apply_retreat_step" ->
                RetreatStepActions(s, ctx.owner, p.unit_id, p.from_hex, p.to_hex)
          [] effect = "disrupt_instead" -> DisruptActions(s, ctx.owner)
          [] effect = "open_advance" -> OpenAdvanceActions(s)
          [] effect = "resolve_advance" -> ResolveAdvanceActions(s, ctx.owner)
          [] effect = "clear_advance_gate" -> ClearBucket(s, {"advance"})

\* validate_attack, with the segment and the turn.
ValidAttack(s, f, a) ==
    /\ SegmentAllows(s, f, "Attack")
    /\ f = s.turn.current_faction
    /\ ValidParties(s, f, a)

\* Only these two effects raise: an attack that is not valid, and a disruption of nobody.
CombatRaises(effect, ctx) ==
    CASE effect = "attack_arc_effect" -> ~ValidAttack(ctx.state, ctx.owner, ctx.params)
      [] effect = "disrupt_instead" ->
            ~\E u \in Retreaters(ctx.state) : ctx.state.units[u].faction = ctx.owner
      [] effect = "resolve_advance" -> ~AdvanceFor(ctx.state, ctx.owner)
      [] OTHER -> FALSE
=============================================================================
