----------------------------- MODULE CombatRules -----------------------------
(***************************************************************************)
(* How the title hexdemo fights (games/hexdemo/combat/rules.py,            *)
(* step_loss.py, disrupt.py, outcome.py, actions.py): who may attack whom, *)
(* the combat results table, what a result does to the units and what it   *)
(* leaves to be done in the session bucket.                                *)
(*                                                                         *)
(* An attack `a` is the normalised wire request, the lists with the anchor *)
(* first: attackers, defenders, the two primaries, and the dice, which the *)
(* code rolls while it resolves: `roll` picks a row of the column, `passed`*)
(* is the outcome of the morale check.                                     *)
(***************************************************************************)
EXTENDS RetreatPath

CONSTANTS
    Artillery,      \* the units of type artillery; the others are infantry
    Reach,          \* attribute "range" of each unit
    StepOne,        \* patch of the explicit step table of each unit, or the empty dict
    Sighted,        \* pairs of hexes with a line of sight
    TerrainOf       \* terrain type of each hex

ASSUME CombatAssumption ==
    /\ Artillery \subseteq Units
    /\ Reach \in [Units -> Nat] /\ StepOne \in [Units -> Dicts]
    /\ Sighted \subseteq Hexes \X Hexes

-----------------------------------------------------------------------------
(* The session bucket (state/session_state.py). *)

Empty == [x \in {} |-> 0]
InBucket(s, key, default) == IF key \in DOMAIN s.session THEN s.session[key] ELSE default

AttacksThisPhase(s) == InBucket(s, "attacks_this_phase", <<>>)
LastCombat(s) == InBucket(s, "last_combat", None)
Obligations(s) == InBucket(s, "retreat_obligations", Empty)
AdvanceOffer(s) == InBucket(s, "advance", None)
DisruptInsteadOffered(s) == InBucket(s, "disrupt_instead_offered", FALSE)

HexesRemaining(s, u) == IF u \in DOMAIN Obligations(s) THEN Obligations(s)[u] ELSE 0
RetreatsPending(s) == \E u \in DOMAIN Obligations(s) : Obligations(s)[u] > 0

\* The active units that must retreat; their faction owns the gate.
Retreaters(s) == {u \in DOMAIN Obligations(s) : Obligations(s)[u] > 0 /\ ActiveIn(s, u)}
RetreatingFaction(s) ==
    IF Retreaters(s) = {} THEN None
    ELSE s.units[CHOOSE u \in Retreaters(s) : TRUE].faction

Patch(values, removed) ==
    [kind |-> "BucketPatch", patch |-> [values |-> values, remove_keys |-> removed]]

\* clear_session_bucket: no action for a bucket that holds none of the keys.
ClearBucket(s, keys) ==
    IF DOMAIN s.session \cap keys = {} THEN <<>> ELSE <<Patch(Empty, keys)>>

\* PHASE_SCOPED_COMBAT_KEYS, dropped after every change of phase.
PhaseScopedCombatKeys ==
    {"attacks_this_phase", "retreat_obligations", "disrupt_instead_offered", "last_combat",
     "advance"}

ClearCombatState(s) == ClearBucket(s, PhaseScopedCombatKeys)

-----------------------------------------------------------------------------
(* Who may attack whom. *)

AttackHexes(s, ids) == {s.units[u].position : u \in Range(ids)}

\* build_attack_context_from_wire
WellFormedAttack(s, f, a) ==
    /\ \A u \in Range(a.attackers) : ActiveIn(s, u) /\ s.units[u].faction = f
    /\ \A u \in Range(a.defenders) : ActiveIn(s, u) /\ s.units[u].faction # f

EnemiesOn(s, f, hexes) ==
    {u \in Units : ActiveIn(s, u) /\ s.units[u].faction # f /\ s.units[u].position \in hexes}

CanHit(s, u, hexes) ==
    IF u \in Artillery
    THEN \E h \in hexes : LET d == Apart[s.units[u].position][h]
                          IN 1 < d /\ d <= Reach[u] /\ <<s.units[u].position, h>> \in Sighted
    ELSE \E h \in hexes : Apart[s.units[u].position][h] = 1

\* Slip: the units that have attacked before are not looked at.
ValidPartiesRepeated(s, f, a) ==
    LET hexes == AttackHexes(s, a.defenders)
    IN  /\ WellFormedAttack(s, f, a)
        /\ Range(a.defenders) = EnemiesOn(s, f, hexes)
        /\ \A u \in Range(a.attackers) : CanHit(s, u, hexes)

\* validate_attack, but for the segment and the turn.
ValidParties(s, f, a) ==
    LET hexes == AttackHexes(s, a.defenders)
    IN  /\ WellFormedAttack(s, f, a)
        /\ Range(a.defenders) = EnemiesOn(s, f, hexes)
        /\ \A u \in Range(a.attackers) :
              CanHit(s, u, hexes) /\ u \notin Range(AttacksThisPhase(s))
        /\ a.primary_attacker \in Range(a.attackers)
        /\ a.primary_defender \in Range(a.defenders)

-----------------------------------------------------------------------------
(* The combat results table. *)

Attribute(s, u, key) ==
    IF key \in DOMAIN s.units[u].attributes THEN s.units[u].attributes[key] ELSE 0

\* _TERRAIN_COMBAT_MULT, in quarters.
TerrainQuarters(from, to) ==
    CASE from = "deep woods" /\ to \in {"light woods", "deep woods"} -> 1
      [] from = "deep woods" /\ to \in {"plain", "hills"} -> 2
      [] from \in {"plain", "light woods"} /\ to \in {"deep woods", "hills"} -> 2
      [] from = "hills" /\ to \in {"light woods", "deep woods"} -> 2
      [] OTHER -> 4

\* Python's round of a number of quarters: halves go to the even neighbour.
RoundQuarters(q) ==
    LET down == q \div 4
    IN  CASE q % 4 < 2 -> down
          [] q % 4 = 2 -> IF down % 2 = 0 THEN down ELSE down + 1
          [] q % 4 = 3 -> down + 1

Clamp(low, n, high) == IF n < low THEN low ELSE IF n > high THEN high ELSE n

Column(s, a) ==
    LET target == TerrainOf[s.units[a.defenders[1]].position]
        attack == MapThenSumSet(LAMBDA u :
                      Attribute(s, u, "combat")
                          * TerrainQuarters(TerrainOf[s.units[u].position], target),
                      Range(a.attackers))
        defense == MapThenSumSet(LAMBDA u : Attribute(s, u, "combat"), Range(a.defenders))
                     + (IF target = "strongpoint" THEN 2 ELSE 0)
    IN  Clamp(-5, RoundQuarters(attack - 4 * defense), 10)

Crt(side, passed, failed) == [side |-> side, passed |-> passed, failed |-> failed]
AX   == Crt("a", "LOSS", "DISRUPT")
AR   == Crt("a", "RETREAT", "NO_EFFECT")
ACNE == Crt("a", "NO_EFFECT", "RETREAT")
ACEX == Crt("a", "EXCHANGE", "RETREAT")
DX   == Crt("d", "LOSS", "DISRUPT")
DR   == Crt("d", "RETREAT", "NO_EFFECT")
DCNE == Crt("d", "NO_EFFECT", "RETREAT")
DCDR == Crt("d", "RETREAT", "DISRUPT")
DCEX == Crt("d", "EXCHANGE", "RETREAT")
DMR  == Crt("d", "RETREAT", "ROUT")
DMX  == Crt("d", "LOSS", "ROUT")

Table(column) ==
    CASE column = -5        -> <<AX, AX, AX, AR, AR, AR>>
      [] column \in -4..-3  -> <<AX, AX, AR, AR, ACNE, DCNE>>
      [] column \in -2..-1  -> <<AX, AR, AR, ACEX, DCNE, DCDR>>
      [] column \in 0..1    -> <<AR, AR, ACEX, DCEX, DR, DR>>
      [] column \in 2..3    -> <<ACNE, DCEX, DCEX, DR, DR, DMR>>
      [] column \in 4..5    -> <<DCEX, DCEX, DR, DR, DMR, DMR>>
      [] column \in 6..7    -> <<DR, DR, DX, DMR, DMR, DMX>>
      [] column \in 8..9    -> <<DR, DX, DMR, DMR, DMX, DMX>>
      [] column = 10        -> <<DX, DMR, DMR, DMX, DMX, DMX, DMX>>

\* check_morale: 1..6 against a morale of 0..6.
MoraleMay(s, u, passed) ==
    LET morale == Clamp(0, Attribute(s, u, "morale"), 6)
    IN  IF passed THEN morale >= 1 ELSE morale <= 5

CrtOf(s, a) == Table(Column(s, a))[a.roll]
Anchor(s, a) == IF CrtOf(s, a).side = "a" THEN a.primary_attacker ELSE a.primary_defender

\* The dice that can fall.
Rolled(s, a) ==
    /\ a.roll \in DOMAIN Table(Column(s, a))
    /\ MoraleMay(s, Anchor(s, a), a.passed)

\* Attackers that fire from afar only neither retreat nor rout.
Result(s, a) ==
    LET crt == CrtOf(s, a)
        drawn == IF a.passed THEN crt.passed ELSE crt.failed
        ranged == crt.side = "a" /\ Range(a.attackers) \subseteq Artillery
    IN  CASE ranged /\ drawn = "ROUT" -> "DISRUPT"
          [] ranged /\ drawn = "RETREAT" -> "NO_EFFECT"
          [] OTHER -> drawn

-----------------------------------------------------------------------------
(* What a result does to the units. *)

StackOf(s, u) == {w \in ActiveAt(s, s.units[u].position) : s.units[w].faction = s.units[u].faction}

LoseStep(s, a) ==
    CASE Result(s, a) = "LOSS" -> StackOf(s, Anchor(s, a))
      [] Result(s, a) = "EXCHANGE" ->
            StackOf(s, a.primary_attacker) \cup StackOf(s, a.primary_defender)
      [] OTHER -> {}

BecomeDisrupted(s, a) ==
    IF Result(s, a) \in {"DISRUPT", "ROUT"} THEN StackOf(s, Anchor(s, a)) ELSE {}

AtLeastZero(n) == IF n < 0 THEN 0 ELSE n

\* expand_step_losses: the first loss weakens a unit, the second removes it.
FirstLoss(s, u) ==
    Merge(IF u \in Artillery THEN Empty
          ELSE IF StepOne[u] # Empty THEN StepOne[u]
          ELSE [k \in {"combat", "morale"} |-> AtLeastZero(Attribute(s, u, k) - 1)],
          [steps_lost |-> 1])

CombatEffectsOf(s, a) ==
    LET lost == {u \in LoseStep(s, a) : Attribute(s, u, "steps_lost") > 0}
        weakened == LoseStep(s, a) \ lost
    IN  [kind |-> "CombatEffects", deactivate |-> lost,
         patches |-> [u \in weakened \cup BecomeDisrupted(s, a) |->
                        IF u \in weakened THEN FirstLoss(s, u) ELSE [disrupted |-> 1]]]

RetreatDistance(s, a) ==
    CASE Result(s, a) = "RETREAT" -> 1
      [] Result(s, a) = "ROUT" -> 3
      [] OTHER -> 0

EngineOutcome(s, a) ==
    CASE RetreatDistance(s, a) = 0 -> "none"
      [] CrtOf(s, a).side = "a" -> "attacker_retreat"
      [] OTHER -> "defender_retreat"

AttackAction(s, a) ==
    [kind |-> "Attack", attacker_ids |-> Range(a.attackers), attacker_id |-> a.attackers[1],
     defender_ids |-> Range(a.defenders), outcome |-> EngineOutcome(s, a),
     rng_entry |-> <<"combined_attack">>]

-----------------------------------------------------------------------------
(* What it leaves to be done (outcome.py), on the state `after` the effects. *)

NewObligations(s, after, a) ==
    IF RetreatDistance(s, a) = 0 \/ ~ActiveIn(after, Anchor(s, a)) THEN Empty
    ELSE [u \in StackOf(after, Anchor(s, a)) |-> RetreatDistance(s, a)]

CombatRecord(s, a) ==
    [outcome |-> EngineOutcome(s, a), attackers |-> a.attackers, defenders |-> a.defenders,
     defender_hex |-> s.units[a.defenders[1]].position]

BucketAfterAttack(s, after, a) ==
    LET owed == Merge(Obligations(after), NewObligations(s, after, a))
        offered == Result(s, a) = "RETREAT" /\ owed # Empty
    IN  Patch(Merge([attacks_this_phase |-> AttacksThisPhase(after) \o a.attackers,
                     retreat_obligations |-> owed, last_combat |-> CombatRecord(s, a)],
                    IF offered THEN [disrupt_instead_offered |-> TRUE] ELSE Empty),
              IF offered THEN {} ELSE {"disrupt_instead_offered"})

\* collect_authority_attack_actions
AttackActions(s, a) ==
    LET struck == Apply(AttackAction(s, a), s)
        after == Apply(CombatEffectsOf(s, a), struck)
    IN  <<AttackAction(s, a), CombatEffectsOf(s, a), BucketAfterAttack(s, after, a)>>

-----------------------------------------------------------------------------
(* What follows: retreats, disruption in their place, advances (actions.py). *)

MoveOf(u, from, to) == [kind |-> "MoveUnit", unit_id |-> u, from_hex |-> from, to_hex |-> to]
MovesTo(s, units, to) == [n \in DOMAIN units |-> MoveOf(units[n], s.units[units[n]].position, to)]

\* Obligations without the units; no patch when none of them has one.
Discharged(s, units) ==
    IF DOMAIN Obligations(s) \cap units = {} THEN <<>>
    ELSE <<Patch([retreat_obligations |-> Without(Obligations(s), units)], {})>>

\* retreat_stack_unit_ids: the unit and everybody on its hex who must retreat too.
RetreatStack(s, f, u, from) ==
    {u} \cup {w \in ActiveAt(s, from) : s.units[w].faction = f /\ HexesRemaining(s, w) > 0}

\* Slip: the stack is relieved of its obligations, but stays.
RetreatAlone(s, f, u, from, to) ==
    MovesTo(s, SetToSeq({w \in {u} : s.units[w].position # to}), to)
        \o Discharged(s, RetreatStack(s, f, u, from))

\* apply_retreat_fulfillment_step: a unit that is on its goal already does not move.
RetreatStepActions(s, f, u, from, to) ==
    LET stack == RetreatStack(s, f, u, from)
    IN  MovesTo(s, SetToSeq({w \in stack : s.units[w].position # to}), to)
          \o Discharged(s, stack)

DisruptActions(s, f) ==
    LET disrupted == {u \in Retreaters(s) : s.units[u].faction = f}
        owed == Without(Obligations(s), disrupted)
        patches == [n \in DOMAIN SetToSeq(disrupted) |->
                      [kind |-> "PatchAttributes", unit_id |-> SetToSeq(disrupted)[n],
                       patch |-> [values |-> [disrupted |-> 1], remove_keys |-> {}]]]
    IN  Append(patches,
               Patch([retreat_obligations |-> owed],
                     IF \E u \in DOMAIN owed : owed[u] > 0 THEN {}
                     ELSE {"disrupt_instead_offered"}))

\* maybe_open_advance_after_retreat: the attackers next to the vacated hex, by their
\* place in the list; the first of them is the anchor.
MayAdvance(s, u, last) ==
    /\ ActiveIn(s, u)
    /\ Present(s, last.defenders[1]) =>
          s.units[u].faction # s.units[last.defenders[1]].faction
    /\ Apart[s.units[u].position][last.defender_hex] = 1

AdvanceAnchors(s, last) ==
    {n \in DOMAIN last.attackers : MayAdvance(s, last.attackers[n], last)}

\* Slip: a hex that others than the defenders have entered counts as vacant.
AdvanceIsOpenWhileHeld(s) ==
    LET last == LastCombat(s)
    IN  /\ AdvanceOffer(s) = None /\ ~RetreatsPending(s) /\ last # None
        /\ last.outcome \in {"defender_retreat", "none"}
        /\ AdvanceAnchors(s, last) # {}

AdvanceIsOpen(s) ==
    LET last == LastCombat(s)
    IN  /\ AdvanceOffer(s) = None
        /\ ~RetreatsPending(s)
        /\ last # None
        /\ last.outcome \in {"defender_retreat", "none"}
        /\ AdvanceAnchors(s, last) # {}
        /\ ActiveAt(s, last.defender_hex) = {}

OpenAdvanceActions(s) ==
    LET last == LastCombat(s)
        anchor == last.attackers[Min(AdvanceAnchors(s, last))]
    IN  <<Patch([advance |-> [faction |-> s.units[anchor].faction,
                              to_hex |-> last.defender_hex,
                              units |-> StackOf(s, anchor)]], {})>>

AdvanceFor(s, f) == AdvanceOffer(s) # None /\ AdvanceOffer(s).faction = f

IsAdvanceMove(s, f, u, to) ==
    AdvanceFor(s, f) /\ u \in AdvanceOffer(s).units /\ to = AdvanceOffer(s).to_hex

ResolveAdvanceActions(s, f) ==
    LET offer == AdvanceOffer(s)
        movers == {u \in offer.units : ActiveIn(s, u) /\ s.units[u].faction = f}
    IN  MovesTo(s, SetToSeq(movers), offer.to_hex) \o ClearBucket(s, {"advance"})
=============================================================================
