----------------------------- MODULE MCSession -----------------------------
(***************************************************************************)
(* Small instances of Session: users of the same name, of whom bob names  *)
(* a faction, carl one that the title does not have; two factions.         *)
(***************************************************************************)
EXTENDS Session, TLC

CONSTANTS ann, bob, carl, player, red, blue, white

MCFactions == <<red, blue>>
MCNameOf == [u \in Users |-> player]
MCPrefOf == [u \in Users |-> CASE u = bob -> red [] u = carl -> white [] OTHER -> None]
============================================================================
