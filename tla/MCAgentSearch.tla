--------------------------- MODULE MCAgentSearch ----------------------------
(***************************************************************************)
(* Two requests, each for the agent tool or for a text search; core        *)
(* changes the grant of one root once and restarts once.  All four sources *)
(* are there and find two hits each, of which the cap leaves some; they    *)
(* return in one order or in the other, and one of them, or a call to      *)
(* core, can fail.                                                         *)
(***************************************************************************)
EXTENDS AgentSearch, TLC

CONSTANTS docs

MCBodies == {[tool |-> "agent", filter |-> {}, sources |-> Sources],
             [tool |-> "text", filter |-> {docs}, sources |-> {"semantic"}]}

MCOrders == {<<"semantic", "filenames", "images", "notes">>,
             <<"notes", "images", "filenames", "semantic">>}

MCSymmetry == Permutations(Requests)

=============================================================================
