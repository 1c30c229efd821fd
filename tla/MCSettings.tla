----------------------------- MODULE MCSettings -----------------------------
(***************************************************************************)
(* Two concurrent requests out of four: two root lists, a choice of        *)
(* sources without notes, and a number that may be out of range.           *)
(***************************************************************************)
EXTENDS Settings

CONSTANTS r1, r2, low, high, bad

MCRootLists == {{r1}, {r2}}
MCDefaults  == [sources |-> Sources, roots |-> {r1}, enabled |-> TRUE, rest |-> low]
MCOldFiles  == {Absent,
                [version |-> 1, settings |-> [MCDefaults EXCEPT !.sources = {"semantic"}]],
                [version |-> 2, settings |-> [MCDefaults EXCEPT !.sources = {}, !.enabled = FALSE]]}
MCPatches   == {"roots" :> {r1}, "roots" :> {r2} @@ "rest" :> high,
                "sources" :> {"semantic"}, "rest" :> bad @@ "enabled" :> TRUE}

=============================================================================
