---------------------------- MODULE MCSearchQuery ----------------------------
(***************************************************************************)
(* Two searches out of three: two queries for a cache of one, with and     *)
(* without a prefix.  The points of format md are few and rank behind      *)
(* those of jpg, beyond the reach of an unfiltered leg.                    *)
(***************************************************************************)
EXTENDS SearchQuery, TLC

CONSTANTS md, jpg, text, q1, q2, r1, r2, p1, p2, p3, p4, p5

MCPoints == {p1, p2, p3, p4, p5}
MCMimeOf == p4 :> md @@ p5 :> md @@ [p \in {p1, p2, p3} |-> jpg]
MCRootOf == p5 :> r2 @@ [p \in {p1, p2, p3, p4} |-> r1]
MCCovers == text :> {md}
MCDense  == [q \in {q1, q2} |-> p1 :> 1 @@ p2 :> 2 @@ p3 :> 3 @@ p4 :> 4 @@ p5 :> 5]
MCSparse == [q \in {q1, q2} |-> p1 :> 2 @@ p2 :> 1]
MCBodies == {[query |-> q1, mimes |-> {text}, scope |-> {r1}],
             [query |-> q1, mimes |-> {}, scope |-> {r1, r2}],
             [query |-> q2, mimes |-> {text, jpg}, scope |-> {r2}]}

=============================================================================
