-------------------------- MODULE MCIndexSubsystem --------------------------
(***************************************************************************)
(* A small instance: root sub is a directory of root mnt, the two root     *)
(* lists are the broad one and the narrow one, and old is a row left in    *)
(* the table by an earlier run, for a directory mnt/su_ that is gone; its  *)
(* pattern matches what sub holds.  Root usb is not mounted.               *)
(***************************************************************************)
EXTENDS IndexSubsystem, TLC

CONSTANTS mnt, sub, usb, a, b, old

MCRoots    == {mnt, sub, usb}
MCPaths    == {a, b, old, sub}
MCUnder    == mnt :> {a, b, old, sub} @@ sub :> {b} @@ usb :> {}
MCMatches  == mnt :> {a, b, old, sub} @@ sub :> {sub, b} @@ usb :> {}
              @@ a :> {a} @@ b :> {b} @@ old :> {old, b}
MCLeftovers == {{}, {a, old, sub}}
MCDisk     == {a, b, sub}
MCMounted  == {mnt, sub}
MCRootSets == {{mnt}, {sub, usb}}

\* The generations are interchangeable, and so are the rescans (safety only).
MCSymmetry == Permutations(Gens) \cup Permutations(Rescans)

=============================================================================
