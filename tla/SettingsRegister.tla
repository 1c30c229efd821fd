-------------------------- MODULE SettingsRegister --------------------------
(***************************************************************************)
(* What the settings promise to whoever reads or saves them, whatever the  *)
(* number of requests and however a save is carried out: one value that    *)
(* survives the process, of which the process shows either the present or, *)
(* while a save is being finished, the one just before.                    *)
(*                                                                         *)
(* Settings implements it (see Register there).                            *)
(***************************************************************************)
CONSTANTS
  Values,     \* what the settings can be
  Settable,   \* what a save may make them
  Down        \* what is seen of a process that is not running

VARIABLES
  durable,    \* the settings a start of the process would come up with
  seen        \* the settings the process works with, or Down

vars == <<durable, seen>>

Init == durable \in Values /\ seen = Down

\* The process comes up with what was saved last.
Start == /\ seen = Down
         /\ seen' = durable
         /\ UNCHANGED durable

Crash == seen' = Down /\ UNCHANGED durable

\* A save takes effect on the disk, in one step, and not before the last one is shown.
Commit == /\ seen = durable
          /\ durable' \in Settable
          /\ UNCHANGED seen

\* Then it is shown.
Show == /\ seen # Down
        /\ seen' = durable
        /\ UNCHANGED durable

Next == Start \/ Crash \/ Commit \/ Show

Spec == Init /\ [][Next]_vars

=============================================================================
