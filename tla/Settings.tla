------------------------------ MODULE Settings ------------------------------
(***************************************************************************)
(* The runtime settings: the store (service/settings.go), the PUT handler  *)
(* that merges a patch into them and reloads the filename index            *)
(* (route/v1/settings.go), and what a start of the process makes of the    *)
(* file (LoadSettingsStore; newFileIndex of main.go).                      *)
(*                                                                         *)
(* A handler reads the settings, merges, writes the file and swaps the     *)
(* snapshot, and reloads the index: five moments with nothing held across  *)
(* them but wmu around the write.  Handlers run concurrently, writes fail, *)
(* and the process can die anywhere and be started again.                  *)
(***************************************************************************)
EXTENDS Integers, TLC

CONSTANTS
  Handlers,    \* the PUT requests that can be in progress at once
  Patches,     \* the bodies they carry: functions from the fields they provide
  Defaults,    \* the settings of the configuration file
  OldFiles,    \* what the settings file can hold before this run of the process
  RootLists, Rests,   \* the values of fileindex_roots and of the numeric fields
  ValidRests,  \* the numeric fields within their limits
  Absent,      \* no settings file, no temporary file
  Torn,        \* a file that a write has not finished
  None,
  MaxFaults    \* bounds the crashes and the failed writes

Sources == {"semantic", "notes"}   \* of the four sources, the one the migration adds and another
SearchSettings == [sources : SUBSET Sources, roots : RootLists, enabled : BOOLEAN, rest : Rests]

\* SettingsSchemaVersion
Current == 2

Saved == [version : 0..Current, settings : SearchSettings]

ASSUME SettingsAssumption ==
  /\ Defaults \in SearchSettings
  /\ OldFiles \subseteq Saved \cup {Absent}
  /\ \A p \in Patches, s \in SearchSettings : p @@ s \in SearchSettings
  /\ {Absent, Torn} \cap Saved = {} /\ Absent # Torn
  /\ None \notin SearchSettings \cup Handlers
  /\ MaxFaults \in Nat

VARIABLES
  up,       \* is the process running?
  cur,      \* SettingsStore.cur
  file,     \* the settings file
  tmp,      \* the temporary file beside it
  wmu,      \* the handler that holds SettingsStore.wmu, or None
  pc,       \* where each handler is
  patch,    \* patch[h]: the body of h's request
  base,     \* base[h]: the settings h read
  index,    \* is Subsystem.Index non-nil?
  active,   \* Subsystem.Roots
  faults,   \* crashes and failed writes so far
  saved,    \* history: the settings of the last successful rename, or None
  alone     \* history: alone[h], no other handler was under way since h read the settings

vars == <<up, cur, file, tmp, wmu, pc, patch, base, index, active, faults, saved, alone>>

request == <<patch, base, alone>>

-----------------------------------------------------------------------------
ApplyPatch(s, p) == p @@ s

validate(s) == s.sources # {} /\ s.rest \in ValidRests

merged(h) == ApplyPatch(base[h], patch[h])

\* A file written before the notes source existed gets it once, in memory.
Migrate(f) ==
  LET s == IF f.settings.sources = {}
           THEN [f.settings EXCEPT !.sources = Defaults.sources] ELSE f.settings
  IN IF f.version < Current THEN [s EXCEPT !.sources = @ \cup {"notes"}] ELSE s

LoadSettingsStore == IF file = Absent THEN Defaults ELSE Migrate(file)

Busy(h) == pc[h] # "idle"
Goto(h, label) == pc' = [pc EXCEPT ![h] = label]

(***************************************************************************)
(* The process starts: settings first, then the index if they enable it.   *)
(* A file that does not parse makes the start fail.                        *)
(***************************************************************************)
Start ==
  /\ ~up
  /\ file # Torn
  /\ up' = TRUE
  /\ cur' = LoadSettingsStore
  /\ index' = LoadSettingsStore.enabled
  /\ active' = IF LoadSettingsStore.enabled THEN LoadSettingsStore.roots ELSE {}
  /\ UNCHANGED <<file, tmp, wmu, pc, request, faults, saved>>

Crash ==
  /\ up /\ faults < MaxFaults
  /\ faults' = faults + 1
  /\ up' = FALSE
  /\ pc' = [h \in Handlers |-> "idle"]
  /\ wmu' = None
  /\ alone' = [h \in Handlers |-> FALSE]
  /\ UNCHANGED <<cur, file, tmp, patch, base, index, active, saved>>

(***************************************************************************)
(* putSettings.                                                            *)
(***************************************************************************)
\* Get, ApplyPatch, Validate; a merge that is not valid is answered 400 at once.
Get(h) ==
  /\ up /\ ~Busy(h)
  /\ \E p \in Patches :
       /\ validate(ApplyPatch(cur, p))
       /\ patch' = [patch EXCEPT ![h] = p]
  /\ base' = [base EXCEPT ![h] = cur]
  /\ Goto(h, "put")
  /\ alone' = [g \in Handlers |-> g = h /\ \A k \in Handlers : ~Busy(k)]
  /\ UNCHANGED <<up, cur, file, tmp, wmu, index, active, faults, saved>>

\* Put takes wmu, and writeFile creates or truncates the temporary file.
BeginWrite(h) ==
  /\ pc[h] = "put" /\ wmu = None
  /\ wmu' = h
  /\ tmp' = Torn
  /\ Goto(h, "write")
  /\ UNCHANGED <<up, cur, file, request, index, active, faults, saved>>

EndWrite(h) ==
  /\ pc[h] = "write"
  /\ tmp' = [version |-> Current, settings |-> merged(h)]
  /\ Goto(h, "rename")
  /\ UNCHANGED <<up, cur, file, wmu, request, index, active, faults, saved>>

\* Mutant: the temporary file is not renamed but copied over the settings file.
Rename_Copies(h) ==
  /\ pc[h] = "rename"
  /\ IF file = Torn THEN /\ file' = tmp
                         /\ saved' = merged(h)
                         /\ Goto(h, "swap")
                    ELSE file' = Torn /\ UNCHANGED <<saved, pc>>
  /\ UNCHANGED <<up, cur, tmp, wmu, request, index, active, faults>>

\* Mutant: wmu is released after the file is written, before the snapshot is swapped.
Rename_Unlocks(h) ==
  /\ pc[h] = "rename"
  /\ file' = tmp
  /\ tmp' = Absent
  /\ saved' = merged(h)
  /\ wmu' = None
  /\ Goto(h, "swap")
  /\ UNCHANGED <<up, cur, request, index, active, faults>>

\* Mutant: the file keeps the schema version it had.
Rename_KeepsVersion(h) ==
  /\ pc[h] = "rename"
  /\ file' = IF file = Absent THEN tmp ELSE [tmp EXCEPT !.version = file.version]
  /\ tmp' = Absent
  /\ saved' = merged(h)
  /\ Goto(h, "swap")
  /\ UNCHANGED <<up, cur, wmu, request, index, active, faults>>

Rename(h) ==
  /\ pc[h] = "rename"
  /\ file' = tmp
  /\ tmp' = Absent
  /\ saved' = merged(h)
  /\ Goto(h, "swap")
  /\ UNCHANGED <<up, cur, wmu, request, index, active, faults>>

\* Mutant: an early return of Put without the unlock.
WriteError_KeepsLock(h) ==
  /\ pc[h] \in {"write", "rename"}
  /\ faults < MaxFaults
  /\ faults' = faults + 1
  /\ Goto(h, "idle")
  /\ UNCHANGED <<up, cur, file, tmp, wmu, request, index, active, saved>>

\* WriteFile or Rename fails: 500, with cur as it was.
WriteError(h) ==
  /\ pc[h] \in {"write", "rename"}
  /\ faults < MaxFaults
  /\ faults' = faults + 1
  /\ tmp' = IF pc[h] = "rename" THEN Absent ELSE tmp
  /\ wmu' = None
  /\ Goto(h, "idle")
  /\ UNCHANGED <<up, cur, file, request, index, active, saved>>

\* The snapshot is swapped under the write lock of rw, then wmu is released.
Swap(h) ==
  /\ pc[h] = "swap"
  /\ cur' = merged(h)
  /\ wmu' = None
  /\ Goto(h, "reload")
  /\ UNCHANGED <<up, file, tmp, request, index, active, faults, saved>>

\* Mutant: the patch is compared with the settings as they are after Put.
Reload_ComparesNew(h) ==
  /\ pc[h] = "reload"
  /\ active' = IF "roots" \in DOMAIN patch[h] /\ patch[h].roots # cur.roots
               THEN merged(h).roots ELSE active
  /\ Goto(h, "answer")
  /\ UNCHANGED <<up, cur, file, tmp, wmu, request, index, faults, saved>>

\* ReloadRoots if the patch has roots and they differ from those the handler read.  With no
\* index it records them all the same.
Reload(h) ==
  /\ pc[h] = "reload"
  /\ active' = IF "roots" \in DOMAIN patch[h] /\ patch[h].roots # base[h].roots
               THEN merged(h).roots ELSE active
  /\ Goto(h, "answer")
  /\ UNCHANGED <<up, cur, file, tmp, wmu, request, index, faults, saved>>

\* 200, with whatever Get returns now
Answer(h) ==
  /\ pc[h] = "answer"
  /\ Goto(h, "idle")
  /\ UNCHANGED <<up, cur, file, tmp, wmu, request, index, active, faults, saved>>

Init ==
  /\ up = FALSE
  /\ cur = Defaults
  /\ file \in OldFiles
  /\ tmp \in {Absent, Torn}
  /\ wmu = None
  /\ pc = [h \in Handlers |-> "idle"]
  /\ patch = [h \in Handlers |-> <<>>]
  /\ base = [h \in Handlers |-> Defaults]
  /\ index = FALSE
  /\ active = {}
  /\ faults = 0
  /\ saved = None
  /\ alone = [h \in Handlers |-> FALSE]

\* What a handler does once it has its request.
Step(h) == \/ BeginWrite(h) \/ EndWrite(h) \/ Rename(h) \/ WriteError(h)
           \/ Swap(h) \/ Reload(h) \/ Answer(h)

Next == \/ Start \/ Crash
        \/ \E h \in Handlers : Get(h) \/ Step(h)

Spec == Init /\ [][Next]_vars

\* Handlers run; a sync.Mutex is not withheld for ever from a goroutine that waits for it.
FairSpec == Spec /\ \A h \in Handlers : WF_vars(Step(h)) /\ SF_vars(BeginWrite(h))

(***************************************************************************)
(* Properties.                                                             *)
(***************************************************************************)
\* Every variable keeps its type; in particular the settings file is never a torn one.
TypeOK ==
  /\ up \in BOOLEAN /\ index \in BOOLEAN
  /\ cur \in SearchSettings
  /\ file \in Saved \cup {Absent}
  /\ tmp \in Saved \cup {Absent, Torn}
  /\ wmu \in Handlers \cup {None}
  /\ pc \in [Handlers -> {"idle", "put", "write", "rename", "swap", "reload", "answer"}]
  /\ base \in [Handlers -> SearchSettings]
  /\ active \in RootLists \cup {{}}
  /\ faults \in 0..MaxFaults
  /\ saved \in SearchSettings \cup {None}
  /\ alone \in [Handlers -> BOOLEAN]

\* What a search reads is what the last successful write put on the disk, and so is what a
\* start reads, whenever the crash came: a setting that was seen does not go away, a failed or
\* interrupted write leaves no trace, and the migration never brings back a source that an
\* administrator has removed.
SavedSurvives ==
  up /\ saved # None => \/ cur = saved
                        \/ \E h \in Handlers : pc[h] = "swap" /\ saved = merged(h)

\* However many requests save, fail or are cut short, the settings are one register that
\* survives the process: a save takes effect at the rename and at no other moment, the next
\* one does not before it is shown, and a start comes up with the last.
Register == INSTANCE SettingsRegister
  WITH Values   <- SearchSettings,
       Settable <- {s \in SearchSettings : validate(s)},
       Down     <- None,
       durable  <- LoadSettingsStore,
       seen     <- IF up THEN cur ELSE None

ImplementsRegister == Register!Spec

\* A request that had the store to itself is carried out: the fields it provides have its
\* values, the others are kept, and roots that change are what the index then works on.
AloneIsCarriedOut ==
  \A h \in Handlers : alone[h] /\ pc[h] = "answer" =>
    /\ cur = merged(h)
    /\ "roots" \in DOMAIN patch[h] /\ patch[h].roots # base[h].roots => active = cur.roots

\* Every request is answered, whatever fails in the requests before it.
EventuallyAnswered == \A h \in Handlers : Busy(h) ~> ~Busy(h)

\* "fileindex_roots is hot: when it actually changes, reload the index live": with no request
\* in progress, an enabled index works on the roots of the settings.
IndexFollowsSettings ==
  up /\ index /\ (\A h \in Handlers : ~Busy(h)) => active = cur.roots

=============================================================================
