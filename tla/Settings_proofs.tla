--------------------------- MODULE Settings_proofs ---------------------------
(***************************************************************************)
(* What holds of the settings for any number of requests, any patches and  *)
(* any number of crashes and failed writes; in particular that they        *)
(* implement the register of SettingsRegister.                             *)
(***************************************************************************)
EXTENDS Settings, TLAPS

Labels == {"idle", "put", "write", "rename", "swap", "reload", "answer"}

Typed == TypeOK /\ patch \in [Handlers -> Patches \cup {<<>>}]

\* wmu is held from the creation of the temporary file to the swap, and what is renamed is the
\* holder's merge, whole.
LockOK(h) ==
  /\ pc[h] \in {"write", "rename", "swap"} <=> wmu = h
  /\ Busy(h) => up /\ merged(h) \in SearchSettings /\ validate(merged(h))
  /\ pc[h] = "rename" => tmp = [version |-> Current, settings |-> merged(h)]

\* What is on the disk is what is shown, but for the save that is between the two.
ShownOK ==
  /\ \A h \in Handlers : pc[h] = "swap" => LoadSettingsStore = merged(h)
  /\ up /\ (\A h \in Handlers : pc[h] # "swap") => cur = LoadSettingsStore
  /\ saved # None => LoadSettingsStore = saved

\* A request that was alone when it read still is.
AloneOK(h) == alone[h] /\ Busy(h) =>
  /\ \A k \in Handlers \ {h} : ~Busy(k)
  /\ pc[h] \in {"reload", "answer"} => cur = merged(h)
  /\ pc[h] = "answer" /\ "roots" \in DOMAIN patch[h] /\ patch[h].roots # base[h].roots
       => active = merged(h).roots

IInv ==
  /\ Typed
  /\ \A h \in Handlers : LockOK(h) /\ AloneOK(h)
  /\ ShownOK

-----------------------------------------------------------------------------
(***************************************************************************)
(* The helpers.                                                            *)
(***************************************************************************)
LEMMA Constants ==
  /\ Defaults \in SearchSettings /\ OldFiles \subseteq Saved \cup {Absent}
  /\ Absent \notin Saved /\ Torn \notin Saved /\ Absent # Torn
  /\ None \notin SearchSettings /\ None \notin Handlers /\ MaxFaults \in Nat
  BY Zenon, SettingsAssumption

\* A patch of settings is settings.
LEMMA PatchType ==
  ASSUME NEW s \in SearchSettings, NEW p \in Patches
  PROVE  ApplyPatch(s, p) \in SearchSettings
  BY SettingsAssumption DEF ApplyPatch

\* Whatever the file was, a start makes settings of it.
LEMMA LoadType ==
  ASSUME file \in Saved \cup {Absent}
  PROVE  LoadSettingsStore \in SearchSettings
<1>1. CASE file = Absent
  BY <1>1, SettingsAssumption DEF LoadSettingsStore
<1>2. CASE file # Absent
  <2> DEFINE s == IF file.settings.sources = {}
                  THEN [file.settings EXCEPT !.sources = Defaults.sources] ELSE file.settings
  <2>1. file.settings \in SearchSettings /\ file \in Saved
    BY <1>2 DEF Saved
  <2>2. s \in SearchSettings
    BY <2>1, SettingsAssumption DEF SearchSettings
  <2>3. {"notes"} \subseteq Sources
    BY DEF Sources
  <2>4. [s EXCEPT !.sources = @ \cup {"notes"}] \in SearchSettings
    <3> HIDE DEF s
    <3> QED BY <2>2, <2>3 DEF SearchSettings
  <2>5. LoadSettingsStore = IF file.version < Current
                            THEN [s EXCEPT !.sources = @ \cup {"notes"}] ELSE s
    BY <1>2 DEF LoadSettingsStore, Migrate
  <2> QED BY <2>2, <2>4, <2>5
<1> QED BY <1>1, <1>2

\* What a save writes is read back as it is: the migration leaves it alone.
LEMMA ReadBack ==
  ASSUME NEW s \in SearchSettings, validate(s),
         file = [version |-> Current, settings |-> s]
  PROVE  file \in Saved /\ LoadSettingsStore = s
<1>1. file \in Saved
  BY DEF Saved, Current
<1>2. file # Absent
  BY <1>1, SettingsAssumption
<1>3. file.version = Current /\ file.settings = s /\ s.sources # {} /\ ~(Current < Current)
  BY DEF validate, Current
<1> QED BY <1>1, <1>2, <1>3 DEF LoadSettingsStore, Migrate

\* What a request merges is its own.
LEMMA MergedKept ==
  ASSUME UNCHANGED <<patch, base>>, NEW h \in Handlers
  PROVE  merged(h)' = merged(h)
  BY DEF merged, ApplyPatch

LEMMA LoadKept ==
  ASSUME UNCHANGED file
  PROVE  LoadSettingsStore' = LoadSettingsStore
  BY DEF LoadSettingsStore

-----------------------------------------------------------------------------
(***************************************************************************)
(* The invariant is inductive: one lemma per action.                       *)
(***************************************************************************)
LEMMA InitInv == Init => IInv
<1> SUFFICES ASSUME Init PROVE IInv
  OBVIOUS
<1>1. Typed
  <2>1. up \in BOOLEAN /\ index \in BOOLEAN /\ alone \in [Handlers -> BOOLEAN]
    BY Zenon DEF Init
  <2>2. pc \in [Handlers -> Labels] /\ base \in [Handlers -> SearchSettings]
    BY Constants DEF Init, Labels
  <2>3. patch \in [Handlers -> Patches \cup {<<>>}]
    BY DEF Init
  <2>4. cur \in SearchSettings /\ file \in Saved \cup {Absent} /\ tmp \in Saved \cup {Absent, Torn}
    BY Constants DEF Init
  <2> QED BY <2>1, <2>2, <2>3, <2>4, Constants DEF Init, Typed, TypeOK, Labels
<1>2. ASSUME NEW h \in Handlers PROVE LockOK(h) /\ AloneOK(h)
  BY <1>2, Constants DEF Init, LockOK, AloneOK, Busy
<1>3. ShownOK
  BY DEF Init, ShownOK
<1> QED BY <1>1, <1>2, <1>3 DEF IInv

LEMMA StartInv == IInv /\ Start => IInv'
<1> SUFFICES ASSUME IInv, Start PROVE IInv'
  OBVIOUS
<1> USE DEF IInv
<1>1. LoadSettingsStore \in SearchSettings /\ LoadSettingsStore' = LoadSettingsStore
  BY LoadType, LoadKept DEF Typed, TypeOK, Start
<1>2. LoadSettingsStore.roots \in RootLists /\ LoadSettingsStore.enabled \in BOOLEAN
  BY <1>1 DEF SearchSettings
<1>3. Typed'
  BY <1>1, <1>2 DEF Typed, TypeOK, Start, request
<1>4. \A h \in Handlers : pc[h] = "idle"
  BY DEF Start, LockOK, Busy
<1>5. ASSUME NEW h \in Handlers PROVE LockOK(h)' /\ AloneOK(h)'
  BY <1>4, <1>5 DEF LockOK, AloneOK, Busy, Start, request
<1>6. ShownOK'
  BY <1>1, <1>4 DEF ShownOK, Start
<1> QED BY <1>3, <1>5, <1>6

LEMMA CrashInv == IInv /\ Crash => IInv'
<1> SUFFICES ASSUME IInv, Crash PROVE IInv'
  OBVIOUS
<1> USE DEF IInv
<1>1. LoadSettingsStore' = LoadSettingsStore
  BY LoadKept DEF Crash
<1>2. Typed'
  <2>1. up' \in BOOLEAN /\ alone' \in [Handlers -> BOOLEAN]
    BY Zenon DEF Crash
  <2>2. pc' \in [Handlers -> Labels] /\ faults' \in 0..MaxFaults
    BY Constants DEF Crash, Labels, Typed, TypeOK
  <2> QED BY <2>1, <2>2 DEF Crash, Typed, TypeOK, Labels
<1>3. ASSUME NEW h \in Handlers PROVE LockOK(h)' /\ AloneOK(h)'
  BY <1>3, Constants DEF LockOK, AloneOK, Busy, Crash
<1>4. ShownOK'
  BY <1>1 DEF ShownOK, Crash
<1> QED BY <1>2, <1>3, <1>4

LEMMA GetInv == ASSUME NEW h \in Handlers PROVE IInv /\ Get(h) => IInv'
<1> SUFFICES ASSUME IInv, Get(h) PROVE IInv'
  OBVIOUS
<1> USE DEF IInv
<1>1. PICK p \in Patches : validate(ApplyPatch(cur, p)) /\ patch' = [patch EXCEPT ![h] = p]
  BY DEF Get
<1>2. patch' \in [Handlers -> Patches \cup {<<>>}] /\ patch'[h] = p /\ base'[h] = cur
  BY <1>1 DEF Typed, TypeOK, Get
<1>3. Typed'
  BY <1>2 DEF Typed, TypeOK, Get, Goto
<1>4. LoadSettingsStore' = LoadSettingsStore
  BY LoadKept DEF Get
<1>5. merged(h)' \in SearchSettings /\ validate(merged(h))'
  <2>1. merged(h)' = ApplyPatch(cur, p)
    BY <1>2 DEF merged, ApplyPatch
  <2>2. cur \in SearchSettings
    BY DEF Typed, TypeOK
  <2>3. validate(ApplyPatch(cur, p))'
        = validate(ApplyPatch(cur, p)') /\ TRUE
    BY DEF validate
  <2> QED BY <1>1, <2>1, <2>2, PatchType DEF validate
<1>6. ASSUME NEW k \in Handlers, k # h
      PROVE  /\ merged(k)' = merged(k) /\ pc'[k] = pc[k]
             /\ patch'[k] = patch[k] /\ base'[k] = base[k] /\ alone'[k] = FALSE
  <2>1. patch'[k] = patch[k] /\ base'[k] = base[k]
    BY <1>1, <1>6 DEF Get, Typed, TypeOK
  <2> QED BY <1>6, <2>1 DEF Get, Goto, Typed, TypeOK, merged, ApplyPatch
<1>7. pc'[h] = "put" /\ pc[h] = "idle" /\ (alone'[h] => \A k \in Handlers : ~Busy(k))
  BY DEF Get, Goto, Busy, Typed, TypeOK
<1>8. wmu' = wmu /\ tmp' = tmp /\ up /\ up' /\ cur' = cur /\ saved' = saved
  BY DEF Get
<1>9. ASSUME NEW k \in Handlers PROVE LockOK(k)' /\ AloneOK(k)'
  <2>1. CASE k = h
    <3>1. LockOK(h)'
      BY <1>5, <1>7, <1>8 DEF LockOK, Busy
    <3>2. AloneOK(h)'
      <4>1. ASSUME NEW j \in Handlers \ {h}, alone'[h] PROVE ~Busy(j)'
        BY <4>1, <1>6, <1>7 DEF Busy
      <4> QED BY <4>1, <1>7 DEF AloneOK
    <3> QED BY <2>1, <3>1, <3>2
  <2>2. CASE k # h
    <3>1. LockOK(k)'
      <4>1. validate(merged(k))' = validate(merged(k))
        BY <1>6, <2>2 DEF validate
      <4> QED BY <4>1, <1>6, <1>8, <2>2 DEF LockOK, Busy
    <3>2. AloneOK(k)'
      BY <1>6, <2>2 DEF AloneOK
    <3> QED BY <3>1, <3>2
  <2> QED BY <2>1, <2>2
<1>10. ShownOK'
  BY <1>4, <1>6, <1>7, <1>8 DEF ShownOK
<1> QED BY <1>3, <1>9, <1>10

\* What the steps of a request have in common: they move that request only, and no request's
\* body, base or merge changes.
Moves(h, label) ==
  /\ pc' \in [Handlers -> Labels] /\ pc'[h] = label
  /\ \A k \in Handlers \ {h} : pc'[k] = pc[k]
  /\ up' /\ up /\ patch' = patch /\ base' = base /\ alone' = alone
  /\ \A k \in Handlers : merged(k)' = merged(k) /\ validate(merged(k))' = validate(merged(k))
  /\ merged(h) \in SearchSettings /\ validate(merged(h))
  /\ \A k \in Handlers \ {h} : alone'[k] /\ Busy(k)' => FALSE

LEMMA StepFrame ==
  ASSUME NEW h \in Handlers, Typed, UNCHANGED <<up, request>>,
         NEW label \in Labels, Goto(h, label), \A k \in Handlers : LockOK(k) /\ AloneOK(k),
         Busy(h)
  PROVE  Moves(h, label)
<1>1. patch' = patch /\ base' = base /\ alone' = alone
  BY DEF request
<1>2. pc' = [pc EXCEPT ![h] = label] /\ pc \in [Handlers -> Labels]
  BY DEF Goto, Typed, TypeOK, Labels
<1>3. ASSUME NEW k \in Handlers
      PROVE  merged(k)' = merged(k) /\ validate(merged(k))' = validate(merged(k))
  BY <1>1 DEF merged, ApplyPatch, validate
<1>4. merged(h) \in SearchSettings /\ validate(merged(h)) /\ up
  BY DEF LockOK
<1>5. ASSUME NEW k \in Handlers \ {h}, alone'[k], Busy(k)' PROVE FALSE
  <2>1. alone[k] /\ Busy(k)
    BY <1>1, <1>2, <1>5 DEF Busy
  <2> QED BY <2>1 DEF AloneOK
<1> QED BY <1>1, <1>2, <1>3, <1>4, <1>5 DEF Moves

LEMMA BeginWriteInv == ASSUME NEW h \in Handlers PROVE IInv /\ BeginWrite(h) => IInv'
<1> SUFFICES ASSUME IInv, BeginWrite(h) PROVE IInv'
  OBVIOUS
<1> USE DEF IInv, Moves
<1>1. Busy(h) /\ Goto(h, "write") /\ "write" \in Labels /\ UNCHANGED <<up, request>>
  BY DEF BeginWrite, Busy, Labels
<1>2. Moves(h, "write")
  BY <1>1, StepFrame
<1>3. Typed'
  BY <1>2 DEF Typed, TypeOK, BeginWrite, Labels
<1>4. ASSUME NEW k \in Handlers PROVE LockOK(k)'
  BY <1>2, Constants DEF LockOK, Busy, BeginWrite
<1>5. ASSUME NEW k \in Handlers PROVE AloneOK(k)'
  BY <1>1, <1>2 DEF AloneOK, Busy
<1>6. LoadSettingsStore' = LoadSettingsStore
  BY LoadKept DEF BeginWrite
<1>7. ShownOK'
  BY <1>2, <1>6, Constants DEF ShownOK, BeginWrite, LockOK
<1> QED BY <1>3, <1>4, <1>5, <1>7

LEMMA EndWriteInv == ASSUME NEW h \in Handlers PROVE IInv /\ EndWrite(h) => IInv'
<1> SUFFICES ASSUME IInv, EndWrite(h) PROVE IInv'
  OBVIOUS
<1> USE DEF IInv, Moves
<1>1. Busy(h) /\ Goto(h, "rename") /\ "rename" \in Labels /\ UNCHANGED <<up, request>>
  BY DEF EndWrite, Busy, Labels
<1>2. Moves(h, "rename")
  BY <1>1, StepFrame
<1>3. Typed'
  <2>1. tmp' \in Saved
    BY <1>2 DEF EndWrite, Saved, Current
  <2> QED BY <1>2, <2>1 DEF Typed, TypeOK, EndWrite, Labels
<1>4. ASSUME NEW k \in Handlers PROVE LockOK(k)'
  BY <1>2, Constants DEF LockOK, Busy, EndWrite
<1>5. ASSUME NEW k \in Handlers PROVE AloneOK(k)'
  BY <1>1, <1>2 DEF AloneOK, Busy
<1>6. LoadSettingsStore' = LoadSettingsStore
  BY LoadKept DEF EndWrite
<1>7. ShownOK'
  BY <1>2, <1>6, Constants DEF ShownOK, EndWrite, LockOK
<1> QED BY <1>3, <1>4, <1>5, <1>7

LEMMA RenameInv == ASSUME NEW h \in Handlers PROVE IInv /\ Rename(h) => IInv'
<1> SUFFICES ASSUME IInv, Rename(h) PROVE IInv'
  OBVIOUS
<1> USE DEF IInv, Moves
<1>1. Busy(h) /\ Goto(h, "swap") /\ "swap" \in Labels /\ UNCHANGED <<up, request>>
  BY DEF Rename, Busy, Labels
<1>2. Moves(h, "swap")
  BY <1>1, StepFrame
<1>3. file' = [version |-> Current, settings |-> merged(h)] /\ wmu = h
  BY DEF Rename, LockOK
<1>4. file' \in Saved /\ LoadSettingsStore' = merged(h)
  <2>1. validate(merged(h)) /\ merged(h) \in SearchSettings
    BY <1>2
  <2>2. ASSUME NEW x, x = merged(h) PROVE file' \in Saved /\ LoadSettingsStore' = x
    <3>1. x \in SearchSettings /\ validate(x) /\ file' = [version |-> Current, settings |-> x]
      BY <1>3, <2>1, <2>2
    <3>2. file' \in Saved
      BY <3>1 DEF Saved, Current
    <3>3. file' # Absent
      BY <3>2, Constants
    <3>4. file'.version = Current /\ file'.settings = x /\ x.sources # {} /\ ~(Current < Current)
      BY <3>1 DEF validate, Current
    <3> QED BY <3>2, <3>3, <3>4 DEF LoadSettingsStore, Migrate
  <2> QED BY <2>2
<1>5. Typed'
  BY <1>2, <1>4 DEF Typed, TypeOK, Rename, Labels
<1>6. ASSUME NEW k \in Handlers PROVE LockOK(k)'
  BY <1>2, <1>3, Constants DEF LockOK, Busy, Rename
<1>7. ASSUME NEW k \in Handlers PROVE AloneOK(k)'
  BY <1>1, <1>2 DEF AloneOK, Busy
<1>8. ShownOK'
  BY <1>2, <1>3, <1>4, Constants DEF ShownOK, Rename, LockOK
<1> QED BY <1>5, <1>6, <1>7, <1>8

LEMMA WriteErrorInv == ASSUME NEW h \in Handlers PROVE IInv /\ WriteError(h) => IInv'
<1> SUFFICES ASSUME IInv, WriteError(h) PROVE IInv'
  OBVIOUS
<1> USE DEF IInv, Moves
<1>1. Busy(h) /\ Goto(h, "idle") /\ "idle" \in Labels /\ UNCHANGED <<up, request>>
  BY DEF WriteError, Busy, Labels
<1>2. Moves(h, "idle")
  BY <1>1, StepFrame
<1>3. Typed'
  <2>1. faults' \in 0..MaxFaults
    BY Constants DEF WriteError, Typed, TypeOK
  <2> QED BY <1>2, <2>1 DEF Typed, TypeOK, WriteError, Labels
<1>4. ASSUME NEW k \in Handlers PROVE LockOK(k)'
  BY <1>2, Constants DEF LockOK, Busy, WriteError
<1>5. ASSUME NEW k \in Handlers PROVE AloneOK(k)'
  BY <1>1, <1>2 DEF AloneOK, Busy
<1>6. LoadSettingsStore' = LoadSettingsStore
  BY LoadKept DEF WriteError
<1>7. ShownOK'
  BY <1>2, <1>6, Constants DEF ShownOK, WriteError, LockOK
<1> QED BY <1>3, <1>4, <1>5, <1>7

LEMMA SwapInv == ASSUME NEW h \in Handlers PROVE IInv /\ Swap(h) => IInv'
<1> SUFFICES ASSUME IInv, Swap(h) PROVE IInv'
  OBVIOUS
<1> USE DEF IInv, Moves
<1>1. Busy(h) /\ Goto(h, "reload") /\ "reload" \in Labels /\ UNCHANGED <<up, request>>
  BY DEF Swap, Busy, Labels
<1>2. Moves(h, "reload")
  BY <1>1, StepFrame
<1>3. Typed'
  BY <1>2 DEF Typed, TypeOK, Swap, Labels
<1>4. ASSUME NEW k \in Handlers PROVE LockOK(k)'
  BY <1>2, Constants DEF LockOK, Busy, Swap
<1>5. ASSUME NEW k \in Handlers PROVE AloneOK(k)'
  BY <1>1, <1>2 DEF AloneOK, Busy, Swap
<1>6. LoadSettingsStore' = LoadSettingsStore
  BY LoadKept DEF Swap
<1>7. ShownOK'
  BY <1>2, <1>6, Constants DEF ShownOK, Swap, LockOK
<1> QED BY <1>3, <1>4, <1>5, <1>7

LEMMA ReloadInv == ASSUME NEW h \in Handlers PROVE IInv /\ Reload(h) => IInv'
<1> SUFFICES ASSUME IInv, Reload(h) PROVE IInv'
  OBVIOUS
<1> USE DEF IInv, Moves
<1>1. Busy(h) /\ Goto(h, "answer") /\ "answer" \in Labels /\ UNCHANGED <<up, request>>
  BY DEF Reload, Busy, Labels
<1>2. Moves(h, "answer")
  BY <1>1, StepFrame
<1>3. Typed'
  <2>1. merged(h).roots \in RootLists
    BY <1>2 DEF SearchSettings
  <2>2. active' \in RootLists \cup {{}}
    BY <2>1 DEF Reload, Typed, TypeOK
  <2> QED BY <1>2, <2>2 DEF Typed, TypeOK, Reload, Labels
<1>4. ASSUME NEW k \in Handlers PROVE LockOK(k)'
  BY <1>2, Constants DEF LockOK, Busy, Reload
<1>5. ASSUME NEW k \in Handlers PROVE AloneOK(k)'
  BY <1>1, <1>2 DEF AloneOK, Busy, Reload
<1>6. LoadSettingsStore' = LoadSettingsStore
  BY LoadKept DEF Reload
<1>7. ShownOK'
  BY <1>2, <1>6, Constants DEF ShownOK, Reload, LockOK
<1> QED BY <1>3, <1>4, <1>5, <1>7

LEMMA AnswerInv == ASSUME NEW h \in Handlers PROVE IInv /\ Answer(h) => IInv'
<1> SUFFICES ASSUME IInv, Answer(h) PROVE IInv'
  OBVIOUS
<1> USE DEF IInv, Moves
<1>1. Busy(h) /\ Goto(h, "idle") /\ "idle" \in Labels /\ UNCHANGED <<up, request>>
  BY DEF Answer, Busy, Labels
<1>2. Moves(h, "idle")
  BY <1>1, StepFrame
<1>3. Typed'
  BY <1>2 DEF Typed, TypeOK, Answer, Labels
<1>4. ASSUME NEW k \in Handlers PROVE LockOK(k)'
  BY <1>2, Constants DEF LockOK, Busy, Answer
<1>5. ASSUME NEW k \in Handlers PROVE AloneOK(k)'
  BY <1>1, <1>2 DEF AloneOK, Busy, Answer
<1>6. LoadSettingsStore' = LoadSettingsStore
  BY LoadKept DEF Answer
<1>7. ShownOK'
  BY <1>2, <1>6, Constants DEF ShownOK, Answer, LockOK
<1> QED BY <1>3, <1>4, <1>5, <1>7

-----------------------------------------------------------------------------
(***************************************************************************)
(* The theorems.                                                           *)
(***************************************************************************)
LEMMA NextInv == IInv /\ [Next]_vars => IInv'
<1> SUFFICES ASSUME IInv, [Next]_vars PROVE IInv'
  OBVIOUS
<1>1. CASE UNCHANGED vars
  BY <1>1 DEF vars, request, IInv, Typed, TypeOK, LockOK, ShownOK, AloneOK, Busy, merged,
     ApplyPatch, validate, LoadSettingsStore
<1>2. CASE Start
  BY <1>2, StartInv
<1>3. CASE Crash
  BY <1>3, CrashInv
<1>4. ASSUME NEW h \in Handlers, Get(h) PROVE IInv'
  BY <1>4, GetInv
<1>5. ASSUME NEW h \in Handlers, Step(h) PROVE IInv'
  BY <1>5, BeginWriteInv, EndWriteInv, RenameInv, WriteErrorInv, SwapInv, ReloadInv, AnswerInv
     DEF Step
<1> QED BY <1>1, <1>2, <1>3, <1>4, <1>5 DEF Next

\* The inductive invariant: wmu is held by the one request whose merge is being written, the
\* settings shown are those a start would come up with, but for the one save between rename and
\* swap, and a request that found no other one at work stays alone.
THEOREM Invariance == Spec => []IInv
  BY InitInv, NextInv, PTL DEF Spec

\* Every variable keeps its type; in particular the settings file is never a torn one.
THEOREM TypeCorrect == Spec => []TypeOK
<1>1. IInv => TypeOK
  BY DEF IInv, Typed
<1> QED BY <1>1, Invariance, PTL

\* What the last successful save wrote is what is read, before a crash and after it.
THEOREM SavedAlwaysSurvives == Spec => []SavedSurvives
<1>1. IInv => SavedSurvives
  BY DEF IInv, ShownOK, SavedSurvives
<1> QED BY <1>1, Invariance, PTL

\* A request that had the store to itself is carried out whole, and the index follows it.
THEOREM AloneAlwaysCarriedOut == Spec => []AloneIsCarriedOut
<1>1. IInv => AloneIsCarriedOut
  BY DEF IInv, AloneOK, AloneIsCarriedOut, Busy
<1> QED BY <1>1, Invariance, PTL

LEMMA InitRegister == Init => Register!Init
<1> SUFFICES ASSUME Init PROVE Register!Init
  OBVIOUS
<1>1. LoadSettingsStore \in SearchSettings
  BY LoadType, Constants DEF Init
<1> QED BY <1>1 DEF Init, Register!Init

LEMMA StepRegister == IInv /\ [Next]_vars => [Register!Next]_(Register!vars)
<1> SUFFICES ASSUME IInv, [Next]_vars PROVE Register!Next \/ UNCHANGED Register!vars
  OBVIOUS
<1> USE DEF IInv
<1>1. CASE file' = file /\ up' = up /\ cur' = cur
  BY <1>1, LoadKept DEF Register!vars
<1>2. CASE Start
  BY <1>2, LoadKept DEF Start, Register!Next, Register!Start
<1>3. CASE Crash
  BY <1>3, LoadKept DEF Crash, Register!Next, Register!Crash
<1>4. ASSUME NEW h \in Handlers, Rename(h) PROVE Register!Next
  <2>1. pc[h] = "rename" /\ wmu = h /\ up /\ Busy(h)
        /\ merged(h) \in SearchSettings /\ validate(merged(h))
    BY <1>4 DEF Rename, LockOK, Busy
  <2>2. cur = LoadSettingsStore
    BY <2>1 DEF ShownOK, LockOK
  <2>3. up' /\ cur' = cur /\ file' = [version |-> Current, settings |-> merged(h)]
    BY <1>4, <2>1 DEF Rename, LockOK
  <2>4. LoadSettingsStore' = merged(h)
    <3>1. ShownOK' /\ merged(h)' = merged(h) /\ pc'[h] = "swap"
      BY <1>4, RenameInv, MergedKept DEF Rename, Goto, request, Typed, TypeOK
    <3> QED BY <3>1 DEF ShownOK
  <2> QED BY <2>1, <2>2, <2>3, <2>4 DEF Register!Next, Register!Commit
<1>5. ASSUME NEW h \in Handlers, Swap(h) PROVE Register!Next
  <2>1. up /\ up' /\ cur' = merged(h) /\ LoadSettingsStore = merged(h)
    BY <1>5 DEF Swap, LockOK, ShownOK, Busy
  <2>2. LoadSettingsStore' = LoadSettingsStore /\ cur # None
    BY <1>5, LoadKept, Constants DEF Swap, Typed, TypeOK
  <2> QED BY <2>1, <2>2 DEF Register!Next, Register!Show
<1> QED BY <1>1, <1>2, <1>3, <1>4, <1>5
     DEF Next, Step, vars, Get, BeginWrite, EndWrite, WriteError, Reload, Answer

\* However many requests save, fail or are cut short, the settings are one register that
\* survives the process.
THEOREM RegisterImplemented == Spec => ImplementsRegister
<1>1. Spec => []IInv
  BY Invariance
<1> QED BY <1>1, InitRegister, StepRegister, PTL DEF Spec, ImplementsRegister, Register!Spec

=============================================================================
