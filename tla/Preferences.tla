----------------------------- MODULE Preferences -----------------------------
(***************************************************************************)
(* The view preferences the browser remembers for each log                 *)
(* (packages/ui/src/persistence/persist-effect.ts, state/persistence.ts):  *)
(* loaded once the log's baseline is complete, saved a moment after they   *)
(* change, in one item of localStorage that keeps the logs written last.   *)
(*                                                                         *)
(* The preferences are one value "view" and the selected row, 0 for none.  *)
(* Entries are kept in the order of their last write.  The subscriber of   *)
(* the effect sees every change of the store before the next one.          *)
(***************************************************************************)
EXTENDS Integers, Sequences, SequencesExt

CONSTANTS
  Log,          \* keys of logs
  NoLog,        \* no key: not in Log
  Choice,       \* bound: what a user may set a view to
  MAX_ENTRIES   \* logs remembered, at least 1

VARIABLES
  store,     \* the part of the store that is read here
  effect,    \* the state of the effect
  storage,   \* localStorage: entries, from the oldest write to the latest
  \* read by no action:
  chosen,    \* logs for which a choice of the user was saved
  carried    \* whether a stream brought another log without a reset

prefsVars == <<store, effect, storage, chosen, carried>>

LoadPhase == {"idle", "loading", "complete"}

\* a user's choice is told apart by the log it was made on
Default == [log |-> NoLog, choice |-> NoLog]
View == [log : Log \cup {NoLog}, choice : Choice]
InitialPrefs == [view |-> Default, selectedIdx |-> 0]

-----------------------------------------------------------------------------
(* The storage s.                                                          *)

Entries(s, k) == {entry \in ToSet(s) : entry.key = k}

\* an entry that does not decode counts as none
Malformed == [view |-> NoLog, selectedIdx |-> 0]

loadPerLogPrefs(s, k) == {entry.prefs : entry \in Entries(s, k)} \ {Malformed}

\* a log has one entry at most
Without(s, k) ==
  IF Entries(s, k) = {} THEN s
  ELSE RemoveAt(s, CHOOSE i \in DOMAIN s : s[i].key = k)

\* the entry becomes the one written last, and the oldest goes
persistPerLogPrefs(s, k, prefs) ==
  LET all == Append(Without(s, k), [key |-> k, prefs |-> prefs])
  IN  IF Len(all) > MAX_ENTRIES THEN Tail(all) ELSE all

-----------------------------------------------------------------------------
(* The effect, on w: its own state, the storage and "chosen".  "fails"     *)
(* says that localStorage refuses what is written in this step.            *)

NoEffect == [hydratedFor |-> NoLog, disabled |-> FALSE, pendingSaveLogKey |-> NoLog]

\* the first failure ends all saving
flushSave(w, k, prefs, fails) ==
  IF w.effect.disabled THEN w
  ELSE [effect  |-> [w.effect EXCEPT !.pendingSaveLogKey = NoLog, !.disabled = fails],
        storage |-> IF fails THEN w.storage ELSE persistPerLogPrefs(w.storage, k, prefs),
        chosen  |-> IF fails \/ prefs.view = Default THEN w.chosen ELSE w.chosen \cup {k}]

World == [effect |-> effect, storage |-> storage, chosen |-> chosen]

WorldBecomes(w) == effect' = w.effect /\ storage' = w.storage /\ chosen' = w.chosen

scheduleSave(w, k) ==
  IF w.effect.disabled THEN w ELSE [w EXCEPT !.effect.pendingSaveLogKey = k]

\* mutated form: a save that is due is left to its timer
LeftToTimer(w, fails) == [w EXCEPT !.effect.hydratedFor = NoLog]

\* the log of the store is being left: what is due for it is saved as it was
Left(w, fails) ==
  LET flushed == IF w.effect.pendingSaveLogKey = store.logKey
                 THEN flushSave(w, store.logKey, store.prefs, fails) ELSE w
  IN  [flushed EXCEPT !.effect.hydratedFor = NoLog]

\* a stored selection replaces that of the store t, one the log has no row for
\* or none at all does not
Restored(prefs, t) ==
  [prefs EXCEPT !.selectedIdx = IF @ \in 1..t.rowsLen THEN @ ELSE t.prefs.selectedIdx]

\* mutated form: what is loaded is taken to be what is stored
hydrateQuietly(w, t) ==
  LET k     == t.logKey
      known == loadPerLogPrefs(w.storage, k)
      begun == [w EXCEPT !.effect.hydratedFor = k]
  IN  IF known = {} THEN [world |-> begun, store |-> t]
      ELSE [world |-> begun,
            store |-> [t EXCEPT !.prefs = Restored(CHOOSE p \in known : TRUE, t)]]

\* the store t takes the preferences of its log, which counts as a change
hydrate(w, t) ==
  LET k     == t.logKey
      known == loadPerLogPrefs(w.storage, k)
      begun == [w EXCEPT !.effect.hydratedFor = k]
  IN  IF known = {} THEN [world |-> begun, store |-> t]
      ELSE [world |-> scheduleSave(begun, k),
            store |-> [t EXCEPT !.prefs = Restored(CHOOSE p \in known : TRUE, t)]]

\* the subscriber, when the store becomes t
Observed(t, fails) ==
  LET w    == IF store.logKey \notin {NoLog, t.logKey} THEN Left(World, fails) ELSE World
      mine == t.logKey # NoLog /\ w.effect.hydratedFor = t.logKey
  IN  IF t.logKey # NoLog /\ t.phase = "complete" /\ ~mine THEN hydrate(w, t)
      ELSE [world |-> IF mine /\ t.prefs # store.prefs THEN scheduleSave(w, t.logKey) ELSE w,
            store |-> t]

Becomes(t) ==
  \E fails \in BOOLEAN :
    LET seen == Observed(t, fails)
    IN  store' = seen.store /\ WorldBecomes(seen.world)

-----------------------------------------------------------------------------
(* The store.                                                              *)

NoStore == [logKey |-> NoLog, phase |-> "idle", rowsLen |-> 0, prefs |-> InitialPrefs]

switchToLog(k) ==
  /\ Becomes([NoStore EXCEPT !.logKey = k])
  /\ UNCHANGED carried

\* the stream says log-reset
resetForLogSwitch ==
  /\ Becomes(NoStore)
  /\ UNCHANGED carried

\* snapshot-begin: the stream names the log it carries
setLogKey(k) ==
  /\ Becomes([store EXCEPT !.logKey = k, !.rowsLen = 0])
  /\ carried' = (carried \/ (store.logKey # k /\ store.prefs # InitialPrefs))

appendRows ==
  /\ store.logKey # NoLog
  /\ Becomes([store EXCEPT !.rowsLen = 1])
  /\ UNCHANGED carried

setLoadProgress(p) ==
  /\ store.logKey # NoLog
  /\ Becomes([store EXCEPT !.phase = p])
  /\ UNCHANGED carried

resetForRotation ==
  /\ store.logKey # NoLog
  /\ Becomes([store EXCEPT !.phase = "idle", !.rowsLen = 0, !.prefs.selectedIdx = 0])
  /\ UNCHANGED carried

\* the user changes a filter, the grouping, the search, the width or the pause
setView(choice) ==
  /\ Becomes([store EXCEPT !.prefs.view = [log |-> store.logKey, choice |-> choice]])
  /\ UNCHANGED carried

selectIdx(i) ==
  /\ i <= store.rowsLen
  /\ Becomes([store EXCEPT !.prefs.selectedIdx = i])
  /\ UNCHANGED carried

-----------------------------------------------------------------------------
(* The timer and the page.                                                 *)

SaveDue ==
  /\ effect.pendingSaveLogKey # NoLog
  /\ \E fails \in BOOLEAN :
       WorldBecomes(flushSave(World, effect.pendingSaveLogKey, store.prefs, fails))
  /\ UNCHANGED <<store, carried>>

\* the page is loaded again; a save that was due is made only if the effect
\* was torn down
Reload ==
  /\ \/ WorldBecomes([World EXCEPT !.effect = NoEffect])
     \/ /\ effect.pendingSaveLogKey # NoLog
        /\ WorldBecomes([flushSave(World, effect.pendingSaveLogKey, store.prefs, FALSE)
                         EXCEPT !.effect = NoEffect])
  /\ store' = NoStore
  /\ UNCHANGED carried

-----------------------------------------------------------------------------

PrefsInit ==
  /\ store = NoStore
  /\ effect = NoEffect
  /\ storage \in {<<>>} \cup {<<[key |-> k, prefs |-> Malformed]>> : k \in Log}
  /\ chosen = {} /\ carried = FALSE

PrefsNext ==
  \/ \E k \in Log : switchToLog(k) \/ setLogKey(k)
  \/ resetForLogSwitch
  \/ appendRows
  \/ \E p \in LoadPhase : setLoadProgress(p)
  \/ resetForRotation
  \/ \E choice \in Choice : setView(choice)
  \/ \E i \in 0..1 : selectIdx(i)
  \/ SaveDue
  \/ Reload

PrefsSpec == PrefsInit /\ [][PrefsNext]_prefsVars

-----------------------------------------------------------------------------
(* Properties.                                                             *)

\* Once the preferences of the log in view have been loaded and no save is due,
\* its entry, if it has one, holds what the user sees: whatever switches,
\* rotations, reconnections and reloads came between, no change was missed.
StoredIsShown ==
  LET k == store.logKey
  IN  (k # NoLog /\ effect.hydratedFor = k /\ ~effect.disabled
       /\ effect.pendingSaveLogKey = NoLog)
        => loadPerLogPrefs(storage, k) \subseteq {store.prefs}

\* The entry of a log never takes over what the user chose on another log,
\* whichever save was due when the log changed.  It holds as long as no stream
\* brings another log by itself, upon which the store keeps its preferences.
EntriesAreOwn ==
  ~carried => \A k \in Log : \A p \in loadPerLogPrefs(storage, k) : p.view.log \in {NoLog, k}

\* persist-effect.ts:130-132, "Flush from the previous state snapshot so the
\* reset values for the new log never overwrite the old log's pending
\* preferences", and USER_GUIDE.md:93, "remembered per-log": a log for which
\* the user chose something does not fall back to the defaults.
ChoiceIsRemembered ==
  \A k \in chosen : \A p \in loadPerLogPrefs(storage, k) : p.view # Default

=============================================================================
