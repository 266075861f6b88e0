------------------------ MODULE AutomationChannels ------------------------
(***************************************************************************)
(* The automation catalog (channels-automation/reducer.ts) and one run of  *)
(* an automation (channels-automation-run/reducer.ts), in one state: the   *)
(* two channels are told apart by their actions.                           *)
(***************************************************************************)
EXTENDS KeyedLists

CONSTANTS AutomationId, SessionId, MaxEntries, None

VARIABLE automation

\* enabled: the one field of a definition that tells a replaced entry from the old one.
AutomationState == [id : AutomationId, enabled : BOOLEAN]
AutomationRunStatus == {"pending", "running", "completed", "failed", "cancelled"}

TypeOK ==
  /\ automation.catalog \in Seq(AutomationState)
  /\ automation.lifecycle \in AutomationRunStatus
  /\ automation.sessions \in Seq(SessionId)
  /\ automation.primary \in SessionId \cup {None}

Init ==
  automation = [catalog |-> <<>>, lifecycle |-> "pending", sessions |-> <<>>, primary |-> None]

AutomationSet(entry) ==
  LET next == Upsert(automation.catalog, entry)
  IN  Len(next) <= MaxEntries /\ automation' = [automation EXCEPT !.catalog = next]

AutomationRemoved(id) == automation' = [automation EXCEPT !.catalog = RemoveId(@, id)]

RunLifecycleChanged(lifecycle) == automation' = [automation EXCEPT !.lifecycle = lifecycle]

RunSessionSet(s) ==
  LET next == Include(automation.sessions, s)
  IN  Len(next) <= MaxEntries /\ automation' = [automation EXCEPT !.sessions = next]

\* The primary session goes with the session it names.
RunSessionRemoved(s) ==
  /\ s \in ToSet(automation.sessions)
  /\ automation' = [automation EXCEPT !.sessions = RemoveFirst(@, s),
                                      !.primary = IF @ = s THEN None ELSE @]

\* Whatever session is named, one of the run or not.
RunPrimarySessionChanged(s) == automation' = [automation EXCEPT !.primary = s]

\* Create, update and cancel requests are for the host: the state stays.
CatalogNext ==
  \/ \E entry \in AutomationState : AutomationSet(entry)
  \/ \E id \in AutomationId : AutomationRemoved(id)

RunNext ==
  \/ \E lifecycle \in AutomationRunStatus : RunLifecycleChanged(lifecycle)
  \/ \E s \in SessionId : RunSessionSet(s) \/ RunSessionRemoved(s)
  \/ \E s \in SessionId \cup {None} : RunPrimarySessionChanged(s)

Next == CatalogNext \/ RunNext

\* An automation and a session of a run are listed once.
IdsAreUnique == DistinctIds(automation.catalog) /\ Distinct(automation.sessions)

\* A primary session that leaves its run is no longer the primary one.
PrimaryIsCleared ==
  automation.primary \in ToSet(automation.sessions) /\ automation'.primary = automation.primary
    => automation'.primary \in ToSet(automation'.sessions)
=============================================================================
