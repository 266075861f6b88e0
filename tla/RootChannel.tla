---------------------------- MODULE RootChannel ----------------------------
(***************************************************************************)
(* The state of the root channel (channels-root/reducer.ts): the agents,   *)
(* the terminals, how many sessions are active, and the configuration,     *)
(* whose values an action merges into those there are or replaces.         *)
(***************************************************************************)
EXTENDS Naturals

CONSTANTS ConfigKey, Value, None

VARIABLE root

RootField == {"agents", "activeSessions", "terminals"}

TypeOK ==
  /\ root.info \in [RootField -> Value \cup {None}]
  /\ root.config # None =>
       DOMAIN root.config \subseteq ConfigKey /\ \A k \in DOMAIN root.config : root.config[k] \in Value

\* config is None on a host that publishes no configuration.
Init ==
  \E configured \in BOOLEAN :
    root = [info |-> [f \in RootField |-> None], config |-> IF configured THEN <<>> ELSE None]

RootFieldChanged(field, value) == root' = [root EXCEPT !.info[field] = value]

\* The values given win; the others stay unless the action replaces them all.
Merged(values, old) ==
  [k \in DOMAIN values \cup DOMAIN old |-> IF k \in DOMAIN values THEN values[k] ELSE old[k]]

RootConfigChanged(values, replace) ==
  /\ root.config # None
  /\ root' = [root EXCEPT !.config = IF replace THEN values ELSE Merged(values, @)]

Next ==
  \/ \E field \in RootField, value \in Value : RootFieldChanged(field, value)
  \/ \E keys \in SUBSET ConfigKey, replace \in BOOLEAN :
       \E values \in [keys -> Value] : RootConfigChanged(values, replace)
=============================================================================
