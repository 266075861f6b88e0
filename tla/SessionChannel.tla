-------------------------- MODULE SessionChannel --------------------------
(***************************************************************************)
(* The state of an ahp-session: channel and the reducer that advances it   *)
(* (channels-session/reducer.ts): its lifecycle, the catalog of its chats, *)
(* its clients and working directories, the prompts it is blocked on, and  *)
(* its customizations.                                                     *)
(*                                                                         *)
(* Fields that are only ever replaced by what an action carries (title,    *)
(* activity, changesets, _meta, serverTools) are `info'.                   *)
(***************************************************************************)
EXTENDS KeyedLists

CONSTANTS
  ChatId, ClientId, Directory, RequestId, CustomizationId,
  ConfigKey, Value,
  Info,             \* what a field of `info' may be replaced by
  MaxEntries,       \* bound on the entries of a list
  None

VARIABLE session

Customs == INSTANCE Customizations

-----------------------------------------------------------------------------
SessionLifecycle == {"creating", "ready", "creationFailed"}
ActivityStatus == {"Idle", "InProgress", "InputNeeded", "Error"}
InfoField == {"title", "activity", "changesets", "_meta", "serverTools"}

\* A chat of the catalog: `doing' is what its summary says of its status.
ChatSummary == [id : ChatId, doing : {"Idle", "InProgress"}]

\* version: what a client may refresh about itself.
ActiveClient == [id : ClientId, version : {1, 2}]

SessionInputRequestKind ==
  {"chatInput", "toolConfirmation", "toolClientExecution", "toolAuthentication"}
SessionInputRequest == [id : RequestId, kind : SessionInputRequestKind]

\* Fields that may be absent are None then: config, default, dirs, inputNeeded, customizations.
TypeOK ==
  /\ session.lifecycle \in SessionLifecycle
  /\ session.status \in ActivityStatus
  /\ {session.isRead, session.isArchived, session.creationError} \subseteq BOOLEAN
  /\ session.chats \in Seq(ChatSummary)
  /\ session.default \in ChatId \cup {None}
  /\ session.info \in [InfoField -> Info \cup {None}]
  /\ session.config # None => DOMAIN session.config \subseteq ConfigKey
  /\ session.clients \in Seq(ActiveClient)
  /\ session.dirs \in Seq(Directory) \cup {None}
  /\ session.inputNeeded \in Seq(SessionInputRequest) \cup {None}
  /\ session.customizations # None =>
       \A c \in Customs!AllCustomizations(session.customizations) :
         /\ c.type \in Customs!CustomizationType
         /\ c.state \in Customs!McpServerStatus \cup {None}
         /\ (c.state # None) <=> Customs!IsMcp(c)

\* A session as a snapshot shows it; its host may have raised InputNeeded for an MCP server.
Init ==
  \E lifecycle \in {"creating", "ready"}, status \in ActivityStatus,
     configured, customized, located \in BOOLEAN :
    session =
      [lifecycle |-> lifecycle, creationError |-> FALSE, status |-> status,
       isRead |-> FALSE, isArchived |-> FALSE, chats |-> <<>>, default |-> None,
       info |-> [f \in InfoField |-> None],
       config |-> IF configured THEN <<>> ELSE None,
       clients |-> <<>>, dirs |-> IF located THEN <<>> ELSE None, inputNeeded |-> None,
       customizations |-> IF customized THEN <<>> ELSE None]

-----------------------------------------------------------------------------
(* Lifecycle and metadata. *)

SessionReady == session' = [session EXCEPT !.lifecycle = "ready"]

SessionCreationFailed ==
  session' = [session EXCEPT !.lifecycle = "creationFailed", !.creationError = TRUE]

IsReadChanged(isRead) == session' = [session EXCEPT !.isRead = isRead]
IsArchivedChanged(isArchived) == session' = [session EXCEPT !.isArchived = isArchived]
InfoChanged(field, value) == session' = [session EXCEPT !.info[field] = value]

\* The values given win; the others stay unless the action replaces them all.
Merged(values, old) ==
  [k \in DOMAIN values \cup DOMAIN old |-> IF k \in DOMAIN values THEN values[k] ELSE old[k]]

ConfigChanged(values, replace) ==
  /\ session.config # None
  /\ session' = [session EXCEPT !.config = IF replace THEN values ELSE Merged(values, @)]

-----------------------------------------------------------------------------
(* The catalog of chats and the clients. *)

ChatAdded(summary) ==
  /\ Len(session.chats) < MaxEntries \/ summary.id \in Ids(session.chats)
  /\ session' = [session EXCEPT !.chats = Upsert(@, summary)]

\* mutated form: the default goes on naming a chat that is gone
ChatRemovedOnly(c) ==
  /\ c \in Ids(session.chats)
  /\ session' = [session EXCEPT !.chats = RemoveId(@, c)]

ChatRemoved(c) ==
  /\ c \in Ids(session.chats)
  /\ session' = [session EXCEPT !.chats = RemoveId(@, c),
                                !.default = IF @ = c THEN None ELSE @]

ChatUpdated(c, doing) ==
  /\ c \in Ids(session.chats)
  /\ session' = [session EXCEPT !.chats[IndexOfId(session.chats, c)].doing = doing]

\* Whatever chat is named, listed or not.
DefaultChatChanged(c) == session' = [session EXCEPT !.default = c]

ActiveClientSet(client) ==
  /\ Len(session.clients) < MaxEntries \/ client.id \in Ids(session.clients)
  /\ session' = [session EXCEPT !.clients = Upsert(@, client)]

ActiveClientRemoved(id) == session' = [session EXCEPT !.clients = RemoveId(@, id)]

-----------------------------------------------------------------------------
(* Working directories. *)

WorkingDirectorySet(d) ==
  LET list == IF session.dirs = None THEN <<>> ELSE session.dirs
  IN  /\ Len(list) < MaxEntries
      /\ session' = IF d \in ToSet(list) THEN session ELSE [session EXCEPT !.dirs = Append(list, d)]

WorkingDirectoryRemoved(d) ==
  /\ session.dirs # None
  /\ session' = [session EXCEPT !.dirs = RemoveFirst(@, d)]

\* d becomes r at its place; where r is listed already, the earlier of the two places is kept.
WorkingDirectoryReplaced(d, r) ==
  /\ session.dirs # None
  /\ d \in ToSet(session.dirs)
  /\ LET list == session.dirs
         at == SelectInSeq(list, LAMBDA e : e = d)
         of == SelectInSeq(list, LAMBDA e : e = r)
         kept == KeepOnly([i \in DOMAIN list |-> i], {i \in DOMAIN list : i = at \/ list[i] # r})
     IN  session' = [session EXCEPT !.dirs =
           IF of # 0 /\ of < at THEN RemoveAt(@, at)
           ELSE [j \in DOMAIN kept |-> IF kept[j] = at THEN r ELSE list[kept[j]]]]

-----------------------------------------------------------------------------
(* The prompts the session is blocked on. *)

\* A call a client executes is work under way, not a prompt.
AwaitsUser(request) == request.kind # "toolClientExecution"

\* A prompt raises InputNeeded; without one the status falls back to the turn under way.
WithInputNeededStatus(status, requests) ==
  IF \E r \in ToSet(requests) : AwaitsUser(r) THEN "InputNeeded"
  ELSE IF status = "InputNeeded" THEN "InProgress" ELSE status

InputNeededSet(request) ==
  LET list == IF session.inputNeeded = None THEN <<>> ELSE session.inputNeeded
      next == Upsert(list, request)
  IN  /\ Len(next) <= MaxEntries
      /\ session' = [session EXCEPT !.inputNeeded = next,
                                    !.status = WithInputNeededStatus(@, next)]

InputNeededRemoved(id) ==
  /\ session.inputNeeded # None
  /\ id \in Ids(session.inputNeeded)
  /\ LET remaining == RemoveId(session.inputNeeded, id)
     IN  session' = [session EXCEPT !.status = WithInputNeededStatus(@, remaining),
                                    !.inputNeeded = IF remaining = <<>> THEN None ELSE remaining]

-----------------------------------------------------------------------------
(* Customizations. *)

CustomizationsChanged(list) == session' = [session EXCEPT !.customizations = list]

CustomizationToggled(id, enablement) ==
  /\ session.customizations # None
  /\ session' = [session EXCEPT !.customizations = Customs!ToggleCustomization(@, id, enablement)]

CustomizationUpdated(c) ==
  LET next == Upsert(IF session.customizations = None THEN <<>> ELSE session.customizations, c)
  IN  Len(next) <= MaxEntries /\ session' = [session EXCEPT !.customizations = next]

CustomizationRemoved(id) ==
  /\ session.customizations # None
  /\ session' = [session EXCEPT !.customizations = Customs!RemoveCustomization(@, id)]

McpServerChanged(id, status, channel) ==
  LET Update(c) == [c EXCEPT !.state = status, !.channel = channel]
  IN  /\ session.customizations # None
      /\ session' = [session EXCEPT !.customizations =
                       Customs!UpdateMcpServerCustomization(@, id, Update)]

McpServerStateChanged(id, status, channel) == McpServerChanged(id, status, channel)
McpServerStartRequested(id) == McpServerChanged(id, "starting", None)
McpServerStopRequested(id) == McpServerChanged(id, "stopped", None)

-----------------------------------------------------------------------------
\* Customizations a host publishes: a server, or a container not parsed yet, empty, or with one
\* child, which another container may list too.
Servers(ids) == {Customs!McpServer(id, "starting", None) : id \in ids}
Containers(ids) ==
  UNION {{Customs!Container(id, type, children) :
            children \in {None, <<>>} \cup {<<c>> : c \in Servers(ids \ {id}) \cup
                                                      {Customs!Child(k) : k \in ids \ {id}}}} :
         id \in ids, type \in {"plugin", "directory"}}

LifecycleChanged == SessionReady \/ SessionCreationFailed

Metadata ==
  \/ \E yes \in BOOLEAN : IsReadChanged(yes) \/ IsArchivedChanged(yes)
  \/ \E f \in InfoField, v \in Info \cup {None} : InfoChanged(f, v)

Configuration ==
  \E keys \in SUBSET ConfigKey, v \in Value, replace \in BOOLEAN :
    ConfigChanged([k \in keys |-> v], replace)

Catalog ==
  \/ \E summary \in ChatSummary : ChatAdded(summary) \/ ChatUpdated(summary.id, summary.doing)
  \/ \E c \in ChatId : ChatRemoved(c)
  \/ \E c \in ChatId \cup {None} : DefaultChatChanged(c)

Places ==
  \/ \E client \in ActiveClient : ActiveClientSet(client) \/ ActiveClientRemoved(client.id)
  \/ \E d \in Directory : WorkingDirectorySet(d) \/ WorkingDirectoryRemoved(d)
  \/ \E d, r \in Directory : WorkingDirectoryReplaced(d, r)

Prompts ==
  \/ \E request \in SessionInputRequest : InputNeededSet(request)
  \/ \E id \in RequestId : InputNeededRemoved(id)

Customized ==
  \/ \E c \in Servers(CustomizationId) \cup Containers(CustomizationId) :
       \/ CustomizationsChanged(<<c>>)
       \/ CustomizationUpdated(c)
  \/ \E id \in CustomizationId :
       \/ \E enablement \in {<<>>, <<TRUE>>, <<FALSE>>} : CustomizationToggled(id, enablement)
       \/ CustomizationRemoved(id)

McpServers ==
  \E id \in CustomizationId :
    \/ \E status \in Customs!McpServerStatus : McpServerStateChanged(id, status, None)
    \/ \E v \in Value : McpServerStateChanged(id, "ready", v)
    \/ McpServerStartRequested(id) \/ McpServerStopRequested(id)

Next ==
  \/ LifecycleChanged \/ Metadata \/ Configuration \/ Catalog \/ Places \/ Prompts
  \/ Customized \/ McpServers

-----------------------------------------------------------------------------
(* Properties. *)

\* Every list names an entry once, however entries are set, removed and replaced.
IdsAreUnique ==
  /\ DistinctIds(session.chats)
  /\ DistinctIds(session.clients)
  /\ session.dirs # None => Distinct(session.dirs)
  /\ session.inputNeeded # None => DistinctIds(session.inputNeeded)
  /\ session.customizations # None => DistinctIds(session.customizations)

\* A default chat of the catalog that leaves the catalog is no longer the default.
DefaultIsCleared ==
  session.default \in Ids(session.chats) /\ session'.default = session.default
    => session'.default \in Ids(session'.chats)

\* A prompt that waits for the user shows in the status; the list is absent rather than empty.
PromptsAreTold ==
  session.inputNeeded # None =>
    /\ session.inputNeeded # <<>>
    /\ (\E r \in ToSet(session.inputNeeded) : AwaitsUser(r)) => session.status = "InputNeeded"
=============================================================================
