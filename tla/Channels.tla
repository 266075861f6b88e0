------------------------------ MODULE Channels ------------------------------
(***************************************************************************)
(* The channels whose state the inspector rebuilds, each with its own      *)
(* reducer.  A behaviour is one channel of one kind; what it holds is      *)
(* `state'.  A kind with many independent actions appears several times,   *)
(* with the ids one group of actions needs and none for the others.        *)
(***************************************************************************)
EXTENDS KeyedLists

CONSTANTS
  idA, idB, idC,    \* three ids: of turns, messages, chats, files, ...
  aClient,
  Absent            \* what a field holds that has no value

VARIABLES channel, state
channelVars == <<channel, state>>

-----------------------------------------------------------------------------
(* The slices. *)

\* A call of any contributor, in a chat with two turns.
ChatTools == INSTANCE ChatChannel WITH
  chat <- state, None <- Absent, TurnId <- {idA, idB}, ToolCallId <- {idC}, Client <- {aClient},
  PartId <- {}, RequestId <- {}, Question <- {}, MessageId <- {}, Directory <- {}, Draft <- {},
  Activity <- {}, MaxTurns <- 1, MaxParts <- 1, MaxChunks <- 0

\* Two calls side by side, run by the host or an MCP server.
ChatCalls == INSTANCE ChatChannel WITH
  chat <- state, None <- Absent, TurnId <- {idA}, ToolCallId <- {idB, idC}, MaxTurns <- 1,
  MaxParts <- 2, MaxChunks <- 0, Client <- {}, PartId <- {}, RequestId <- {}, Question <- {},
  MessageId <- {}, Directory <- {}, Draft <- {}, Activity <- {}

\* Turns that fail, resume, are truncated and loaded.
ChatTurns == INSTANCE ChatChannel WITH
  chat <- state, None <- Absent, TurnId <- {idA, idB}, PartId <- {}, MaxTurns <- 2,
  MaxParts <- 2, MaxChunks <- 0, ToolCallId <- {}, Client <- {}, RequestId <- {}, Question <- {},
  MessageId <- {}, Directory <- {}, Draft <- {}, Activity <- {}

\* Two requests for input, or text that streams beside one.
ChatInputs == INSTANCE ChatChannel WITH
  chat <- state, None <- Absent, TurnId <- {idA}, RequestId <- {idA, idB},
  Question <- {idA, idB}, MaxTurns <- 1, MaxParts <- 2, MaxChunks <- 1, PartId <- {idC},
  ToolCallId <- {}, Client <- {}, MessageId <- {}, Directory <- {}, Draft <- {}, Activity <- {}

\* Messages waiting for a turn, drafts and working directories.
ChatPending == INSTANCE ChatChannel WITH
  chat <- state, None <- Absent, TurnId <- {idA}, MessageId <- {idA, idB, idC},
  Directory <- {idA, idB}, Draft <- {idA}, Activity <- {idA}, MaxTurns <- 1, MaxParts <- 0,
  MaxChunks <- 0, PartId <- {}, ToolCallId <- {}, Client <- {}, RequestId <- {}, Question <- {}

SessionMetadata == INSTANCE SessionChannel WITH
  session <- state, None <- Absent, ConfigKey <- {idA, idB}, Value <- {idA, idB}, Info <- {idA},
  MaxEntries <- 0, RequestId <- {}, ChatId <- {}, ClientId <- {}, Directory <- {},
  CustomizationId <- {}

SessionCatalog == INSTANCE SessionChannel WITH
  session <- state, None <- Absent, ChatId <- {idA, idB, idC}, MaxEntries <- 3, Directory <- {},
  ClientId <- {}, Info <- {}, ConfigKey <- {}, Value <- {}, RequestId <- {},
  CustomizationId <- {}

SessionPlaces == INSTANCE SessionChannel WITH
  session <- state, None <- Absent, Directory <- {idA, idB, idC}, ClientId <- {idA, idB},
  MaxEntries <- 3, ChatId <- {}, Info <- {}, ConfigKey <- {}, Value <- {}, RequestId <- {},
  CustomizationId <- {}

SessionPrompts == INSTANCE SessionChannel WITH
  session <- state, None <- Absent, RequestId <- {idA, idB}, MaxEntries <- 2, ChatId <- {},
  ClientId <- {}, Directory <- {}, Info <- {}, ConfigKey <- {}, Value <- {},
  CustomizationId <- {}

SessionExtras == INSTANCE SessionChannel WITH
  session <- state, None <- Absent, CustomizationId <- {idA, idB}, Value <- {idA}, Info <- {},
  MaxEntries <- 2, RequestId <- {}, ChatId <- {}, ClientId <- {}, Directory <- {},
  ConfigKey <- {}

Terminal == INSTANCE TerminalChannel WITH
  terminal <- state, None <- Absent, CommandId <- {idA, idB}, Holder <- {idA, idB},
  Value <- {idA}, MaxData <- 3, MaxParts <- 3

Changeset == INSTANCE ChangesetChannel WITH
  changeset <- state, None <- Absent, FileId <- {idA, idB}, OperationId <- {idA}, MaxFiles <- 2

Annotations == INSTANCE AnnotationsChannel WITH
  annotations <- state, None <- Absent, AnnotationId <- {idA, idB}, EntryId <- {idA, idB},
  Value <- {idA, idB}, MaxEntries <- 2

Automation == INSTANCE AutomationChannels WITH
  automation <- state, None <- Absent, AutomationId <- {idA, idB}, SessionId <- {idA, idB, idC},
  MaxEntries <- 3

Root == INSTANCE RootChannel WITH
  root <- state, None <- Absent, ConfigKey <- {idA, idB}, Value <- {idA, idB}

\* What stands for a field without a value is no value of one, and a client is not the MCP server.
ASSUME AbsentIsNoValue ==
  /\ Absent \notin ChatTools!ConfirmationReason \cup ChatTools!CancellationReason \cup {"yes", "no"}
  /\ Absent \notin ChatTools!ActiveTurn /\ Absent \notin ChatCalls!ActiveTurn
  /\ Absent \notin ChatTurns!ActiveTurn /\ Absent \notin ChatInputs!ActiveTurn
  /\ Absent \notin ChatPending!ActiveTurn
  /\ aClient \notin {Absent, "mcp"}

-----------------------------------------------------------------------------
\* No customization looks at these fields of its session.
IsPlain ==
  /\ state.lifecycle = "ready" /\ state.status = "Idle"
  /\ {state.config, state.dirs} = {Absent}

ChannelInit ==
  \/ channel = "chat tools" /\ ChatTools!Init
  \/ channel = "chat calls" /\ ChatCalls!Init
  \/ channel = "chat turns" /\ ChatTurns!Init
  \/ channel = "chat inputs" /\ ChatInputs!Init
  \/ channel = "chat pending" /\ ChatPending!Init
  \/ channel = "session metadata" /\ SessionMetadata!Init
  \/ channel = "session catalog" /\ SessionCatalog!Init
  \/ channel = "session places" /\ SessionPlaces!Init
  \/ channel = "session prompts" /\ SessionPrompts!Init
  \/ channel = "session extras" /\ SessionExtras!Init /\ IsPlain
  \/ channel = "terminal" /\ Terminal!Init
  \/ channel = "changeset" /\ Changeset!Init
  \/ channel = "annotations" /\ Annotations!Init
  \/ channel = "automation" /\ Automation!Init
  \/ channel = "root" /\ Root!Init

ChannelNext ==
  /\ UNCHANGED channel
  /\ \/ channel = "chat tools" /\ (ChatTools!TurnLifecycle \/ ChatTools!HistoryChanged \/ ChatTools!ToolCalls)
     \/ channel = "chat calls" /\ (ChatCalls!TurnLifecycle \/ ChatCalls!ToolCalls)
     \/ channel = "chat turns" /\ (ChatTurns!TurnLifecycle \/ ChatTurns!HistoryChanged)
     \/ channel = "chat inputs" /\ (ChatInputs!TurnLifecycle \/ ChatInputs!Inputs)
     \/ channel = "chat pending" /\ (ChatPending!TurnLifecycle \/ ChatPending!PendingMessages
                                   \/ ChatPending!Surroundings)
     \/ channel = "session metadata" /\ (SessionMetadata!LifecycleChanged \/ SessionMetadata!Metadata
                                       \/ SessionMetadata!Configuration)
     \/ channel = "session catalog" /\ SessionCatalog!Catalog
     \/ channel = "session places" /\ SessionPlaces!Places
     \/ channel = "session prompts" /\ SessionPrompts!Prompts
     \/ channel = "session extras" /\ (SessionExtras!Customized \/ SessionExtras!McpServers)
     \/ channel = "terminal" /\ Terminal!Next
     \/ channel = "changeset" /\ Changeset!Next
     \/ channel = "annotations" /\ Annotations!Next
     \/ channel = "automation" /\ Automation!Next
     \/ channel = "root" /\ Root!Next

ChannelSpec == ChannelInit /\ [][ChannelNext]_channelVars

-----------------------------------------------------------------------------
(* Properties. *)

IsChat == channel \in {"chat tools", "chat calls", "chat turns", "chat inputs", "chat pending"}
IsSession == channel \in {"session metadata", "session catalog", "session places",
                          "session prompts", "session extras"}

\* The parts of a terminal hold its output, each chunk once and in order, however commands start,
\* overlap, finish and the scrollback is cleared; a part is complete when its command is.
OutputIsKept ==
  channel = "terminal" => Terminal!Output = state.sent /\ Terminal!PartsFollowCommands

\* A replica of every kind stays well formed: its fields are of their types, an id names one entry
\* of its list, and a terminal holds its output.
ReplicaWellFormed ==
  /\ OutputIsKept
  /\ channel = "chat tools" => ChatTools!TypeOK
  /\ channel = "chat calls" => ChatCalls!TypeOK
  /\ channel = "chat turns" => ChatTurns!TypeOK
  /\ channel = "chat inputs" => ChatInputs!TypeOK
  /\ channel = "chat pending" => ChatPending!TypeOK
  /\ IsChat => ChatTurns!IdsAreUnique
  /\ channel = "session metadata" => SessionMetadata!TypeOK
  /\ channel = "session catalog" => SessionCatalog!TypeOK
  /\ channel = "session places" => SessionPlaces!TypeOK
  /\ channel = "session prompts" => SessionPrompts!TypeOK
  /\ channel = "session extras" => SessionExtras!TypeOK
  /\ IsSession => SessionCatalog!IdsAreUnique
  /\ channel = "terminal" => Terminal!TypeOK
  /\ channel = "changeset" => Changeset!TypeOK /\ Changeset!IdsAreUnique
  /\ channel = "annotations" => Annotations!TypeOK /\ Annotations!IdsAreUnique
  /\ channel = "automation" => Automation!TypeOK /\ Automation!IdsAreUnique
  /\ channel = "root" => Root!TypeOK

\* The flag that says "look here" says so exactly when there is something to look at: the status of
\* a chat is what its turns are at, a session with a prompt for its user needs input, a changeset
\* or an operation carries an error when its status is one.
StatusTellsTruth ==
  /\ IsChat => ChatTurns!StatusFollowsWork
  /\ IsSession => SessionPrompts!PromptsAreTold
  /\ channel = "changeset" => Changeset!ErrorsAreTold

\* A tool runs only once it is confirmed, and an ended turn leaves none unsettled (chat).
ToolsAreGoverned ==
  IsChat => ChatTools!CallsRunConfirmed /\ ChatTools!TurnsAreSettled

\* What refers to an entry of a list (the default chat, the primary session) does not outlive it.
ReferencesAreCleared ==
  [][/\ IsSession => SessionCatalog!DefaultIsCleared
     /\ channel = "automation" => Automation!PrimaryIsCleared]_channelVars

\* No action takes a tool call back in its life, to another client, or out of the past (chat).
ToolCallsOnlyAdvance ==
  [][IsChat => ChatTools!CallAdvances]_channelVars
=============================================================================
