---------------------------- MODULE ChannelProofs ----------------------------
(***************************************************************************)
(* Theorems about Channels: what the replica of every kind of channel      *)
(* keeps.                                                                  *)
(***************************************************************************)
EXTENDS Channels, TLAPS

-----------------------------------------------------------------------------
(* The chats: each slice is an instance of ChatProofs as it is one of      *)
(* ChatChannel, and its actions are the same formulas in both.             *)

-----------------------------------------------------------------------------
(* ChatInputs.                                                             *)

InputsP == INSTANCE ChatProofs WITH
  chat <- state, None <- Absent, TurnId <- {idA}, RequestId <- {idA, idB},
  Question <- {idA, idB}, MaxTurns <- 1, MaxParts <- 2, MaxChunks <- 1, PartId <- {idC},
  ToolCallId <- {}, Client <- {}, MessageId <- {}, Directory <- {}, Draft <- {}, Activity <- {}

LEMMA ChatInputsApart == InputsP!Apart
  BY AbsentIsNoValue DEF InputsP!Apart, ChatInputs!ConfirmationReason, InputsP!ConfirmationReason,
         ChatInputs!CancellationReason, InputsP!CancellationReason, ChatInputs!ActiveTurn,
         InputsP!ActiveTurn, ChatInputs!ResponsePart, InputsP!ResponsePart, ChatInputs!TextPart,
         InputsP!TextPart, ChatInputs!OtherPart, InputsP!OtherPart, ChatInputs!ErrorPart,
         InputsP!ErrorPart, ChatInputs!ToolCallPart, InputsP!ToolCallPart,
         ChatInputs!InputRequestPart, InputsP!InputRequestPart, ChatInputs!ToolCall,
         InputsP!ToolCall, ChatInputs!ToolCallStatus, InputsP!ToolCallStatus,
         ChatInputs!ToolCallContent, InputsP!ToolCallContent, ChatInputs!Contributor,
         InputsP!Contributor, ChatInputs!Request, InputsP!Request, ChatInputs!Response,
         InputsP!Response, ChatInputs!Answers, InputsP!Answers, ChatTools!ConfirmationReason,
         ChatTools!CancellationReason

LEMMA ChatInputsStarts == ChatInputs!Init => InputsP!Good(state)
  BY InputsP!InitGood DEF ChatInputs!Init, InputsP!Init

LEMMA ChatInputsTurnLifecycle == ChatInputs!TurnLifecycle => InputsP!TurnLifecycle
  BY ZenonT(60) DEF ChatInputs!TurnLifecycle, InputsP!TurnLifecycle, ChatInputs!TurnProgress,
         InputsP!TurnProgress, ChatInputs!TurnEnds, InputsP!TurnEnds, ChatInputs!ReasoningAdded,
         InputsP!ReasoningAdded, ChatInputs!TurnStarted, InputsP!TurnStarted,
         ChatInputs!ResponsePartAdded, InputsP!ResponsePartAdded, ChatInputs!Delta, InputsP!Delta,
         ChatInputs!TurnComplete, InputsP!TurnComplete, ChatInputs!TurnCancelled,
         InputsP!TurnCancelled, ChatInputs!TurnResume, InputsP!TurnResume, ChatInputs!TurnError,
         InputsP!TurnError, ChatInputs!Reasoning, InputsP!Reasoning, ChatInputs!EndTurn,
         InputsP!EndTurn, ChatInputs!AppendText, InputsP!AppendText, ChatInputs!RefreshUnread,
         InputsP!RefreshUnread, ChatInputs!SettlePart, InputsP!SettlePart, ChatInputs!SettleCall,
         InputsP!SettleCall, ChatInputs!Settled, InputsP!Settled, ChatInputs!HasResumableError,
         InputsP!HasResumableError, ChatInputs!NewParts, InputsP!NewParts, ChatInputs!OtherPart,
         InputsP!OtherPart, ChatInputs!ErrorPart, InputsP!ErrorPart, ChatInputs!KeepOnly,
         InputsP!KeepOnly, ChatInputs!Ids, InputsP!Ids, ChatInputs!SelectInSeq,
         InputsP!SelectInSeq, ChatInputs!Min, InputsP!Min, ChatInputs!Last, InputsP!Last,
         ChatInputs!Front, InputsP!Front, ChatInputs!IsActive, InputsP!IsActive,
         ChatInputs!RefreshSummaryStatus, InputsP!RefreshSummaryStatus, ChatInputs!SummaryStatus,
         InputsP!SummaryStatus, ChatInputs!HasOpenInputRequest, InputsP!HasOpenInputRequest,
         ChatInputs!HasBlockingToolCall, InputsP!HasBlockingToolCall, ChatInputs!IsOpenRequest,
         InputsP!IsOpenRequest, ChatInputs!IsCall, InputsP!IsCall, ChatInputs!Blocking,
         InputsP!Blocking, ChatInputs!ToSet, InputsP!ToSet, ChatInputs!WholeCall,
         InputsP!WholeCall, ChatInputs!ConfirmationReason, InputsP!ConfirmationReason,
         ChatInputs!CancellationReason, InputsP!CancellationReason, ChatInputs!Contributor,
         InputsP!Contributor, ChatInputs!InputRequestPart, InputsP!InputRequestPart,
         ChatInputs!Request, InputsP!Request, ChatInputs!Response, InputsP!Response,
         ChatInputs!Answers, InputsP!Answers, ChatInputs!AwaitsUser, InputsP!AwaitsUser

LEMMA ChatInputsInputs == ChatInputs!Inputs => InputsP!Inputs
<1>1. ASSUME NEW r, ChatInputs!InputRequested(r)
      PROVE  InputsP!InputRequested(r)
  BY <1>1, ZenonT(60) DEF ChatInputs!InputRequested, InputsP!InputRequested,
         ChatInputs!OpenRequestIndex, InputsP!OpenRequestIndex, ChatInputs!SelectInSeq,
         InputsP!SelectInSeq, ChatInputs!Min, InputsP!Min, ChatInputs!ReplaceAt, InputsP!ReplaceAt,
         ChatInputs!RefreshUnread, InputsP!RefreshUnread, ChatInputs!RefreshSummaryStatus,
         InputsP!RefreshSummaryStatus, ChatInputs!SummaryStatus, InputsP!SummaryStatus,
         ChatInputs!HasOpenInputRequest, InputsP!HasOpenInputRequest,
         ChatInputs!HasBlockingToolCall, InputsP!HasBlockingToolCall, ChatInputs!IsOpenRequest,
         InputsP!IsOpenRequest, ChatInputs!IsCall, InputsP!IsCall, ChatInputs!Blocking,
         InputsP!Blocking, ChatInputs!ToSet, InputsP!ToSet
<1>2. ASSUME NEW r, NEW q, NEW yes, ChatInputs!InputAnswerChanged(r, q, yes)
      PROVE  InputsP!InputAnswerChanged(r, q, yes)
  BY <1>2, ZenonT(60) DEF ChatInputs!InputAnswerChanged, InputsP!InputAnswerChanged,
         ChatInputs!OpenRequestIndex, InputsP!OpenRequestIndex, ChatInputs!IsOpenRequest,
         InputsP!IsOpenRequest, ChatInputs!SelectInSeq, InputsP!SelectInSeq, ChatInputs!Min,
         InputsP!Min, ChatInputs!Answered, InputsP!Answered, ChatInputs!AnswersField,
         InputsP!AnswersField
<1>3. ASSUME NEW r, NEW how, NEW answers, ChatInputs!InputCompleted(r, how, answers)
      PROVE  InputsP!InputCompleted(r, how, answers)
  BY <1>3, ZenonT(60) DEF ChatInputs!InputCompleted, InputsP!InputCompleted,
         ChatInputs!OpenRequestIndex, InputsP!OpenRequestIndex, ChatInputs!SelectInSeq,
         InputsP!SelectInSeq, ChatInputs!Min, InputsP!Min, ChatInputs!RefreshSummaryStatus,
         InputsP!RefreshSummaryStatus, ChatInputs!SummaryStatus, InputsP!SummaryStatus,
         ChatInputs!HasOpenInputRequest, InputsP!HasOpenInputRequest,
         ChatInputs!HasBlockingToolCall, InputsP!HasBlockingToolCall, ChatInputs!IsOpenRequest,
         InputsP!IsOpenRequest, ChatInputs!IsCall, InputsP!IsCall, ChatInputs!Blocking,
         InputsP!Blocking, ChatInputs!ToSet, InputsP!ToSet, ChatInputs!Answered, InputsP!Answered,
         ChatInputs!AnswersField, InputsP!AnswersField
<1> QED
  BY <1>1, <1>2, <1>3, ZenonT(60) DEF ChatInputs!Inputs, InputsP!Inputs, ChatInputs!Request,
         InputsP!Request, ChatInputs!Response, InputsP!Response, ChatInputs!Answers,
         InputsP!Answers

LEMMA ChatInputsStep ==
  ASSUME InputsP!Good(state), ChatInputs!TurnLifecycle \/ ChatInputs!Inputs
  PROVE  InputsP!Good(state') /\ InputsP!Kept(state, state')
  BY ChatInputsApart, ChatInputsTurnLifecycle, ChatInputsInputs, InputsP!TurnLifecycleGood,
     InputsP!InputsGood

LEMMA ChatInputsTyped == InputsP!Good(state) => ChatInputs!TypeOK
  BY InputsP!GoodTells
     DEF ChatInputs!TypeOK, InputsP!TypeOK, ChatInputs!ChatState,
         InputsP!ChatState, ChatInputs!Turn, InputsP!Turn, ChatInputs!ActiveTurn,
         InputsP!ActiveTurn, ChatInputs!ActivityStatus, InputsP!ActivityStatus, ChatInputs!Message,
         InputsP!Message, ChatInputs!ResponsePart, InputsP!ResponsePart, ChatInputs!TextPart,
         InputsP!TextPart, ChatInputs!OtherPart, InputsP!OtherPart, ChatInputs!ErrorPart,
         InputsP!ErrorPart, ChatInputs!ToolCallPart, InputsP!ToolCallPart,
         ChatInputs!InputRequestPart, InputsP!InputRequestPart, ChatInputs!ToolCall,
         InputsP!ToolCall, ChatInputs!ToolCallStatus, InputsP!ToolCallStatus,
         ChatInputs!ToolCallContent, InputsP!ToolCallContent, ChatInputs!ConfirmationReason,
         InputsP!ConfirmationReason, ChatInputs!CancellationReason, InputsP!CancellationReason,
         ChatInputs!Contributor, InputsP!Contributor, ChatInputs!Request, InputsP!Request,
         ChatInputs!Response, InputsP!Response, ChatInputs!Answers, InputsP!Answers

LEMMA ChatInputsGoverned ==
  InputsP!Good(state) => ChatTools!CallsRunConfirmed /\ ChatTools!TurnsAreSettled
  BY InputsP!GoodTells
     DEF ChatTools!CallsRunConfirmed, InputsP!CallsRunConfirmed, ChatTools!CallIsConfirmed,
         InputsP!CallIsConfirmed, ChatTools!LiveCalls, InputsP!LiveCalls, ChatTools!Calls,
         InputsP!Calls, ChatTools!TurnsAreSettled, InputsP!TurnsAreSettled, ChatTools!Settled,
         InputsP!Settled, ChatTools!IsCall, InputsP!IsCall, ChatTools!ToSet, InputsP!ToSet,
         ChatTools!Last, InputsP!Last

LEMMA ChatInputsTold ==
  InputsP!Good(state) => ChatTurns!StatusFollowsWork /\ ChatTurns!IdsAreUnique
  BY InputsP!GoodTells
     DEF ChatTurns!StatusFollowsWork, InputsP!StatusFollowsWork, ChatTurns!IsOpenRequest,
         InputsP!IsOpenRequest, ChatTurns!IsCall, InputsP!IsCall, ChatTurns!Blocking,
         InputsP!Blocking, ChatTurns!ToSet, InputsP!ToSet, ChatTurns!Last, InputsP!Last,
         ChatTurns!IdsAreUnique, InputsP!IdsAreUnique, ChatTurns!Distinct, InputsP!Distinct,
         ChatTurns!IsWaiting, InputsP!IsWaiting, ChatTurns!AwaitsUser, InputsP!AwaitsUser

LEMMA ChatInputsAdvances ==
  ASSUME InputsP!Good(state), InputsP!Good(state'), InputsP!Kept(state, state')
  PROVE  ChatTools!CallAdvances
<1>1. InputsP!AdvancesFor({aClient})
  BY InputsP!KeptAdvancesFor, AbsentIsNoValue DEF InputsP!Contributor
<1> QED
  BY <1>1 DEF ChatTools!After, InputsP!After, ChatTools!Settled, InputsP!Settled, ChatTools!IsCall,
         InputsP!IsCall, ChatTools!CallAdvances, InputsP!AdvancesFor, ChatTools!HistoryStands,
         InputsP!HistoryStands, ChatTools!IsPrefix, InputsP!IsPrefix, ChatTools!Ids, InputsP!Ids,
         ChatTools!ToSet, InputsP!ToSet

-----------------------------------------------------------------------------
(* ChatPending.                                                            *)

PendingP == INSTANCE ChatProofs WITH
  chat <- state, None <- Absent, TurnId <- {idA}, MessageId <- {idA, idB, idC},
  Directory <- {idA, idB}, Draft <- {idA}, Activity <- {idA}, MaxTurns <- 1, MaxParts <- 0,
  MaxChunks <- 0, PartId <- {}, ToolCallId <- {}, Client <- {}, RequestId <- {}, Question <- {}

LEMMA ChatPendingApart == PendingP!Apart
  BY AbsentIsNoValue DEF PendingP!Apart, ChatPending!ConfirmationReason,
         PendingP!ConfirmationReason, ChatPending!CancellationReason, PendingP!CancellationReason,
         ChatPending!ActiveTurn, PendingP!ActiveTurn, ChatPending!ResponsePart,
         PendingP!ResponsePart, ChatPending!TextPart, PendingP!TextPart, ChatPending!OtherPart,
         PendingP!OtherPart, ChatPending!ErrorPart, PendingP!ErrorPart, ChatPending!ToolCallPart,
         PendingP!ToolCallPart, ChatPending!InputRequestPart, PendingP!InputRequestPart,
         ChatPending!ToolCall, PendingP!ToolCall, ChatPending!ToolCallStatus,
         PendingP!ToolCallStatus, ChatPending!ToolCallContent, PendingP!ToolCallContent,
         ChatPending!Contributor, PendingP!Contributor, ChatPending!Request, PendingP!Request,
         ChatPending!Response, PendingP!Response, ChatPending!Answers, PendingP!Answers,
         ChatTools!ConfirmationReason, ChatTools!CancellationReason

LEMMA ChatPendingStarts == ChatPending!Init => PendingP!Good(state)
  BY PendingP!InitGood DEF ChatPending!Init, PendingP!Init

LEMMA ChatPendingTurnLifecycle == ChatPending!TurnLifecycle => PendingP!TurnLifecycle
  BY ZenonT(60) DEF ChatPending!TurnLifecycle, PendingP!TurnLifecycle, ChatPending!TurnProgress,
         PendingP!TurnProgress, ChatPending!TurnEnds, PendingP!TurnEnds,
         ChatPending!ReasoningAdded, PendingP!ReasoningAdded, ChatPending!TurnStarted,
         PendingP!TurnStarted, ChatPending!ResponsePartAdded, PendingP!ResponsePartAdded,
         ChatPending!Delta, PendingP!Delta, ChatPending!TurnComplete, PendingP!TurnComplete,
         ChatPending!TurnCancelled, PendingP!TurnCancelled, ChatPending!TurnResume,
         PendingP!TurnResume, ChatPending!TurnError, PendingP!TurnError, ChatPending!Reasoning,
         PendingP!Reasoning, ChatPending!EndTurn, PendingP!EndTurn, ChatPending!AppendText,
         PendingP!AppendText, ChatPending!RefreshUnread, PendingP!RefreshUnread,
         ChatPending!SettlePart, PendingP!SettlePart, ChatPending!SettleCall, PendingP!SettleCall,
         ChatPending!Settled, PendingP!Settled, ChatPending!HasResumableError,
         PendingP!HasResumableError, ChatPending!NewParts, PendingP!NewParts,
         ChatPending!OtherPart, PendingP!OtherPart, ChatPending!ErrorPart, PendingP!ErrorPart,
         ChatPending!KeepOnly, PendingP!KeepOnly, ChatPending!Ids, PendingP!Ids,
         ChatPending!SelectInSeq, PendingP!SelectInSeq, ChatPending!Min, PendingP!Min,
         ChatPending!Last, PendingP!Last, ChatPending!Front, PendingP!Front, ChatPending!IsActive,
         PendingP!IsActive, ChatPending!RefreshSummaryStatus, PendingP!RefreshSummaryStatus,
         ChatPending!SummaryStatus, PendingP!SummaryStatus, ChatPending!HasOpenInputRequest,
         PendingP!HasOpenInputRequest, ChatPending!HasBlockingToolCall,
         PendingP!HasBlockingToolCall, ChatPending!IsOpenRequest, PendingP!IsOpenRequest,
         ChatPending!IsCall, PendingP!IsCall, ChatPending!Blocking, PendingP!Blocking,
         ChatPending!ToSet, PendingP!ToSet, ChatPending!WholeCall, PendingP!WholeCall,
         ChatPending!ConfirmationReason, PendingP!ConfirmationReason,
         ChatPending!CancellationReason, PendingP!CancellationReason, ChatPending!Contributor,
         PendingP!Contributor, ChatPending!InputRequestPart, PendingP!InputRequestPart,
         ChatPending!Request, PendingP!Request, ChatPending!Response, PendingP!Response,
         ChatPending!Answers, PendingP!Answers, ChatPending!AwaitsUser, PendingP!AwaitsUser

LEMMA ChatPendingPendingMessages == ChatPending!PendingMessages => PendingP!PendingMessages
  BY ZenonT(60) DEF ChatPending!PendingMessages, PendingP!PendingMessages,
         ChatPending!PendingMessageSet, PendingP!PendingMessageSet,
         ChatPending!PendingMessageRemoved, PendingP!PendingMessageRemoved,
         ChatPending!QueuedMessagesReordered, PendingP!QueuedMessagesReordered,
         ChatPending!DraftChanged, PendingP!DraftChanged, ChatPending!Include, PendingP!Include,
         ChatPending!KeepOnly, PendingP!KeepOnly, ChatPending!BoundedSeq, PendingP!BoundedSeq,
         ChatPending!SeqOf, PendingP!SeqOf, ChatPending!ToSet, PendingP!ToSet

LEMMA ChatPendingSurroundings == ChatPending!Surroundings => PendingP!Surroundings
  BY ZenonT(60) DEF ChatPending!Surroundings, PendingP!Surroundings, ChatPending!Usage,
         PendingP!Usage, ChatPending!ActivityChanged, PendingP!ActivityChanged,
         ChatPending!WorkingDirectorySet, PendingP!WorkingDirectorySet,
         ChatPending!WorkingDirectoryRemoved, PendingP!WorkingDirectoryRemoved,
         ChatPending!Include, PendingP!Include, ChatPending!RemoveFirst, PendingP!RemoveFirst,
         ChatPending!RemoveFirstMatch, PendingP!RemoveFirstMatch, ChatPending!SelectInSeq,
         PendingP!SelectInSeq, ChatPending!Min, PendingP!Min, ChatPending!RemoveAt,
         PendingP!RemoveAt, ChatPending!ToSet, PendingP!ToSet, ChatPending!IsActive,
         PendingP!IsActive

LEMMA ChatPendingStep ==
  ASSUME PendingP!Good(state), ChatPending!TurnLifecycle \/ ChatPending!PendingMessages \/ ChatPending!Surroundings
  PROVE  PendingP!Good(state') /\ PendingP!Kept(state, state')
  BY ChatPendingApart, ChatPendingTurnLifecycle, ChatPendingPendingMessages,
     ChatPendingSurroundings, PendingP!TurnLifecycleGood, PendingP!PendingMessagesGood,
     PendingP!SurroundingsGood

LEMMA ChatPendingTyped == PendingP!Good(state) => ChatPending!TypeOK
  BY PendingP!GoodTells
     DEF ChatPending!TypeOK, PendingP!TypeOK, ChatPending!ChatState,
         PendingP!ChatState, ChatPending!Turn, PendingP!Turn, ChatPending!ActiveTurn,
         PendingP!ActiveTurn, ChatPending!ActivityStatus, PendingP!ActivityStatus,
         ChatPending!Message, PendingP!Message, ChatPending!ResponsePart, PendingP!ResponsePart,
         ChatPending!TextPart, PendingP!TextPart, ChatPending!OtherPart, PendingP!OtherPart,
         ChatPending!ErrorPart, PendingP!ErrorPart, ChatPending!ToolCallPart,
         PendingP!ToolCallPart, ChatPending!InputRequestPart, PendingP!InputRequestPart,
         ChatPending!ToolCall, PendingP!ToolCall, ChatPending!ToolCallStatus,
         PendingP!ToolCallStatus, ChatPending!ToolCallContent, PendingP!ToolCallContent,
         ChatPending!ConfirmationReason, PendingP!ConfirmationReason,
         ChatPending!CancellationReason, PendingP!CancellationReason, ChatPending!Contributor,
         PendingP!Contributor, ChatPending!Request, PendingP!Request, ChatPending!Response,
         PendingP!Response, ChatPending!Answers, PendingP!Answers

LEMMA ChatPendingGoverned ==
  PendingP!Good(state) => ChatTools!CallsRunConfirmed /\ ChatTools!TurnsAreSettled
  BY PendingP!GoodTells
     DEF ChatTools!CallsRunConfirmed, PendingP!CallsRunConfirmed, ChatTools!CallIsConfirmed,
         PendingP!CallIsConfirmed, ChatTools!LiveCalls, PendingP!LiveCalls, ChatTools!Calls,
         PendingP!Calls, ChatTools!TurnsAreSettled, PendingP!TurnsAreSettled, ChatTools!Settled,
         PendingP!Settled, ChatTools!IsCall, PendingP!IsCall, ChatTools!ToSet, PendingP!ToSet,
         ChatTools!Last, PendingP!Last

LEMMA ChatPendingTold ==
  PendingP!Good(state) => ChatTurns!StatusFollowsWork /\ ChatTurns!IdsAreUnique
  BY PendingP!GoodTells
     DEF ChatTurns!StatusFollowsWork, PendingP!StatusFollowsWork, ChatTurns!IsOpenRequest,
         PendingP!IsOpenRequest, ChatTurns!IsCall, PendingP!IsCall, ChatTurns!Blocking,
         PendingP!Blocking, ChatTurns!ToSet, PendingP!ToSet, ChatTurns!Last, PendingP!Last,
         ChatTurns!IdsAreUnique, PendingP!IdsAreUnique, ChatTurns!Distinct, PendingP!Distinct,
         ChatTurns!IsWaiting, PendingP!IsWaiting, ChatTurns!AwaitsUser, PendingP!AwaitsUser

LEMMA ChatPendingAdvances ==
  ASSUME PendingP!Good(state), PendingP!Good(state'), PendingP!Kept(state, state')
  PROVE  ChatTools!CallAdvances
<1>1. PendingP!AdvancesFor({aClient})
  BY PendingP!KeptAdvancesFor, AbsentIsNoValue DEF PendingP!Contributor
<1> QED
  BY <1>1 DEF ChatTools!After, PendingP!After, ChatTools!Settled, PendingP!Settled, ChatTools!IsCall,
         PendingP!IsCall, ChatTools!CallAdvances, PendingP!AdvancesFor, ChatTools!HistoryStands,
         PendingP!HistoryStands, ChatTools!IsPrefix, PendingP!IsPrefix, ChatTools!Ids,
         PendingP!Ids, ChatTools!ToSet, PendingP!ToSet

-----------------------------------------------------------------------------
(* ChatCalls.                                                              *)

CallsP == INSTANCE ChatProofs WITH
  chat <- state, None <- Absent, TurnId <- {idA}, ToolCallId <- {idB, idC}, MaxTurns <- 1,
  MaxParts <- 2, MaxChunks <- 0, Client <- {}, PartId <- {}, RequestId <- {}, Question <- {},
  MessageId <- {}, Directory <- {}, Draft <- {}, Activity <- {}

LEMMA ChatCallsApart == CallsP!Apart
  BY AbsentIsNoValue DEF CallsP!Apart, ChatCalls!ConfirmationReason, CallsP!ConfirmationReason,
         ChatCalls!CancellationReason, CallsP!CancellationReason, ChatCalls!ActiveTurn,
         CallsP!ActiveTurn, ChatCalls!ResponsePart, CallsP!ResponsePart, ChatCalls!TextPart,
         CallsP!TextPart, ChatCalls!OtherPart, CallsP!OtherPart, ChatCalls!ErrorPart,
         CallsP!ErrorPart, ChatCalls!ToolCallPart, CallsP!ToolCallPart, ChatCalls!InputRequestPart,
         CallsP!InputRequestPart, ChatCalls!ToolCall, CallsP!ToolCall, ChatCalls!ToolCallStatus,
         CallsP!ToolCallStatus, ChatCalls!ToolCallContent, CallsP!ToolCallContent,
         ChatCalls!Contributor, CallsP!Contributor, ChatCalls!Request, CallsP!Request,
         ChatCalls!Response, CallsP!Response, ChatCalls!Answers, CallsP!Answers,
         ChatTools!ConfirmationReason, ChatTools!CancellationReason

LEMMA ChatCallsStarts == ChatCalls!Init => CallsP!Good(state)
  BY CallsP!InitGood DEF ChatCalls!Init, CallsP!Init

LEMMA ChatCallsTurnLifecycle == ChatCalls!TurnLifecycle => CallsP!TurnLifecycle
  BY ZenonT(60) DEF ChatCalls!TurnLifecycle, CallsP!TurnLifecycle, ChatCalls!TurnProgress,
         CallsP!TurnProgress, ChatCalls!TurnEnds, CallsP!TurnEnds, ChatCalls!ReasoningAdded,
         CallsP!ReasoningAdded, ChatCalls!TurnStarted, CallsP!TurnStarted,
         ChatCalls!ResponsePartAdded, CallsP!ResponsePartAdded, ChatCalls!Delta, CallsP!Delta,
         ChatCalls!TurnComplete, CallsP!TurnComplete, ChatCalls!TurnCancelled,
         CallsP!TurnCancelled, ChatCalls!TurnResume, CallsP!TurnResume, ChatCalls!TurnError,
         CallsP!TurnError, ChatCalls!Reasoning, CallsP!Reasoning, ChatCalls!EndTurn,
         CallsP!EndTurn, ChatCalls!AppendText, CallsP!AppendText, ChatCalls!RefreshUnread,
         CallsP!RefreshUnread, ChatCalls!SettlePart, CallsP!SettlePart, ChatCalls!SettleCall,
         CallsP!SettleCall, ChatCalls!Settled, CallsP!Settled, ChatCalls!HasResumableError,
         CallsP!HasResumableError, ChatCalls!NewParts, CallsP!NewParts, ChatCalls!OtherPart,
         CallsP!OtherPart, ChatCalls!ErrorPart, CallsP!ErrorPart, ChatCalls!KeepOnly,
         CallsP!KeepOnly, ChatCalls!Ids, CallsP!Ids, ChatCalls!SelectInSeq, CallsP!SelectInSeq,
         ChatCalls!Min, CallsP!Min, ChatCalls!Last, CallsP!Last, ChatCalls!Front, CallsP!Front,
         ChatCalls!IsActive, CallsP!IsActive, ChatCalls!RefreshSummaryStatus,
         CallsP!RefreshSummaryStatus, ChatCalls!SummaryStatus, CallsP!SummaryStatus,
         ChatCalls!HasOpenInputRequest, CallsP!HasOpenInputRequest, ChatCalls!HasBlockingToolCall,
         CallsP!HasBlockingToolCall, ChatCalls!IsOpenRequest, CallsP!IsOpenRequest,
         ChatCalls!IsCall, CallsP!IsCall, ChatCalls!Blocking, CallsP!Blocking, ChatCalls!ToSet,
         CallsP!ToSet, ChatCalls!WholeCall, CallsP!WholeCall, ChatCalls!ConfirmationReason,
         CallsP!ConfirmationReason, ChatCalls!CancellationReason, CallsP!CancellationReason,
         ChatCalls!Contributor, CallsP!Contributor, ChatCalls!InputRequestPart,
         CallsP!InputRequestPart, ChatCalls!Request, CallsP!Request, ChatCalls!Response,
         CallsP!Response, ChatCalls!Answers, CallsP!Answers, ChatCalls!AwaitsUser,
         CallsP!AwaitsUser

LEMMA ChatCallsToolCalls == ChatCalls!ToolCalls => CallsP!ToolCalls
  BY ZenonT(60) DEF ChatCalls!ToolCalls, CallsP!ToolCalls, ChatCalls!ToolCallProgress,
         CallsP!ToolCallProgress, ChatCalls!ToolCallOutcome, CallsP!ToolCallOutcome,
         ChatCalls!Contributor, CallsP!Contributor, ChatCalls!ConfirmationReason,
         CallsP!ConfirmationReason, ChatCalls!ToolCallStart, CallsP!ToolCallStart,
         ChatCalls!ToolCallReady, CallsP!ToolCallReady, ChatCalls!ToolCallApproved,
         CallsP!ToolCallApproved, ChatCalls!ToolCallDelta, CallsP!ToolCallDelta,
         ChatCalls!ToolCallDenied, CallsP!ToolCallDenied, ChatCalls!ToolCallComplete,
         CallsP!ToolCallComplete, ChatCalls!ToolCallResultConfirmed,
         CallsP!ToolCallResultConfirmed, ChatCalls!ToolCallContentChanged,
         CallsP!ToolCallContentChanged, ChatCalls!ToolCallAuthRequired,
         CallsP!ToolCallAuthRequired, ChatCalls!ToolCallAuthResolved, CallsP!ToolCallAuthResolved,
         ChatCalls!ToolCallStep, CallsP!ToolCallStep, ChatCalls!UpdateToolCallInParts,
         CallsP!UpdateToolCallInParts, ChatCalls!RefineToolCallContributor,
         CallsP!RefineToolCallContributor, ChatCalls!IsActive, CallsP!IsActive,
         ChatCalls!RefreshSummaryStatus, CallsP!RefreshSummaryStatus, ChatCalls!SummaryStatus,
         CallsP!SummaryStatus, ChatCalls!HasOpenInputRequest, CallsP!HasOpenInputRequest,
         ChatCalls!HasBlockingToolCall, CallsP!HasBlockingToolCall, ChatCalls!IsOpenRequest,
         CallsP!IsOpenRequest, ChatCalls!IsCall, CallsP!IsCall, ChatCalls!Blocking,
         CallsP!Blocking, ChatCalls!ToSet, CallsP!ToSet

LEMMA ChatCallsStep ==
  ASSUME CallsP!Good(state), ChatCalls!TurnLifecycle \/ ChatCalls!ToolCalls
  PROVE  CallsP!Good(state') /\ CallsP!Kept(state, state')
  BY ChatCallsApart, ChatCallsTurnLifecycle, ChatCallsToolCalls, CallsP!TurnLifecycleGood,
     CallsP!ToolCallsGood

LEMMA ChatCallsTyped == CallsP!Good(state) => ChatCalls!TypeOK
  BY CallsP!GoodTells
     DEF ChatCalls!TypeOK, CallsP!TypeOK, ChatCalls!ChatState,
         CallsP!ChatState, ChatCalls!Turn, CallsP!Turn, ChatCalls!ActiveTurn, CallsP!ActiveTurn,
         ChatCalls!ActivityStatus, CallsP!ActivityStatus, ChatCalls!Message, CallsP!Message,
         ChatCalls!ResponsePart, CallsP!ResponsePart, ChatCalls!TextPart, CallsP!TextPart,
         ChatCalls!OtherPart, CallsP!OtherPart, ChatCalls!ErrorPart, CallsP!ErrorPart,
         ChatCalls!ToolCallPart, CallsP!ToolCallPart, ChatCalls!InputRequestPart,
         CallsP!InputRequestPart, ChatCalls!ToolCall, CallsP!ToolCall, ChatCalls!ToolCallStatus,
         CallsP!ToolCallStatus, ChatCalls!ToolCallContent, CallsP!ToolCallContent,
         ChatCalls!ConfirmationReason, CallsP!ConfirmationReason, ChatCalls!CancellationReason,
         CallsP!CancellationReason, ChatCalls!Contributor, CallsP!Contributor, ChatCalls!Request,
         CallsP!Request, ChatCalls!Response, CallsP!Response, ChatCalls!Answers, CallsP!Answers

LEMMA ChatCallsGoverned ==
  CallsP!Good(state) => ChatTools!CallsRunConfirmed /\ ChatTools!TurnsAreSettled
  BY CallsP!GoodTells
     DEF ChatTools!CallsRunConfirmed, CallsP!CallsRunConfirmed, ChatTools!CallIsConfirmed,
         CallsP!CallIsConfirmed, ChatTools!LiveCalls, CallsP!LiveCalls, ChatTools!Calls,
         CallsP!Calls, ChatTools!TurnsAreSettled, CallsP!TurnsAreSettled, ChatTools!Settled,
         CallsP!Settled, ChatTools!IsCall, CallsP!IsCall, ChatTools!ToSet, CallsP!ToSet,
         ChatTools!Last, CallsP!Last

LEMMA ChatCallsTold ==
  CallsP!Good(state) => ChatTurns!StatusFollowsWork /\ ChatTurns!IdsAreUnique
  BY CallsP!GoodTells
     DEF ChatTurns!StatusFollowsWork, CallsP!StatusFollowsWork, ChatTurns!IsOpenRequest,
         CallsP!IsOpenRequest, ChatTurns!IsCall, CallsP!IsCall, ChatTurns!Blocking,
         CallsP!Blocking, ChatTurns!ToSet, CallsP!ToSet, ChatTurns!Last, CallsP!Last,
         ChatTurns!IdsAreUnique, CallsP!IdsAreUnique, ChatTurns!Distinct, CallsP!Distinct,
         ChatTurns!IsWaiting, CallsP!IsWaiting, ChatTurns!AwaitsUser, CallsP!AwaitsUser

LEMMA ChatCallsAdvances ==
  ASSUME CallsP!Good(state), CallsP!Good(state'), CallsP!Kept(state, state')
  PROVE  ChatTools!CallAdvances
<1>1. CallsP!AdvancesFor({aClient})
  BY CallsP!KeptAdvancesFor, AbsentIsNoValue DEF CallsP!Contributor
<1> QED
  BY <1>1 DEF ChatTools!After, CallsP!After, ChatTools!Settled, CallsP!Settled, ChatTools!IsCall,
         CallsP!IsCall, ChatTools!CallAdvances, CallsP!AdvancesFor, ChatTools!HistoryStands,
         CallsP!HistoryStands, ChatTools!IsPrefix, CallsP!IsPrefix, ChatTools!Ids, CallsP!Ids,
         ChatTools!ToSet, CallsP!ToSet

-----------------------------------------------------------------------------
(* ChatTools.                                                              *)

ToolsP == INSTANCE ChatProofs WITH
  chat <- state, None <- Absent, TurnId <- {idA, idB}, ToolCallId <- {idC}, Client <- {aClient},
  PartId <- {}, RequestId <- {}, Question <- {}, MessageId <- {}, Directory <- {}, Draft <- {},
  Activity <- {}, MaxTurns <- 1, MaxParts <- 1, MaxChunks <- 0

LEMMA ChatToolsApart == ToolsP!Apart
  BY AbsentIsNoValue DEF ToolsP!Apart, ChatTools!ConfirmationReason, ToolsP!ConfirmationReason,
         ChatTools!CancellationReason, ToolsP!CancellationReason, ChatTools!ActiveTurn,
         ToolsP!ActiveTurn, ChatTools!ResponsePart, ToolsP!ResponsePart, ChatTools!TextPart,
         ToolsP!TextPart, ChatTools!OtherPart, ToolsP!OtherPart, ChatTools!ErrorPart,
         ToolsP!ErrorPart, ChatTools!ToolCallPart, ToolsP!ToolCallPart, ChatTools!InputRequestPart,
         ToolsP!InputRequestPart, ChatTools!ToolCall, ToolsP!ToolCall, ChatTools!ToolCallStatus,
         ToolsP!ToolCallStatus, ChatTools!ToolCallContent, ToolsP!ToolCallContent,
         ChatTools!Contributor, ToolsP!Contributor, ChatTools!Request, ToolsP!Request,
         ChatTools!Response, ToolsP!Response, ChatTools!Answers, ToolsP!Answers

LEMMA ChatToolsStarts == ChatTools!Init => ToolsP!Good(state)
  BY ToolsP!InitGood DEF ChatTools!Init, ToolsP!Init

LEMMA ChatToolsTurnLifecycle == ChatTools!TurnLifecycle => ToolsP!TurnLifecycle
  BY ZenonT(60) DEF ChatTools!TurnLifecycle, ToolsP!TurnLifecycle, ChatTools!TurnProgress,
         ToolsP!TurnProgress, ChatTools!TurnEnds, ToolsP!TurnEnds, ChatTools!ReasoningAdded,
         ToolsP!ReasoningAdded, ChatTools!TurnStarted, ToolsP!TurnStarted,
         ChatTools!ResponsePartAdded, ToolsP!ResponsePartAdded, ChatTools!Delta, ToolsP!Delta,
         ChatTools!TurnComplete, ToolsP!TurnComplete, ChatTools!TurnCancelled,
         ToolsP!TurnCancelled, ChatTools!TurnResume, ToolsP!TurnResume, ChatTools!TurnError,
         ToolsP!TurnError, ChatTools!Reasoning, ToolsP!Reasoning, ChatTools!EndTurn,
         ToolsP!EndTurn, ChatTools!AppendText, ToolsP!AppendText, ChatTools!RefreshUnread,
         ToolsP!RefreshUnread, ChatTools!SettlePart, ToolsP!SettlePart, ChatTools!SettleCall,
         ToolsP!SettleCall, ChatTools!Settled, ToolsP!Settled, ChatTools!HasResumableError,
         ToolsP!HasResumableError, ChatTools!NewParts, ToolsP!NewParts, ChatTools!OtherPart,
         ToolsP!OtherPart, ChatTools!ErrorPart, ToolsP!ErrorPart, ChatTools!KeepOnly,
         ToolsP!KeepOnly, ChatTools!Ids, ToolsP!Ids, ChatTools!SelectInSeq, ToolsP!SelectInSeq,
         ChatTools!Min, ToolsP!Min, ChatTools!Last, ToolsP!Last, ChatTools!Front, ToolsP!Front,
         ChatTools!IsActive, ToolsP!IsActive, ChatTools!RefreshSummaryStatus,
         ToolsP!RefreshSummaryStatus, ChatTools!SummaryStatus, ToolsP!SummaryStatus,
         ChatTools!HasOpenInputRequest, ToolsP!HasOpenInputRequest, ChatTools!HasBlockingToolCall,
         ToolsP!HasBlockingToolCall, ChatTools!IsOpenRequest, ToolsP!IsOpenRequest,
         ChatTools!IsCall, ToolsP!IsCall, ChatTools!Blocking, ToolsP!Blocking, ChatTools!ToSet,
         ToolsP!ToSet, ChatTools!WholeCall, ToolsP!WholeCall, ChatTools!ConfirmationReason,
         ToolsP!ConfirmationReason, ChatTools!CancellationReason, ToolsP!CancellationReason,
         ChatTools!Contributor, ToolsP!Contributor, ChatTools!InputRequestPart,
         ToolsP!InputRequestPart, ChatTools!Request, ToolsP!Request, ChatTools!Response,
         ToolsP!Response, ChatTools!Answers, ToolsP!Answers, ChatTools!AwaitsUser,
         ToolsP!AwaitsUser

LEMMA ChatToolsHistoryChanged == ChatTools!HistoryChanged => ToolsP!HistoryChanged
  BY ZenonT(60) DEF ChatTools!HistoryChanged, ToolsP!HistoryChanged, ChatTools!Truncated,
         ToolsP!Truncated, ChatTools!TurnsLoaded, ToolsP!TurnsLoaded, ChatTools!Pages,
         ToolsP!Pages, ChatTools!IndexOfId, ToolsP!IndexOfId, ChatTools!SelectInSeq,
         ToolsP!SelectInSeq, ChatTools!Min, ToolsP!Min, ChatTools!Ids, ToolsP!Ids,
         ChatTools!KeepOnly, ToolsP!KeepOnly, ChatTools!BoundedSeq, ToolsP!BoundedSeq,
         ChatTools!SeqOf, ToolsP!SeqOf, ChatTools!RefreshSummaryStatus,
         ToolsP!RefreshSummaryStatus, ChatTools!SummaryStatus, ToolsP!SummaryStatus,
         ChatTools!HasOpenInputRequest, ToolsP!HasOpenInputRequest, ChatTools!HasBlockingToolCall,
         ToolsP!HasBlockingToolCall, ChatTools!IsOpenRequest, ToolsP!IsOpenRequest,
         ChatTools!IsCall, ToolsP!IsCall, ChatTools!Blocking, ToolsP!Blocking, ChatTools!ToSet,
         ToolsP!ToSet, ChatTools!OldTurns, ToolsP!OldTurns, ChatTools!WholeCall, ToolsP!WholeCall,
         ChatTools!ConfirmationReason, ToolsP!ConfirmationReason, ChatTools!CancellationReason,
         ToolsP!CancellationReason, ChatTools!Contributor, ToolsP!Contributor

LEMMA ChatToolsToolCalls == ChatTools!ToolCalls => ToolsP!ToolCalls
  BY ZenonT(60) DEF ChatTools!ToolCalls, ToolsP!ToolCalls, ChatTools!ToolCallProgress,
         ToolsP!ToolCallProgress, ChatTools!ToolCallOutcome, ToolsP!ToolCallOutcome,
         ChatTools!Contributor, ToolsP!Contributor, ChatTools!ConfirmationReason,
         ToolsP!ConfirmationReason, ChatTools!ToolCallStart, ToolsP!ToolCallStart,
         ChatTools!ToolCallReady, ToolsP!ToolCallReady, ChatTools!ToolCallApproved,
         ToolsP!ToolCallApproved, ChatTools!ToolCallDelta, ToolsP!ToolCallDelta,
         ChatTools!ToolCallDenied, ToolsP!ToolCallDenied, ChatTools!ToolCallComplete,
         ToolsP!ToolCallComplete, ChatTools!ToolCallResultConfirmed,
         ToolsP!ToolCallResultConfirmed, ChatTools!ToolCallContentChanged,
         ToolsP!ToolCallContentChanged, ChatTools!ToolCallAuthRequired,
         ToolsP!ToolCallAuthRequired, ChatTools!ToolCallAuthResolved, ToolsP!ToolCallAuthResolved,
         ChatTools!ToolCallStep, ToolsP!ToolCallStep, ChatTools!UpdateToolCallInParts,
         ToolsP!UpdateToolCallInParts, ChatTools!RefineToolCallContributor,
         ToolsP!RefineToolCallContributor, ChatTools!IsActive, ToolsP!IsActive,
         ChatTools!RefreshSummaryStatus, ToolsP!RefreshSummaryStatus, ChatTools!SummaryStatus,
         ToolsP!SummaryStatus, ChatTools!HasOpenInputRequest, ToolsP!HasOpenInputRequest,
         ChatTools!HasBlockingToolCall, ToolsP!HasBlockingToolCall, ChatTools!IsOpenRequest,
         ToolsP!IsOpenRequest, ChatTools!IsCall, ToolsP!IsCall, ChatTools!Blocking,
         ToolsP!Blocking, ChatTools!ToSet, ToolsP!ToSet

LEMMA ChatToolsStep ==
  ASSUME ToolsP!Good(state), ChatTools!TurnLifecycle \/ ChatTools!HistoryChanged \/ ChatTools!ToolCalls
  PROVE  ToolsP!Good(state') /\ ToolsP!Kept(state, state')
  BY ChatToolsApart, ChatToolsTurnLifecycle, ChatToolsHistoryChanged, ChatToolsToolCalls,
     ToolsP!TurnLifecycleGood, ToolsP!HistoryChangedGood, ToolsP!ToolCallsGood

LEMMA ChatToolsTyped == ToolsP!Good(state) => ChatTools!TypeOK
  BY ToolsP!GoodTells
     DEF ChatTools!TypeOK, ToolsP!TypeOK, ChatTools!ChatState,
         ToolsP!ChatState, ChatTools!Turn, ToolsP!Turn, ChatTools!ActiveTurn, ToolsP!ActiveTurn,
         ChatTools!ActivityStatus, ToolsP!ActivityStatus, ChatTools!Message, ToolsP!Message,
         ChatTools!ResponsePart, ToolsP!ResponsePart, ChatTools!TextPart, ToolsP!TextPart,
         ChatTools!OtherPart, ToolsP!OtherPart, ChatTools!ErrorPart, ToolsP!ErrorPart,
         ChatTools!ToolCallPart, ToolsP!ToolCallPart, ChatTools!InputRequestPart,
         ToolsP!InputRequestPart, ChatTools!ToolCall, ToolsP!ToolCall, ChatTools!ToolCallStatus,
         ToolsP!ToolCallStatus, ChatTools!ToolCallContent, ToolsP!ToolCallContent,
         ChatTools!ConfirmationReason, ToolsP!ConfirmationReason, ChatTools!CancellationReason,
         ToolsP!CancellationReason, ChatTools!Contributor, ToolsP!Contributor, ChatTools!Request,
         ToolsP!Request, ChatTools!Response, ToolsP!Response, ChatTools!Answers, ToolsP!Answers

LEMMA ChatToolsGoverned ==
  ToolsP!Good(state) => ChatTools!CallsRunConfirmed /\ ChatTools!TurnsAreSettled
  BY ToolsP!GoodTells
     DEF ChatTools!CallsRunConfirmed, ToolsP!CallsRunConfirmed, ChatTools!CallIsConfirmed,
         ToolsP!CallIsConfirmed, ChatTools!LiveCalls, ToolsP!LiveCalls, ChatTools!Calls,
         ToolsP!Calls, ChatTools!TurnsAreSettled, ToolsP!TurnsAreSettled, ChatTools!Settled,
         ToolsP!Settled, ChatTools!IsCall, ToolsP!IsCall, ChatTools!ToSet, ToolsP!ToSet,
         ChatTools!Last, ToolsP!Last

LEMMA ChatToolsTold ==
  ToolsP!Good(state) => ChatTurns!StatusFollowsWork /\ ChatTurns!IdsAreUnique
  BY ToolsP!GoodTells
     DEF ChatTurns!StatusFollowsWork, ToolsP!StatusFollowsWork, ChatTurns!IsOpenRequest,
         ToolsP!IsOpenRequest, ChatTurns!IsCall, ToolsP!IsCall, ChatTurns!Blocking,
         ToolsP!Blocking, ChatTurns!ToSet, ToolsP!ToSet, ChatTurns!Last, ToolsP!Last,
         ChatTurns!IdsAreUnique, ToolsP!IdsAreUnique, ChatTurns!Distinct, ToolsP!Distinct,
         ChatTurns!IsWaiting, ToolsP!IsWaiting, ChatTurns!AwaitsUser, ToolsP!AwaitsUser

LEMMA ChatToolsAdvances ==
  ASSUME ToolsP!Good(state), ToolsP!Good(state'), ToolsP!Kept(state, state')
  PROVE  ChatTools!CallAdvances
<1>1. ToolsP!AdvancesFor({aClient})
  BY ToolsP!KeptAdvancesOwn
<1> QED
  BY <1>1 DEF ChatTools!After, ToolsP!After, ChatTools!Settled, ToolsP!Settled, ChatTools!IsCall,
         ToolsP!IsCall, ChatTools!CallAdvances, ToolsP!AdvancesFor, ChatTools!HistoryStands,
         ToolsP!HistoryStands, ChatTools!IsPrefix, ToolsP!IsPrefix, ChatTools!Ids, ToolsP!Ids,
         ChatTools!ToSet, ToolsP!ToSet

-----------------------------------------------------------------------------
(* ChatTurns.                                                              *)

TurnsP == INSTANCE ChatProofs WITH
  chat <- state, None <- Absent, TurnId <- {idA, idB}, PartId <- {}, MaxTurns <- 2,
  MaxParts <- 2, MaxChunks <- 0, ToolCallId <- {}, Client <- {}, RequestId <- {}, Question <- {},
  MessageId <- {}, Directory <- {}, Draft <- {}, Activity <- {}

LEMMA ChatTurnsApart == TurnsP!Apart
  BY AbsentIsNoValue DEF TurnsP!Apart, ChatTurns!ConfirmationReason, TurnsP!ConfirmationReason,
         ChatTurns!CancellationReason, TurnsP!CancellationReason, ChatTurns!ActiveTurn,
         TurnsP!ActiveTurn, ChatTurns!ResponsePart, TurnsP!ResponsePart, ChatTurns!TextPart,
         TurnsP!TextPart, ChatTurns!OtherPart, TurnsP!OtherPart, ChatTurns!ErrorPart,
         TurnsP!ErrorPart, ChatTurns!ToolCallPart, TurnsP!ToolCallPart, ChatTurns!InputRequestPart,
         TurnsP!InputRequestPart, ChatTurns!ToolCall, TurnsP!ToolCall, ChatTurns!ToolCallStatus,
         TurnsP!ToolCallStatus, ChatTurns!ToolCallContent, TurnsP!ToolCallContent,
         ChatTurns!Contributor, TurnsP!Contributor, ChatTurns!Request, TurnsP!Request,
         ChatTurns!Response, TurnsP!Response, ChatTurns!Answers, TurnsP!Answers,
         ChatTools!ConfirmationReason, ChatTools!CancellationReason

LEMMA ChatTurnsStarts == ChatTurns!Init => TurnsP!Good(state)
  BY TurnsP!InitGood DEF ChatTurns!Init, TurnsP!Init

LEMMA ChatTurnsTurnLifecycle == ChatTurns!TurnLifecycle => TurnsP!TurnLifecycle
  BY ZenonT(60) DEF ChatTurns!TurnLifecycle, TurnsP!TurnLifecycle, ChatTurns!TurnProgress,
         TurnsP!TurnProgress, ChatTurns!TurnEnds, TurnsP!TurnEnds, ChatTurns!ReasoningAdded,
         TurnsP!ReasoningAdded, ChatTurns!TurnStarted, TurnsP!TurnStarted,
         ChatTurns!ResponsePartAdded, TurnsP!ResponsePartAdded, ChatTurns!Delta, TurnsP!Delta,
         ChatTurns!TurnComplete, TurnsP!TurnComplete, ChatTurns!TurnCancelled,
         TurnsP!TurnCancelled, ChatTurns!TurnResume, TurnsP!TurnResume, ChatTurns!TurnError,
         TurnsP!TurnError, ChatTurns!Reasoning, TurnsP!Reasoning, ChatTurns!EndTurn,
         TurnsP!EndTurn, ChatTurns!AppendText, TurnsP!AppendText, ChatTurns!RefreshUnread,
         TurnsP!RefreshUnread, ChatTurns!SettlePart, TurnsP!SettlePart, ChatTurns!SettleCall,
         TurnsP!SettleCall, ChatTurns!Settled, TurnsP!Settled, ChatTurns!HasResumableError,
         TurnsP!HasResumableError, ChatTurns!NewParts, TurnsP!NewParts, ChatTurns!OtherPart,
         TurnsP!OtherPart, ChatTurns!ErrorPart, TurnsP!ErrorPart, ChatTurns!KeepOnly,
         TurnsP!KeepOnly, ChatTurns!Ids, TurnsP!Ids, ChatTurns!SelectInSeq, TurnsP!SelectInSeq,
         ChatTurns!Min, TurnsP!Min, ChatTurns!Last, TurnsP!Last, ChatTurns!Front, TurnsP!Front,
         ChatTurns!IsActive, TurnsP!IsActive, ChatTurns!RefreshSummaryStatus,
         TurnsP!RefreshSummaryStatus, ChatTurns!SummaryStatus, TurnsP!SummaryStatus,
         ChatTurns!HasOpenInputRequest, TurnsP!HasOpenInputRequest, ChatTurns!HasBlockingToolCall,
         TurnsP!HasBlockingToolCall, ChatTurns!IsOpenRequest, TurnsP!IsOpenRequest,
         ChatTurns!IsCall, TurnsP!IsCall, ChatTurns!Blocking, TurnsP!Blocking, ChatTurns!ToSet,
         TurnsP!ToSet, ChatTurns!WholeCall, TurnsP!WholeCall, ChatTurns!ConfirmationReason,
         TurnsP!ConfirmationReason, ChatTurns!CancellationReason, TurnsP!CancellationReason,
         ChatTurns!Contributor, TurnsP!Contributor, ChatTurns!InputRequestPart,
         TurnsP!InputRequestPart, ChatTurns!Request, TurnsP!Request, ChatTurns!Response,
         TurnsP!Response, ChatTurns!Answers, TurnsP!Answers, ChatTurns!AwaitsUser,
         TurnsP!AwaitsUser

LEMMA ChatTurnsHistoryChanged == ChatTurns!HistoryChanged => TurnsP!HistoryChanged
  BY ZenonT(60) DEF ChatTurns!HistoryChanged, TurnsP!HistoryChanged, ChatTurns!Truncated,
         TurnsP!Truncated, ChatTurns!TurnsLoaded, TurnsP!TurnsLoaded, ChatTurns!Pages,
         TurnsP!Pages, ChatTurns!IndexOfId, TurnsP!IndexOfId, ChatTurns!SelectInSeq,
         TurnsP!SelectInSeq, ChatTurns!Min, TurnsP!Min, ChatTurns!Ids, TurnsP!Ids,
         ChatTurns!KeepOnly, TurnsP!KeepOnly, ChatTurns!BoundedSeq, TurnsP!BoundedSeq,
         ChatTurns!SeqOf, TurnsP!SeqOf, ChatTurns!RefreshSummaryStatus,
         TurnsP!RefreshSummaryStatus, ChatTurns!SummaryStatus, TurnsP!SummaryStatus,
         ChatTurns!HasOpenInputRequest, TurnsP!HasOpenInputRequest, ChatTurns!HasBlockingToolCall,
         TurnsP!HasBlockingToolCall, ChatTurns!IsOpenRequest, TurnsP!IsOpenRequest,
         ChatTurns!IsCall, TurnsP!IsCall, ChatTurns!Blocking, TurnsP!Blocking, ChatTurns!ToSet,
         TurnsP!ToSet, ChatTurns!OldTurns, TurnsP!OldTurns, ChatTurns!WholeCall, TurnsP!WholeCall,
         ChatTurns!ConfirmationReason, TurnsP!ConfirmationReason, ChatTurns!CancellationReason,
         TurnsP!CancellationReason, ChatTurns!Contributor, TurnsP!Contributor

LEMMA ChatTurnsStep ==
  ASSUME TurnsP!Good(state), ChatTurns!TurnLifecycle \/ ChatTurns!HistoryChanged
  PROVE  TurnsP!Good(state') /\ TurnsP!Kept(state, state')
  BY ChatTurnsApart, ChatTurnsTurnLifecycle, ChatTurnsHistoryChanged, TurnsP!TurnLifecycleGood,
     TurnsP!HistoryChangedGood

LEMMA ChatTurnsTyped == TurnsP!Good(state) => ChatTurns!TypeOK
  BY TurnsP!GoodTells
     DEF ChatTurns!TypeOK, TurnsP!TypeOK, ChatTurns!ChatState,
         TurnsP!ChatState, ChatTurns!Turn, TurnsP!Turn, ChatTurns!ActiveTurn, TurnsP!ActiveTurn,
         ChatTurns!ActivityStatus, TurnsP!ActivityStatus, ChatTurns!Message, TurnsP!Message,
         ChatTurns!ResponsePart, TurnsP!ResponsePart, ChatTurns!TextPart, TurnsP!TextPart,
         ChatTurns!OtherPart, TurnsP!OtherPart, ChatTurns!ErrorPart, TurnsP!ErrorPart,
         ChatTurns!ToolCallPart, TurnsP!ToolCallPart, ChatTurns!InputRequestPart,
         TurnsP!InputRequestPart, ChatTurns!ToolCall, TurnsP!ToolCall, ChatTurns!ToolCallStatus,
         TurnsP!ToolCallStatus, ChatTurns!ToolCallContent, TurnsP!ToolCallContent,
         ChatTurns!ConfirmationReason, TurnsP!ConfirmationReason, ChatTurns!CancellationReason,
         TurnsP!CancellationReason, ChatTurns!Contributor, TurnsP!Contributor, ChatTurns!Request,
         TurnsP!Request, ChatTurns!Response, TurnsP!Response, ChatTurns!Answers, TurnsP!Answers

LEMMA ChatTurnsGoverned ==
  TurnsP!Good(state) => ChatTools!CallsRunConfirmed /\ ChatTools!TurnsAreSettled
  BY TurnsP!GoodTells
     DEF ChatTools!CallsRunConfirmed, TurnsP!CallsRunConfirmed, ChatTools!CallIsConfirmed,
         TurnsP!CallIsConfirmed, ChatTools!LiveCalls, TurnsP!LiveCalls, ChatTools!Calls,
         TurnsP!Calls, ChatTools!TurnsAreSettled, TurnsP!TurnsAreSettled, ChatTools!Settled,
         TurnsP!Settled, ChatTools!IsCall, TurnsP!IsCall, ChatTools!ToSet, TurnsP!ToSet,
         ChatTools!Last, TurnsP!Last

LEMMA ChatTurnsTold ==
  TurnsP!Good(state) => ChatTurns!StatusFollowsWork /\ ChatTurns!IdsAreUnique
  BY TurnsP!GoodTells
     DEF ChatTurns!StatusFollowsWork, TurnsP!StatusFollowsWork, ChatTurns!IsOpenRequest,
         TurnsP!IsOpenRequest, ChatTurns!IsCall, TurnsP!IsCall, ChatTurns!Blocking,
         TurnsP!Blocking, ChatTurns!ToSet, TurnsP!ToSet, ChatTurns!Last, TurnsP!Last,
         ChatTurns!IdsAreUnique, TurnsP!IdsAreUnique, ChatTurns!Distinct, TurnsP!Distinct,
         ChatTurns!IsWaiting, TurnsP!IsWaiting, ChatTurns!AwaitsUser, TurnsP!AwaitsUser

LEMMA ChatTurnsAdvances ==
  ASSUME TurnsP!Good(state), TurnsP!Good(state'), TurnsP!Kept(state, state')
  PROVE  ChatTools!CallAdvances
<1>1. TurnsP!AdvancesFor({aClient})
  BY TurnsP!KeptAdvancesFor, AbsentIsNoValue DEF TurnsP!Contributor
<1> QED
  BY <1>1 DEF ChatTools!After, TurnsP!After, ChatTools!Settled, TurnsP!Settled, ChatTools!IsCall,
         TurnsP!IsCall, ChatTools!CallAdvances, TurnsP!AdvancesFor, ChatTools!HistoryStands,
         TurnsP!HistoryStands, ChatTools!IsPrefix, TurnsP!IsPrefix, ChatTools!Ids, TurnsP!Ids,
         ChatTools!ToSet, TurnsP!ToSet

-----------------------------------------------------------------------------
(* The specification.                                                      *)

ChatsGood ==
  /\ channel = "chat tools" => ToolsP!Good(state)
  /\ channel = "chat calls" => CallsP!Good(state)
  /\ channel = "chat turns" => TurnsP!Good(state)
  /\ channel = "chat inputs" => InputsP!Good(state)
  /\ channel = "chat pending" => PendingP!Good(state)

LEMMA ChatsStart == ChannelInit => ChatsGood
<1> SUFFICES ASSUME ChannelInit PROVE ChatsGood
  OBVIOUS
<1> USE DEF ChannelInit
<1>1. CASE channel = "chat tools"
  BY <1>1, ChatToolsStarts DEF ChatsGood
<1>2. CASE channel = "chat calls"
  BY <1>2, ChatCallsStarts DEF ChatsGood
<1>3. CASE channel = "chat turns"
  BY <1>3, ChatTurnsStarts DEF ChatsGood
<1>4. CASE channel = "chat inputs"
  BY <1>4, ChatInputsStarts DEF ChatsGood
<1>5. CASE channel = "chat pending"
  BY <1>5, ChatPendingStarts DEF ChatsGood
<1>6. CASE ~IsChat
  BY <1>6 DEF IsChat, ChatsGood
<1> QED BY <1>1, <1>2, <1>3, <1>4, <1>5, <1>6 DEF IsChat

LEMMA ChatsStep ==
  ASSUME ChatsGood, ChannelNext
  PROVE  ChatsGood' /\ (IsChat => ChatTools!CallAdvances)
<1>0. channel' = channel
  BY DEF ChannelNext
<1>1. CASE channel = "chat tools"
  <2>1. ToolsP!Good(state) /\ (ChatTools!TurnLifecycle \/ ChatTools!HistoryChanged \/ ChatTools!ToolCalls)
    BY <1>1 DEF ChatsGood, ChannelNext
  <2>2. ToolsP!Good(state') /\ ToolsP!Kept(state, state')
    BY <2>1, ChatToolsStep
  <2> QED BY <1>0, <1>1, <2>1, <2>2, ChatToolsAdvances DEF ChatsGood
<1>2. CASE channel = "chat calls"
  <2>1. CallsP!Good(state) /\ (ChatCalls!TurnLifecycle \/ ChatCalls!ToolCalls)
    BY <1>2 DEF ChatsGood, ChannelNext
  <2>2. CallsP!Good(state') /\ CallsP!Kept(state, state')
    BY <2>1, ChatCallsStep
  <2> QED BY <1>0, <1>2, <2>1, <2>2, ChatCallsAdvances DEF ChatsGood
<1>3. CASE channel = "chat turns"
  <2>1. TurnsP!Good(state) /\ (ChatTurns!TurnLifecycle \/ ChatTurns!HistoryChanged)
    BY <1>3 DEF ChatsGood, ChannelNext
  <2>2. TurnsP!Good(state') /\ TurnsP!Kept(state, state')
    BY <2>1, ChatTurnsStep
  <2> QED BY <1>0, <1>3, <2>1, <2>2, ChatTurnsAdvances DEF ChatsGood
<1>4. CASE channel = "chat inputs"
  <2>1. InputsP!Good(state) /\ (ChatInputs!TurnLifecycle \/ ChatInputs!Inputs)
    BY <1>4 DEF ChatsGood, ChannelNext
  <2>2. InputsP!Good(state') /\ InputsP!Kept(state, state')
    BY <2>1, ChatInputsStep
  <2> QED BY <1>0, <1>4, <2>1, <2>2, ChatInputsAdvances DEF ChatsGood
<1>5. CASE channel = "chat pending"
  <2>1. PendingP!Good(state) /\ (ChatPending!TurnLifecycle \/ ChatPending!PendingMessages
                                \/ ChatPending!Surroundings)
    BY <1>5 DEF ChatsGood, ChannelNext
  <2>2. PendingP!Good(state') /\ PendingP!Kept(state, state')
    BY <2>1, ChatPendingStep
  <2> QED BY <1>0, <1>5, <2>1, <2>2, ChatPendingAdvances DEF ChatsGood
<1>6. CASE ~IsChat
  BY <1>0, <1>6 DEF IsChat, ChatsGood
<1> QED BY <1>1, <1>2, <1>3, <1>4, <1>5, <1>6 DEF IsChat

\* Every chat of every slice is Good in every state.

LEMMA ChatsInvariance == ChannelSpec => []ChatsGood
<1>1. ChatsGood /\ UNCHANGED channelVars => ChatsGood'
  <2> SUFFICES ASSUME ChatsGood, UNCHANGED channelVars PROVE ChatsGood'
    OBVIOUS
  <2>1. channel' = channel /\ state' = state
    BY DEF channelVars
  <2> QED BY <2>1 DEF ChatsGood
<1>2. ChatsGood /\ [ChannelNext]_channelVars => ChatsGood'
  BY <1>1, ChatsStep
<1> QED BY <1>2, ChatsStart, PTL DEF ChannelSpec

\* A tool of a chat runs only once it is confirmed, and a turn that has ended leaves no call
\* unsettled, whatever the actions of the log and their order (channels-chat/reducer.ts).
THEOREM ToolsGoverned == ChannelSpec => []ToolsAreGoverned
<1>1. ChatsGood => ToolsAreGoverned
  BY ChatToolsGoverned, ChatCallsGoverned, ChatTurnsGoverned, ChatInputsGoverned, ChatPendingGoverned
     DEF ChatsGood, ToolsAreGoverned, IsChat
<1> QED BY <1>1, ChatsInvariance, PTL

\* No action of a log takes a tool call back in its life, hands it to another client, settles it
\* twice, or changes a turn that has ended (channels-chat/reducer.ts).
THEOREM ToolCallsAdvance == ChannelSpec => ToolCallsOnlyAdvance
<1>1. ChatsGood /\ [ChannelNext]_channelVars
        => [IsChat => ChatTools!CallAdvances]_channelVars
  BY ChatsStep
<1> QED BY <1>1, ChatsInvariance, PTL DEF ChannelSpec, ToolCallsOnlyAdvance

=============================================================================
