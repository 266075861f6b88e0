---------------------------- MODULE ChatChannel ----------------------------
(***************************************************************************)
(* The state of an ahp-chat: channel and the reducer that advances it      *)
(* (channels-chat/reducer.ts).  `chat' is the replica the inspector        *)
(* rebuilds from the log: every action of a log is one step, whatever it   *)
(* finds there.  An action the reducer ignores leaves the state as it is   *)
(* and is no step here, except where the early return still recomputes the *)
(* status.                                                                 *)
(*                                                                         *)
(* Texts, titles, timestamps and token counts are abstracted: a message is *)
(* its id, streamed text is how often it was appended to, what a tool call *)
(* has produced is one of four words.                                      *)
(***************************************************************************)
EXTENDS KeyedLists

CONSTANTS
  TurnId, ToolCallId, PartId, RequestId, Question,
  MessageId,        \* ids of pending messages
  Directory, Draft, Activity,
  Client,           \* the clients that may contribute a tool
  MaxTurns, MaxParts, MaxChunks,   \* bounds of the model
  None              \* none of the ids

VARIABLE chat

-----------------------------------------------------------------------------
(* The values of the channel's state. *)

\* Who runs a tool: an MCP server ("mcp"), a client, or the agent host itself (None).
Contributor == {None, "mcp"} \cup Client

ToolCallStatus ==
  {"streaming", "pending-confirmation", "running", "auth-required",
   "pending-result-confirmation", "completed", "cancelled"}

\* "user-action" stands for a setting as well.
ConfirmationReason == {"not-needed", "user-action"}
CancellationReason == {"denied", "skipped", "result-denied"}

\* What a call has to show: the input as it streams, partial output, or the result.
ToolCallContent == {"input", "partial", "result"}

\* One record for the seven lifecycle states; a field a state does not have is None.
ToolCall ==
  [id : ToolCallId, status : ToolCallStatus, contributor : Contributor,
   confirmed : ConfirmationReason \cup {None}, reason : CancellationReason \cup {None},
   success : {"yes", "no", None}, content : ToolCallContent \cup {None}]

TextPart == [kind : {"markdown", "reasoning"}, id : PartId, chunks : 0..MaxChunks]
\* A content reference or a system notification: nothing later looks at one.
OtherPart == [kind : {"other"}]
ToolCallPart == [kind : {"toolCall"}, call : ToolCall]
ErrorPart == [kind : {"error"}, resumable : BOOLEAN]

\* The questions with a draft or submitted answer, None for no answers field.
Answers == (SUBSET Question) \cup {None}
Request == [id : RequestId, answers : Answers]
Response == {"accept", "decline", "cancel"}
InputRequestPart ==
  [kind : {"inputRequest"}, request : Request, response : Response \cup {None}]

ResponsePart == TextPart \cup OtherPart \cup ToolCallPart \cup ErrorPart \cup InputRequestPart

\* usage: whether token usage was reported.
Turn ==
  [id : TurnId, parts : Seq(ResponsePart), usage : BOOLEAN,
   state : {"complete", "cancelled", "error"}]
ActiveTurn == [id : TurnId, parts : Seq(ResponsePart), usage : BOOLEAN]

\* The activity bits of SessionStatus; IsRead is a flag of its own, `isRead'.
ActivityStatus == {"Idle", "InProgress", "InputNeeded", "Error"}

\* A message, with its origin and attachments, is its id.
Message == MessageId

\* queued and dirs are None where the field is absent.  `unseen' is no field of the code's but a
\* history variable: a part that waits for the user came whole since the status was last recomputed.
ChatState ==
  [turns : Seq(Turn), more : BOOLEAN, active : ActiveTurn \cup {None},
   status : ActivityStatus, isRead : BOOLEAN, unseen : BOOLEAN,
   steering : Message \cup {None}, queued : Seq(Message) \cup {None},
   dirs : Seq(Directory) \cup {None}, draft : Draft \cup {None},
   activity : Activity \cup {None}]

\* A chat as a snapshot first shows it: idle, older turns perhaps still to load.
Init ==
  \E more, isRead \in BOOLEAN :
    chat = [turns |-> <<>>, more |-> more, active |-> None, status |-> "Idle",
            isRead |-> isRead, unseen |-> FALSE, steering |-> None, queued |-> None, dirs |-> None,
            draft |-> None, activity |-> None]

-----------------------------------------------------------------------------
(* The reducer's helpers. *)

Settled == {"completed", "cancelled"}
Blocking == {"pending-confirmation", "pending-result-confirmation", "auth-required"}

IsCall(p) == p.kind = "toolCall"
IsOpenRequest(p) == p.kind = "inputRequest" /\ p.response = None
AwaitsUser(p) == IsOpenRequest(p) \/ (IsCall(p) /\ p.call.status \in Blocking)

HasBlockingToolCall(c) ==
  /\ c.active # None
  /\ \E p \in ToSet(c.active.parts) : IsCall(p) /\ p.call.status \in Blocking

HasOpenInputRequest(c) ==
  c.active # None /\ \E p \in ToSet(c.active.parts) : IsOpenRequest(p)

\* mutated form: the requests for input are forgotten
SummaryStatusOfCalls(c) ==
  IF HasBlockingToolCall(c) THEN "InputNeeded" ELSE IF c.active # None THEN "InProgress" ELSE "Idle"

\* The activity that follows from live work alone.
SummaryStatus(c) ==
  IF HasOpenInputRequest(c) \/ HasBlockingToolCall(c) THEN "InputNeeded"
  ELSE IF c.active # None THEN "InProgress" ELSE "Idle"

RefreshSummaryStatus(c) == [c EXCEPT !.status = SummaryStatus(c), !.unseen = FALSE]
RefreshUnread(c) == [RefreshSummaryStatus(c) EXCEPT !.isRead = FALSE]

\* Ownership by a client is set when the call starts; nothing later adds, moves or drops it.
RefineToolCallContributor(current, next) ==
  IF next = None \/ (next \in Client /\ next # current) \/ (current \in Client /\ next # current)
  THEN current ELSE next

\* The open request part with this id, 0 when there is none.
OpenRequestIndex(parts, r) ==
  SelectInSeq(parts, LAMBDA p : IsOpenRequest(p) /\ p.request.id = r)

HasResumableError(turn) ==
  /\ turn.parts # <<>>
  /\ Last(turn.parts).kind = "error"
  /\ Last(turn.parts).resumable

IsActive(t) == chat.active # None /\ chat.active.id = t

\* Update every call with this id in the turn's parts; without one the chat is returned as it is.
UpdateToolCallInParts(t, c, Updater(_)) ==
  LET Updated(p) ==
        IF IsCall(p) /\ p.call.id = c THEN [p EXCEPT !.call = Updater(p.call)] ELSE p
  IN  IF ~IsActive(t) THEN chat
      ELSE [chat EXCEPT !.active.parts = [i \in DOMAIN @ |-> Updated(@[i])]]

\* Append to the first part with this id, a call having its own, when it is a text of this kind.
AppendText(t, p, kind) ==
  /\ IsActive(t)
  /\ LET Named(q) == IF IsCall(q) THEN q.call.id = p ELSE "id" \in DOMAIN q /\ q.id = p
         i == SelectInSeq(chat.active.parts, Named)
     IN  /\ i # 0
         /\ chat.active.parts[i].kind = kind
         /\ chat.active.parts[i].chunks < MaxChunks
         /\ chat' = [chat EXCEPT !.active.parts[i].chunks = @ + 1]

-----------------------------------------------------------------------------
(* Turn lifecycle. *)

\* A turn that starts takes the place of an active one without finalising it, and consumes the
\* pending message it was started from.
TurnStarted(t, m) ==
  LET next == [chat EXCEPT !.active = [id |-> t, parts |-> <<>>, usage |-> FALSE]]
      left == IF chat.queued = None THEN None
              ELSE KeepOnly(chat.queued, ToSet(chat.queued) \ {m})
  IN  /\ Len(chat.turns) < MaxTurns
      /\ chat' = [RefreshUnread(next) EXCEPT
                    !.steering = IF @ = m THEN None ELSE @,
                    !.queued = IF left = <<>> THEN None ELSE left]

Delta(t, p) == AppendText(t, p, "markdown")
Reasoning(t, p) == AppendText(t, p, "reasoning")

\* Error parts are ignored here; any other part is taken as it is, and the status stays what it was.
ResponsePartAdded(t, p) ==
  /\ IsActive(t)
  /\ p.kind # "error"
  /\ Len(chat.active.parts) < MaxParts
  /\ chat' = [chat EXCEPT !.active.parts = Append(@, p), !.unseen = @ \/ AwaitsUser(p)]

\* mutated form: a call that waits for the user outlives the turn
SettleCallUnlessBlocked(call) ==
  IF call.status \in Settled \cup Blocking THEN call
  ELSE [call EXCEPT !.status = "cancelled", !.reason = "skipped", !.confirmed = None,
                    !.success = None, !.content = None]

\* A call the turn leaves unsettled is cancelled with it.
SettleCall(call) ==
  IF call.status \in Settled THEN call
  ELSE [call EXCEPT !.status = "cancelled", !.reason = "skipped", !.confirmed = None,
                    !.success = None, !.content = None]

SettlePart(p) == IF IsCall(p) THEN [p EXCEPT !.call = SettleCall(@)] ELSE p

EndTurn(t, how, errors) ==
  /\ IsActive(t)
  /\ LET turn == [id |-> t, usage |-> chat.active.usage, state |-> how,
                  parts |-> [i \in DOMAIN chat.active.parts |-> SettlePart(chat.active.parts[i])]
                            \o errors]
         next == [chat EXCEPT !.turns = Append(@, turn), !.active = None]
     IN  chat' = [RefreshSummaryStatus(next) EXCEPT !.status = IF how = "error" THEN "Error" ELSE @]

TurnComplete(t) == EndTurn(t, "complete", <<>>)
TurnCancelled(t) == EndTurn(t, "cancelled", <<>>)
TurnError(t, resumable) == EndTurn(t, "error", <<[kind |-> "error", resumable |-> resumable]>>)

\* Only the latest turn, and only while it is stopped at an error the host can resume from.
TurnResume(t) ==
  /\ chat.active = None
  /\ chat.turns # <<>>
  /\ LET turn == Last(chat.turns)
     IN  /\ turn.id = t
         /\ turn.state = "error"
         /\ HasResumableError(turn)
         /\ Len(turn.parts) < MaxParts
         /\ chat' = RefreshUnread(
                      [chat EXCEPT !.turns = Front(@),
                                   !.active = [id |-> t, parts |-> turn.parts,
                                               usage |-> turn.usage]])

Usage(t) ==
  /\ IsActive(t)
  /\ ~chat.active.usage
  /\ chat' = [chat EXCEPT !.active.usage = TRUE]

\* Keep the turns up to t, or none (t = None); a turn under way is dropped.
Truncated(t) ==
  LET kept == IF t = None THEN <<>>
              ELSE SubSeq(chat.turns, 1, IndexOfId(chat.turns, t))
  IN  /\ t # None => t \in Ids(chat.turns)
      /\ chat' = RefreshSummaryStatus(
                   [chat EXCEPT !.turns = kept, !.active = None, !.more = @ /\ t # None])

\* mutated form: the page is taken as it is
TurnsLoadedTwice(page, more) ==
  /\ Len(page) + Len(chat.turns) <= MaxTurns
  /\ chat' = [chat EXCEPT !.turns = page \o @, !.more = more]

\* A page of older turns, oldest first; those whose ids are already here are left out.
TurnsLoaded(page, more) ==
  LET older == KeepOnly(page, {turn \in ToSet(page) : turn.id \notin Ids(chat.turns)})
  IN  /\ Len(older) + Len(chat.turns) <= MaxTurns
      /\ chat' = [chat EXCEPT !.turns = older \o @, !.more = more]

-----------------------------------------------------------------------------
(* The tool call state machine. *)

\* Where a tool call changes state, the status is recomputed even if no call was found.
ToolCallStep(t, c, Updater(_)) ==
  chat' = RefreshSummaryStatus(UpdateToolCallInParts(t, c, Updater))

ToolCallStart(t, c, by) ==
  /\ IsActive(t)
  /\ Len(chat.active.parts) < MaxParts
  /\ LET call == [id |-> c, status |-> "streaming", contributor |-> by, confirmed |-> None,
                  reason |-> None, success |-> None, content |-> None]
     IN  chat' = [chat EXCEPT !.active.parts = Append(@, [kind |-> "toolCall", call |-> call])]

ToolCallDelta(t, c) ==
  LET Stream(call) == IF call.status = "streaming" THEN [call EXCEPT !.content = "input"] ELSE call
  IN  chat' = UpdateToolCallInParts(t, c, Stream)

\* Parameters are complete, or a running call asks again: with a reason it runs, else it waits.
ToolCallReady(t, c, by, confirmed) ==
  LET Ready(call) ==
        IF call.status \notin {"streaming", "running", "pending-confirmation"} THEN call
        ELSE [call EXCEPT
                !.status = IF confirmed = None THEN "pending-confirmation" ELSE "running",
                !.contributor = RefineToolCallContributor(@, by),
                !.confirmed = confirmed, !.content = None]
  IN  ToolCallStep(t, c, Ready)

ToolCallApproved(t, c, confirmed) ==
  LET Approve(call) ==
        IF call.status # "pending-confirmation" THEN call
        ELSE [call EXCEPT !.status = "running", !.confirmed = confirmed]
  IN  ToolCallStep(t, c, Approve)

ToolCallDenied(t, c, reason) ==
  LET Deny(call) ==
        IF call.status # "pending-confirmation" THEN call
        ELSE [call EXCEPT !.status = "cancelled", !.reason = reason]
  IN  ToolCallStep(t, c, Deny)

\* From auth-required only a failure completes, at once and with what the call had produced.
ToolCallComplete(t, c, success, hasContent, review) ==
  LET Complete(call) ==
        IF \/ call.status \notin {"running", "pending-confirmation", "auth-required"}
           \/ call.status = "auth-required" /\ success = "yes"
        THEN call
        ELSE [call EXCEPT
                !.status = IF review /\ call.status # "auth-required"
                           THEN "pending-result-confirmation" ELSE "completed",
                !.confirmed = IF call.status = "pending-confirmation" THEN "not-needed" ELSE @,
                !.success = success,
                !.content = IF hasContent THEN "result"
                            ELSE IF call.status = "auth-required" THEN @ ELSE None]
  IN  ToolCallStep(t, c, Complete)

ToolCallResultConfirmed(t, c, approved) ==
  LET Confirm(call) ==
        IF call.status # "pending-result-confirmation" THEN call
        ELSE IF approved THEN [call EXCEPT !.status = "completed"]
        ELSE [call EXCEPT !.status = "cancelled", !.reason = "result-denied",
                          !.confirmed = None, !.success = None, !.content = None]
  IN  ToolCallStep(t, c, Confirm)

ToolCallContentChanged(t, c) ==
  LET Change(call) == IF call.status = "running" THEN [call EXCEPT !.content = "partial"] ELSE call
  IN  chat' = UpdateToolCallInParts(t, c, Change)

ToolCallAuthRequired(t, c) ==
  LET Pause(call) ==
        IF call.status = "running" /\ call.contributor = "mcp"
        THEN [call EXCEPT !.status = "auth-required"] ELSE call
  IN  ToolCallStep(t, c, Pause)

ToolCallAuthResolved(t, c) ==
  LET Resume(call) ==
        IF call.status = "auth-required" THEN [call EXCEPT !.status = "running"] ELSE call
  IN  ToolCallStep(t, c, Resume)

-----------------------------------------------------------------------------
(* Input requests: parts of the active turn, whichever it is. *)

Answered(answers) == IF answers = None THEN {} ELSE answers
AnswersField(answered) == IF answered = {} THEN None ELSE answered

\* The open part of this request is replaced, its drafts kept unless the new one brings answers.
InputRequested(request) ==
  /\ chat.active # None
  /\ LET parts == chat.active.parts
         i == OpenRequestIndex(parts, request.id)
         Part(answers) == [kind |-> "inputRequest", response |-> None,
                           request |-> [request EXCEPT !.answers = answers]]
         kept == IF request.answers = None THEN parts[i].request.answers ELSE request.answers
     IN  /\ i = 0 => Len(parts) < MaxParts
         /\ chat' = RefreshUnread(
                      [chat EXCEPT !.active.parts =
                         IF i = 0 THEN Append(@, Part(request.answers))
                         ELSE ReplaceAt(@, i, Part(kept))])

InputAnswerChanged(r, question, answered) ==
  /\ chat.active # None
  /\ LET i == OpenRequestIndex(chat.active.parts, r)
     IN  /\ i # 0
         /\ chat' = [chat EXCEPT !.active.parts[i].request.answers =
                       AnswersField(IF answered THEN Answered(@) \cup {question}
                                    ELSE Answered(@) \ {question})]

InputCompleted(r, response, answers) ==
  /\ chat.active # None
  /\ LET i == OpenRequestIndex(chat.active.parts, r)
     IN  /\ i # 0
         /\ chat' = RefreshSummaryStatus(
                      [chat EXCEPT !.active.parts[i].request.answers =
                                     AnswersField(Answered(@) \cup Answered(answers)),
                                   !.active.parts[i].response = response])

-----------------------------------------------------------------------------
(* Pending messages, draft, activity, working directories. *)

\* mutated form: a message that is known is queued again
PendingMessageAppended(kind, m) ==
  chat' = IF kind = "steering" THEN [chat EXCEPT !.steering = m]
          ELSE [chat EXCEPT !.queued = Append(IF @ = None THEN <<>> ELSE @, m)]

PendingMessageSet(kind, m) ==
  chat' = IF kind = "steering" THEN [chat EXCEPT !.steering = m]
          ELSE [chat EXCEPT !.queued = Include(IF @ = None THEN <<>> ELSE @, m)]

PendingMessageRemoved(kind, m) ==
  \/ /\ kind = "steering"
     /\ chat.steering = m
     /\ chat' = [chat EXCEPT !.steering = None]
  \/ /\ kind = "queued"
     /\ chat.queued # None
     /\ m \in ToSet(chat.queued)
     /\ LET left == KeepOnly(chat.queued, ToSet(chat.queued) \ {m})
        IN  chat' = [chat EXCEPT !.queued = IF left = <<>> THEN None ELSE left]

\* The ids named come first, in that order and once each; the others follow as they were.
QueuedMessagesReordered(order) ==
  /\ chat.queued # None
  /\ LET First(i) == \A j \in DOMAIN order : order[j] = order[i] => i <= j
         places == KeepOnly([i \in DOMAIN order |-> i],
                            {i \in DOMAIN order : order[i] \in ToSet(chat.queued) /\ First(i)})
         named == [k \in DOMAIN places |-> order[places[k]]]
         rest == KeepOnly(chat.queued, ToSet(chat.queued) \ ToSet(order))
     IN  chat' = [chat EXCEPT !.queued = named \o rest]

DraftChanged(d) == chat' = [chat EXCEPT !.draft = d]
ActivityChanged(a) == chat' = [chat EXCEPT !.activity = a]

WorkingDirectorySet(d) == chat' = [chat EXCEPT !.dirs = Include(IF @ = None THEN <<>> ELSE @, d)]

WorkingDirectoryRemoved(d) ==
  /\ chat.dirs # None
  /\ chat' = [chat EXCEPT !.dirs = RemoveFirst(@, d)]

-----------------------------------------------------------------------------
\* A whole call as its type allows it, in any state of its life, with nothing to show yet.
WholeCall ==
  LET In(statuses, by, confirmed, reasons, success) ==
        [id : ToolCallId, status : statuses, contributor : by, confirmed : confirmed,
         reason : reasons, success : success, content : {None}]
  IN  In({"streaming", "pending-confirmation"}, Contributor, {None}, {None}, {None})
      \cup In({"running"}, Contributor, ConfirmationReason, {None}, {None})
      \cup In({"auth-required"}, {"mcp"}, ConfirmationReason, {None}, {None})
      \cup In({"pending-result-confirmation", "completed"}, Contributor, ConfirmationReason,
              {None}, {"yes", "no"})
      \cup In({"cancelled"}, Contributor, {None}, CancellationReason, {None})

\* The parts a host may append as they are: text, a notification, a call, a request, an error.
NewParts ==
  [kind : {"markdown", "reasoning"}, id : PartId, chunks : {0}] \cup OtherPart \cup ErrorPart
    \cup [kind : {"toolCall"}, call : WholeCall] \cup InputRequestPart

\* The turns a host loads ended there: one that said nothing, one cancelled with its call, one that
\* failed and can be resumed.
OldTurns ==
  LET Ended(parts, how) == [id : TurnId, parts : parts, usage : {FALSE}, state : {how}]
      skipped == {call \in WholeCall : call.status = "cancelled" /\ call.reason = "skipped"}
  IN  Ended({<<>>}, "complete")
      \cup Ended({<<p>> : p \in [kind : {"toolCall"}, call : skipped]}, "cancelled")
      \cup Ended({<<[kind |-> "error", resumable |-> TRUE]>>}, "error")

Pages == BoundedSeq(OldTurns, 2)

TurnProgress ==
  \E t \in TurnId :
    \/ \E m \in MessageId \cup {None} : TurnStarted(t, m)
    \/ \E p \in NewParts : ResponsePartAdded(t, p)
    \/ \E p \in PartId : Delta(t, p)

TurnEnds ==
  \E t \in TurnId :
    \/ TurnComplete(t) \/ TurnCancelled(t) \/ TurnResume(t)
    \/ \E resumable \in BOOLEAN : TurnError(t, resumable)

ReasoningAdded == \E t \in TurnId, p \in PartId : Reasoning(t, p)

TurnLifecycle == TurnProgress \/ TurnEnds \/ ReasoningAdded

HistoryChanged ==
  \/ \E t \in TurnId \cup {None} : Truncated(t)
  \/ \E page \in Pages, more \in BOOLEAN : TurnsLoaded(page, more)

ToolCallProgress ==
  \E t \in TurnId, c \in ToolCallId :
    \/ \E by \in Contributor : ToolCallStart(t, c, by)
    \/ \E by \in Contributor, how \in ConfirmationReason \cup {None} : ToolCallReady(t, c, by, how)
    \/ \E how \in ConfirmationReason : ToolCallApproved(t, c, how)
    \/ ToolCallDelta(t, c)

ToolCallOutcome ==
  \E t \in TurnId, c \in ToolCallId :
    \/ \E why \in {"denied", "skipped"} : ToolCallDenied(t, c, why)
    \/ \E success \in {"yes", "no"}, hasContent, review \in BOOLEAN :
         ToolCallComplete(t, c, success, hasContent, review)
    \/ \E approved \in BOOLEAN : ToolCallResultConfirmed(t, c, approved)
    \/ ToolCallContentChanged(t, c)
    \/ ToolCallAuthRequired(t, c) \/ ToolCallAuthResolved(t, c)

ToolCalls == ToolCallProgress \/ ToolCallOutcome

Inputs ==
  \/ \E request \in Request : InputRequested(request)
  \/ \E r \in RequestId, q \in Question, answered \in BOOLEAN : InputAnswerChanged(r, q, answered)
  \/ \E r \in RequestId, response \in Response, answers \in Answers :
       InputCompleted(r, response, answers)

PendingMessages ==
  \/ \E kind \in {"steering", "queued"}, m \in MessageId :
       PendingMessageSet(kind, m) \/ PendingMessageRemoved(kind, m)
  \/ \E order \in BoundedSeq(MessageId, 3) : QueuedMessagesReordered(order)
  \/ \E d \in Draft \cup {None} : DraftChanged(d)

Surroundings ==
  \/ \E t \in TurnId : Usage(t)
  \/ \E x \in Activity \cup {None} : ActivityChanged(x)
  \/ \E d \in Directory : WorkingDirectorySet(d) \/ WorkingDirectoryRemoved(d)

Next ==
  TurnLifecycle \/ HistoryChanged \/ ToolCalls \/ Inputs \/ PendingMessages \/ Surroundings

Spec == Init /\ [][Next]_chat

-----------------------------------------------------------------------------
(* Properties. *)

TypeOK == chat \in ChatState

Calls(parts) == {p.call : p \in {q \in ToSet(parts) : IsCall(q)}}
LiveCalls == IF chat.active = None THEN {} ELSE Calls(chat.active.parts)

\* A call runs, or has run, only with a reason recorded for it; only an MCP server's call asks for
\* a login; a cancelled call, and no other, says why; only one that has run has an outcome.
CallIsConfirmed(call) ==
  /\ call.status \in {"running", "auth-required", "pending-result-confirmation", "completed"}
       => call.confirmed # None
  /\ call.status = "auth-required" => call.contributor = "mcp"
  /\ call.status = "cancelled" <=> call.reason # None
  /\ call.status \in {"pending-result-confirmation", "completed"} <=> call.success # None

CallsRunConfirmed ==
  /\ \A call \in LiveCalls : CallIsConfirmed(call)
  /\ \A turn \in ToSet(chat.turns) : \A call \in Calls(turn.parts) : CallIsConfirmed(call)

\* A turn that has ended leaves no call unsettled, and says where it failed.
TurnsAreSettled ==
  \A turn \in ToSet(chat.turns) :
    /\ \A call \in Calls(turn.parts) : call.status \in Settled
    /\ turn.state = "error" => turn.parts # <<>> /\ Last(turn.parts).kind = "error"

IsWaiting == chat.active # None /\ \E p \in ToSet(chat.active.parts) : AwaitsUser(p)

\* The status, which handlers recompute one by one, is what the turns say: blocked on a prompt, at
\* work, or idle; an error only while the latest turn is the one that failed.  Only a part that came
\* whole, which no handler looks at, may wait behind a status of work, until the next recomputation.
StatusFollowsWork ==
  /\ chat.status = "InputNeeded" => IsWaiting
  /\ IsWaiting /\ ~chat.unseen => chat.status = "InputNeeded"
  /\ chat.status \in {"InProgress", "InputNeeded"} <=> chat.active # None
  /\ chat.status = "Error" => chat.turns # <<>> /\ Last(chat.turns).state = "error"

\* Every message in the queue and every directory is there once; an empty queue is absent.
IdsAreUnique ==
  /\ chat.queued # None => chat.queued # <<>> /\ Distinct(chat.queued)
  /\ chat.dirs # None => Distinct(chat.dirs)

\* The states a call may reach in one step.
After(status) ==
  CASE status = "streaming" -> {"pending-confirmation", "running"}
    [] status = "pending-confirmation" ->
         {"running", "cancelled", "completed", "pending-result-confirmation"}
    [] status = "running" ->
         {"pending-confirmation", "auth-required", "completed", "pending-result-confirmation"}
    [] status = "auth-required" -> {"running", "completed"}
    [] status = "pending-result-confirmation" -> {"completed", "cancelled"}
    [] OTHER -> {}

\* The turns that have ended stay as they are and in their order: the latest are dropped, one is
\* added after them, or older ones, not known by their ids, before them.
HistoryStands ==
  LET added == Len(chat'.turns) - Len(chat.turns)
  IN  \/ IsPrefix(chat'.turns, chat.turns)
      \/ IsPrefix(chat.turns, chat'.turns) /\ added = 1
      \/ /\ Len(chat.turns) <= Len(chat'.turns)
         /\ SubSeq(chat'.turns, added + 1, Len(chat'.turns)) = chat.turns
         /\ \A i \in 1..added : chat'.turns[i].id \notin Ids(chat.turns)

\* A call goes from one state of its life to a next one, is never settled twice, and a client's call
\* stays that client's.  While one turn is under way in a row, that is: another may have its id.
CallAdvances ==
  /\ chat.active # None /\ chat'.active # None /\ chat'.active.id = chat.active.id =>
       \A i \in DOMAIN chat.active.parts \cap DOMAIN chat'.active.parts :
         LET p == chat.active.parts[i]
             q == chat'.active.parts[i]
         IN  IsCall(p) =>
               /\ IsCall(q) /\ q.call.id = p.call.id
               /\ q.call.status \in {p.call.status} \cup After(p.call.status)
               /\ p.call.status \in Settled => q = p
               /\ {p.call.contributor, q.call.contributor} \cap Client # {}
                    => q.call.contributor = p.call.contributor
  /\ HistoryStands

CallsOnlyAdvance == [][CallAdvances]_chat
=============================================================================
