-------------------------- MODULE TerminalChannel --------------------------
(***************************************************************************)
(* The state of an ahp-terminal: channel and its reducer                   *)
(* (channels-terminal/reducer.ts): typed content parts that a stream of    *)
(* output is cut into while commands start, finish and the scrollback is   *)
(* cleared.  Output is abstracted to the number of each chunk in order.    *)
(***************************************************************************)
EXTENDS Naturals, Sequences, SequencesExt

CONSTANTS
  CommandId, Holder, Value,
  MaxData, MaxParts,   \* bounds of the model: chunks of output, parts when a command starts
  None

\* sent: the chunks since the scrollback was last cleared; executing: the commands started and not
\* finished.  Both are history for the properties: what the server did, not what the reducer keeps.
VARIABLE terminal

TerminalCommandPart == [type : {"command"}, id : CommandId, data : Seq(1..MaxData), isComplete : BOOLEAN]
TerminalUnclassifiedPart == [type : {"unclassified"}, data : Seq(1..MaxData)]
TerminalLifecycle == {"running", "exited"}

TypeOK ==
  /\ terminal.content \in Seq(TerminalCommandPart \cup TerminalUnclassifiedPart)
  /\ terminal.lifecycle \in TerminalLifecycle
  /\ terminal.claim \in Holder
  /\ terminal.detects \in BOOLEAN
  /\ {terminal.size, terminal.title, terminal.cwd} \subseteq Value \cup {None}
  /\ terminal.count \in 0..MaxData
  /\ terminal.sent \in Seq(1..MaxData)
  /\ terminal.executing \subseteq CommandId

\* As a terminal is created.
Init ==
  \E h \in Holder, detects \in BOOLEAN :
    terminal = [content |-> <<>>, lifecycle |-> "running", claim |-> h, detects |-> detects,
                size |-> None, title |-> None, cwd |-> None,
                count |-> 0, sent |-> <<>>, executing |-> {}]

\* A command part that is the tail and open, or an unclassified tail, takes the chunk; otherwise a
\* new unclassified part does.
TerminalData ==
  LET n == terminal.count + 1
      content == terminal.content
      takes == content # <<>> /\ (Last(content).type = "command" => ~Last(content).isComplete)
  IN  /\ terminal.count < MaxData
      /\ terminal' = [terminal EXCEPT
           !.content = IF takes THEN [@ EXCEPT ![Len(@)].data = Append(@, n)]
                       ELSE Append(@, [type |-> "unclassified", data |-> <<n>>]),
           !.count = n, !.sent = Append(@, n)]

CommandExecuted(c) ==
  /\ Len(terminal.content) < MaxParts
  /\ terminal' = [terminal EXCEPT
       !.content = Append(@, [type |-> "command", id |-> c, data |-> <<>>, isComplete |-> FALSE]),
       !.detects = TRUE, !.executing = @ \cup {c}]

\* Every part of that id is complete, one that was so already included.
CommandFinished(c) ==
  terminal' = [terminal EXCEPT
    !.content = [i \in DOMAIN @ |->
                   IF @[i].type = "command" /\ @[i].id = c
                   THEN [@[i] EXCEPT !.isComplete = TRUE] ELSE @[i]],
    !.executing = @ \ {c}]

TerminalCleared == terminal' = [terminal EXCEPT !.content = <<>>, !.sent = <<>>]

TerminalExited ==
  terminal' = [terminal EXCEPT !.lifecycle = "exited"]

CommandDetectionAvailable == terminal' = [terminal EXCEPT !.detects = TRUE]
TerminalClaimed(h) == terminal' = [terminal EXCEPT !.claim = h]
TerminalResized(v) == terminal' = [terminal EXCEPT !.size = v]
TerminalTitleChanged(v) == terminal' = [terminal EXCEPT !.title = v]
TerminalCwdChanged(v) == terminal' = [terminal EXCEPT !.cwd = v]

Next ==
  \/ TerminalData \/ TerminalCleared \/ TerminalExited \/ CommandDetectionAvailable
  \/ \E c \in CommandId : CommandExecuted(c) \/ CommandFinished(c)
  \/ \E h \in Holder : TerminalClaimed(h)
  \/ \E v \in Value : TerminalResized(v) \/ TerminalTitleChanged(v) \/ TerminalCwdChanged(v)

\* The output of all parts, in order.
Output == FlattenSeq([i \in DOMAIN terminal.content |-> terminal.content[i].data])

\* A part is open only while its command runs, and the latest part of a command that runs is open:
\* ids may be used again, while the command runs or after it.
PartsFollowCommands ==
  LET commands == {i \in DOMAIN terminal.content : terminal.content[i].type = "command"}
      id(i) == terminal.content[i].id
  IN  \A i \in commands :
        /\ ~terminal.content[i].isComplete => id(i) \in terminal.executing
        /\ terminal.content[i].isComplete /\ id(i) \in terminal.executing
             => \E j \in commands : j > i /\ id(j) = id(i)

=============================================================================
