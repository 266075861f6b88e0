--------------------------- MODULE SessionManager ---------------------------
(***************************************************************************)
(* The owner of the one open log (packages/server/src/session-manager.ts). *)
(* Opens and closes run one after another on a promise chain; dispose does *)
(* not go through the chain.  An AppState is named by the request that     *)
(* opened it.  The event streams (sse-routes.ts) are the listeners: each   *)
(* is on one AppState and ends at the first notification.  The manager's   *)
(* owners close the server before they dispose the manager, so no request  *)
(* and no stream is new after dispose; those made before may still be on   *)
(* the chain.                                                              *)
(***************************************************************************)
EXTENDS Integers, Sequences

CONSTANTS
  Path,    \* paths of logs
  Req,     \* requests: each is made at most once
  Stream,  \* event streams
  NoReq    \* no AppState, no request: not an element of Req

VARIABLES
  fs,        \* what stat and open find at a path
  request,   \* the requests made
  chain,     \* requests not settled, in the order they were made
  pc,        \* the await the head of the chain is suspended at
  active,    \* the open AppState
  app,       \* the life of each AppState
  manager,   \* whether dispose was called
  leaving,   \* the AppState manager.dispose waits for
  on         \* the AppState each stream follows

managerVars == <<fs, request, chain, pc, active, app, manager, leaving, on>>

FileKind == {"file", "missing", "unreadable"}  \* directories are unreadable
Unmade == [op |-> "none", path |-> NoReq, state |-> "unmade"]

-----------------------------------------------------------------------------

\* disposeCurrent: the active AppState, if any, starts to close
DisposeCurrent ==
  /\ active' = NoReq
  /\ app' = IF active = NoReq THEN app ELSE [app EXCEPT ![active] = "disposing"]

\* every listener is called; a stream ends at the first call
Notify == on' = [s \in Stream |-> NoReq]

\* mutated form: a failed request blocks the chain
SettleBlocking(state) ==
  /\ request' = [request EXCEPT ![Head(chain)].state = state]
  /\ chain' = IF state = "error" THEN chain ELSE Tail(chain)
  /\ pc' = "idle"

Settle(state) ==
  /\ request' = [request EXCEPT ![Head(chain)].state = state]
  /\ chain' = Tail(chain)
  /\ pc' = "idle"

\* createAppState on the path of the running request: on success the session
\* is replaced and announced, on failure the request fails
CreateAppState ==
  LET r == Head(chain)
  IN  \/ /\ fs[request[r].path] = "file"
         /\ active' = r
         /\ app' = [app EXCEPT ![r] = "live"]
         /\ Notify
         /\ Settle("ok")
      \/ /\ fs[request[r].path] # "file"
         /\ Settle("error")
         /\ UNCHANGED <<active, app, on>>

-----------------------------------------------------------------------------
(* Requests.                                                               *)

Make(r, op, path) ==
  /\ request[r] = Unmade
  /\ request' = [request EXCEPT ![r] = [op |-> op, path |-> path, state |-> "queued"]]
  /\ chain' = Append(chain, r)

open(r, path) ==
  /\ manager = "open"
  /\ Make(r, "open", path)
  /\ UNCHANGED <<fs, pc, active, app, manager, leaving, on>>

close(r) ==
  /\ manager = "open"
  /\ Make(r, "close", NoReq)
  /\ UNCHANGED <<fs, pc, active, app, manager, leaving, on>>

\* open({id}) with an unknown id, or a path too long: refused in its turn
openInvalid(r) ==
  /\ manager = "open"
  /\ Make(r, "invalid", NoReq)
  /\ UNCHANGED <<fs, pc, active, app, manager, leaving, on>>

-----------------------------------------------------------------------------
(* The request at the head of the chain.                                   *)

Running(op) == chain # <<>> /\ request[Head(chain)].op = op

RefuseInvalid ==
  /\ Running("invalid")
  /\ Settle("error")
  /\ UNCHANGED <<fs, active, app, manager, leaving, on>>

StartOpen ==
  /\ Running("open") /\ pc = "idle"
  /\ pc' = "stat"
  /\ UNCHANGED <<fs, request, chain, active, app, manager, leaving, on>>

StatFailed ==
  /\ Running("open") /\ pc = "stat"
  /\ fs[request[Head(chain)].path] = "missing"
  /\ Settle("error")
  /\ UNCHANGED <<fs, active, app, manager, leaving, on>>

StatReturned ==
  /\ Running("open") /\ pc = "stat"
  /\ fs[request[Head(chain)].path] # "missing"
  /\ \/ /\ active # NoReq
        /\ DisposeCurrent
        /\ pc' = active
        /\ UNCHANGED <<request, chain, on>>
     \/ /\ active = NoReq
        /\ CreateAppState
  /\ UNCHANGED <<fs, manager, leaving>>

\* mutated form: the disposal is not awaited
OpenDuringDispose ==
  /\ Running("open") /\ pc \in Req
  /\ CreateAppState
  /\ UNCHANGED <<fs, manager, leaving>>

\* pc names the AppState whose disposal is awaited
OpenAfterDispose ==
  /\ Running("open") /\ pc \in Req /\ app[pc] = "disposed"
  /\ CreateAppState
  /\ UNCHANGED <<fs, manager, leaving>>

StartClose ==
  /\ Running("close") /\ pc = "idle" /\ active # NoReq
  /\ DisposeCurrent
  /\ pc' = active
  /\ UNCHANGED <<fs, request, chain, manager, leaving, on>>

\* nothing was open, or the disposal is over
Closed ==
  /\ Running("close")
  /\ \/ pc = "idle" /\ active = NoReq
     \/ pc \in Req /\ app[pc] = "disposed"
  /\ Notify
  /\ Settle("ok")
  /\ UNCHANGED <<fs, active, app, manager, leaving>>

\* appState.dispose() settles
AppDisposed(a) ==
  /\ app[a] = "disposing"
  /\ app' = [app EXCEPT ![a] = "disposed"]
  /\ UNCHANGED <<fs, request, chain, pc, active, manager, leaving, on>>

-----------------------------------------------------------------------------
(* The end of the manager, its streams, and the disk.                      *)

dispose ==
  /\ manager = "open"
  /\ manager' = "disposing"
  /\ leaving' = active
  /\ DisposeCurrent
  /\ UNCHANGED <<fs, request, chain, pc, on>>

\* listeners.clear(): the streams are not called, and follow nothing more
Disposed ==
  /\ manager = "disposing"
  /\ leaving # NoReq => app[leaving] = "disposed"
  /\ manager' = "disposed"
  /\ on' = [s \in Stream |-> NoReq]
  /\ UNCHANGED <<fs, request, chain, pc, active, app, leaving>>

\* refused with 409 when no log is open
Attach(s) ==
  /\ manager = "open"
  /\ on[s] = NoReq /\ active # NoReq
  /\ on' = [on EXCEPT ![s] = active]
  /\ UNCHANGED <<fs, request, chain, pc, active, app, manager, leaving>>

Detach(s) ==
  /\ on[s] # NoReq
  /\ on' = [on EXCEPT ![s] = NoReq]
  /\ UNCHANGED <<fs, request, chain, pc, active, app, manager, leaving>>

FileChanges(p, kind) ==
  /\ fs[p] # kind
  /\ fs' = [fs EXCEPT ![p] = kind]
  /\ UNCHANGED <<request, chain, pc, active, app, manager, leaving, on>>

-----------------------------------------------------------------------------

InitManager ==
  /\ request = [r \in Req |-> Unmade]
  /\ chain = <<>> /\ pc = "idle"
  /\ active = NoReq
  /\ app = [r \in Req |-> "none"]
  /\ manager = "open" /\ leaving = NoReq
  /\ on = [s \in Stream |-> NoReq]

Init == InitManager /\ fs \in [Path -> FileKind]

Work ==
  \/ RefuseInvalid \/ StartOpen \/ StatFailed \/ StatReturned \/ OpenAfterDispose
  \/ StartClose \/ Closed
  \/ \E a \in Req : AppDisposed(a)

Next ==
  \/ \E r \in Req : close(r) \/ openInvalid(r) \/ \E p \in Path : open(r, p)
  \/ Work
  \/ dispose \/ Disposed
  \/ \E s \in Stream : Attach(s) \/ Detach(s)
  \/ \E p \in Path, kind \in FileKind : FileChanges(p, kind)

\* the promises of stat and of AppState.dispose settle
Fairness == WF_managerVars(Work)

Spec == Init /\ [][Next]_managerVars /\ Fairness

-----------------------------------------------------------------------------
(* Properties.                                                             *)

AppLife == {"none", "live", "disposing", "disposed"}
RequestState == {"unmade", "queued", "ok", "error"}

\* Every variable is of its type.
TypeOK ==
  /\ fs \in [Path -> FileKind]
  /\ request \in [Req -> [op : {"none", "open", "close", "invalid"},
                         path : Path \cup {NoReq}, state : RequestState]]
  /\ chain \in Seq(Req)
  /\ pc \in {"idle", "stat"} \cup Req
  /\ active \in Req \cup {NoReq}
  /\ app \in [Req -> AppLife]
  /\ manager \in {"open", "disposing", "disposed"}
  /\ leaving \in Req \cup {NoReq}
  /\ on \in [Stream -> Req \cup {NoReq}]

\* No AppState is lost while it still reads its file and ticks: the live one
\* is the active one, whatever opens, closes and dispose overlap.
LiveIsActive == \A a \in Req : app[a] = "live" <=> active = a

\* Until the manager is disposed, the log before has let go of its file when
\* the next is opened: never two AppStates at once.
OneAppAtATime ==
  manager = "open" =>
    \A a, b \in Req : app[a] \in {"live", "disposing"} /\ app[b] \in {"live", "disposing"}
                        => a = b

\* The AppStates and the session do not part: the live one is the active one, and it is alone.
AppStatesFollowActive == LiveIsActive /\ OneAppAtATime

\* While a log is open, no stream still follows an earlier one.
StreamsFollowActive ==
  active # NoReq => \A s \in Stream : on[s] \in {NoReq, active}

\* Every request is answered: no order of opens, closes and dispose leaves the
\* chain waiting on itself.
RequestsSettle ==
  \A r \in Req : request[r].state = "queued" ~> request[r].state \in {"ok", "error"}

=============================================================================
