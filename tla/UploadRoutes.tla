---------------------------- MODULE UploadRoutes ----------------------------
(***************************************************************************)
(* POST /api/sessions/upload (packages/server/src/upload-routes.ts) over   *)
(* the session manager: each upload writes a log to a temporary directory  *)
(* of its own, opens it as the session, and starts to remove the others.   *)
(*                                                                         *)
(* The upload u is also the request by which its log is opened and the     *)
(* path of that log.  A cleanup is named by the request that starts it,    *)
(* the one of dispose by NoReq; it is over when its set of paths is empty. *)
(***************************************************************************)
EXTENDS Integers, Sequences

CONSTANTS
  Upload,         \* uploads, which are requests and paths too
  Path, Req, Stream, NoReq,  \* see SessionManager
  MaxRmFailures   \* bound: failures of the removal of a directory

ASSUME UploadAssumption ==
  /\ Upload \subseteq Req /\ Upload \subseteq Path
  /\ Req \cap {NoReq, "idle", "stat"} = {}
  /\ MaxRmFailures \in Nat

VARIABLES
  fs, request, chain, pc, active, app, manager, leaving, on,
  upload,         \* where each request handler is; "stranded" is over, like
                  \* "done", with a directory left that the store never knew
  dirs,           \* the files whose directory the store knows
  removing,       \* those being removed
  cleanup,        \* the files each cleanup still waits for
  cleanupErrors,  \* whether a background cleanup failed
  rmFailures,
  listening,      \* subscribed to the session manager
  routes          \* the life of the routes

managerVars == <<fs, request, chain, pc, active, app, manager, leaving, on>>
uploadVars  == <<upload, dirs, removing, cleanup, cleanupErrors, rmFailures,
                 listening, routes>>
routesVars == <<managerVars, uploadVars>>

M == INSTANCE SessionManager

-----------------------------------------------------------------------------
(* The upload store.                                                       *)

\* store.cleanupAllExcept(keep), started by r
cleanupAllExcept(r, keep) ==
  /\ removing' = removing \cup (dirs \ keep)
  /\ cleanup' = [cleanup EXCEPT ![r] = dirs \ keep]

RmDone(u) ==
  /\ u \in removing
  /\ removing' = removing \ {u}
  /\ dirs' = dirs \ {u}
  /\ fs' = [fs EXCEPT ![u] = "missing"]
  /\ cleanup' = [r \in DOMAIN cleanup |-> cleanup[r] \ {u}]
  /\ UNCHANGED <<request, chain, pc, active, app, manager, leaving, on,
                 upload, cleanupErrors, rmFailures, listening, routes>>

\* the cleanups that wait for u reject at once; the store still knows u
RmFailed(u) ==
  LET failed == {r \in DOMAIN cleanup : u \in cleanup[r]}
      background == {r \in failed : r \in Upload => upload[r] # "cleaning"}
  IN  /\ u \in removing
      /\ rmFailures < MaxRmFailures
      /\ rmFailures' = rmFailures + 1
      /\ removing' = removing \ {u}
      /\ cleanup' = [r \in DOMAIN cleanup |-> IF r \in failed THEN {} ELSE cleanup[r]]
      /\ cleanupErrors' = (cleanupErrors \/ background # {})
      /\ UNCHANGED <<managerVars, upload, dirs, listening, routes>>

-----------------------------------------------------------------------------
(* The request handler.                                                    *)

\* refused with 503 once dispose was called
Receive(u) ==
  /\ routes = "open" /\ upload[u] = "none"
  /\ upload' = [upload EXCEPT ![u] = "receiving"]
  /\ UNCHANGED <<managerVars, dirs, removing, cleanup, cleanupErrors, rmFailures,
                 listening, routes>>

\* bad name, empty or oversized body, or no directory for it
Refuse(u) ==
  /\ upload[u] = "receiving"
  /\ upload' = [upload EXCEPT ![u] = "done"]
  /\ UNCHANGED <<managerVars, dirs, removing, cleanup, cleanupErrors, rmFailures,
                 listening, routes>>

\* store.write has made the directory and cannot write the file: it removes
\* the directory, which the store does not know yet
WriteFailed(u) ==
  /\ upload[u] = "receiving"
  /\ upload' = [upload EXCEPT ![u] = "undoing"]
  /\ fs' = [fs EXCEPT ![u] = "file"]
  /\ UNCHANGED <<request, chain, pc, active, app, manager, leaving, on,
                 dirs, removing, cleanup, cleanupErrors, rmFailures, listening, routes>>

Undone(u) ==
  /\ upload[u] = "undoing"
  /\ upload' = [upload EXCEPT ![u] = "done"]
  /\ fs' = [fs EXCEPT ![u] = "missing"]
  /\ UNCHANGED <<request, chain, pc, active, app, manager, leaving, on,
                 dirs, removing, cleanup, cleanupErrors, rmFailures, listening, routes>>

\* the request is answered as any other whose write failed: nobody will try
\* again, since neither the store nor cleanupErrors knows of the directory
UndoFailed(u) ==
  /\ upload[u] = "undoing"
  /\ rmFailures < MaxRmFailures
  /\ rmFailures' = rmFailures + 1
  /\ upload' = [upload EXCEPT ![u] = "stranded"]
  /\ UNCHANGED <<managerVars, dirs, removing, cleanup, cleanupErrors, listening, routes>>

\* the file is written and its open put on the manager's chain
Written(u) ==
  /\ upload[u] = "receiving"
  /\ upload' = [upload EXCEPT ![u] = "opening"]
  /\ dirs' = dirs \cup {u}
  /\ fs' = [fs EXCEPT ![u] = "file"]
  /\ M!Make(u, "open", u)
  /\ UNCHANGED <<pc, active, app, manager, leaving, on,
                 removing, cleanup, cleanupErrors, rmFailures, listening, routes>>

\* mutated form: the uploads before are left alone
OpenedNoCleanup(u) ==
  /\ upload[u] = "opening" /\ request[u].state = "ok"
  /\ upload' = [upload EXCEPT ![u] = "done"]
  /\ UNCHANGED <<managerVars, dirs, removing, cleanup, cleanupErrors, rmFailures,
                 listening, routes>>

Opened(u) ==
  /\ upload[u] = "opening" /\ request[u].state = "ok"
  /\ upload' = [upload EXCEPT ![u] = "done"]
  /\ cleanupAllExcept(u, {u})
  /\ UNCHANGED <<managerVars, dirs, cleanupErrors, rmFailures, listening, routes>>

OpenFailed(u) ==
  /\ upload[u] = "opening" /\ request[u].state = "error"
  /\ upload' = [upload EXCEPT ![u] = "cleaning"]
  /\ cleanupAllExcept(u, {})
  /\ UNCHANGED <<managerVars, dirs, cleanupErrors, rmFailures, listening, routes>>

Cleaned(u) ==
  /\ upload[u] = "cleaning" /\ cleanup[u] = {}
  /\ upload' = [upload EXCEPT ![u] = "done"]
  /\ UNCHANGED <<managerVars, dirs, removing, cleanup, cleanupErrors, rmFailures,
                 listening, routes>>

-----------------------------------------------------------------------------
(* The end of the routes.                                                  *)

disposeRoutes ==
  /\ routes = "open"
  /\ routes' = "draining"
  /\ listening' = FALSE
  /\ UNCHANGED <<managerVars, upload, dirs, removing, cleanup, cleanupErrors,
                 rmFailures>>

\* mutated form: the requests under way are not waited for
disposeAllEarly ==
  /\ routes = "draining"
  /\ \A r \in Req : cleanup[r] = {}
  /\ routes' = "removing"
  /\ cleanupAllExcept(NoReq, {})
  /\ UNCHANGED <<managerVars, upload, dirs, cleanupErrors, rmFailures, listening>>

\* no request is active and no background cleanup pending: remove the rest
disposeAll ==
  /\ routes = "draining"
  /\ \A u \in Upload : upload[u] \in {"none", "done", "stranded"}
  /\ \A r \in Req : cleanup[r] = {}
  /\ routes' = "removing"
  /\ cleanupAllExcept(NoReq, {})
  /\ UNCHANGED <<managerVars, upload, dirs, cleanupErrors, rmFailures, listening>>

RoutesDisposed ==
  /\ routes = "removing" /\ cleanup[NoReq] = {}
  /\ routes' = IF cleanupErrors THEN "failed" ELSE "disposed"
  /\ UNCHANGED <<managerVars, upload, dirs, removing, cleanup, cleanupErrors,
                 rmFailures, listening>>

-----------------------------------------------------------------------------
(* The session manager, whose close the routes listen to.                  *)

Closed ==
  /\ M!Closed
  /\ IF listening THEN cleanupAllExcept(Head(chain), {})
                  ELSE UNCHANGED <<removing, cleanup>>
  /\ UNCHANGED <<upload, dirs, cleanupErrors, rmFailures, listening, routes>>

ManagerDisposed ==
  /\ M!Disposed
  /\ listening' = FALSE
  /\ UNCHANGED <<upload, dirs, removing, cleanup, cleanupErrors, rmFailures, routes>>

ManagerWork ==
  \/ /\ \/ M!RefuseInvalid \/ M!StartOpen \/ M!StatFailed \/ M!StatReturned
        \/ M!OpenAfterDispose \/ M!StartClose
        \/ \E a \in Req : M!AppDisposed(a)
     /\ UNCHANGED uploadVars
  \/ Closed

\* the other requests, the event streams and the disk; the owners of the
\* server dispose the manager after the routes
ManagerRequests ==
  /\ \/ \E r \in Req \ Upload :
          M!close(r) \/ M!openInvalid(r) \/ \E p \in Path \ Upload : M!open(r, p)
     \/ \E s \in Stream : M!Attach(s) \/ M!Detach(s)
     \/ \E p \in Path \ Upload, kind \in M!FileKind : M!FileChanges(p, kind)
     \/ routes \in {"disposed", "failed"} /\ M!dispose
  /\ UNCHANGED uploadVars

-----------------------------------------------------------------------------

RoutesInit ==
  /\ M!InitManager
  /\ fs = [p \in Path |-> IF p \in Upload THEN "missing" ELSE "file"]
  /\ upload = [u \in Upload |-> "none"]
  /\ dirs = {} /\ removing = {}
  /\ cleanup = [r \in Req \cup {NoReq} |-> {}]
  /\ cleanupErrors = FALSE /\ rmFailures = 0
  /\ listening = TRUE
  /\ routes = "open"

\* the handler that awaits an open goes on before the next I/O callback
Continue == \E u \in Upload : Opened(u) \/ OpenFailed(u)
CanContinue ==
  \E u \in Upload : upload[u] = "opening" /\ request[u].state \in {"ok", "error"}

Handle ==
  /\ ~CanContinue
  /\ \/ \E u \in Upload :
          \/ Refuse(u) \/ Written(u) \/ WriteFailed(u) \/ Undone(u) \/ UndoFailed(u)
          \/ Cleaned(u) \/ RmDone(u) \/ RmFailed(u)
     \/ disposeAll \/ RoutesDisposed
     \/ ManagerWork \/ ManagerDisposed

Ask ==
  /\ ~CanContinue
  /\ (\E u \in Upload : Receive(u)) \/ disposeRoutes \/ ManagerRequests

RoutesNext == Continue \/ Handle \/ Ask

\* bodies arrive or fail, files get written or removed, promises settle
RoutesFairness ==
  /\ WF_routesVars(Continue)
  /\ WF_routesVars(~CanContinue /\ ManagerWork)
  /\ WF_routesVars(~CanContinue /\ (disposeAll \/ RoutesDisposed))
  /\ \A u \in Upload :
       /\ WF_routesVars(~CanContinue /\ (\/ Refuse(u) \/ Written(u) \/ WriteFailed(u)
                                       \/ Undone(u) \/ UndoFailed(u) \/ Cleaned(u)))
       /\ WF_routesVars(~CanContinue /\ (RmDone(u) \/ RmFailed(u)))

RoutesSpec == RoutesInit /\ [][RoutesNext]_routesVars /\ RoutesFairness

-----------------------------------------------------------------------------
(* Properties.                                                             *)

UploadState ==
  {"none", "receiving", "undoing", "opening", "cleaning", "done", "stranded"}

\* Every variable is of its type; what is being removed is known to the store.
RoutesTypeOK ==
  /\ M!TypeOK
  /\ upload \in [Upload -> UploadState]
  /\ cleanupErrors \in BOOLEAN /\ listening \in BOOLEAN
  /\ rmFailures \in 0..MaxRmFailures
  /\ removing \subseteq dirs /\ dirs \subseteq Upload
  /\ cleanup \in [Req \cup {NoReq} -> SUBSET Upload]
  /\ routes \in {"open", "draining", "removing", "disposed", "failed"}

\* The live AppState is that of the open log and alone, and while a log is open no stream
\* still follows an earlier one, with uploads too (SessionManager).
FollowActive == M!AppStatesFollowActive /\ M!StreamsFollowActive

\* Every open and close is answered, those of the uploads included (SessionManager);
\* and dispose ends, by success or by the error of a removal, whatever handlers,
\* opens on the chain, removals and failures it has to wait for.
RequestsSettle ==
  /\ M!RequestsSettle
  /\ routes = "draining" ~> routes \in {"disposed", "failed"}

\* Once dispose has succeeded the store knows no directory, and the only ones
\* left on the disk are those the store never knew, of an upload whose write
\* failed and could not be undone; whichever uploads, closes, failed removals
\* and background cleanups it overlapped.
NothingLeftBehind ==
  routes = "disposed" =>
    /\ dirs = {} /\ removing = {}
    /\ \A u \in Upload : fs[u] # "missing" => upload[u] = "stranded"

\* An upload that a later one has superseded is removed from the disk, unless
\* the removal fails or the routes are disposed first.
SupersededIsRemoved ==
  \A u, v \in Upload :
    (u # v /\ upload[u] = "done" /\ upload[v] = "done" /\ active = v /\ fs[u] = "file")
      ~> (fs[u] = "missing" \/ rmFailures > 0)

\* upload-routes.ts:162-164, "drop any temp uploads that aren't the current
\* source [...] we just leave everything in place if active is non-null": while
\* an upload is the open log, its file stays.
ActiveUploadKept ==
  (routes = "open" /\ active \in Upload) => fs[active] = "file"

=============================================================================
