--------------------------- MODULE ExtensionServer ---------------------------
(***************************************************************************)
(* The one server of the VS Code extension                                 *)
(* (packages/extension/src/extensionServer.ts): started by the first       *)
(* viewer that is opened, shared by the next ones, closed on deactivation. *)
(*                                                                         *)
(* A server is named by the call that starts it.  What runs when a promise *)
(* settles (the continuations of all who wait for it) comes before any new *)
(* call, so an action is a call or the end of a piece of I/O with all that *)
(* follows from it.                                                        *)
(***************************************************************************)
EXTENDS Integers

CONSTANTS
  Opener,   \* calls of getOrStartLogServer
  Closer,   \* calls of closeLogServerIfRunning
  None      \* no call, no server

ASSUME CallAssumption == Opener \cap Closer = {} /\ None \notin Opener \cup Closer

VARIABLES
  current, starting,  \* the server running, the server being started
  closing,   \* the call that closes, and what it waits for
  server,    \* the life of each server
  call,      \* where each call is
  owed       \* for each close: the servers alive when it was called

serverVars == <<current, starting, closing, server, call, owed>>

\* "start" until startLogServer settles, "cleanup" while the sessions of a
\* failed start are disposed; "server", then "sessions", are being closed
Life == {"none", "start", "cleanup", "running", "server", "sessions", "closed"}
Alive == Life \ {"none", "closed"}
NoClosing == [by |-> None, handle |-> None, failed |-> FALSE]

Waiting(state) == {c \in Opener \cup Closer : call[c] = state}

\* the calls of set settle as outcome says
Settled(set, outcome) == [c \in DOMAIN call |-> IF c \in set THEN outcome ELSE call[c]]

-----------------------------------------------------------------------------
(* Calls.                                                                  *)

\* mutated form: a start under way is not shared
StartOrShareAlone(o) ==
  IF current # None
  THEN /\ call' = [call EXCEPT ![o] = "ok"]
       /\ UNCHANGED <<current, starting, closing, server, owed>>
  ELSE /\ call' = [call EXCEPT ![o] = "awaitStart"]
       /\ starting' = o
       /\ server' = [server EXCEPT ![o] = "start"]
       /\ UNCHANGED <<current, closing, owed>>

\* the server running, or the start under way, or a new start
StartOrShare(o) ==
  IF current # None
  THEN /\ call' = [call EXCEPT ![o] = "ok"]
       /\ UNCHANGED <<current, starting, closing, server, owed>>
  ELSE /\ call' = [call EXCEPT ![o] = "awaitStart"]
       /\ IF starting # None THEN UNCHANGED <<starting, server>>
          ELSE /\ starting' = o
               /\ server' = [server EXCEPT ![o] = "start"]
       /\ UNCHANGED <<current, closing, owed>>

getOrStartLogServer(o) ==
  /\ call[o] = "none"
  /\ IF closing = NoClosing THEN StartOrShare(o)
     ELSE /\ call' = [call EXCEPT ![o] = "awaitClose"]
          /\ UNCHANGED <<current, starting, closing, server, owed>>

\* mutated form: a start under way is left alone
closeRunning(c) ==
  /\ call[c] = "none"
  /\ owed' = [owed EXCEPT ![c] = {h \in Opener : server[h] \in Alive}]
  /\ \/ /\ closing # NoClosing
        /\ call' = [call EXCEPT ![c] = "awaitClose"]
        /\ UNCHANGED <<current, starting, closing, server>>
     \/ /\ closing = NoClosing /\ current # None
        /\ call' = [call EXCEPT ![c] = "closing"]
        /\ closing' = [by |-> c, handle |-> current, failed |-> FALSE]
        /\ server' = [server EXCEPT ![current] = "server"]
        /\ current' = None
        /\ UNCHANGED starting
     \/ /\ closing = NoClosing /\ current = None
        /\ call' = [call EXCEPT ![c] = "ok"]
        /\ UNCHANGED <<current, starting, closing, server>>

\* the close under way is shared; else a start under way is waited for, the
\* server running is closed, or there is nothing to do
closeLogServerIfRunning(c) ==
  /\ call[c] = "none"
  /\ owed' = [owed EXCEPT ![c] = {h \in Opener : server[h] \in Alive}]
  /\ \/ /\ closing # NoClosing
        /\ call' = [call EXCEPT ![c] = "awaitClose"]
        /\ UNCHANGED <<current, starting, closing, server>>
     \/ /\ closing = NoClosing /\ starting # None
        /\ call' = [call EXCEPT ![c] = "closing"]
        /\ closing' = [by |-> c, handle |-> starting, failed |-> FALSE]
        /\ UNCHANGED <<current, starting, server>>
     \/ /\ closing = NoClosing /\ starting = None /\ current # None
        /\ call' = [call EXCEPT ![c] = "closing"]
        /\ closing' = [by |-> c, handle |-> current, failed |-> FALSE]
        /\ server' = [server EXCEPT ![current] = "server"]
        /\ current' = None
        /\ UNCHANGED starting
     \/ /\ closing = NoClosing /\ starting = None /\ current = None
        /\ call' = [call EXCEPT ![c] = "ok"]
        /\ UNCHANGED <<current, starting, closing, server>>

-----------------------------------------------------------------------------
(* The end of a close, and of a start.                                     *)

\* those who waited to open go on: the first of them starts the next server,
\* or all are refused with the close
CloseSettles(failed, h) ==
  LET openers == Waiting("awaitClose") \cap Opener
      closers == (Waiting("awaitClose") \cap Closer) \cup Waiting("closing")
      outcome == IF failed THEN "error" ELSE "ok"
      after   == Settled(closers, outcome)
  IN  /\ closing' = NoClosing
      /\ IF failed \/ openers = {}
         THEN /\ call' = Settled(closers \cup openers, outcome)
              /\ server' = [server EXCEPT ![h] = "closed"]
              /\ UNCHANGED starting
         ELSE \E o \in openers :
                /\ call' = [c \in DOMAIN call |-> IF c \in openers THEN "awaitStart" ELSE after[c]]
                /\ starting' = o
                /\ server' = [server EXCEPT ![h] = "closed", ![o] = "start"]

\* startLogServer returns: all who share the start are given the server, and a
\* close that waited for it goes on
Started(h) ==
  /\ server[h] = "start"
  /\ starting' = None
  /\ call' = Settled(Waiting("awaitStart"), "ok")
  /\ IF closing.handle = h
     THEN server' = [server EXCEPT ![h] = "server"] /\ UNCHANGED current
     ELSE server' = [server EXCEPT ![h] = "running"] /\ current' = h
  /\ UNCHANGED <<closing, owed>>

StartFailed(h) ==
  /\ server[h] = "start"
  /\ server' = [server EXCEPT ![h] = "cleanup"]
  /\ UNCHANGED <<current, starting, closing, call, owed>>

\* mutated form: a close that waited for the start is not told
CleanedUpUntold(h) ==
  /\ server[h] = "cleanup"
  /\ starting' = None
  /\ server' = [server EXCEPT ![h] = "closed"]
  /\ call' = Settled(Waiting("awaitStart"), "error")
  /\ UNCHANGED <<current, closing, owed>>

\* the sessions of the failed start are disposed, or that fails too: all who
\* share the start are refused, and so is a close that waited for it with all
\* who wait for the close
CleanedUp(h) ==
  /\ server[h] = "cleanup"
  /\ starting' = None
  /\ server' = [server EXCEPT ![h] = "closed"]
  /\ IF closing.handle = h
     THEN /\ closing' = NoClosing
          /\ call' = Settled(Waiting("awaitStart") \cup Waiting("awaitClose")
                             \cup Waiting("closing"), "error")
     ELSE /\ UNCHANGED closing
          /\ call' = Settled(Waiting("awaitStart"), "error")
  /\ UNCHANGED <<current, owed>>

\* server.close() settles, then sessions.dispose(), whatever came of the first
ServerClosed(h, failed) ==
  /\ server[h] = "server"
  /\ server' = [server EXCEPT ![h] = "sessions"]
  /\ closing' = [closing EXCEPT !.failed = failed]
  /\ UNCHANGED <<current, starting, call, owed>>

SessionsDisposed(h, failed) ==
  /\ server[h] = "sessions"
  /\ CloseSettles(closing.failed \/ failed, h)
  /\ UNCHANGED <<current, owed>>

-----------------------------------------------------------------------------

ServerInit ==
  /\ current = None /\ starting = None
  /\ closing = NoClosing
  /\ server = [h \in Opener |-> "none"]
  /\ call = [c \in Opener \cup Closer |-> "none"]
  /\ owed = [c \in Closer |-> {}]

Work ==
  \E h \in Opener :
    \/ Started(h) \/ StartFailed(h) \/ CleanedUp(h)
    \/ \E failed \in BOOLEAN : ServerClosed(h, failed) \/ SessionsDisposed(h, failed)

ServerNext ==
  \/ \E o \in Opener : getOrStartLogServer(o)
  \/ \E c \in Closer : closeLogServerIfRunning(c)
  \/ Work

ServerSpec == ServerInit /\ [][ServerNext]_serverVars

-----------------------------------------------------------------------------
(* Properties.                                                             *)

\* Every variable is of its type; only closers close, only openers wait for a start.
ServerTypeOK ==
  /\ current \in Opener \cup {None}
  /\ starting \in Opener \cup {None}
  /\ closing \in [by : Closer \cup {None}, handle : Opener \cup {None}, failed : BOOLEAN]
  /\ server \in [Opener -> Life]
  /\ call \in [Opener \cup Closer ->
                 {"none", "awaitStart", "awaitClose", "closing", "ok", "error"}]
  /\ \A o \in Opener : call[o] # "closing"
  /\ \A c \in Closer : call[c] # "awaitStart"
  /\ owed \in [Closer -> SUBSET Opener]

\* "Concurrent callers share the in-flight start promise so we never
\* double-start" (extensionServer.ts:4-5): whatever opens and closes overlap,
\* one server at most holds its port and its open log.
OneServer ==
  \A g, h \in Opener : server[g] \in Alive /\ server[h] \in Alive => g = h

\* A close that is answered has closed every server that was alive when it was
\* called, one still starting included, though the close may have been shared.
CloseIsComplete ==
  \A c \in Closer : call[c] \in {"ok", "error"} =>
    \A h \in owed[c] : server[h] = "closed"

\* Nobody is left waiting: once no server is being started or closed, every
\* call has been answered, those that waited for a failed start included.
NobodyIsStranded ==
  (\A h \in Opener : server[h] \in {"none", "running", "closed"}) =>
    \A c \in Opener \cup Closer : call[c] \in {"none", "ok", "error"}

=============================================================================
