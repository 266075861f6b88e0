----------------------------- MODULE PartsProofs -----------------------------
(***************************************************************************)
(* Theorems about four parts that keep state of their own: the server of   *)
(* the extension, for any number of opens and closes; the upload routes    *)
(* and the session manager under them, for any number of uploads, other    *)
(* requests, paths, streams and failed removals; the preferences, for any  *)
(* logs and choices and any number of entries; and AppState, for any ids,  *)
(* caps, clocks and lengths of logs.                                       *)
(***************************************************************************)
EXTENDS ExtensionServer, Preferences, UploadRoutes, AppState, SequenceTheorems, TLAPS

-----------------------------------------------------------------------------
(* ExtensionServer.                                                        *)

\* The variables of the module say of each server that is alive where it is in
\* its life, and no two of them speak of different servers.
Known ==
  /\ \A h \in Opener : server[h] \in {"start", "cleanup"} <=> starting = h
  /\ \A h \in Opener : server[h] = "running" <=> current = h
  /\ \A h \in Opener : server[h] \in {"server", "sessions"} => closing.handle = h
  /\ starting # None => current = None /\ closing.handle \in {None, starting}
  /\ closing.handle = None => closing = NoClosing
  /\ closing # NoClosing =>
       /\ current = None
       /\ server[closing.handle] \in {"start", "cleanup", "server", "sessions"}

\* A call that is still to start a server has none.
Fresh == \A o \in Opener : call[o] \in {"none", "awaitClose"} => server[o] = "none"

\* Who waits, waits for something that is under way.
Served ==
  \A c \in Opener \cup Closer :
    /\ call[c] = "awaitStart" => starting # None
    /\ call[c] \in {"awaitClose", "closing"} => closing # NoClosing

\* What a close owes is closed, or is what the close under way is closing.
Owed ==
  \A c \in Closer : \A h \in owed[c] :
    /\ call[c] \in {"ok", "error"} => server[h] = "closed"
    /\ call[c] \in {"awaitClose", "closing"} => server[h] = "closed" \/ h = closing.handle

ServerInv == ServerTypeOK /\ Known /\ Fresh /\ Served /\ Owed

-----------------------------------------------------------------------------

\* Nothing is started, closed or owed at first.
LEMMA InitServerInv == ServerInit => ServerInv
  BY CallAssumption
  DEF ServerInit, ServerInv, ServerTypeOK, Known, Fresh, Served, Owed, NoClosing, Life

\* A server alive is the one that is starting, running or being closed.
LEMMA AliveIsKnown ==
  ASSUME ServerTypeOK, Known, NEW h \in Opener, server[h] \in Alive
  PROVE  /\ closing # NoClosing => h = closing.handle
         /\ closing = NoClosing /\ starting # None => h = starting
         /\ closing = NoClosing /\ starting = None => h = current
  BY CallAssumption DEF ServerTypeOK, Known, Alive, Life, NoClosing

\* An opener shares what is under way, or starts the only server.
LEMMA OpenStep ==
  ASSUME ServerInv, NEW o \in Opener, getOrStartLogServer(o) PROVE ServerInv'
<1>0. call[o] = "none" /\ server[o] = "none" /\ UNCHANGED <<current, closing, owed>>
  BY DEF getOrStartLogServer, StartOrShare, ServerInv, Fresh
<1>1. CASE closing # NoClosing
  <2>0. call' = [call EXCEPT ![o] = "awaitClose"] /\ UNCHANGED <<starting, server>>
    BY <1>1 DEF getOrStartLogServer
  <2>1. ServerTypeOK'
    BY <1>0, <1>1, <2>0, CallAssumption
    DEF ServerInv, ServerTypeOK, Known, Fresh, Served, Owed, NoClosing, Life
  <2>2. Known'
    BY <1>0, <1>1, <2>0, CallAssumption
    DEF ServerInv, ServerTypeOK, Known, Fresh, Served, Owed, NoClosing, Life
  <2>3. Fresh'
    BY <1>0, <1>1, <2>0, CallAssumption
    DEF ServerInv, ServerTypeOK, Known, Fresh, Served, Owed, NoClosing, Life
  <2>4. Served'
    BY <1>0, <1>1, <2>0, CallAssumption
    DEF ServerInv, ServerTypeOK, Known, Fresh, Served, Owed, NoClosing, Life
  <2>5. Owed'
    BY <1>0, <1>1, <2>0, CallAssumption
    DEF ServerInv, ServerTypeOK, Known, Fresh, Served, Owed, NoClosing, Life
  <2> QED BY <2>1, <2>2, <2>3, <2>4, <2>5 DEF ServerInv
<1>2. CASE closing = NoClosing /\ (current # None \/ starting # None)
  <2>0. /\ call' = [call EXCEPT ![o] = IF current # None THEN "ok" ELSE "awaitStart"]
        /\ UNCHANGED <<starting, server>>
    BY <1>2 DEF getOrStartLogServer, StartOrShare
  <2>1. ServerTypeOK'
    BY <1>0, <1>2, <2>0, CallAssumption
    DEF ServerInv, ServerTypeOK, Known, Fresh, Served, Owed, NoClosing, Life
  <2>2. Known'
    BY <1>0, <1>2, <2>0, CallAssumption
    DEF ServerInv, ServerTypeOK, Known, Fresh, Served, Owed, NoClosing, Life
  <2>3. Fresh'
    BY <1>0, <1>2, <2>0, CallAssumption
    DEF ServerInv, ServerTypeOK, Known, Fresh, Served, Owed, NoClosing, Life
  <2>4. Served'
    BY <1>0, <1>2, <2>0, CallAssumption
    DEF ServerInv, ServerTypeOK, Known, Fresh, Served, Owed, NoClosing, Life
  <2>5. Owed'
    BY <1>0, <1>2, <2>0, CallAssumption
    DEF ServerInv, ServerTypeOK, Known, Fresh, Served, Owed, NoClosing, Life
  <2> QED BY <2>1, <2>2, <2>3, <2>4, <2>5 DEF ServerInv
<1>3. CASE closing = NoClosing /\ current = None /\ starting = None
  <2>0. /\ call' = [call EXCEPT ![o] = "awaitStart"]
        /\ starting' = o
        /\ server' = [server EXCEPT ![o] = "start"]
    BY <1>3 DEF getOrStartLogServer, StartOrShare
  <2>9. server[o] = "none" /\ o # None /\ closing.handle = None
    BY <1>0, <1>3, CallAssumption DEF ServerInv, Fresh, NoClosing
  <2>1. ServerTypeOK'
    BY <1>0, <1>3, <2>0, <2>9, CallAssumption
    DEF ServerInv, ServerTypeOK, Known, Fresh, Served, Owed, NoClosing, Life
  <2>2. Known'
    BY <1>0, <1>3, <2>0, <2>9, CallAssumption
    DEF ServerInv, ServerTypeOK, Known, Fresh, Served, Owed, NoClosing, Life
  <2>3. Fresh'
    BY <1>0, <1>3, <2>0, <2>9, CallAssumption
    DEF ServerInv, ServerTypeOK, Known, Fresh, Served, Owed, NoClosing, Life
  <2>4. Served'
    BY <1>0, <1>3, <2>0, <2>9, CallAssumption
    DEF ServerInv, ServerTypeOK, Known, Fresh, Served, Owed, NoClosing, Life
  <2>5. Owed'
    BY <1>0, <1>3, <2>0, <2>9, CallAssumption
    DEF ServerInv, ServerTypeOK, Known, Fresh, Served, Owed, NoClosing, Life
  <2> QED BY <2>1, <2>2, <2>3, <2>4, <2>5 DEF ServerInv
<1> QED BY <1>1, <1>2, <1>3

\* A closer owes the server alive, if there is one, to the close it starts or shares.
LEMMA CloseStep ==
  ASSUME ServerInv, NEW c \in Closer, closeLogServerIfRunning(c) PROVE ServerInv'
<1> DEFINE alive == {h \in Opener : server[h] \in Alive}
<1>0. call[c] = "none"
  BY DEF closeLogServerIfRunning
<1>1. owed' = [owed EXCEPT ![c] = alive]
  BY DEF closeLogServerIfRunning
<1>2. /\ closing # NoClosing => alive \subseteq {closing.handle}
      /\ closing = NoClosing /\ starting # None => alive \subseteq {starting}
      /\ closing = NoClosing /\ starting = None => alive \subseteq {current}
  BY AliveIsKnown DEF ServerInv
<1> HIDE DEF alive
<1>3. alive \in SUBSET Opener
  BY DEF alive
<1>4. CASE closing # NoClosing
  <2>0. /\ call' = [call EXCEPT ![c] = "awaitClose"]
        /\ UNCHANGED <<current, starting, closing, server>>
    BY <1>4 DEF closeLogServerIfRunning
  <2>1. ServerTypeOK'
    BY <1>0, <1>1, <1>2, <1>3, <1>4, <2>0, CallAssumption
    DEF ServerInv, ServerTypeOK, Known, Fresh, Served, Owed, NoClosing, Life
  <2>2. Known'
    BY <1>0, <1>1, <1>2, <1>3, <1>4, <2>0, CallAssumption
    DEF ServerInv, ServerTypeOK, Known, Fresh, Served, Owed, NoClosing, Life
  <2>3. Fresh'
    BY <1>0, <1>1, <1>2, <1>3, <1>4, <2>0, CallAssumption
    DEF ServerInv, ServerTypeOK, Known, Fresh, Served, Owed, NoClosing, Life
  <2>4. Served'
    BY <1>0, <1>1, <1>2, <1>3, <1>4, <2>0, CallAssumption
    DEF ServerInv, ServerTypeOK, Known, Fresh, Served, Owed, NoClosing, Life
  <2>5. Owed'
    BY <1>0, <1>1, <1>2, <1>3, <1>4, <2>0, CallAssumption
    DEF ServerInv, ServerTypeOK, Known, Fresh, Served, Owed, NoClosing, Life
  <2> QED BY <2>1, <2>2, <2>3, <2>4, <2>5 DEF ServerInv
<1>5. CASE closing = NoClosing /\ starting # None
  <2>0. /\ call' = [call EXCEPT ![c] = "closing"]
        /\ closing' = [by |-> c, handle |-> starting, failed |-> FALSE]
        /\ UNCHANGED <<current, starting, server>>
    BY <1>5 DEF closeLogServerIfRunning
  <2>1. ServerTypeOK'
    BY <1>0, <1>1, <1>2, <1>3, <1>5, <2>0, CallAssumption
    DEF ServerInv, ServerTypeOK, Known, Fresh, Served, Owed, NoClosing, Life
  <2>2. Known'
    BY <1>0, <1>1, <1>2, <1>3, <1>5, <2>0, CallAssumption
    DEF ServerInv, ServerTypeOK, Known, Fresh, Served, Owed, NoClosing, Life
  <2>3. Fresh'
    BY <1>0, <1>1, <1>2, <1>3, <1>5, <2>0, CallAssumption
    DEF ServerInv, ServerTypeOK, Known, Fresh, Served, Owed, NoClosing, Life
  <2>4. Served'
    BY <1>0, <1>1, <1>2, <1>3, <1>5, <2>0, CallAssumption
    DEF ServerInv, ServerTypeOK, Known, Fresh, Served, Owed, NoClosing, Life
  <2>5. Owed'
    BY <1>0, <1>1, <1>2, <1>3, <1>5, <2>0, CallAssumption
    DEF ServerInv, ServerTypeOK, Known, Fresh, Served, Owed, NoClosing, Life
  <2> QED BY <2>1, <2>2, <2>3, <2>4, <2>5 DEF ServerInv
<1>6. CASE closing = NoClosing /\ starting = None /\ current # None
  <2>0. /\ call' = [call EXCEPT ![c] = "closing"]
        /\ closing' = [by |-> c, handle |-> current, failed |-> FALSE]
        /\ server' = [server EXCEPT ![current] = "server"]
        /\ current' = None
        /\ UNCHANGED starting
    BY <1>6 DEF closeLogServerIfRunning
  <2>1. ServerTypeOK'
    BY <1>0, <1>1, <1>2, <1>3, <1>6, <2>0, CallAssumption
    DEF ServerInv, ServerTypeOK, Known, Fresh, Served, Owed, NoClosing, Life
  <2>2. Known'
    BY <1>0, <1>1, <1>2, <1>3, <1>6, <2>0, CallAssumption
    DEF ServerInv, ServerTypeOK, Known, Fresh, Served, Owed, NoClosing, Life
  <2>3. Fresh'
    BY <1>0, <1>1, <1>2, <1>3, <1>6, <2>0, CallAssumption
    DEF ServerInv, ServerTypeOK, Known, Fresh, Served, Owed, NoClosing, Life
  <2>4. Served'
    BY <1>0, <1>1, <1>2, <1>3, <1>6, <2>0, CallAssumption
    DEF ServerInv, ServerTypeOK, Known, Fresh, Served, Owed, NoClosing, Life
  <2>5. Owed'
    BY <1>0, <1>1, <1>2, <1>3, <1>6, <2>0, CallAssumption
    DEF ServerInv, ServerTypeOK, Known, Fresh, Served, Owed, NoClosing, Life
  <2> QED BY <2>1, <2>2, <2>3, <2>4, <2>5 DEF ServerInv
<1>7. CASE closing = NoClosing /\ starting = None /\ current = None
  <2>0. /\ call' = [call EXCEPT ![c] = "ok"]
        /\ UNCHANGED <<current, starting, closing, server>>
    BY <1>7 DEF closeLogServerIfRunning
  <2>9. alive = {}
    BY <1>2, <1>3, <1>7, CallAssumption
  <2>1. ServerTypeOK'
    BY <1>0, <1>1, <2>9, <1>7, <2>0, CallAssumption
    DEF ServerInv, ServerTypeOK, Known, Fresh, Served, Owed, NoClosing, Life
  <2>2. Known'
    BY <1>0, <1>1, <2>9, <1>7, <2>0, CallAssumption
    DEF ServerInv, ServerTypeOK, Known, Fresh, Served, Owed, NoClosing, Life
  <2>3. Fresh'
    BY <1>0, <1>1, <2>9, <1>7, <2>0, CallAssumption
    DEF ServerInv, ServerTypeOK, Known, Fresh, Served, Owed, NoClosing, Life
  <2>4. Served'
    BY <1>0, <1>1, <2>9, <1>7, <2>0, CallAssumption
    DEF ServerInv, ServerTypeOK, Known, Fresh, Served, Owed, NoClosing, Life
  <2>5. Owed'
    BY <1>0, <1>1, <2>9, <1>7, <2>0, CallAssumption
    DEF ServerInv, ServerTypeOK, Known, Fresh, Served, Owed, NoClosing, Life
  <2> QED BY <2>1, <2>2, <2>3, <2>4, <2>5 DEF ServerInv
<1> QED BY <1>4, <1>5, <1>6, <1>7

\* The server started is the one running, or goes on to the close that waited for it.
LEMMA StartedStep ==
  ASSUME ServerInv, NEW h \in Opener, Started(h) PROVE ServerInv'
<1>1. call' = [c \in Opener \cup Closer |-> IF call[c] = "awaitStart" THEN "ok" ELSE call[c]]
  BY DEF Started, Settled, Waiting, ServerInv, ServerTypeOK
<1>2. CASE closing.handle = h
  BY <1>1, <1>2, CallAssumption
  DEF ServerInv, ServerTypeOK, Known, Fresh, Served, Owed, Started, NoClosing, Life
<1>3. CASE closing.handle # h
  BY <1>1, <1>3, CallAssumption
  DEF ServerInv, ServerTypeOK, Known, Fresh, Served, Owed, Started, NoClosing, Life
<1> QED BY <1>2, <1>3

\* A failed start is still a start to those who wait for it.
LEMMA StartFailedStep ==
  ASSUME ServerInv, NEW h \in Opener, StartFailed(h) PROVE ServerInv'
  BY CallAssumption
  DEF ServerInv, ServerTypeOK, Known, Fresh, Served, Owed, StartFailed, NoClosing, Life

\* When a failed start is cleaned up nothing is alive, and nobody waits.
LEMMA CleanedUpStep ==
  ASSUME ServerInv, NEW h \in Opener, CleanedUp(h) PROVE ServerInv'
<1>1. CASE closing.handle = h
  <2>1. call' = [c \in Opener \cup Closer |->
                   IF call[c] \in {"awaitStart", "awaitClose", "closing"}
                   THEN "error" ELSE call[c]]
    BY <1>1 DEF CleanedUp, Settled, Waiting, ServerInv, ServerTypeOK
  <2>2. /\ server' = [server EXCEPT ![h] = "closed"] /\ starting' = None
        /\ closing' = NoClosing /\ UNCHANGED <<current, owed>>
    BY <1>1 DEF CleanedUp
  <2>3. starting = h /\ current = None /\ NoClosing.handle = None
    BY CallAssumption DEF CleanedUp, ServerInv, ServerTypeOK, Known, NoClosing
  <2>4. ServerTypeOK'
    BY <1>1, <2>1, <2>2, <2>3, CallAssumption
    DEF ServerInv, ServerTypeOK, Known, Fresh, Served, Owed, NoClosing, Life
  <2>5. Known'
    BY <1>1, <2>1, <2>2, <2>3, CallAssumption
    DEF ServerInv, ServerTypeOK, Known, Fresh, Served, Owed, NoClosing, Life
  <2>6. Fresh'
    BY <1>1, <2>1, <2>2, <2>3, CallAssumption
    DEF ServerInv, ServerTypeOK, Known, Fresh, Served, Owed, NoClosing, Life
  <2>7. Served'
    BY <1>1, <2>1, <2>2, <2>3, CallAssumption
    DEF ServerInv, ServerTypeOK, Known, Fresh, Served, Owed, NoClosing, Life
  <2>8. Owed'
    BY <1>1, <2>1, <2>2, <2>3, CallAssumption
    DEF ServerInv, ServerTypeOK, Known, Fresh, Served, Owed, NoClosing, Life
  <2> QED BY <2>4, <2>5, <2>6, <2>7, <2>8 DEF ServerInv
<1>2. CASE closing.handle # h
  <2>1. call' = [c \in Opener \cup Closer |->
                   IF call[c] = "awaitStart" THEN "error" ELSE call[c]]
    BY <1>2 DEF CleanedUp, Settled, Waiting, ServerInv, ServerTypeOK
  <2>2. starting = h /\ closing = NoClosing
    BY <1>2, CallAssumption DEF CleanedUp, ServerInv, ServerTypeOK, Known
  <2>3. /\ server' = [server EXCEPT ![h] = "closed"] /\ starting' = None
        /\ UNCHANGED <<current, closing, owed>>
    BY <1>2 DEF CleanedUp
  <2>4. ServerTypeOK'
    BY <1>2, <2>1, <2>2, <2>3, CallAssumption
    DEF ServerInv, ServerTypeOK, Known, Fresh, Served, Owed, NoClosing, Life
  <2>5. Known'
    BY <1>2, <2>1, <2>2, <2>3, CallAssumption
    DEF ServerInv, ServerTypeOK, Known, Fresh, Served, Owed, NoClosing, Life
  <2>6. Fresh'
    BY <1>2, <2>1, <2>2, <2>3, CallAssumption
    DEF ServerInv, ServerTypeOK, Known, Fresh, Served, Owed, NoClosing, Life
  <2>7. Served'
    BY <1>2, <2>1, <2>2, <2>3, CallAssumption
    DEF ServerInv, ServerTypeOK, Known, Fresh, Served, Owed, NoClosing, Life
  <2>8. Owed'
    BY <1>2, <2>1, <2>2, <2>3, CallAssumption
    DEF ServerInv, ServerTypeOK, Known, Fresh, Served, Owed, NoClosing, Life
  <2> QED BY <2>4, <2>5, <2>6, <2>7, <2>8 DEF ServerInv
<1> QED BY <1>1, <1>2

\* A close goes on from the server to its sessions.
LEMMA ServerClosedStep ==
  ASSUME ServerInv, NEW h \in Opener, NEW failed \in BOOLEAN, ServerClosed(h, failed)
  PROVE  ServerInv'
  BY CallAssumption
  DEF ServerInv, ServerTypeOK, Known, Fresh, Served, Owed, ServerClosed, NoClosing, Life

\* When a close settles nothing is alive but what one of the openers it held back starts.
LEMMA SessionsDisposedStep ==
  ASSUME ServerInv, NEW h \in Opener, NEW failed \in BOOLEAN, SessionsDisposed(h, failed)
  PROVE  ServerInv'
<1> DEFINE openers == {o \in Opener : call[o] = "awaitClose"}
           closers == {c \in Closer : call[c] \in {"awaitClose", "closing"}}
           outcome == IF closing.failed \/ failed THEN "error" ELSE "ok"
<1>1. /\ Waiting("awaitClose") \cap Opener = openers
      /\ (Waiting("awaitClose") \cap Closer) \cup Waiting("closing") = closers
  BY CallAssumption DEF Waiting, ServerInv, ServerTypeOK
<1>2. server[h] = "sessions" /\ closing.handle = h /\ starting = None /\ current = None
  BY CallAssumption DEF SessionsDisposed, ServerInv, ServerTypeOK, Known, NoClosing
<1>3. UNCHANGED <<current, owed>> /\ closing' = NoClosing
  BY DEF SessionsDisposed, CloseSettles
<1>4. CASE closing.failed \/ failed \/ openers = {}
  <2>1. call' = [c \in Opener \cup Closer |->
                   IF c \in closers \cup openers THEN outcome ELSE call[c]]
    BY <1>1, <1>4 DEF SessionsDisposed, CloseSettles, Settled, ServerInv, ServerTypeOK
  <2>2. server' = [server EXCEPT ![h] = "closed"] /\ starting' = starting
    BY <1>1, <1>4 DEF SessionsDisposed, CloseSettles
  <2> QED
    BY <1>2, <1>3, <2>1, <2>2, CallAssumption
    DEF ServerInv, ServerTypeOK, Known, Fresh, Served, Owed, NoClosing, Life
<1>5. CASE ~(closing.failed \/ failed \/ openers = {})
  <2>1. PICK o \in openers :
          /\ call' = [c \in DOMAIN call |->
                        IF c \in openers THEN "awaitStart" ELSE Settled(closers, outcome)[c]]
          /\ starting' = o
          /\ server' = [server EXCEPT ![h] = "closed", ![o] = "start"]
    BY <1>1, <1>5 DEF SessionsDisposed, CloseSettles
  <2>2. call' = [c \in Opener \cup Closer |->
                   IF c \in openers THEN "awaitStart"
                   ELSE IF c \in closers THEN outcome ELSE call[c]]
    BY <2>1 DEF Settled, ServerInv, ServerTypeOK
  <2>3. server[o] = "none" /\ o # h /\ o \in Opener
    BY <1>2, <2>1 DEF ServerInv, Fresh
  <2> QED
    BY <1>2, <1>3, <2>1, <2>2, <2>3, CallAssumption
    DEF ServerInv, ServerTypeOK, Known, Fresh, Served, Owed, NoClosing, Life
<1> QED BY <1>4, <1>5

\* Every step keeps the invariant.
LEMMA NextServerInv == ServerInv /\ [ServerNext]_serverVars => ServerInv'
<1> SUFFICES ASSUME ServerInv, [ServerNext]_serverVars PROVE ServerInv'
  OBVIOUS
<1>1. CASE \E o \in Opener : getOrStartLogServer(o)
  BY <1>1, OpenStep
<1>2. CASE \E c \in Closer : closeLogServerIfRunning(c)
  BY <1>2, CloseStep
<1>3. CASE Work
  BY <1>3, StartedStep, StartFailedStep, CleanedUpStep, ServerClosedStep,
     SessionsDisposedStep DEF Work
<1>4. CASE UNCHANGED serverVars
  BY <1>4 DEF serverVars, ServerInv, ServerTypeOK, Known, Fresh, Served, Owed
<1> QED BY <1>1, <1>2, <1>3, <1>4 DEF ServerNext

\* The invariant holds for any number of opens and closes.
THEOREM ServerInvariance == ServerSpec => []ServerInv
  BY InitServerInv, NextServerInv, PTL DEF ServerSpec

-----------------------------------------------------------------------------

\* One server at most is alive, whatever opens and closes overlap.
THEOREM OneServerCorrect == ServerSpec => []OneServer
<1>1. ServerInv => OneServer
  BY AliveIsKnown DEF ServerInv, OneServer
<1> QED BY ServerInvariance, <1>1, PTL

\* A close that was answered has closed all that was alive when it was called.
THEOREM CloseCorrect == ServerSpec => []CloseIsComplete
<1>1. ServerInv => CloseIsComplete
  BY DEF ServerInv, Owed, CloseIsComplete
<1> QED BY ServerInvariance, <1>1, PTL

\* Nobody waits when nothing is under way.
THEOREM NobodyStrandedCorrect == ServerSpec => []NobodyIsStranded
<1>1. ASSUME ServerInv PROVE NobodyIsStranded
  <2> SUFFICES ASSUME \A h \in Opener : server[h] \in {"none", "running", "closed"}
               PROVE  \A c \in Opener \cup Closer : call[c] \in {"none", "ok", "error"}
    BY DEF NobodyIsStranded
  <2>1. starting = None /\ closing = NoClosing
    BY <1>1 DEF ServerInv, ServerTypeOK, Known
  <2> QED BY <1>1, <2>1 DEF ServerInv, ServerTypeOK, Served
<1> QED BY ServerInvariance, <1>1, PTL

-----------------------------------------------------------------------------
(* UploadRoutes.                                                           *)

\* A request is on the chain once, and has opened nothing while it is.
Chained ==
  /\ \A i, j \in 1..Len(chain) : chain[i] = chain[j] => i = j
  /\ \A i \in 1..Len(chain) : request[chain[i]] # M!Unmade /\ app[chain[i]] = "none"
  /\ \A r \in Req : request[r] = M!Unmade => app[r] = "none"

\* What the head of the chain awaits: while it awaits a disposal no log is
\* open, and until the manager is disposed nobody else disposes.
Awaited ==
  /\ pc # "idle" => chain # <<>> /\ request[chain[1]].op # "invalid"
  /\ pc \in Req => active = NoReq /\ app[pc] \in {"disposing", "disposed"}
  /\ manager = "open" => \A a \in Req : app[a] = "disposing" => pc = a

\* What holds of the manager's variables.
Managed == M!TypeOK /\ Chained /\ Awaited /\ M!LiveIsActive /\ M!StreamsFollowActive

\* What is on the disk is known to the store, or is of a write that failed and is
\* being undone or could not be; once the routes wait for the last removals no
\* request can add to it, and these removals are of all the store knows.
Stored ==
  /\ \A u \in Upload :
       fs[u] # "missing" => u \in dirs \/ upload[u] \in {"undoing", "stranded"}
  /\ routes \in {"removing", "disposed", "failed"} =>
       \A u \in Upload : upload[u] \in {"none", "done", "stranded"}
  /\ routes = "removing" /\ ~cleanupErrors => dirs \subseteq cleanup[NoReq]
  /\ routes = "disposed" => dirs = {}

RoutesInv == RoutesTypeOK /\ Managed /\ Stored

-----------------------------------------------------------------------------
(* The session manager.                                                    *)

\* The chain without its head.
LEMMA TailOfChain ==
  ASSUME M!TypeOK, Chained, chain # <<>>
  PROVE  /\ Len(chain) \in Nat \ {0} /\ Head(chain) = chain[1] /\ chain[1] \in Req
         /\ Tail(chain) \in Seq(Req) /\ Len(Tail(chain)) = Len(chain) - 1
         /\ \A i \in 1..Len(Tail(chain)) : Tail(chain)[i] = chain[i + 1]
         /\ \A i \in 1..Len(Tail(chain)) : Tail(chain)[i] # chain[1]
<1>1. chain \in Seq(Req)
  BY DEF M!TypeOK
<1> QED BY <1>1 DEF Chained

\* A request that settles leaves the chain.
LEMMA SettleStep ==
  ASSUME Managed, chain # <<>>, NEW state \in {"ok", "error"}, M!Settle(state),
         app' \in [Req -> M!AppLife],
         \A r \in Req : r # chain[1] => (app'[r] = "none" <=> app[r] = "none")
  PROVE  /\ chain' \in Seq(Req) /\ pc' = "idle"
         /\ request' \in [Req -> [op : {"none", "open", "close", "invalid"},
                                  path : Path \cup {NoReq}, state : M!RequestState]]
         /\ Chained'
<1> USE DEF Managed
<1>1. chain[1] \in Req /\ Head(chain) = chain[1] /\ chain' = Tail(chain)
  BY TailOfChain DEF M!Settle
<1>2. request' = [request EXCEPT ![chain[1]].state = state]
  BY <1>1 DEF M!Settle
<1>3. /\ request' \in [Req -> [op : {"none", "open", "close", "invalid"},
                               path : Path \cup {NoReq}, state : M!RequestState]]
      /\ \A r \in Req : r # chain[1] => request'[r] = request[r]
      /\ request'[chain[1]] # M!Unmade
  BY <1>1, <1>2 DEF M!TypeOK, M!RequestState, M!Unmade
<1>4. Len(chain) \in Nat \ {0}
  BY TailOfChain
<1>5. /\ \A i, j \in 1..Len(chain') : chain'[i] = chain'[j] => i = j
      /\ \A i \in 1..Len(chain') : chain'[i] \in Req /\ chain'[i] # chain[1]
      /\ \A i \in 1..Len(chain') : app[chain'[i]] = "none" /\ request[chain'[i]] # M!Unmade
  BY <1>1, <1>4, TailOfChain DEF Chained
<1>6. Chained'
  BY <1>1, <1>3, <1>5 DEF Chained
<1> QED BY <1>1, <1>3, <1>6, TailOfChain DEF M!Settle

\* A request that is made goes to the end of the chain; the disk may change.
LEMMA MakeStep ==
  ASSUME Managed, NEW r \in Req, NEW op \in {"open", "close", "invalid"},
         NEW path \in Path \cup {NoReq}, M!Make(r, op, path),
         fs' \in [Path -> M!FileKind],
         UNCHANGED <<pc, active, app, manager, leaving, on>>
  PROVE  Managed'
<1> USE DEF Managed
<1>1. chain \in Seq(Req) /\ chain' = Append(chain, r) /\ request[r] = M!Unmade
  BY DEF M!TypeOK, M!Make
<1>2. /\ Len(chain) \in Nat /\ Len(chain') = Len(chain) + 1 /\ chain' \in Seq(Req)
      /\ chain'[Len(chain) + 1] = r
      /\ \A i \in 1..Len(chain) : chain'[i] = chain[i] /\ chain[i] \in Req /\ chain[i] # r
  BY <1>1 DEF Chained
<1>3. request' = [request EXCEPT ![r] = [op |-> op, path |-> path, state |-> "queued"]]
  BY DEF M!Make
<1>4. /\ request' \in [Req -> [op : {"none", "open", "close", "invalid"},
                               path : Path \cup {NoReq}, state : M!RequestState]]
      /\ request'[r] # M!Unmade
      /\ \A q \in Req : q # r => request'[q] = request[q]
  BY <1>3 DEF M!TypeOK, M!RequestState, M!Unmade
<1>5. M!TypeOK'
  BY <1>2, <1>4 DEF M!TypeOK
<1>6. Chained'
  <2>1. app[r] = "none"
    BY <1>1 DEF Chained
  <2>2. \A i \in 1..Len(chain') : i \in 1..Len(chain) \/ i = Len(chain) + 1
    BY <1>2
  <2>3. \A i, j \in 1..Len(chain') : chain'[i] = chain'[j] => i = j
    BY <1>2, <2>2 DEF Chained
  <2>4. \A i \in 1..Len(chain') : request'[chain'[i]] # M!Unmade /\ app[chain'[i]] = "none"
    BY <1>2, <1>4, <2>1, <2>2 DEF Chained
  <2>5. \A q \in Req : request'[q] = M!Unmade => app[q] = "none"
    BY <1>4 DEF Chained
  <2> QED BY <2>3, <2>4, <2>5 DEF Chained
<1>7. Awaited'
  <2>1. pc # "idle" => chain' # <<>> /\ request'[chain'[1]] = request[chain[1]]
    <3>1. CASE chain = <<>>
      BY <3>1 DEF Awaited
    <3>2. CASE chain # <<>>
      BY <3>2, <1>1, <1>2, <1>4
    <3> QED BY <3>1, <3>2
  <2> QED BY <2>1 DEF Awaited
<1>8. M!LiveIsActive' /\ M!StreamsFollowActive'
  BY DEF M!LiveIsActive, M!StreamsFollowActive
<1> QED BY <1>5, <1>6, <1>7, <1>8

\* A log is opened only while none is open and none is being disposed by a
\* manager that goes on.
LEMMA CreateStep ==
  ASSUME Managed, M!Running("open"), pc # "idle", active = NoReq,
         pc \in Req => app[pc] = "disposed",
         M!CreateAppState, UNCHANGED <<fs, manager, leaving>>
  PROVE  Managed'
<1> USE DEF Managed
<1> DEFINE r == chain[1]
<1>1. chain # <<>> /\ r \in Req /\ Head(chain) = r /\ app[r] = "none"
  BY TailOfChain DEF M!Running, Chained
<1>2. manager = "open" => \A a \in Req : app[a] # "disposing"
  BY DEF Awaited
<1>3. CASE fs[request[r].path] = "file"
  <2>1. /\ active' = r /\ app' = [app EXCEPT ![r] = "live"]
        /\ M!Settle("ok") /\ on' = [s \in Stream |-> NoReq]
    BY <1>1, <1>3 DEF M!CreateAppState, M!Notify
  <2>2. /\ app' \in [Req -> M!AppLife]
        /\ \A q \in Req : q # r => app'[q] = app[q]
        /\ app'[r] = "live"
    BY <1>1, <2>1 DEF M!TypeOK, M!AppLife
  <2>3. /\ chain' \in Seq(Req) /\ pc' = "idle" /\ Chained'
        /\ request' \in [Req -> [op : {"none", "open", "close", "invalid"},
                                 path : Path \cup {NoReq}, state : M!RequestState]]
    BY <1>1, <2>1, <2>2, SettleStep
  <2>4. M!TypeOK'
    BY <1>1, <2>1, <2>2, <2>3 DEF M!TypeOK
  <2>5. Awaited'
    BY <1>2, <2>2, <2>3, UploadAssumption DEF Awaited
  <2>6. M!LiveIsActive'
    BY <1>1, <2>1, <2>2, UploadAssumption DEF M!LiveIsActive
  <2>7. M!StreamsFollowActive'
    BY <2>1 DEF M!StreamsFollowActive
  <2> QED BY <2>3, <2>4, <2>5, <2>6, <2>7
<1>4. CASE fs[request[r].path] # "file"
  <2>1. M!Settle("error") /\ UNCHANGED <<active, app, on>>
    BY <1>1, <1>4 DEF M!CreateAppState
  <2>2. /\ chain' \in Seq(Req) /\ pc' = "idle" /\ Chained'
        /\ request' \in [Req -> [op : {"none", "open", "close", "invalid"},
                                 path : Path \cup {NoReq}, state : M!RequestState]]
    BY <1>1, <2>1, SettleStep DEF M!TypeOK
  <2>3. M!TypeOK'
    BY <2>1, <2>2 DEF M!TypeOK
  <2>4. Awaited'
    BY <1>2, <2>1, <2>2, UploadAssumption DEF Awaited
  <2> QED BY <2>1, <2>2, <2>3, <2>4 DEF M!LiveIsActive, M!StreamsFollowActive
<1> QED BY <1>3, <1>4

\* A request that is refused opens nothing and disposes of nothing.
LEMMA RefuseStep ==
  ASSUME Managed, M!RefuseInvalid \/ M!StatFailed
  PROVE  Managed'
<1> USE DEF Managed
<1>1. chain # <<>> /\ M!Settle("error") /\ UNCHANGED <<fs, active, app, manager, leaving, on>>
  BY DEF M!RefuseInvalid, M!StatFailed, M!Running
<1>2. pc \notin Req
  BY <1>1, TailOfChain, UploadAssumption DEF M!RefuseInvalid, M!StatFailed, M!Running, Awaited
<1>3. /\ chain' \in Seq(Req) /\ pc' = "idle" /\ Chained'
      /\ request' \in [Req -> [op : {"none", "open", "close", "invalid"},
                               path : Path \cup {NoReq}, state : M!RequestState]]
  BY <1>1, SettleStep DEF M!TypeOK
<1>4. M!TypeOK'
  BY <1>1, <1>3 DEF M!TypeOK
<1>5. Awaited'
  BY <1>1, <1>2, <1>3, UploadAssumption DEF Awaited, M!TypeOK
<1> QED BY <1>1, <1>3, <1>4, <1>5 DEF M!LiveIsActive, M!StreamsFollowActive

\* An open waits for stat.
LEMMA StartOpenStep ==
  ASSUME Managed, M!StartOpen
  PROVE  Managed'
<1> USE DEF Managed
<1>1. chain # <<>> /\ request[chain[1]].op = "open"
  BY TailOfChain DEF M!StartOpen, M!Running
<1>2. /\ pc = "idle" /\ pc' = "stat"
      /\ UNCHANGED <<fs, request, chain, active, app, manager, leaving, on>>
  BY DEF M!StartOpen
<1>3. M!TypeOK' /\ Chained' /\ Awaited'
  BY <1>1, <1>2, UploadAssumption DEF M!TypeOK, Chained, Awaited
<1> QED BY <1>2, <1>3 DEF M!LiveIsActive, M!StreamsFollowActive

\* The open log starts to close, for the head of the chain or for the end of
\* the manager.
LEMMA DisposeStep ==
  ASSUME Managed, active # NoReq, M!DisposeCurrent,
         \/ /\ chain # <<>> /\ request[chain[1]].op # "invalid" /\ pc' = active
            /\ UNCHANGED <<manager, leaving>>
         \/ manager' = "disposing" /\ leaving' = active /\ pc' = pc,
         UNCHANGED <<fs, request, chain, on>>
  PROVE  Managed'
<1> USE DEF Managed
<1>1. active \in Req /\ app[active] = "live" /\ pc \notin Req
  BY DEF M!TypeOK, M!LiveIsActive, Awaited
<1>2. active' = NoReq /\ app' = [app EXCEPT ![active] = "disposing"]
  BY DEF M!DisposeCurrent
<1>3. /\ app' \in [Req -> M!AppLife] /\ app'[active] = "disposing"
      /\ \A a \in Req : a # active => app'[a] = app[a]
  BY <1>1, <1>2 DEF M!TypeOK, M!AppLife
<1>4. M!TypeOK'
  BY <1>1, <1>2, <1>3 DEF M!TypeOK
<1>5. Chained'
  <2>1. \A r \in Req : app[r] = "none" => app'[r] = "none"
    BY <1>1, <1>3
  <2>2. \A i \in 1..Len(chain) : chain[i] \in Req
    BY DEF M!TypeOK
  <2> QED BY <2>1, <2>2 DEF Chained
<1>6. Awaited'
  BY <1>1, <1>2, <1>3 DEF Awaited
<1>7. M!LiveIsActive' /\ M!StreamsFollowActive'
  BY <1>1, <1>2, <1>3, UploadAssumption DEF M!LiveIsActive, M!StreamsFollowActive
<1> QED BY <1>4, <1>5, <1>6, <1>7

\* A close settles when nothing is open, or when what was open is disposed.
LEMMA ClosedStep ==
  ASSUME Managed, M!Closed
  PROVE  Managed'
<1> USE DEF Managed
<1>1. /\ chain # <<>> /\ M!Settle("ok") /\ on' = [s \in Stream |-> NoReq]
      /\ UNCHANGED <<fs, active, app, manager, leaving>>
  BY DEF M!Closed, M!Running, M!Notify
<1>2. manager = "open" => \A a \in Req : app[a] # "disposing"
  BY UploadAssumption DEF M!Closed, Awaited
<1>3. /\ chain' \in Seq(Req) /\ pc' = "idle" /\ Chained'
      /\ request' \in [Req -> [op : {"none", "open", "close", "invalid"},
                               path : Path \cup {NoReq}, state : M!RequestState]]
  BY <1>1, SettleStep DEF M!TypeOK
<1>4. M!TypeOK'
  BY <1>1, <1>3 DEF M!TypeOK
<1>5. Awaited'
  BY <1>1, <1>2, <1>3, UploadAssumption DEF Awaited
<1> QED BY <1>1, <1>3, <1>4, <1>5 DEF M!LiveIsActive, M!StreamsFollowActive

\* An AppState that closes is disposed in the end.
LEMMA AppDisposedStep ==
  ASSUME Managed, NEW a \in Req, M!AppDisposed(a)
  PROVE  Managed'
<1> USE DEF Managed
<1>1. /\ app[a] = "disposing" /\ app' = [app EXCEPT ![a] = "disposed"]
      /\ UNCHANGED <<fs, request, chain, pc, active, manager, leaving, on>>
  BY DEF M!AppDisposed
<1>2. /\ app' \in [Req -> M!AppLife] /\ app'[a] = "disposed"
      /\ \A b \in Req : b # a => app'[b] = app[b]
  BY <1>1 DEF M!TypeOK, M!AppLife
<1>3. M!TypeOK'
  BY <1>1, <1>2 DEF M!TypeOK
<1>4. Chained'
  <2>1. \A i \in 1..Len(chain) : chain[i] \in Req
    BY DEF M!TypeOK
  <2> QED BY <1>1, <1>2, <2>1 DEF Chained
<1>5. Awaited' /\ M!LiveIsActive' /\ M!StreamsFollowActive'
  BY <1>1, <1>2 DEF Awaited, M!LiveIsActive, M!StreamsFollowActive
<1> QED BY <1>3, <1>4, <1>5

\* The streams attach to the open log only, and the disk is the manager's to
\* read.
LEMMA OtherSteps ==
  ASSUME Managed,
         \/ \E s \in Stream : M!Attach(s) \/ M!Detach(s)
         \/ M!Disposed
         \/ /\ fs' \in [Path -> M!FileKind]
            /\ UNCHANGED <<request, chain, pc, active, app, manager, leaving, on>>
  PROVE  Managed'
<1> USE DEF Managed
<1>1. /\ UNCHANGED <<request, chain, pc, active, app, leaving>>
      /\ fs' \in [Path -> M!FileKind]
      /\ manager' \in {"open", "disposing", "disposed"}
      /\ manager' = "open" => manager = "open"
  BY DEF M!Attach, M!Detach, M!Disposed, M!TypeOK
<1>2. on' \in [Stream -> Req \cup {NoReq}] /\ M!StreamsFollowActive'
  BY DEF M!Attach, M!Detach, M!Disposed, M!TypeOK, M!StreamsFollowActive
<1> QED BY <1>1, <1>2 DEF M!TypeOK, Chained, Awaited, M!LiveIsActive

\* Every action of the manager keeps what holds of it.
LEMMA ManagerStep ==
  ASSUME Managed,
         \/ ManagerWork \/ ManagerRequests \/ M!Disposed \/ UNCHANGED managerVars
  PROVE  Managed'
<1>1. CASE M!RefuseInvalid \/ M!StatFailed
  BY <1>1, RefuseStep
<1>2. CASE M!StartOpen
  BY <1>2, StartOpenStep
<1>3. CASE M!StatReturned
  <2>1. chain # <<>> /\ request[chain[1]].op = "open" /\ M!Running("open") /\ pc = "stat"
    BY <1>3, TailOfChain DEF M!StatReturned, M!Running, Managed
  <2>2. CASE active # NoReq
    BY <1>3, <2>1, <2>2, DisposeStep DEF M!StatReturned
  <2>3. CASE active = NoReq
    BY <1>3, <2>1, <2>3, CreateStep, UploadAssumption DEF M!StatReturned
  <2> QED BY <2>2, <2>3
<1>4. CASE M!OpenAfterDispose
  <2>1. active = NoReq /\ pc # "idle"
    BY <1>4, UploadAssumption DEF M!OpenAfterDispose, Managed, Awaited
  <2> QED BY <1>4, <2>1, CreateStep DEF M!OpenAfterDispose
<1>5. CASE M!StartClose
  <2>1. chain # <<>> /\ request[chain[1]].op = "close"
    BY <1>5, TailOfChain DEF M!StartClose, M!Running, Managed
  <2> QED BY <1>5, <2>1, DisposeStep DEF M!StartClose
<1>6. CASE \E a \in Req : M!AppDisposed(a)
  BY <1>6, AppDisposedStep
<1>7. CASE M!Closed
  BY <1>7, ClosedStep
<1>8. CASE \E r \in Req \ Upload :
             M!close(r) \/ M!openInvalid(r) \/ \E p \in Path \ Upload : M!open(r, p)
  <2>1. fs \in [Path -> M!FileKind]
    BY DEF Managed, M!TypeOK
  <2> QED BY <1>8, <2>1, MakeStep DEF M!close, M!openInvalid, M!open
<1>9. CASE \E s \in Stream : M!Attach(s) \/ M!Detach(s)
  BY <1>9, OtherSteps
<1>10. CASE \E p \in Path \ Upload, kind \in M!FileKind : M!FileChanges(p, kind)
  BY <1>10, OtherSteps DEF M!FileChanges, Managed, M!TypeOK
<1>11. CASE M!dispose
  <2>1. CASE active # NoReq
    BY <1>11, <2>1, DisposeStep DEF M!dispose
  <2>2. CASE active = NoReq
    <3>1. /\ UNCHANGED <<fs, request, chain, pc, active, app, on>>
          /\ manager' = "disposing" /\ leaving' = NoReq
      BY <1>11, <2>2 DEF M!dispose, M!DisposeCurrent
    <3> QED
      BY <3>1 DEF Managed, M!TypeOK, Chained, Awaited, M!LiveIsActive, M!StreamsFollowActive
  <2> QED BY <2>1, <2>2
<1>12. CASE M!Disposed
  BY <1>12, OtherSteps
<1>13. CASE UNCHANGED managerVars
  BY <1>13, OtherSteps DEF managerVars, Managed, M!TypeOK
<1> QED
  BY <1>1, <1>2, <1>3, <1>4, <1>5, <1>6, <1>7, <1>8, <1>9, <1>10, <1>11, <1>12, <1>13
  DEF ManagerWork, ManagerRequests, Closed

-----------------------------------------------------------------------------
(* The uploads.                                                            *)

\* The types of the variables of the routes.
UploadTypes ==
  /\ upload \in [Upload -> UploadState]
  /\ cleanupErrors \in BOOLEAN /\ listening \in BOOLEAN
  /\ rmFailures \in 0..MaxRmFailures
  /\ removing \subseteq dirs /\ dirs \subseteq Upload
  /\ cleanup \in [Req \cup {NoReq} -> SUBSET Upload]
  /\ routes \in {"open", "draining", "removing", "disposed", "failed"}

\* The inductive invariant, the manager's part and the routes'.
LEMMA InvParts == RoutesInv <=> Managed /\ UploadTypes /\ Stored
  BY DEF RoutesInv, RoutesTypeOK, UploadTypes, Managed

\* Nothing is open and nothing stored at first.
LEMMA InitRoutesInv == RoutesInit => RoutesInv
<1> SUFFICES ASSUME RoutesInit PROVE RoutesInv
  OBVIOUS
<1>1. /\ chain = <<>> /\ pc = "idle" /\ active = NoReq /\ manager = "open" /\ leaving = NoReq
      /\ app = [r \in Req |-> "none"] /\ request = [r \in Req |-> M!Unmade]
      /\ on = [s \in Stream |-> NoReq]
  BY DEF RoutesInit, M!InitManager
<1>2. fs = [p \in Path |-> IF p \in Upload THEN "missing" ELSE "file"]
  BY DEF RoutesInit
<1>3. M!TypeOK
  BY <1>1, <1>2 DEF M!TypeOK, M!FileKind, M!AppLife, M!RequestState, M!Unmade
<1>4. Managed
  BY <1>1, <1>3, UploadAssumption
  DEF Managed, Chained, Awaited, M!LiveIsActive, M!StreamsFollowActive
<1>5. UploadTypes
  <2>1. /\ upload = [u \in Upload |-> "none"] /\ dirs = {} /\ removing = {}
        /\ cleanup = [r \in Req \cup {NoReq} |-> {}] /\ cleanupErrors = FALSE
        /\ rmFailures = 0 /\ listening = TRUE /\ routes = "open"
    BY DEF RoutesInit
  <2>2. cleanup \in [Req \cup {NoReq} -> SUBSET Upload]
    BY <2>1
  <2>3. rmFailures \in 0..MaxRmFailures
    BY <2>1, UploadAssumption
  <2> QED BY <2>1, <2>2, <2>3 DEF UploadTypes, UploadState
<1>6. \A u \in Upload : fs[u] = "missing"
  BY <1>2, UploadAssumption
<1>7. Stored
  BY <1>6 DEF RoutesInit, Stored
<1> QED BY <1>4, <1>5, <1>7, InvParts

\* The removals a cleanup starts are of files the store knows.
LEMMA CleanupStep ==
  ASSUME UploadTypes, Stored, NEW r \in Req, NEW keep \in SUBSET Upload,
         cleanupAllExcept(r, keep),
         upload' \in [Upload -> UploadState],
         \A u \in Upload : upload'[u] # upload[u] => upload[u] = "opening",
         UNCHANGED <<fs, dirs, cleanupErrors, rmFailures, listening, routes>>
  PROVE  UploadTypes' /\ Stored'
<1>1. UploadTypes'
  BY UploadAssumption DEF UploadTypes, cleanupAllExcept
<1>2. cleanup'[NoReq] = cleanup[NoReq]
  BY UploadAssumption DEF UploadTypes, cleanupAllExcept
<1>3. Stored'
  BY <1>2 DEF Stored, UploadTypes
<1> QED BY <1>1, <1>3

\* A handler that moves on without the store; only a handler that receives can
\* store anything, and the routes that are open alone let one receive.
LEMMA HandlerStep ==
  ASSUME UploadTypes, Stored,
         \E u \in Upload : Receive(u) \/ Refuse(u) \/ Cleaned(u)
  PROVE  UploadTypes' /\ Stored'
  BY DEF UploadTypes, UploadState, Stored, Receive, Refuse, Cleaned, managerVars

\* A write that fails leaves a directory the store does not know, until it is
\* undone or for good.
LEMMA UndoStep ==
  ASSUME M!TypeOK, UploadTypes, Stored, NEW u \in Upload,
         WriteFailed(u) \/ Undone(u) \/ UndoFailed(u)
  PROVE  UploadTypes' /\ Stored' /\ fs' \in [Path -> M!FileKind]
<1>0. u \in Path
  BY UploadAssumption
<1>1. CASE WriteFailed(u)
  <2>1. /\ upload[u] = "receiving" /\ upload' = [upload EXCEPT ![u] = "undoing"]
        /\ fs' = [fs EXCEPT ![u] = "file"]
        /\ UNCHANGED <<dirs, removing, cleanup, cleanupErrors, rmFailures, listening, routes>>
    BY <1>1 DEF WriteFailed
  <2>2. fs' \in [Path -> M!FileKind] /\ \A v \in Upload : v # u => fs'[v] = fs[v]
    BY <1>0, <2>1, UploadAssumption DEF M!TypeOK, M!FileKind
  <2>3. UploadTypes' /\ upload'[u] = "undoing" /\ \A v \in Upload : v # u => upload'[v] = upload[v]
    BY <2>1 DEF UploadTypes, UploadState
  <2>4. routes \notin {"removing", "disposed", "failed"}
    BY <2>1 DEF Stored
  <2> QED BY <2>1, <2>2, <2>3, <2>4 DEF Stored
<1>2. CASE Undone(u)
  <2>1. /\ upload[u] = "undoing" /\ upload' = [upload EXCEPT ![u] = "done"]
        /\ fs' = [fs EXCEPT ![u] = "missing"]
        /\ UNCHANGED <<dirs, removing, cleanup, cleanupErrors, rmFailures, listening, routes>>
    BY <1>2 DEF Undone
  <2>2. /\ fs' \in [Path -> M!FileKind] /\ fs'[u] = "missing"
        /\ \A v \in Upload : v # u => fs'[v] = fs[v]
    BY <1>0, <2>1, UploadAssumption DEF M!TypeOK, M!FileKind
  <2>3. UploadTypes' /\ \A v \in Upload : v # u => upload'[v] = upload[v]
    BY <2>1 DEF UploadTypes, UploadState
  <2>4. routes \notin {"removing", "disposed", "failed"}
    BY <2>1 DEF Stored
  <2> QED BY <2>1, <2>2, <2>3, <2>4 DEF Stored
<1>3. CASE UndoFailed(u)
  <2>1. /\ upload[u] = "undoing" /\ upload' = [upload EXCEPT ![u] = "stranded"]
        /\ rmFailures < MaxRmFailures /\ rmFailures' = rmFailures + 1
        /\ UNCHANGED <<fs, dirs, removing, cleanup, cleanupErrors, listening, routes>>
    BY <1>3 DEF UndoFailed, managerVars
  <2>2. /\ UploadTypes' /\ upload'[u] = "stranded"
        /\ \A v \in Upload : v # u => upload'[v] = upload[v]
    BY <2>1, UploadAssumption DEF UploadTypes, UploadState
  <2>3. Stored'
    BY <2>1, <2>2 DEF Stored
  <2> QED BY <2>1, <2>2, <2>3 DEF M!TypeOK
<1> QED BY <1>1, <1>2, <1>3

\* A removal that succeeds or fails; one that the end waits for and that fails
\* is an error of the end.
LEMMA RemovalStep ==
  ASSUME M!TypeOK, UploadTypes, Stored, NEW u \in Upload, RmDone(u) \/ RmFailed(u)
  PROVE  UploadTypes' /\ Stored' /\ fs' \in [Path -> M!FileKind]
<1>1. CASE RmDone(u)
  <2>1. /\ removing' = removing \ {u} /\ dirs' = dirs \ {u}
        /\ fs' = [fs EXCEPT ![u] = "missing"]
        /\ cleanup' = [r \in Req \cup {NoReq} |-> cleanup[r] \ {u}]
        /\ UNCHANGED <<upload, cleanupErrors, rmFailures, listening, routes>>
    BY <1>1 DEF RmDone, UploadTypes
  <2>2. UploadTypes' /\ fs' \in [Path -> M!FileKind]
    BY <2>1 DEF UploadTypes, M!TypeOK, M!FileKind
  <2>3. \A v \in Upload : v # u => fs'[v] = fs[v]
    BY <2>1, UploadAssumption DEF M!TypeOK
  <2>4. fs'[u] = "missing"
    BY <2>1, UploadAssumption DEF M!TypeOK
  <2>5. Stored'
    BY <2>1, <2>3, <2>4 DEF Stored, UploadTypes
  <2> QED BY <2>2, <2>5
<1>2. CASE RmFailed(u)
  <2> DEFINE failed == {r \in Req \cup {NoReq} : u \in cleanup[r]}
             background == {r \in failed : r \in Upload => upload[r] # "cleaning"}
  <2>1. /\ removing' = removing \ {u} /\ rmFailures < MaxRmFailures
        /\ rmFailures' = rmFailures + 1
        /\ cleanup' = [r \in Req \cup {NoReq} |-> IF r \in failed THEN {} ELSE cleanup[r]]
        /\ cleanupErrors' = (cleanupErrors \/ background # {})
        /\ UNCHANGED <<fs, upload, dirs, listening, routes>>
    BY <1>2 DEF RmFailed, UploadTypes, managerVars
  <2>2. NoReq \in failed => NoReq \in background
    BY UploadAssumption
  <2>3. cleanupErrors' \in BOOLEAN /\ (~cleanupErrors' => ~cleanupErrors /\ NoReq \notin failed)
    BY <2>1, <2>2 DEF UploadTypes
  <2>4. UploadTypes'
    BY <2>1, <2>3, UploadAssumption DEF UploadTypes
  <2>5. ~cleanupErrors' => cleanup'[NoReq] = cleanup[NoReq]
    BY <2>1, <2>3
  <2>6. Stored'
    BY <2>1, <2>3, <2>5 DEF Stored
  <2> QED BY <2>1, <2>4, <2>6 DEF M!TypeOK
<1> QED BY <1>1, <1>2

\* The end of the routes removes all there is, once no handler is at work.
LEMMA EndStep ==
  ASSUME UploadTypes, Stored, disposeRoutes \/ disposeAll \/ RoutesDisposed
  PROVE  UploadTypes' /\ Stored'
<1>1. CASE disposeRoutes
  BY <1>1 DEF disposeRoutes, UploadTypes, Stored, managerVars
<1>2. CASE disposeAll
  <2>1. /\ removing' = removing \cup dirs /\ cleanup' = [cleanup EXCEPT ![NoReq] = dirs]
        /\ routes' = "removing" /\ \A u \in Upload : upload[u] \in {"none", "done", "stranded"}
        /\ UNCHANGED <<fs, upload, dirs, cleanupErrors, rmFailures, listening>>
    BY <1>2 DEF disposeAll, cleanupAllExcept, managerVars
  <2> QED BY <2>1 DEF UploadTypes, Stored
<1>3. CASE RoutesDisposed
  BY <1>3 DEF RoutesDisposed, UploadTypes, Stored, managerVars
<1> QED BY <1>1, <1>2, <1>3

\* Every step keeps the invariant.
LEMMA NextRoutesInv == RoutesInv /\ [RoutesNext]_routesVars => RoutesInv'
<1> SUFFICES ASSUME Managed, UploadTypes, Stored, [RoutesNext]_routesVars
             PROVE  Managed' /\ UploadTypes' /\ Stored'
  BY DEF RoutesInv, RoutesTypeOK, UploadTypes, Managed
<1>0. M!TypeOK
  BY DEF Managed
<1>1. CASE Continue
  <2>1. PICK u \in Upload : Opened(u) \/ OpenFailed(u)
    BY <1>1 DEF Continue
  <2>2. Managed'
    BY <2>1, ManagerStep DEF Opened, OpenFailed
  <2>3. /\ upload[u] = "opening" /\ (cleanupAllExcept(u, {u}) \/ cleanupAllExcept(u, {}))
        /\ upload' \in [Upload -> UploadState]
        /\ \A v \in Upload : upload'[v] # upload[v] => upload[v] = "opening"
        /\ UNCHANGED <<fs, dirs, cleanupErrors, rmFailures, listening, routes>>
    BY <2>1 DEF Opened, OpenFailed, UploadTypes, UploadState, managerVars
  <2>4. u \in Req /\ {u} \in SUBSET Upload /\ {} \in SUBSET Upload
    BY UploadAssumption
  <2>5. UploadTypes' /\ Stored'
    BY <2>3, <2>4, CleanupStep
  <2> QED BY <2>2, <2>5
<1>2. CASE \E u \in Upload : Receive(u) \/ Refuse(u) \/ Cleaned(u)
  BY <1>2, HandlerStep, ManagerStep DEF Receive, Refuse, Cleaned
<1>3. CASE \E u \in Upload : Written(u)
  <2>1. PICK u \in Upload : Written(u)
    BY <1>3
  <2>2. /\ upload[u] = "receiving" /\ upload' = [upload EXCEPT ![u] = "opening"]
        /\ dirs' = dirs \cup {u} /\ fs' = [fs EXCEPT ![u] = "file"]
        /\ M!Make(u, "open", u)
        /\ UNCHANGED <<pc, active, app, manager, leaving, on>>
        /\ UNCHANGED <<removing, cleanup, cleanupErrors, rmFailures, listening, routes>>
    BY <2>1 DEF Written
  <2>3. fs' \in [Path -> M!FileKind] /\ u \in Req /\ u \in Path
    BY <1>0, <2>2, UploadAssumption DEF M!TypeOK, M!FileKind
  <2>4. Managed'
    BY <2>2, <2>3, MakeStep
  <2>5. UploadTypes'
    BY <2>2 DEF UploadTypes, UploadState
  <2>6. routes \notin {"removing", "disposed", "failed"}
    BY <2>2 DEF Stored
  <2>7. \A v \in Upload :
          fs'[v] # "missing" => v \in dirs' \/ upload'[v] \in {"undoing", "stranded"}
    BY <1>0, <2>2, UploadAssumption DEF Stored, M!TypeOK, UploadTypes
  <2>8. Stored'
    BY <2>2, <2>6, <2>7 DEF Stored
  <2> QED BY <2>4, <2>5, <2>8
<1>4. CASE \E u \in Upload : RmDone(u) \/ RmFailed(u)
  <2>1. UploadTypes' /\ Stored' /\ fs' \in [Path -> M!FileKind]
    BY <1>0, <1>4, RemovalStep
  <2>2. UNCHANGED <<request, chain, pc, active, app, manager, leaving, on>>
    BY <1>4 DEF RmDone, RmFailed, managerVars
  <2> QED BY <2>1, <2>2, OtherSteps
<1>4a. CASE \E u \in Upload : WriteFailed(u) \/ Undone(u) \/ UndoFailed(u)
  <2>1. UploadTypes' /\ Stored' /\ fs' \in [Path -> M!FileKind]
    BY <1>0, <1>4a, UndoStep
  <2>2. UNCHANGED <<request, chain, pc, active, app, manager, leaving, on>>
    BY <1>4a DEF WriteFailed, Undone, UndoFailed, managerVars
  <2> QED BY <2>1, <2>2, OtherSteps
<1>5. CASE disposeRoutes \/ disposeAll \/ RoutesDisposed
  BY <1>5, EndStep, ManagerStep DEF disposeRoutes, disposeAll, RoutesDisposed
<1>6. CASE ManagerWork
  <2>1. Managed'
    BY <1>6, ManagerStep
  <2>2. UNCHANGED fs
    BY <1>6 DEF ManagerWork, Closed, M!RefuseInvalid, M!StartOpen, M!StatFailed,
       M!StatReturned, M!OpenAfterDispose, M!StartClose, M!AppDisposed, M!Closed
  <2>3. CASE UNCHANGED uploadVars
    <3>1. UNCHANGED <<upload, dirs, removing, cleanup, cleanupErrors, rmFailures,
                      listening, routes>>
      BY <2>3 DEF uploadVars
    <3>2. UploadTypes'
      BY <3>1 DEF UploadTypes
    <3>3. Stored'
      BY <2>2, <3>1 DEF Stored
    <3> QED BY <2>1, <3>2, <3>3
  <2>4. CASE Closed /\ listening
    <3>1. Head(chain) \in Req
      BY <2>4, TailOfChain DEF Closed, M!Closed, M!Running, Managed
    <3>2. cleanupAllExcept(Head(chain), {})
          /\ UNCHANGED <<upload, dirs, cleanupErrors, rmFailures, listening, routes>>
      BY <2>4 DEF Closed
    <3>3. upload' \in [Upload -> UploadState]
      BY <3>2 DEF UploadTypes
    <3> QED BY <2>1, <2>2, <3>1, <3>2, <3>3, CleanupStep
  <2>5. CASE Closed /\ ~listening
    BY <2>1, <2>2, <2>5 DEF Closed, UploadTypes, Stored
  <2> QED BY <1>6, <2>1, <2>3, <2>4, <2>5 DEF ManagerWork
<1>7. CASE ManagerDisposed
  <2>1. Managed' /\ UNCHANGED fs
    BY <1>7, ManagerStep DEF ManagerDisposed, M!Disposed
  <2> QED BY <1>7, <2>1 DEF ManagerDisposed, UploadTypes, Stored
<1>8. CASE ManagerRequests
  <2>1. Managed' /\ UNCHANGED uploadVars
    BY <1>8, ManagerStep DEF ManagerRequests
  <2>2. \A u \in Upload : fs'[u] = fs[u]
    <3>1. CASE \E p \in Path \ Upload, kind \in M!FileKind : M!FileChanges(p, kind)
      BY <1>0, <3>1, UploadAssumption DEF M!FileChanges, M!TypeOK
    <3>2. CASE UNCHANGED fs
      BY <3>2
    <3> QED
      BY <1>8, <3>1, <3>2 DEF ManagerRequests, M!close, M!openInvalid, M!open, M!Attach,
         M!Detach, M!dispose
  <2>3. UNCHANGED <<upload, dirs, removing, cleanup, cleanupErrors, rmFailures,
                    listening, routes>>
    BY <2>1 DEF uploadVars
  <2>4. UploadTypes'
    BY <2>3 DEF UploadTypes
  <2>5. Stored'
    BY <2>2, <2>3 DEF Stored
  <2> QED BY <2>1, <2>4, <2>5
<1>9. CASE UNCHANGED routesVars
  BY <1>9, ManagerStep DEF routesVars, managerVars, uploadVars, UploadTypes, Stored
<1> QED
  BY <1>1, <1>2, <1>3, <1>4, <1>5, <1>6, <1>7, <1>8, <1>9, <1>4a DEF RoutesNext, Handle, Ask

\* The invariant holds for any number of uploads, requests and streams.
THEOREM RoutesInvariance == RoutesSpec => []RoutesInv
  BY InitRoutesInv, NextRoutesInv, PTL DEF RoutesSpec

-----------------------------------------------------------------------------

\* Every variable is of its type.
THEOREM RoutesTypeCorrect == RoutesSpec => []RoutesTypeOK
<1>1. RoutesInv => RoutesTypeOK
  BY DEF RoutesInv
<1> QED BY RoutesInvariance, <1>1, PTL

\* The live AppState is that of the open log, and alone until the manager is
\* disposed, and while a log is open no stream follows an earlier one, whatever
\* opens, closes, uploads and dispose overlap.
THEOREM FollowActiveCorrect == RoutesSpec => []FollowActive
<1>1. ASSUME RoutesInv PROVE FollowActive
  <2>1. M!LiveIsActive /\ Awaited /\ M!TypeOK /\ M!StreamsFollowActive
    BY <1>1 DEF RoutesInv, Managed
  <2>2. M!OneAppAtATime
    BY <2>1, UploadAssumption DEF M!OneAppAtATime, M!LiveIsActive, Awaited, M!TypeOK
  <2> QED BY <2>1, <2>2 DEF FollowActive, M!AppStatesFollowActive
<1> QED BY RoutesInvariance, <1>1, PTL

\* A dispose that succeeds leaves nothing the store knew, and on the disk nothing
\* but directories it never knew, of writes that failed and could not be undone.
THEOREM NothingLeftCorrect == RoutesSpec => []NothingLeftBehind
<1>1. RoutesInv => NothingLeftBehind
  BY DEF RoutesInv, RoutesTypeOK, Stored, NothingLeftBehind
<1> QED BY RoutesInvariance, <1>1, PTL

-----------------------------------------------------------------------------
(* Preferences.                                                            *)

Prefs == [view : {NoLog, Default} \cup [log : Log \cup {NoLog}, choice : Choice],
          selectedIdx : 0..1]
StoredEntry == [key : Log, prefs : Prefs]
Store == [logKey : Log \cup {NoLog}, phase : LoadPhase, rowsLen : 0..1, prefs : Prefs]
Effect == [hydratedFor : Log \cup {NoLog}, disabled : BOOLEAN,
           pendingSaveLogKey : Log \cup {NoLog}]

Own(prefs, k) == prefs.view.log \in {NoLog, k}

\* no two entries of a log
Keyed(s) == \A i, j \in DOMAIN s : s[i].key = s[j].key => i = j

StorageOK(s) == s \in Seq(StoredEntry) /\ Keyed(s)
AllOwn(s) == \A k \in Log : \A p \in loadPerLogPrefs(s, k) : Own(p, k)

\* the effect speaks of no log but the one in view
Following(e, t) ==
  /\ e.hydratedFor \in {NoLog, t.logKey}
  /\ ~e.disabled => e.pendingSaveLogKey \in {NoLog, t.logKey}

Shown(w, t) ==
  (t.logKey # NoLog /\ w.effect.hydratedFor = t.logKey /\ ~w.effect.disabled
   /\ w.effect.pendingSaveLogKey = NoLog)
     => loadPerLogPrefs(w.storage, t.logKey) \subseteq {t.prefs}

WorldOK(w) ==
  /\ w \in [effect : Effect, storage : Seq(StoredEntry), chosen : SUBSET Log]
  /\ Keyed(w.storage)

\* the world w and the store t agree; "own" says whether no stream brought
\* another log by itself
Agree(w, t, own) ==
  /\ t \in Store
  /\ WorldOK(w)
  /\ Following(w.effect, t)
  /\ Shown(w, t)
  /\ own => AllOwn(w.storage) /\ Own(t.prefs, t.logKey)

SavedInv == carried \in BOOLEAN /\ Agree(World, store, ~carried)

-----------------------------------------------------------------------------
(* The storage.                                                            *)

\* What is left of a sequence without its element at i.
LEMMA RemovedAt ==
  ASSUME NEW S, NEW s \in Seq(S), NEW i \in 1..Len(s)
  PROVE  /\ RemoveAt(s, i) \in Seq(S)
         /\ Len(RemoveAt(s, i)) = Len(s) - 1
         /\ \A n \in 1..Len(s) - 1 :
              RemoveAt(s, i)[n] = IF n < i THEN s[n] ELSE s[n + 1]
<1> DEFINE before == SubSeq(s, 1, i - 1)
           after  == SubSeq(s, i + 1, Len(s))
<1>1. Len(s) \in Nat /\ i \in Int /\ 1 <= i /\ i <= Len(s)
  OBVIOUS
<1>2. \A n \in 1..Len(s) : s[n] \in S
  BY ElementOfSeq
<1>3. /\ before \in Seq(S) /\ Len(before) = i - 1
      /\ \A n \in 1..i - 1 : before[n] = s[n]
  <2>1. \A n \in 1..i - 1 : s[n] \in S
    BY <1>1, <1>2
  <2>2. /\ before \in Seq(S)
        /\ Len(before) = IF 1 <= i - 1 THEN (i - 1) - 1 + 1 ELSE 0
        /\ \A n \in 1..(i - 1) - 1 + 1 : before[n] = s[1 + n - 1]
    BY <1>1, <2>1, SubSeqProperties
  <2> HIDE DEF before
  <2>3. \A n \in 1..i - 1 : 1 + n - 1 = n
    BY <1>1
  <2> QED
    BY <1>1, <2>2, <2>3
<1>4. /\ after \in Seq(S) /\ Len(after) = Len(s) - i
      /\ \A n \in 1..Len(s) - i : after[n] = s[i + n]
  <2>1. \A n \in i + 1..Len(s) : s[n] \in S
    BY <1>1, <1>2
  <2>2. i + 1 \in Int /\ Len(s) \in Int
    BY <1>1
  <2>3. /\ after \in Seq(S)
        /\ Len(after) = IF i + 1 <= Len(s) THEN Len(s) - (i + 1) + 1 ELSE 0
        /\ \A n \in 1..Len(s) - (i + 1) + 1 : after[n] = s[(i + 1) + n - 1]
    BY <2>1, <2>2, SubSeqProperties
  <2> HIDE DEF after
  <2>4. \A n \in 1..Len(s) - i : (i + 1) + n - 1 = i + n
    BY <1>1
  <2> QED
    BY <1>1, <2>3, <2>4
<1>5. RemoveAt(s, i) = before \o after
  BY DEF RemoveAt
<1> HIDE DEF before, after
<1>6. /\ before \o after \in Seq(S)
      /\ Len(before \o after) = (i - 1) + (Len(s) - i)
      /\ \A n \in 1..(i - 1) + (Len(s) - i) :
           (before \o after)[n] = IF n <= i - 1 THEN before[n] ELSE after[n - (i - 1)]
  <2>1. /\ before \o after \in Seq(S)
        /\ Len(before \o after) = Len(before) + Len(after)
        /\ \A n \in 1..Len(before) + Len(after) :
             (before \o after)[n] =
               IF n <= Len(before) THEN before[n] ELSE after[n - Len(before)]
    BY <1>3, <1>4, ConcatProperties
  <2> QED
    BY <1>3, <1>4, <2>1
<1>7. (i - 1) + (Len(s) - i) = Len(s) - 1
  BY <1>1
<1>8. ASSUME NEW n \in 1..Len(s) - 1
      PROVE  RemoveAt(s, i)[n] = IF n < i THEN s[n] ELSE s[n + 1]
  <2>1. CASE n < i
    BY <1>1, <1>3, <1>5, <1>6, <2>1
  <2>2. CASE ~(n < i)
    <3>1. n - (i - 1) \in 1..Len(s) - i /\ i + (n - (i - 1)) = n + 1
      BY <1>1, <2>2
    <3>2. after[n - (i - 1)] = s[n + 1]
      BY <1>4, <3>1
    <3>3. RemoveAt(s, i)[n] = after[n - (i - 1)]
      <4>1. n \in 1..(i - 1) + (Len(s) - i)
        BY <1>7
      <4>2. ~(n <= i - 1)
        BY <1>1, <2>2
      <4> QED
        BY <1>5, <1>6, <4>1, <4>2
    <3> QED
      BY <2>2, <3>2, <3>3
  <2> QED
    BY <2>1, <2>2
<1> QED
  BY <1>5, <1>6, <1>7, <1>8

\* Taking the entry of a log away leaves the entries of the others.
LEMMA WithoutEntry ==
  ASSUME NEW s, StorageOK(s), NEW k \in Log
  PROVE  /\ StorageOK(Without(s, k))
         /\ \A n \in DOMAIN Without(s, k) :
              Without(s, k)[n].key # k /\ Without(s, k)[n] \in ToSet(s)
<1>1. CASE Entries(s, k) = {}
  BY <1>1 DEF Without, Entries, ToSet, StorageOK
<1>2. CASE Entries(s, k) # {}
  <2> DEFINE i == CHOOSE m \in DOMAIN s : s[m].key = k
             r == RemoveAt(s, i)
  <2>1. i \in DOMAIN s /\ s[i].key = k
    BY <1>2 DEF Entries, ToSet
  <2>2. s \in Seq(StoredEntry) /\ DOMAIN s = 1..Len(s) /\ Len(s) \in Nat
    BY DEF StorageOK
  <2>3. Without(s, k) = r
    BY <1>2 DEF Without
  <2> HIDE DEF i
  <2>4. i \in 1..Len(s)
    BY <2>1, <2>2
  <2>5. /\ r \in Seq(StoredEntry) /\ Len(r) = Len(s) - 1
        /\ \A n \in 1..Len(s) - 1 : r[n] = IF n < i THEN s[n] ELSE s[n + 1]
    BY <2>2, <2>4, RemovedAt
  <2> HIDE DEF r
  <2>6. DOMAIN r = 1..Len(s) - 1
    BY <2>5
  <2> DEFINE at(n) == IF n < i THEN n ELSE n + 1
  <2>7. \A n \in DOMAIN r : at(n) \in DOMAIN s /\ r[n] = s[at(n)]
    BY <2>2, <2>4, <2>5, <2>6
  <2>8. \A m, n \in DOMAIN r : at(m) = at(n) => m = n
    BY <2>2, <2>4, <2>6
  <2> HIDE DEF at
  <2>9. Keyed(r)
    BY <2>7, <2>8 DEF Keyed, StorageOK
  <2>10. ASSUME NEW n \in DOMAIN r PROVE r[n].key # k /\ r[n] \in ToSet(s)
    <3>1. at(n) \in DOMAIN s /\ r[n] = s[at(n)]
      BY <2>7
    <3>2. at(n) # i
      BY <2>2, <2>4, <2>6 DEF at
    <3>3. s[at(n)].key # s[i].key
      BY <2>1, <3>1, <3>2 DEF Keyed, StorageOK
    <3>4. r[n] \in ToSet(s)
      BY <3>1 DEF ToSet
    <3> QED BY <2>1, <3>1, <3>3, <3>4
  <2> QED
    BY <2>3, <2>5, <2>9, <2>10 DEF StorageOK
<1> QED
  BY <1>1, <1>2

\* Dropping the oldest entry keeps the others.
LEMMA TailEntries ==
  ASSUME NEW s, StorageOK(s), s # <<>>
  PROVE  StorageOK(Tail(s)) /\ ToSet(Tail(s)) \subseteq ToSet(s)
<1>1. s \in Seq(StoredEntry) /\ Len(s) \in Nat /\ Len(s) > 0 /\ DOMAIN s = 1..Len(s)
  BY DEF StorageOK
<1>2. /\ Tail(s) \in Seq(StoredEntry) /\ Len(Tail(s)) = Len(s) - 1
      /\ \A n \in 1..Len(s) - 1 : Tail(s)[n] = s[n + 1]
  BY <1>1, HeadTailProperties
<1>3. DOMAIN Tail(s) = 1..Len(s) - 1
  BY <1>2
<1> QED
  BY <1>1, <1>2, <1>3 DEF StorageOK, Keyed, ToSet

\* After a save the entry of the log, if it is kept, is what was saved, and the
\* others are what they were.
LEMMA Persisted ==
  ASSUME NEW s, StorageOK(s), NEW k \in Log, NEW prefs \in Prefs
  PROVE  LET p == persistPerLogPrefs(s, k, prefs)
         IN  /\ StorageOK(p)
             /\ loadPerLogPrefs(p, k) \subseteq {prefs}
             /\ \A j \in Log \ {k} : loadPerLogPrefs(p, j) \subseteq loadPerLogPrefs(s, j)
<1> DEFINE rest == Without(s, k)
           new == [key |-> k, prefs |-> prefs]
           all == Append(rest, new)
           p == persistPerLogPrefs(s, k, prefs)
<1>1. /\ StorageOK(rest)
      /\ \A n \in DOMAIN rest : rest[n].key # k /\ rest[n] \in ToSet(s)
  BY WithoutEntry
<1> HIDE DEF rest
<1>2. new \in StoredEntry /\ new.key = k /\ new.prefs = prefs
  BY DEF StoredEntry
<1> HIDE DEF new
<1>3. /\ rest \in Seq(StoredEntry) /\ Len(rest) \in Nat /\ DOMAIN rest = 1..Len(rest)
      /\ all \in Seq(StoredEntry) /\ DOMAIN all = 1..Len(rest) + 1
      /\ \A n \in 1..Len(rest) : all[n] = rest[n]
      /\ all[Len(rest) + 1] = new
  BY <1>1, <1>2 DEF StorageOK
<1>4. all # <<>>
  BY <1>3
<1> HIDE DEF all
<1>5. Keyed(all)
  BY <1>1, <1>2, <1>3 DEF Keyed, StorageOK
<1>6. StorageOK(all) /\ ToSet(all) = ToSet(rest) \cup {new}
  <2>1. StorageOK(all)
    BY <1>3, <1>5 DEF StorageOK
  <2>2. ASSUME NEW e
        PROVE  e \in ToSet(all) <=> e \in ToSet(rest) \cup {new}
    <3>1. ASSUME e \in ToSet(all) PROVE e \in ToSet(rest) \cup {new}
      BY <1>3, <3>1 DEF ToSet
    <3>2. ASSUME e \in ToSet(rest) PROVE e \in ToSet(all)
      <4>1. PICK n \in 1..Len(rest) : rest[n] = e
        BY <1>3, <3>2 DEF ToSet
      <4> QED
        BY <1>3, <4>1 DEF ToSet
    <3>3. new \in ToSet(all)
      BY <1>3 DEF ToSet
    <3> QED
      BY <3>1, <3>2, <3>3
  <2> QED
    BY <2>1, <2>2
<1>7. p = all \/ p = Tail(all)
  BY DEF persistPerLogPrefs, all, rest, new
<1>8. StorageOK(p) /\ ToSet(p) \subseteq ToSet(rest) \cup {new}
  BY <1>4, <1>6, <1>7, TailEntries
<1> HIDE DEF p
<1>9. \A e \in ToSet(rest) : e.key # k /\ e \in ToSet(s)
  BY <1>1 DEF ToSet
<1>10. loadPerLogPrefs(p, k) \subseteq {prefs}
  BY <1>2, <1>8, <1>9 DEF loadPerLogPrefs, Entries
<1>11. \A j \in Log \ {k} : loadPerLogPrefs(p, j) \subseteq loadPerLogPrefs(s, j)
  BY <1>2, <1>8, <1>9 DEF loadPerLogPrefs, Entries
<1> QED
  BY <1>8, <1>10, <1>11 DEF p

\* What is loaded is typed.
LEMMA Loaded ==
  ASSUME NEW s, StorageOK(s), NEW k
  PROVE  loadPerLogPrefs(s, k) \subseteq Prefs
<1>1. s \in [1..Len(s) -> StoredEntry]
  BY DEF StorageOK
<1>2. ToSet(s) \subseteq StoredEntry
  BY <1>1 DEF ToSet
<1> QED
  BY <1>2 DEF loadPerLogPrefs, Entries, StoredEntry

-----------------------------------------------------------------------------
(* The effect.                                                             *)

\* A save that does not fail leaves nothing due and the log's entry as saved.
LEMMA Flushed ==
  ASSUME NEW w, WorldOK(w), NEW k \in Log, NEW prefs \in Prefs, NEW fails \in BOOLEAN
  PROVE  LET f == flushSave(w, k, prefs, fails)
         IN  /\ WorldOK(f)
             /\ f.effect.hydratedFor = w.effect.hydratedFor
             /\ w.effect.disabled => f = w
             /\ ~f.effect.disabled =>
                  /\ f.effect.pendingSaveLogKey = NoLog
                  /\ loadPerLogPrefs(f.storage, k) \subseteq {prefs}
             /\ AllOwn(w.storage) /\ Own(prefs, k) => AllOwn(f.storage)
<1> DEFINE f == flushSave(w, k, prefs, fails)
           p == persistPerLogPrefs(w.storage, k, prefs)
<1>1. StorageOK(w.storage)
  BY DEF WorldOK, StorageOK
<1>2. /\ StorageOK(p)
      /\ loadPerLogPrefs(p, k) \subseteq {prefs}
      /\ \A j \in Log \ {k} : loadPerLogPrefs(p, j) \subseteq loadPerLogPrefs(w.storage, j)
  BY <1>1, Persisted
<1>3. AllOwn(w.storage) /\ Own(prefs, k) => AllOwn(p)
  BY <1>2 DEF AllOwn
<1> HIDE DEF p
<1>4. CASE w.effect.disabled
  BY <1>4 DEF flushSave
<1>5. CASE ~w.effect.disabled
  <2>1. f = [effect  |-> [w.effect EXCEPT !.pendingSaveLogKey = NoLog, !.disabled = fails],
             storage |-> IF fails THEN w.storage ELSE p,
             chosen  |-> IF fails \/ prefs.view = Default THEN w.chosen ELSE w.chosen \cup {k}]
    BY <1>5 DEF flushSave, p
  <2> HIDE DEF f
  <2>2. f.effect.disabled = fails /\ f.effect.pendingSaveLogKey = NoLog
        /\ f.effect.hydratedFor = w.effect.hydratedFor /\ f.effect \in Effect
    BY <2>1 DEF WorldOK, Effect
  <2>3. WorldOK(f)
    BY <1>1, <1>2, <2>1, <2>2 DEF WorldOK, StorageOK
  <2>4. f.storage \in {w.storage, p}
    BY <2>1
  <2>5. ~fails => f.storage = p
    BY <2>1
  <2>6. AllOwn(w.storage) /\ Own(prefs, k) => AllOwn(f.storage)
    BY <1>3, <2>4
  <2>7. ~f.effect.disabled => loadPerLogPrefs(f.storage, k) \subseteq {prefs}
    BY <1>2, <2>2, <2>5
  <2> QED
    BY <1>5, <2>2, <2>3, <2>6, <2>7 DEF f
<1> QED
  BY <1>4, <1>5

\* What has been left is saved, and the effect is of no log.
LEMMA LeftBehind ==
  ASSUME SavedInv, NEW fails \in BOOLEAN, store.logKey # NoLog
  PROVE  LET w == Left(World, fails)
         IN  /\ WorldOK(w)
             /\ w.effect.hydratedFor = NoLog
             /\ ~w.effect.disabled => w.effect.pendingSaveLogKey = NoLog
             /\ ~carried => AllOwn(w.storage)
<1> DEFINE flushed == IF World.effect.pendingSaveLogKey = store.logKey
                      THEN flushSave(World, store.logKey, store.prefs, fails) ELSE World
           w == Left(World, fails)
<1>1. w = [flushed EXCEPT !.effect.hydratedFor = NoLog]
  BY DEF Left
<1>2. /\ WorldOK(World) /\ store.logKey \in Log /\ store.prefs \in Prefs
      /\ Following(World.effect, store)
      /\ ~carried => AllOwn(World.storage) /\ Own(store.prefs, store.logKey)
  BY DEF SavedInv, Agree, Store
<1>3. /\ WorldOK(flushed)
      /\ ~flushed.effect.disabled => flushed.effect.pendingSaveLogKey = NoLog
      /\ ~carried => AllOwn(flushed.storage)
  <2>1. CASE World.effect.pendingSaveLogKey = store.logKey
    BY <1>2, <2>1, Flushed
  <2>2. CASE World.effect.pendingSaveLogKey # store.logKey
    BY <1>2, <2>2 DEF Following
  <2> QED
    BY <2>1, <2>2
<1> HIDE DEF flushed, w
<1>4. WorldOK(w) /\ w.effect.hydratedFor = NoLog /\ w.storage = flushed.storage
      /\ w.effect.disabled = flushed.effect.disabled
      /\ w.effect.pendingSaveLogKey = flushed.effect.pendingSaveLogKey
  BY <1>1, <1>3 DEF WorldOK, Effect
<1> QED
  BY <1>3, <1>4 DEF w

\* Loading the preferences of a log leaves what it shows stored or due.
LEMMA Hydrated ==
  ASSUME NEW w, WorldOK(w), NEW t \in Store, t.logKey # NoLog, NEW own \in BOOLEAN,
         ~w.effect.disabled => w.effect.pendingSaveLogKey \in {NoLog, t.logKey},
         own => AllOwn(w.storage) /\ Own(t.prefs, t.logKey)
  PROVE  Agree(hydrate(w, t).world, hydrate(w, t).store, own)
<1> DEFINE k     == t.logKey
           known == loadPerLogPrefs(w.storage, k)
           begun == [w EXCEPT !.effect.hydratedFor = k]
<1>1. k \in Log
  BY DEF Store
<1>2. /\ WorldOK(begun) /\ begun.storage = w.storage
      /\ begun.effect.hydratedFor = k
      /\ begun.effect.disabled = w.effect.disabled
      /\ begun.effect.pendingSaveLogKey = w.effect.pendingSaveLogKey
  BY <1>1 DEF WorldOK, Effect
<1> HIDE DEF begun
<1>3. CASE known = {}
  <2>1. hydrate(w, t).world = begun /\ hydrate(w, t).store = t
    BY <1>3 DEF hydrate, begun
  <2> QED
    BY <1>2, <1>3, <2>1 DEF Agree, Following, Shown
<1>4. CASE known # {}
  <2> DEFINE chosenPrefs == CHOOSE p \in known : TRUE
             u == [t EXCEPT !.prefs = Restored(chosenPrefs, t)]
             s == scheduleSave(begun, k)
  <2>1. chosenPrefs \in known
    BY <1>4
  <2>2. chosenPrefs \in Prefs /\ (own => Own(chosenPrefs, k))
    <3>1. StorageOK(w.storage)
      BY DEF WorldOK, StorageOK
    <3>2. chosenPrefs \in Prefs
      BY <2>1, <3>1, Loaded
    <3> QED
      BY <1>1, <2>1, <3>2 DEF AllOwn
  <2>3. hydrate(w, t).world = s /\ hydrate(w, t).store = u
    BY <1>4 DEF hydrate, begun
  <2> HIDE DEF chosenPrefs, known
  <2>4. /\ Restored(chosenPrefs, t) \in Prefs
        /\ Restored(chosenPrefs, t).view = chosenPrefs.view
    BY <2>2 DEF Restored, Prefs, Store
  <2>5. u \in Store /\ u.logKey = k /\ (own => Own(u.prefs, k))
    BY <2>2, <2>4 DEF Store, Own
  <2>6. /\ WorldOK(s) /\ s.storage = w.storage /\ s.effect.hydratedFor = k
        /\ s.effect.disabled = w.effect.disabled
        /\ ~s.effect.disabled => s.effect.pendingSaveLogKey = k
    BY <1>1, <1>2 DEF scheduleSave, WorldOK, Effect
  <2> HIDE DEF s, u
  <2> QED
    BY <2>3, <2>5, <2>6 DEF Agree, Following, Shown
<1> QED
  BY <1>3, <1>4

\* The subscriber answers every change of the store.
LEMMA Answered ==
  ASSUME SavedInv, NEW t \in Store, NEW fails \in BOOLEAN, NEW own \in BOOLEAN,
         own => ~carried /\ Own(t.prefs, t.logKey)
  PROVE  Agree(Observed(t, fails).world, Observed(t, fails).store, own)
<1> DEFINE w    == IF store.logKey \notin {NoLog, t.logKey} THEN Left(World, fails) ELSE World
           mine == t.logKey # NoLog /\ w.effect.hydratedFor = t.logKey
           seen == Observed(t, fails)
<1>1. /\ WorldOK(World) /\ Following(World.effect, store) /\ Shown(World, store)
      /\ ~carried => AllOwn(World.storage)
  BY DEF SavedInv, Agree
<1>2. /\ WorldOK(w)
      /\ w.effect.hydratedFor \in {NoLog, t.logKey}
      /\ ~w.effect.disabled => w.effect.pendingSaveLogKey \in {NoLog, t.logKey}
      /\ own => AllOwn(w.storage)
      /\ mine => w = World /\ store.logKey = t.logKey
  <2>1. CASE store.logKey \notin {NoLog, t.logKey}
    <3>1. /\ WorldOK(Left(World, fails))
          /\ Left(World, fails).effect.hydratedFor = NoLog
          /\ ~Left(World, fails).effect.disabled
               => Left(World, fails).effect.pendingSaveLogKey = NoLog
          /\ ~carried => AllOwn(Left(World, fails).storage)
      BY <2>1, LeftBehind
    <3>2. w = Left(World, fails)
      BY <2>1
    <3> HIDE DEF w
    <3> QED
      BY <3>1, <3>2
  <2>2. CASE store.logKey \in {NoLog, t.logKey}
    <3>1. w = World
      BY <2>2
    <3> HIDE DEF w
    <3> QED
      BY <1>1, <2>2, <3>1 DEF Following
  <2> QED
    BY <2>1, <2>2
<1>3. CASE t.logKey # NoLog /\ t.phase = "complete" /\ ~mine
  <2>1. seen = hydrate(w, t)
    BY <1>3 DEF Observed
  <2> HIDE DEF w, seen
  <2>2. Agree(hydrate(w, t).world, hydrate(w, t).store, own)
    BY <1>2, <1>3, Hydrated
  <2> QED
    BY <2>1, <2>2 DEF seen
<1>4. CASE ~(t.logKey # NoLog /\ t.phase = "complete" /\ ~mine)
  <2> DEFINE v == IF mine /\ t.prefs # store.prefs THEN scheduleSave(w, t.logKey) ELSE w
  <2>1. seen = [world |-> v, store |-> t]
    BY <1>4 DEF Observed
  <2>2. /\ WorldOK(v) /\ v.storage = w.storage
        /\ v.effect.hydratedFor = w.effect.hydratedFor
        /\ v.effect.disabled = w.effect.disabled
        /\ v = w \/ v.effect.pendingSaveLogKey = t.logKey
    <3>1. CASE mine /\ t.prefs # store.prefs
      <4>1. v = scheduleSave(w, t.logKey)
        BY <3>1
      <4> HIDE DEF w, v
      <4> QED
        BY <1>2, <4>1 DEF scheduleSave, WorldOK, Effect, Store
    <3>2. CASE ~(mine /\ t.prefs # store.prefs)
      <4>1. v = w
        BY <3>2
      <4> HIDE DEF w, v
      <4> QED
        BY <1>2, <4>1
    <3> QED
      BY <3>1, <3>2
  <2>3. mine /\ t.prefs # store.prefs /\ ~w.effect.disabled
          => v.effect.pendingSaveLogKey = t.logKey
    <3>1. CASE mine /\ t.prefs # store.prefs
      <4>1. v = scheduleSave(w, t.logKey)
        BY <3>1
      <4> HIDE DEF w, v
      <4> QED
        BY <1>2, <4>1 DEF scheduleSave, WorldOK, Effect, Store
    <3> QED
      BY <3>1
  <2> HIDE DEF v
  <2>4. Shown(v, t)
    <3> SUFFICES ASSUME t.logKey # NoLog, v.effect.hydratedFor = t.logKey,
                        ~v.effect.disabled, v.effect.pendingSaveLogKey = NoLog
                 PROVE  loadPerLogPrefs(v.storage, t.logKey) \subseteq {t.prefs}
      BY DEF Shown
    <3>1. mine /\ v = w /\ t.prefs = store.prefs
      <4> HIDE DEF w
      <4> QED
        BY <2>2, <2>3
    <3>2. v = World /\ store.logKey = t.logKey
      BY <1>2, <3>1
    <3> HIDE DEF w, mine
    <3> QED
      BY <1>1, <3>1, <3>2 DEF Shown
  <2> HIDE DEF w, mine
  <2>5. Following(v.effect, t)
    BY <1>2, <2>2 DEF Following
  <2>6. Agree(v, t, own)
    BY <1>2, <2>2, <2>4, <2>5 DEF Agree
  <2> HIDE DEF seen
  <2> QED
    BY <2>1, <2>6 DEF seen
<1> QED
  BY <1>3, <1>4

\* A change of the store keeps the invariant when what it brings is of the log
\* it brings, or a stream has brought another log.
LEMMA Kept ==
  ASSUME SavedInv, NEW t \in Store, Becomes(t), carried' \in BOOLEAN, carried => carried',
         ~carried' => Own(t.prefs, t.logKey)
  PROVE  SavedInv'
<1>1. PICK fails \in BOOLEAN :
        store' = Observed(t, fails).store /\ WorldBecomes(Observed(t, fails).world)
  BY DEF Becomes
<1>2. Agree(Observed(t, fails).world, Observed(t, fails).store, ~carried')
  BY Answered
<1> DEFINE w == Observed(t, fails).world
<1> HIDE DEF w
<1>3. WorldOK(w)
  BY <1>2 DEF Agree, w
<1>4. World' = w
  BY <1>1, <1>3 DEF WorldBecomes, World, WorldOK, w
<1>5. Agree(w, store', ~carried')
  BY <1>1, <1>2 DEF w
<1> QED
  BY <1>4, <1>5 DEF SavedInv, Agree, Following, Shown, WorldOK, AllOwn, Own

-----------------------------------------------------------------------------
(* The specification.                                                      *)

LEMMA EmptyStore == NoStore \in Store /\ Own(InitialPrefs, NoLog)
  BY DEF NoStore, Store, LoadPhase, InitialPrefs, Prefs, Default, Own

LEMMA InitAgrees == PrefsInit => SavedInv
<1> SUFFICES ASSUME PrefsInit PROVE SavedInv
  OBVIOUS
<1>1. store = NoStore /\ effect = NoEffect /\ chosen = {} /\ carried = FALSE
  BY DEF PrefsInit
<1>2. Malformed \in Prefs
  BY DEF Malformed, Prefs
<1>3. StorageOK(storage) /\ AllOwn(storage)
  <2>1. CASE storage = <<>>
    BY <2>1 DEF StorageOK, Keyed, AllOwn, loadPerLogPrefs, Entries, ToSet
  <2>2. ASSUME NEW k \in Log, storage = <<[key |-> k, prefs |-> Malformed]>>
        PROVE  StorageOK(storage) /\ AllOwn(storage)
    <3> DEFINE e == [key |-> k, prefs |-> Malformed]
    <3>1. e \in StoredEntry /\ e.prefs = Malformed
      BY <1>2 DEF StoredEntry
    <3> HIDE DEF e
    <3>2. storage = <<e>>
      BY <2>2 DEF e
    <3>3. storage \in Seq(StoredEntry) /\ DOMAIN storage = 1..1 /\ storage[1] = e
      BY <3>1, <3>2
    <3>4. StorageOK(storage)
      BY <3>3 DEF StorageOK, Keyed
    <3>5. \A j : loadPerLogPrefs(storage, j) = {}
      BY <3>1, <3>3 DEF loadPerLogPrefs, Entries, ToSet
    <3> QED
      BY <3>4, <3>5 DEF AllOwn
  <2> QED
    BY <2>1, <2>2 DEF PrefsInit
<1>4. effect \in Effect /\ Following(effect, store)
  BY <1>1 DEF NoEffect, Effect, Following
<1>5. World = [effect |-> effect, storage |-> storage, chosen |-> chosen]
  BY DEF World
<1>6. WorldOK(World)
  BY <1>1, <1>3, <1>4, <1>5 DEF WorldOK, StorageOK
<1>7. store.logKey = NoLog /\ store.prefs = InitialPrefs
  BY <1>1 DEF NoStore
<1> QED
  BY <1>1, <1>3, <1>4, <1>5, <1>6, <1>7, EmptyStore DEF SavedInv, Agree, Shown

\* Every action but the timer and the reload only changes the store.
LEMMA StoreSteps ==
  ASSUME SavedInv,
         \/ \E k \in Log : switchToLog(k) \/ setLogKey(k)
         \/ resetForLogSwitch
         \/ appendRows
         \/ \E p \in LoadPhase : setLoadProgress(p)
         \/ resetForRotation
         \/ \E choice \in Choice : setView(choice)
         \/ \E i \in 0..1 : selectIdx(i)
  PROVE  SavedInv'
<1>1. /\ store \in Store /\ carried \in BOOLEAN
      /\ ~carried => Own(store.prefs, store.logKey)
  BY DEF SavedInv, Agree
<1>2. ASSUME NEW k \in Log, switchToLog(k) PROVE SavedInv'
  <2> DEFINE t == [NoStore EXCEPT !.logKey = k]
  <2>1. t \in Store /\ Own(t.prefs, t.logKey)
    BY EmptyStore DEF Store, NoStore, InitialPrefs, Default, Own
  <2>2. Becomes(t) /\ carried' = carried
    BY <1>2 DEF switchToLog
  <2> HIDE DEF t
  <2> QED
    BY <1>1, <2>1, <2>2, Kept
<1>3. ASSUME NEW k \in Log, setLogKey(k) PROVE SavedInv'
  <2> DEFINE t == [store EXCEPT !.logKey = k, !.rowsLen = 0]
  <2>1. t \in Store /\ t.prefs = store.prefs /\ t.logKey = k
    <3> DEFINE u == [store EXCEPT !.logKey = k]
    <3>1. u \in Store /\ u.prefs = store.prefs /\ u.logKey = k
      BY <1>1 DEF Store
    <3>2. t = [u EXCEPT !.rowsLen = 0]
      OBVIOUS
    <3> HIDE DEF t, u
    <3> QED
      BY <3>1, <3>2 DEF Store
  <2>2. Becomes(t)
        /\ carried' = (carried \/ (store.logKey # k /\ store.prefs # InitialPrefs))
    BY <1>3 DEF setLogKey
  <2> HIDE DEF t
  <2>3. carried' \in BOOLEAN /\ (carried => carried')
    BY <1>1, <2>2
  <2>4. ~carried' => Own(t.prefs, t.logKey)
    <3>1. CASE store.prefs = InitialPrefs
      BY <2>1, <3>1 DEF Own, InitialPrefs, Default
    <3>2. CASE store.prefs # InitialPrefs
      <4>1. ~carried' => ~carried /\ store.logKey = k
        BY <2>2, <3>2
      <4> QED
        BY <1>1, <2>1, <4>1 DEF Own
    <3> QED
      BY <3>1, <3>2
  <2> QED
    BY <2>1, <2>2, <2>3, <2>4, Kept
<1>4. CASE resetForLogSwitch
  <2>1. Becomes(NoStore) /\ carried' = carried
    BY <1>4 DEF resetForLogSwitch
  <2>2. Own(NoStore.prefs, NoStore.logKey)
    BY EmptyStore DEF NoStore
  <2> QED
    BY <1>1, <2>1, <2>2, EmptyStore, Kept
<1>5. CASE appendRows
  <2> DEFINE t == [store EXCEPT !.rowsLen = 1]
  <2>1. t \in Store /\ t.prefs = store.prefs /\ t.logKey = store.logKey
    BY <1>1 DEF Store
  <2>2. Becomes(t) /\ carried' = carried
    BY <1>5 DEF appendRows
  <2> HIDE DEF t
  <2> QED
    BY <1>1, <2>1, <2>2, Kept
<1>6. ASSUME NEW p \in LoadPhase, setLoadProgress(p) PROVE SavedInv'
  <2> DEFINE t == [store EXCEPT !.phase = p]
  <2>1. t \in Store /\ t.prefs = store.prefs /\ t.logKey = store.logKey
    BY <1>1 DEF Store
  <2>2. Becomes(t) /\ carried' = carried
    BY <1>6 DEF setLoadProgress
  <2> HIDE DEF t
  <2> QED
    BY <1>1, <2>1, <2>2, Kept
<1>7. CASE resetForRotation
  <2> DEFINE t == [store EXCEPT !.phase = "idle", !.rowsLen = 0, !.prefs.selectedIdx = 0]
  <2>1. t \in Store /\ t.prefs.view = store.prefs.view /\ t.logKey = store.logKey
    <3> DEFINE p == [store.prefs EXCEPT !.selectedIdx = 0]
               u == [store EXCEPT !.prefs = p]
               x == [u EXCEPT !.phase = "idle"]
    <3>1. p \in Prefs /\ p.view = store.prefs.view
      BY <1>1 DEF Store, Prefs
    <3>2. t = [x EXCEPT !.rowsLen = 0]
      BY <1>1 DEF Store
    <3> HIDE DEF p
    <3>3. u \in Store /\ u.prefs = p /\ u.logKey = store.logKey
      BY <1>1, <3>1 DEF Store
    <3> HIDE DEF u
    <3>4. x \in Store /\ x.prefs = u.prefs /\ x.logKey = u.logKey
      BY <3>3 DEF Store, LoadPhase
    <3> HIDE DEF t, x
    <3>5. t \in Store /\ t.prefs = x.prefs /\ t.logKey = x.logKey
      BY <3>2, <3>4 DEF Store
    <3> QED
      BY <3>1, <3>3, <3>4, <3>5
  <2>2. Becomes(t) /\ carried' = carried
    BY <1>7 DEF resetForRotation
  <2> HIDE DEF t
  <2> QED
    BY <1>1, <2>1, <2>2, Kept DEF Own
<1>8. ASSUME NEW choice \in Choice, setView(choice) PROVE SavedInv'
  <2> DEFINE t == [store EXCEPT !.prefs.view = [log |-> store.logKey, choice |-> choice]]
  <2>1. t \in Store /\ t.prefs.view.log = store.logKey /\ t.logKey = store.logKey
    BY <1>1 DEF Store, Prefs
  <2>2. Becomes(t) /\ carried' = carried
    BY <1>8 DEF setView
  <2> HIDE DEF t
  <2> QED
    BY <1>1, <2>1, <2>2, Kept DEF Own
<1>9. ASSUME NEW i \in 0..1, selectIdx(i) PROVE SavedInv'
  <2> DEFINE t == [store EXCEPT !.prefs.selectedIdx = i]
  <2>1. t \in Store /\ t.prefs.view = store.prefs.view /\ t.logKey = store.logKey
    BY <1>1 DEF Store, Prefs
  <2>2. Becomes(t) /\ carried' = carried
    BY <1>9 DEF selectIdx
  <2> HIDE DEF t
  <2> QED
    BY <1>1, <2>1, <2>2, Kept DEF Own
<1> QED
  BY <1>2, <1>3, <1>4, <1>5, <1>6, <1>7, <1>8, <1>9

\* A save that is due is of the log in view.
LEMMA DueSave ==
  ASSUME SavedInv, effect.pendingSaveLogKey # NoLog, NEW fails \in BOOLEAN
  PROVE  LET f == flushSave(World, effect.pendingSaveLogKey, store.prefs, fails)
         IN  Agree(f, store, ~carried)
<1> DEFINE k == effect.pendingSaveLogKey
           f == flushSave(World, k, store.prefs, fails)
<1>1. /\ WorldOK(World) /\ store \in Store /\ World.effect = effect
      /\ Following(effect, store) /\ Agree(World, store, ~carried)
      /\ ~carried => AllOwn(World.storage) /\ Own(store.prefs, store.logKey)
  BY DEF SavedInv, Agree, World
<1> HIDE DEF f
<1>2. k \in Log /\ store.prefs \in Prefs
  BY <1>1 DEF WorldOK, Effect, Store
<1>3. /\ WorldOK(f)
      /\ f.effect.hydratedFor = World.effect.hydratedFor
      /\ World.effect.disabled => f = World
      /\ ~f.effect.disabled =>
           /\ f.effect.pendingSaveLogKey = NoLog
           /\ loadPerLogPrefs(f.storage, k) \subseteq {store.prefs}
      /\ AllOwn(World.storage) /\ Own(store.prefs, k) => AllOwn(f.storage)
  <2> HIDE DEF k
  <2>1. WorldOK(World) /\ k \in Log /\ store.prefs \in Prefs
    BY <1>1, <1>2
  <2> QED
    BY <2>1, Flushed DEF f
<1>4. CASE effect.disabled
  BY <1>1, <1>3, <1>4 DEF f
<1>5. CASE ~effect.disabled
  <2>1. k = store.logKey
    BY <1>1, <1>5 DEF Following
  <2> HIDE DEF f, k
  <2>2. Agree(f, store, ~carried)
    BY <1>1, <1>3, <2>1 DEF Agree, Following, Shown
  <2> QED
    BY <2>2 DEF f, k
<1> QED
  BY <1>4, <1>5

\* Every step keeps the store and what is saved of it in agreement.
LEMMA StepAgrees == SavedInv /\ [PrefsNext]_prefsVars => SavedInv'
<1> SUFFICES ASSUME SavedInv, [PrefsNext]_prefsVars PROVE SavedInv'
  OBVIOUS
<1>1. CASE SaveDue
  <2>1. PICK fails \in BOOLEAN :
          WorldBecomes(flushSave(World, effect.pendingSaveLogKey, store.prefs, fails))
    BY <1>1 DEF SaveDue
  <2> DEFINE f == flushSave(World, effect.pendingSaveLogKey, store.prefs, fails)
  <2>2. Agree(f, store, ~carried)
    BY <1>1, DueSave DEF SaveDue
  <2>3. WorldBecomes(f)
    BY <2>1
  <2> HIDE DEF f
  <2>4. World' = f
    BY <2>2, <2>3 DEF WorldBecomes, World, Agree, WorldOK
  <2>5. store' = store /\ carried' = carried
    BY <1>1 DEF SaveDue
  <2> QED
    BY <2>2, <2>4, <2>5 DEF SavedInv, Agree, Following, Shown, WorldOK, AllOwn, Own
<1>2. CASE Reload
  <2>1. PICK w : /\ WorldOK(w) /\ (~carried => AllOwn(w.storage))
                 /\ WorldBecomes([w EXCEPT !.effect = NoEffect])
    <3>1. WorldOK(World) /\ (~carried => AllOwn(World.storage))
      BY DEF SavedInv, Agree
    <3>2. CASE WorldBecomes([World EXCEPT !.effect = NoEffect])
      BY <3>1, <3>2
    <3>3. CASE /\ effect.pendingSaveLogKey # NoLog
               /\ WorldBecomes([flushSave(World, effect.pendingSaveLogKey, store.prefs, FALSE)
                                EXCEPT !.effect = NoEffect])
      <4> DEFINE f == flushSave(World, effect.pendingSaveLogKey, store.prefs, FALSE)
      <4>1. Agree(f, store, ~carried)
        BY <3>3, DueSave
      <4>2. WorldBecomes([f EXCEPT !.effect = NoEffect])
        BY <3>3
      <4> HIDE DEF f
      <4> QED
        BY <4>1, <4>2 DEF Agree
    <3> QED
      BY <1>2, <3>2, <3>3 DEF Reload
  <2> DEFINE v == [w EXCEPT !.effect = NoEffect]
  <2>2. v.effect = NoEffect /\ v.storage = w.storage /\ WorldOK(v)
    BY <2>1 DEF WorldOK, NoEffect, Effect
  <2>3. WorldBecomes(v)
    BY <2>1
  <2> HIDE DEF v
  <2>4. World' = v
    BY <2>2, <2>3 DEF WorldBecomes, World, WorldOK
  <2>5. store' = NoStore /\ carried' = carried /\ carried \in BOOLEAN
    BY <1>2 DEF Reload, SavedInv
  <2>6. NoStore.logKey = NoLog /\ NoStore.prefs = InitialPrefs
    BY DEF NoStore
  <2>7. Following(v.effect, NoStore) /\ Shown(v, NoStore)
    BY <2>2, <2>6 DEF Following, Shown, NoEffect
  <2>8. Agree(v, NoStore, ~carried)
    BY <2>1, <2>2, <2>6, <2>7, EmptyStore DEF Agree
  <2> QED
    BY <2>4, <2>5, <2>8 DEF SavedInv, Agree, Following, Shown, WorldOK, AllOwn, Own
<1>3. CASE UNCHANGED prefsVars
  BY <1>3 DEF prefsVars, SavedInv, Agree, Following, Shown, WorldOK, AllOwn, Own, World
<1> QED
  BY <1>1, <1>2, <1>3, StoreSteps DEF PrefsNext

\* The store and what is saved of it agree in every state.
LEMMA AlwaysAgree == PrefsSpec => []SavedInv
  BY InitAgrees, StepAgrees, PTL DEF PrefsSpec

\* No log takes over what the user chose on another one, for any logs, views
\* and number of entries: of no order of switches, rotations, failures and
\* reloads, as long as no stream brings another log by itself
\* (persist-effect.ts, the flush from the previous state).
THEOREM OwnEntries == PrefsSpec => []EntriesAreOwn
<1>1. SavedInv => EntriesAreOwn
  BY DEF SavedInv, Agree, AllOwn, Own, EntriesAreOwn, World
<1> QED
  BY <1>1, AlwaysAgree, PTL

\* Once the preferences of the log in view are loaded and no save is due, its
\* entry holds what the user sees (persist-effect.ts, the subscriber).
THEOREM StoredCorrect == PrefsSpec => []StoredIsShown
<1>1. SavedInv => StoredIsShown
  BY DEF SavedInv, Agree, Shown, StoredIsShown, World
<1> QED
  BY <1>1, AlwaysAgree, PTL

-----------------------------------------------------------------------------
(* AppState.                                                               *)

-----------------------------------------------------------------------------
(* What the correlator changes it reports.                                 *)

\* c is a correlator whose columns have a slot for each of n events
Slotted(c, n) ==
  /\ c = [f \in C!Fields |-> c[f]]
  /\ 1..n \subseteq DOMAIN c.pairIdx
  /\ 1..n \subseteq DOMAIN c.latencyMs
  /\ 1..n \subseteq DOMAIN c.status

\* from c to r the columns of the first n events change only where r reports it
Reported(c, r, n) ==
  /\ c.changedIndexes \subseteq r.changedIndexes
  /\ \A j \in 1..n : j \notin r.changedIndexes =>
       /\ r.pairIdx[j] = c.pairIdx[j]
       /\ r.latencyMs[j] = c.latencyMs[j]
       /\ r.status[j] = c.status[j]

\* Steps that report what they change make up one that does.
LEMMA ReportedTransitive ==
  ASSUME NEW n, NEW b, NEW c, NEW d, Reported(b, c, n), Reported(c, d, n)
  PROVE  Reported(b, d, n)
  BY DEF Reported

\* A status that is set is reported.
LEMMA SetStatusReported ==
  ASSUME NEW n, NEW c, Slotted(c, n), NEW i, NEW s
  PROVE  LET r == C!SetStatus(c, i, s)
         IN  Slotted(r, n) /\ Reported(c, r, n)
<1> DEFINE r == C!SetStatus(c, i, s)
<1>1. r = [f \in C!Fields |-> r[f]]
  BY DEF Slotted, C!SetStatus
<1>2. /\ r.pairIdx = c.pairIdx /\ r.latencyMs = c.latencyMs
      /\ r.status = C!Put(c.status, i, s)
      /\ r.changedIndexes = c.changedIndexes \cup {i}
  BY DEF Slotted, C!SetStatus, C!Fields
<1> HIDE DEF r
<1> QED BY <1>1, <1>2 DEF Slotted, Reported, C!Put, r

\* Both ends of a pair are reported.
LEMMA PairReported ==
  ASSUME NEW n, NEW c, Slotted(c, n), NEW evs, NEW req, NEW resp
  PROVE  LET r == C!Pair(c, evs, req, resp)
         IN  Slotted(r, n) /\ Reported(c, r, n)
<1> DEFINE r == C!Pair(c, evs, req, resp)
           s == IF evs[resp].error THEN "error" ELSE "ok"
<1>1. r = [f \in C!Fields |-> r[f]]
  BY DEF Slotted, C!Pair
<1>2. /\ r.pairIdx = C!Put(C!Put(c.pairIdx, req, resp), resp, req)
      /\ r.latencyMs = C!Put(c.latencyMs, req, evs[resp].ts - evs[req].ts)
      /\ r.status = C!Put(C!Put(c.status, req, s), resp, s)
      /\ r.changedIndexes = c.changedIndexes \cup {req, resp}
  BY DEF Slotted, C!Pair, C!Fields
<1> HIDE DEF r, s
<1> QED BY <1>1, <1>2 DEF Slotted, Reported, C!Put, r

\* The pending maps are not columns.
LEMMA PendingReported ==
  ASSUME NEW n, NEW c, Slotted(c, n), NEW map
  PROVE  LET q == [c EXCEPT !.pendingRequests = map]
             p == [c EXCEPT !.pendingResponses = map]
         IN  /\ Slotted(q, n) /\ Reported(c, q, n)
             /\ Slotted(p, n) /\ Reported(c, p, n)
  BY DEF Slotted, Reported, C!Fields

\* A request that arrives changes nothing unreported.
LEMMA OnRequestReported ==
  ASSUME NEW n, NEW c, Slotted(c, n), NEW evs, NEW i
  PROVE  LET r == C!OnRequest(c, evs, i)
         IN  Slotted(r, n) /\ Reported(c, r, n)
<1> DEFINE key == C!correlationKeyForRequest(evs[i])
           room == C!RoomForRequest(c, key)
           parked == [room EXCEPT !.pendingRequests = C!SetEntry(room.pendingRequests, key, i)]
           free == [c EXCEPT !.pendingResponses = C!Without(c.pendingResponses, key)]
<1>1. CASE key \in DOMAIN c.pendingResponses
  <2>1. C!OnRequest(c, evs, i) = C!Pair(free, evs, i, c.pendingResponses[key].idx)
    BY <1>1 DEF C!OnRequest
  <2>2. Slotted(free, n) /\ Reported(c, free, n)
    BY PendingReported
  <2> HIDE DEF free, key
  <2> QED BY <2>1, <2>2, PairReported, ReportedTransitive
<1>2. CASE key \notin DOMAIN c.pendingResponses
  <2>1. C!OnRequest(c, evs, i) = C!SetStatus(parked, i, "pending")
    BY <1>2 DEF C!OnRequest, C!ParkRequest
  <2>2. Slotted(room, n) /\ Reported(c, room, n)
    <3> HIDE DEF key
    <3> DEFINE old == C!Oldest(c.pendingRequests)
               less == [c EXCEPT !.pendingRequests = C!Without(c.pendingRequests, old)]
    <3>1. Slotted(less, n) /\ Reported(c, less, n)
      BY PendingReported
    <3>2. \/ room = C!SetStatus(c, c.pendingRequests[key].idx, "orphan")
          \/ room = C!SetStatus(less, c.pendingRequests[old].idx, "unmatched")
          \/ room = c
      BY DEF C!RoomForRequest
    <3>3. Reported(c, c, n)
      BY DEF Reported
    <3> HIDE DEF less, old, room
    <3> QED BY <3>1, <3>2, <3>3, SetStatusReported, ReportedTransitive
  <2> HIDE DEF room, key
  <2>3. Slotted(parked, n) /\ Reported(room, parked, n)
    BY <2>2, PendingReported
  <2> HIDE DEF parked
  <2> QED BY <2>1, <2>2, <2>3, SetStatusReported, ReportedTransitive
<1> QED BY <1>1, <1>2

\* Nor does a response.
LEMMA OnResponseReported ==
  ASSUME NEW n, NEW c, Slotted(c, n), NEW evs, NEW i
  PROVE  LET r == C!OnResponse(c, evs, i)
         IN  Slotted(r, n) /\ Reported(c, r, n)
<1> DEFINE key == C!correlationKeyForResponse(evs[i])
           room == C!RoomForResponse(c, key)
           parked == [room EXCEPT !.pendingResponses = C!SetEntry(room.pendingResponses, key, i)]
           free == [c EXCEPT !.pendingRequests = C!Without(c.pendingRequests, key)]
<1>1. CASE key \in DOMAIN c.pendingRequests
  <2>1. C!OnResponse(c, evs, i) = C!Pair(free, evs, c.pendingRequests[key].idx, i)
    BY <1>1 DEF C!OnResponse
  <2>2. Slotted(free, n) /\ Reported(c, free, n)
    BY PendingReported
  <2> HIDE DEF free, key
  <2> QED BY <2>1, <2>2, PairReported, ReportedTransitive
<1>2. CASE key \notin DOMAIN c.pendingRequests
  <2>1. C!OnResponse(c, evs, i) = parked
    BY <1>2 DEF C!OnResponse, C!ParkResponse
  <2>2. Slotted(room, n) /\ Reported(c, room, n)
    <3> HIDE DEF key
    <3> DEFINE less == [c EXCEPT !.pendingResponses =
                                   C!Without(c.pendingResponses, C!Oldest(c.pendingResponses))]
    <3>1. Slotted(less, n) /\ Reported(c, less, n)
      BY PendingReported
    <3>2. \/ room = C!SetStatus(c, c.pendingResponses[key].idx, "orphan")
          \/ room = less
          \/ room = c
      BY DEF C!RoomForResponse
    <3>3. Reported(c, c, n)
      BY DEF Reported
    <3> HIDE DEF less, room
    <3> QED BY <3>1, <3>2, <3>3, SetStatusReported, ReportedTransitive
  <2> HIDE DEF room, key
  <2>3. Slotted(parked, n) /\ Reported(room, parked, n)
    BY <2>2, PendingReported
  <2> HIDE DEF parked
  <2> QED BY <2>1, <2>2, <2>3, ReportedTransitive
<1> QED BY <1>1, <1>2

\* An event that is appended gets its slots, and what it changes in those of
\* the events before is reported.
LEMMA OnAppendReported ==
  ASSUME NEW n \in Nat, NEW c, Slotted(c, n), NEW evs
  PROVE  LET r == C!OnAppend(c, evs, n + 1)
         IN  Slotted(r, n + 1) /\ Reported(c, r, n)
<1> DEFINE i == n + 1
           d == C!DefaultSlot(c, i)
           r == C!OnAppend(c, evs, i)
<1>1. d = [f \in C!Fields |-> d[f]]
  BY DEF Slotted, C!DefaultSlot
<1>2. /\ d.pairIdx = C!Put(c.pairIdx, i, C!NoIdx)
      /\ d.latencyMs = C!Put(c.latencyMs, i, -1)
      /\ d.status = C!Put(c.status, i, "n/a")
      /\ d.changedIndexes = c.changedIndexes
  BY DEF Slotted, C!DefaultSlot, C!Fields
<1> HIDE DEF d
<1>3. Slotted(d, i) /\ Reported(c, d, n)
  <2>1. 1..i = 1..n \cup {i} /\ i \notin 1..n
    OBVIOUS
  <2> HIDE DEF i
  <2> QED BY <1>1, <1>2, <2>1 DEF Slotted, Reported, C!Put
<1>4. \/ r = C!OnRequest(d, evs, i) \/ r = C!OnResponse(d, evs, i) \/ r = d
  BY DEF C!OnAppend, d
<1>5. Reported(d, d, i)
  BY DEF Reported
<1> HIDE DEF r
<1>6. Slotted(r, i) /\ Reported(d, r, i)
  BY <1>3, <1>4, <1>5, OnRequestReported, OnResponseReported
<1>7. Reported(d, r, n)
  BY <1>6 DEF Reported
<1> QED BY <1>3, <1>6, <1>7, ReportedTransitive DEF r

\* A flush reports what times out.
LEMMA FlushReported ==
  ASSUME NEW n, NEW c, Slotted(c, n), NEW evs, NEW time
  PROVE  LET r == C!FlushAt(c, evs, time)
         IN  Slotted(r, n) /\ Reported(c, r, n)
<1> DEFINE r == C!FlushAt(c, evs, time)
           idxs == {c.pendingRequests[k].idx : k \in C!Expired(c, evs, time)}
<1>1. r = [f \in C!Fields |-> r[f]]
  BY DEF Slotted, C!FlushAt
<1>2. /\ r.pairIdx = c.pairIdx /\ r.latencyMs = c.latencyMs
      /\ r.status = [i \in DOMAIN c.status |-> IF i \in idxs THEN "unmatched" ELSE c.status[i]]
      /\ r.changedIndexes = c.changedIndexes \cup idxs
  BY DEF Slotted, C!FlushAt, C!Fields
<1> HIDE DEF r, idxs
<1> QED BY <1>1, <1>2 DEF Slotted, Reported, r

-----------------------------------------------------------------------------
(* The rows.                                                               *)

\* the rows are those that would be built now, one for each event, and no
\* change is left to report
Mirrored ==
  /\ events \in Seq(C!Event)
  /\ cor.changedIndexes = {}
  /\ Slotted(cor, Len(events))
  /\ rows = [i \in 1..Len(events) |-> buildRow(cor, i)]

\* What is rebuilt where a change is reported, is rebuilt everywhere.
LEMMA PatchedMirrors ==
  ASSUME Mirrored, NEW c, Reported(cor, c, Len(events)),
         NEW changed, c.changedIndexes \cap 1..Len(events) \subseteq changed
  PROVE  Patched(rows, buildPatchUpdates(c, changed))
           = [i \in 1..Len(events) |-> buildRow(c, i)]
<1> DEFINE n == Len(events)
           stale == {i \in changed \cap DOMAIN rows : rows[i] # buildRow(c, i)}
<1>1. DOMAIN rows = 1..n /\ \A i \in 1..n : rows[i] = buildRow(cor, i)
  BY DEF Mirrored
<1>2. \A i \in 1..n : i \notin stale => rows[i] = buildRow(c, i)
  <2> SUFFICES ASSUME NEW i \in 1..n, i \notin stale PROVE rows[i] = buildRow(c, i)
    OBVIOUS
  <2>1. CASE i \in changed
    BY <1>1, <2>1
  <2>2. CASE i \notin changed
    BY <1>1, <2>2 DEF Reported, buildRow, latencyOf
  <2> QED BY <2>1, <2>2
<1>3. buildPatchUpdates(c, changed) = [i \in stale |-> buildRow(c, i)]
  BY DEF buildPatchUpdates
<1> HIDE DEF n, stale
<1> QED BY <1>1, <1>2, <1>3 DEF Patched, n

\* The drain empties the change set alone.
LEMMA DrainedRows ==
  ASSUME NEW c, NEW n, Slotted(c, n)
  PROVE  /\ Slotted(C!Drained(c), n) /\ C!Drained(c).changedIndexes = {}
         /\ \A i : buildRow(C!Drained(c), i) = buildRow(c, i)
  BY DEF Slotted, C!Drained, C!Fields, buildRow, latencyOf

\* A line that is ingested gets its row, and those it changes theirs.
LEMMA IngestMirrors ==
  ASSUME Mirrored, NEW ev \in C!Event, Ingested(ingestLine(ev))
  PROVE  Mirrored'
<1> DEFINE n == Len(events)
           evs == Append(events, ev)
           c == C!OnAppend(cor, evs, n + 1)
           changed == {j \in c.changedIndexes : j < n + 1}
           kept == Patched(rows, buildPatchUpdates(c, changed))
<1>1. n \in Nat /\ evs \in Seq(C!Event) /\ Len(evs) = n + 1
  BY DEF Mirrored
<1>2. /\ events' = evs /\ cor' = C!Drained(c)
      /\ rows' = Append(kept, buildRow(c, n + 1))
  BY <1>1 DEF Ingested, ingestLine
<1>3. Slotted(c, n + 1) /\ Reported(cor, c, n)
  BY <1>1, OnAppendReported DEF Mirrored
<1> HIDE DEF c
<1>4. c.changedIndexes \cap 1..n \subseteq changed
  BY <1>1
<1>5. kept = [i \in 1..n |-> buildRow(c, i)]
  <2> HIDE DEF changed, evs
  <2> QED BY <1>3, <1>4, PatchedMirrors
<1> DEFINE Rows == {buildRow(c, i) : i \in 1..(n + 1)}
<1>6. Append(kept, buildRow(c, n + 1)) = [i \in 1..(n + 1) |-> buildRow(c, i)]
  <2> HIDE DEF kept
  <2>1. kept \in Seq(Rows) /\ Len(kept) = n /\ buildRow(c, n + 1) \in Rows
    <3> HIDE DEF n
    <3>0. n + 1 \in 1..(n + 1)
      BY <1>1
    <3>1. buildRow(c, n + 1) \in Rows
      BY <3>0, Zenon
    <3>2. \A i \in 1..n : buildRow(c, i) \in Rows
      BY <1>1
    <3> HIDE DEF Rows
    <3> QED BY <1>1, <1>5, <3>1, <3>2
  <2>2. \A i \in 1..n : kept[i] = buildRow(c, i)
    BY <1>5
  <2> HIDE DEF Rows, n
  <2>3. DOMAIN Append(kept, buildRow(c, n + 1)) = 1..(n + 1)
    BY <1>1, <2>1
  <2>4. \A i \in 1..(n + 1) : Append(kept, buildRow(c, n + 1))[i] = buildRow(c, i)
    BY <1>1, <2>1, <2>2
  <2>5. Append(kept, buildRow(c, n + 1))
          = [i \in DOMAIN Append(kept, buildRow(c, n + 1)) |->
               Append(kept, buildRow(c, n + 1))[i]]
    BY <2>1
  <2> QED BY <2>3, <2>4, <2>5
<1>7. /\ Slotted(cor', n + 1) /\ cor'.changedIndexes = {}
      /\ \A i : buildRow(cor', i) = buildRow(c, i)
  <2> HIDE DEF n
  <2> QED BY <1>2, <1>3, DrainedRows
<1> HIDE DEF kept, evs, Rows
<1>8. Len(events') = n + 1 /\ events' \in Seq(C!Event)
  BY <1>1, <1>2
<1>9. rows' = [i \in 1..Len(events') |-> buildRow(cor', i)]
  <2> HIDE DEF n
  <2>1. rows' = [i \in 1..(n + 1) |-> buildRow(c, i)]
    BY <1>2, <1>6
  <2>2. \A i \in 1..(n + 1) : buildRow(c, i) = buildRow(cor', i)
    BY <1>7
  <2>3. rows' = [i \in 1..(n + 1) |-> buildRow(cor', i)]
    BY <2>1, <2>2
  <2> QED BY <1>8, <2>3
<1> QED BY <1>7, <1>8, <1>9 DEF Mirrored

\* So does a flush.
LEMMA FlushMirrors ==
  ASSUME Mirrored, runFlush
  PROVE  Mirrored'
<1> DEFINE c == C!FlushAt(cor, events, now)
<1>1. /\ cor' = C!Drained(c) /\ UNCHANGED events
      /\ rows' = Patched(rows, buildPatchUpdates(c, c.changedIndexes))
  BY DEF runFlush
<1>2. Slotted(c, Len(events)) /\ Reported(cor, c, Len(events))
  BY FlushReported DEF Mirrored
<1> HIDE DEF c
<1>3. Patched(rows, buildPatchUpdates(c, c.changedIndexes))
        = [i \in 1..Len(events) |-> buildRow(c, i)]
  BY <1>2, PatchedMirrors
<1>4. /\ Slotted(cor', Len(events)) /\ cor'.changedIndexes = {}
      /\ \A i : buildRow(cor', i) = buildRow(c, i)
  BY <1>1, <1>2, DrainedRows
<1>5. rows' = [i \in 1..Len(events') |-> buildRow(cor', i)]
  BY <1>1, <1>3, <1>4 DEF buildRow, latencyOf
<1> QED BY <1>1, <1>4, <1>5 DEF Mirrored

\* Every step keeps the rows those that would be built.
LEMMA NextMirrors == Mirrored /\ [Next]_vars => Mirrored'
<1> SUFFICES ASSUME Mirrored, [Next]_vars PROVE Mirrored'
  OBVIOUS
<1>1. CASE \E ev \in C!Event : Ingested(ingestLine(ev))
  BY <1>1, IngestMirrors
<1>2. CASE runFlush
  BY <1>2, FlushMirrors
<1>3. CASE onReset
  <2>1. events' = <<>> /\ cor' = C!NoCorrelation /\ rows' = <<>>
    BY <1>3 DEF onReset
  <2>2. Slotted(C!NoCorrelation, 0) /\ C!NoCorrelation.changedIndexes = {}
    BY DEF Slotted, C!NoCorrelation, C!Fields
  <2>3. rows' = [i \in 1..0 |-> buildRow(cor', i)] /\ Len(events') = 0 /\ events' \in Seq(C!Event)
    BY <2>1
  <2> QED BY <2>1, <2>2, <2>3 DEF Mirrored
<1>4. CASE disposed
  <2>1. /\ cor' = [cor EXCEPT !.pendingRequests = <<>>, !.pendingResponses = <<>>]
        /\ UNCHANGED <<events, rows>>
    BY <1>4 DEF disposed
  <2>2. /\ Slotted(cor', Len(events)) /\ cor'.pairIdx = cor.pairIdx
        /\ cor'.latencyMs = cor.latencyMs /\ cor'.status = cor.status
        /\ cor'.changedIndexes = {}
    BY <2>1 DEF Mirrored, Slotted, C!Fields
  <2> QED BY <2>1, <2>2 DEF Mirrored, buildRow, latencyOf
<1>5. CASE UNCHANGED ingestVars
  BY <1>5 DEF ingestVars, Mirrored, Slotted, buildRow, latencyOf
<1>6. CASE onInitialReadComplete
  BY <1>1, <1>5, <1>6 DEF onInitialReadComplete
<1>7. CASE \E ev \in C!Event : onChunkLine(ev)
  BY <1>1, <1>7 DEF onChunkLine
<1>8. CASE \/ onInitialReadStart \/ onError \/ Tick \/ subscribe \/ unsubscribe \/ dispose
           \/ \E terminated \in BOOLEAN : onChunkOversized(terminated)
  BY <1>5, <1>8 DEF onInitialReadStart, onError, Tick, subscribe, unsubscribe, dispose,
     onChunkOversized
<1>9. CASE UNCHANGED vars
  BY <1>5, <1>9 DEF vars, ingestVars
<1> QED BY <1>2, <1>3, <1>4, <1>6, <1>7, <1>8, <1>9 DEF Next

\* Nothing is shown at first.
LEMMA InitMirrors == Init => Mirrored
<1> SUFFICES ASSUME Init PROVE Mirrored
  OBVIOUS
<1>1. events = <<>> /\ cor = C!NoCorrelation /\ rows = <<>>
  BY DEF Init
<1>2. Slotted(C!NoCorrelation, 0) /\ C!NoCorrelation.changedIndexes = {}
  BY DEF Slotted, C!NoCorrelation, C!Fields
<1>3. rows = [i \in 1..0 |-> buildRow(cor, i)] /\ Len(events) = 0 /\ events \in Seq(C!Event)
  BY <1>1
<1> QED BY <1>1, <1>2, <1>3 DEF Mirrored

\* The rows shown are always those of the correlator, though only what is
\* reported as changed is rebuilt.
THEOREM RowsCorrect == Spec => []RowsMirrorCorrelator
<1>1. Mirrored => RowsMirrorCorrelator
  BY DEF Mirrored, RowsMirrorCorrelator
<1> QED BY InitMirrors, NextMirrors, <1>1, PTL DEF Spec

-----------------------------------------------------------------------------
(* The errors.                                                             *)

\* Errors are numbered as they come: in order, and none twice.
Rising(s) == \A m, n \in 1..Len(s) : m < n => s[m] < s[n]

\* Errors are told and kept in the order they come; what a subscriber has not
\* heard is no longer kept.
Told ==
  /\ errorCount \in Nat
  /\ watchErrors \in Seq(1..errorCount) /\ Rising(watchErrors)
  /\ heard \in Seq(1..errorCount)
  /\ subscribed => /\ Rising(heard)
                   /\ \A m \in 1..Len(watchErrors) : \E n \in 1..Len(heard) :
                        heard[n] = watchErrors[m]

\* An error that is appended comes after those before it.
LEMMA RisingAppend ==
  ASSUME NEW n \in Nat, NEW s \in Seq(1..n), Rising(s)
  PROVE  /\ Append(s, n + 1) \in Seq(1..(n + 1)) /\ Rising(Append(s, n + 1))
         /\ Len(Append(s, n + 1)) = Len(s) + 1 /\ Append(s, n + 1)[Len(s) + 1] = n + 1
         /\ \A m \in 1..Len(s) : Append(s, n + 1)[m] = s[m]
<1> DEFINE t == Append(s, n + 1)
<1>1. s \in Seq(1..(n + 1)) /\ n + 1 \in 1..(n + 1) /\ Len(s) \in Nat
  <2>1. 1..n \subseteq 1..(n + 1)
    OBVIOUS
  <2> QED BY <2>1
<1>2. /\ t \in Seq(1..(n + 1)) /\ Len(t) = Len(s) + 1 /\ t[Len(s) + 1] = n + 1
      /\ \A m \in 1..Len(s) : t[m] = s[m]
  BY <1>1
<1> HIDE DEF t
<1>3. Rising(t)
  <2> SUFFICES ASSUME NEW m \in 1..Len(t), NEW l \in 1..Len(t), m < l PROVE t[m] < t[l]
    BY DEF Rising
  <2>1. m \in 1..Len(s) /\ s[m] \in 1..n /\ t[m] = s[m]
    BY <1>1, <1>2
  <2>2. CASE l \in 1..Len(s)
    BY <1>2, <2>1, <2>2 DEF Rising
  <2>3. CASE l = Len(s) + 1
    BY <1>2, <2>1, <2>3
  <2>4. l \in 1..Len(s) \/ l = Len(s) + 1
    <3>1. Len(t) = Len(s) + 1 /\ Len(s) \in Nat
      BY <1>1, <1>2
    <3> QED BY <3>1
  <2> QED BY <2>2, <2>3, <2>4
<1> QED BY <1>2, <1>3 DEF t

\* The last of them keep their order.
LEMMA LastOfRising ==
  ASSUME NEW T \in SUBSET Nat, NEW s \in Seq(T), Rising(s), NEW k \in Nat \ {0}
  PROVE  /\ LastOf(s, k) \in Seq(T) /\ Rising(LastOf(s, k))
         /\ \A m \in 1..Len(LastOf(s, k)) : \E l \in 1..Len(s) : LastOf(s, k)[m] = s[l]
<1> DEFINE from == IF Len(s) > k THEN Len(s) - k + 1 ELSE 1
           t == SubSeq(s, from, Len(s))
<1>1. /\ from \in 1..(Len(s) + 1) /\ Len(s) \in Nat /\ t = LastOf(s, k)
  BY DEF LastOf
<1> HIDE DEF from
<1>2. /\ t \in Seq(T) /\ Len(t) = Len(s) - from + 1
      /\ \A m \in 1..Len(t) : t[m] = s[from + m - 1] /\ from + m - 1 \in 1..Len(s)
  <2>1. /\ from \in Int /\ Len(s) \in Int
        /\ \A i \in from..Len(s) : s[i] \in T
    BY <1>1
  <2>2. /\ t \in Seq(T) /\ Len(t) = Len(s) - from + 1
        /\ \A m \in 1..(Len(s) - from + 1) : t[m] = s[from + m - 1]
    <3>1. /\ t \in Seq(T) /\ Len(t) = IF from <= Len(s) THEN Len(s) - from + 1 ELSE 0
          /\ \A m \in 1..(Len(s) - from + 1) : t[m] = s[from + m - 1]
      BY <2>1, SubSeqProperties
    <3>2. (IF from <= Len(s) THEN Len(s) - from + 1 ELSE 0) = Len(s) - from + 1
      BY <1>1
    <3> HIDE DEF t
    <3> QED BY <3>1, <3>2
  <2> QED BY <1>1, <2>2
<1> HIDE DEF t
<1>3. Rising(t)
  <2> SUFFICES ASSUME NEW m \in 1..Len(t), NEW l \in 1..Len(t), m < l PROVE t[m] < t[l]
    BY DEF Rising
  <2>1. from + m - 1 < from + l - 1
    BY <1>1, <1>2
  <2> QED BY <1>2, <2>1 DEF Rising
<1> QED BY <1>1, <1>2, <1>3

\* A new error is kept, and heard by who listens.
LEMMA EmitErrorTold ==
  ASSUME Told, NEW frames, EmitError(frames)
  PROVE  Told'
<1> DEFINE n == errorCount + 1
           w == Append(watchErrors, n)
           h == Append(heard, n)
<1>1. /\ errorCount' = n /\ watchErrors' = LastOf(w, MAX_STICKY_WATCH_ERRORS)
      /\ heard' = IF subscribed THEN h ELSE heard
      /\ UNCHANGED subscribed
  BY DEF EmitError
<1>2. /\ w \in Seq(1..n) /\ Rising(w) /\ Len(w) = Len(watchErrors) + 1
      /\ w[Len(watchErrors) + 1] = n
      /\ \A m \in 1..Len(watchErrors) : w[m] = watchErrors[m]
      /\ Len(watchErrors) \in Nat /\ n \in Nat
  BY RisingAppend DEF Told
<1>3. heard \in Seq(1..n) /\ Len(heard) \in Nat
  <2>1. 1..errorCount \subseteq 1..n
    BY DEF Told
  <2> QED BY <2>1 DEF Told
<1>4. subscribed =>
        /\ h \in Seq(1..n) /\ Rising(h) /\ Len(h) = Len(heard) + 1 /\ h[Len(heard) + 1] = n
        /\ \A m \in 1..Len(heard) : h[m] = heard[m]
  BY RisingAppend DEF Told
<1>5. /\ watchErrors' \in Seq(1..n) /\ Rising(watchErrors')
      /\ \A m \in 1..Len(watchErrors') : \E l \in 1..Len(w) : watchErrors'[m] = w[l]
  <2>1. 1..n \in SUBSET Nat
    BY <1>2
  <2> DEFINE T == 1..n
             k == MAX_STICKY_WATCH_ERRORS
  <2>2. T \in SUBSET Nat /\ w \in Seq(T) /\ Rising(w) /\ k \in Nat \ {0}
    BY <1>2, <2>1, StickyAssumption
  <2> HIDE DEF w, n, T, k
  <2>3. /\ LastOf(w, k) \in Seq(T) /\ Rising(LastOf(w, k))
        /\ \A m \in 1..Len(LastOf(w, k)) : \E l \in 1..Len(w) : LastOf(w, k)[m] = w[l]
    BY <2>2, LastOfRising
  <2>4. watchErrors' = LastOf(w, k)
    BY <1>1 DEF k
  <2> QED BY <2>3, <2>4 DEF T
<1>6. subscribed => \A l \in 1..Len(w) : \E k \in 1..Len(h) : h[k] = w[l]
  <2> SUFFICES ASSUME subscribed, NEW l \in 1..Len(w)
               PROVE  \E k \in 1..Len(h) : h[k] = w[l]
    OBVIOUS
  <2>1. CASE l = Len(watchErrors) + 1
    <3>1. Len(heard) + 1 \in 1..Len(h)
      BY <1>3, <1>4
    <3> QED BY <1>2, <1>4, <2>1, <3>1
  <2>2. CASE l \in 1..Len(watchErrors)
    <3>1. PICK k \in 1..Len(heard) : heard[k] = watchErrors[l]
      BY <2>2 DEF Told
    <3>2. k \in 1..Len(h)
      BY <1>3, <1>4
    <3> QED BY <1>2, <1>4, <2>2, <3>1, <3>2
  <2> QED BY <1>2, <2>1, <2>2
<1> HIDE DEF w, h, n
<1>7. subscribed' => heard' = h
  BY <1>1
<1>8. subscribed' => \A m \in 1..Len(watchErrors') : \E k \in 1..Len(heard') : heard'[k] = watchErrors'[m]
  <2> SUFFICES ASSUME subscribed', NEW m \in 1..Len(watchErrors')
               PROVE  \E k \in 1..Len(heard') : heard'[k] = watchErrors'[m]
    OBVIOUS
  <2>1. PICK l \in 1..Len(w) : watchErrors'[m] = w[l]
    BY <1>5
  <2>2. \E k \in 1..Len(h) : h[k] = w[l]
    BY <1>1, <1>6
  <2> QED BY <1>7, <2>1, <2>2
<1>9. heard' \in Seq(1..n) /\ (subscribed' => Rising(heard'))
  BY <1>1, <1>3, <1>4, <1>7 DEF Rising
<1> QED BY <1>1, <1>2, <1>5, <1>8, <1>9 DEF Told, Rising

\* Every step keeps the order of the errors and leaves none unheard.
LEMMA NextTold == Told /\ [Next]_vars => Told'
<1> SUFFICES ASSUME Told, [Next]_vars PROVE Told'
  OBVIOUS
<1>1. CASE UNCHANGED <<watchErrors, errorCount, subscribed, heard>>
  BY <1>1 DEF Told, Rising
<1>2. CASE \E frames : EmitError(frames)
  BY <1>2, EmitErrorTold
<1>3. CASE onReset
  BY <1>3 DEF onReset, Told, Rising
<1>4. CASE subscribe
  BY <1>4 DEF subscribe, Told, Rising
<1>5. CASE unsubscribe \/ disposed
  <2>1. /\ ~subscribed' /\ heard' = <<>>
        /\ UNCHANGED <<watchErrors, errorCount>>
    BY <1>5 DEF unsubscribe, disposed
  <2>2. heard' \in Seq(1..errorCount')
    BY <2>1
  <2> QED BY <2>1, <2>2 DEF Told, Rising
<1>6. CASE onInitialReadComplete \/ \E terminated \in BOOLEAN : onChunkOversized(terminated)
  BY <1>1, <1>2, <1>6 DEF onInitialReadComplete, onChunkOversized, onOversizedBytes, EmitQuiet
<1>7. CASE \/ onInitialReadStart \/ runFlush \/ Tick \/ dispose \/ onError
           \/ \E ev \in C!Event : onChunkLine(ev)
  BY <1>1, <1>2, <1>7
  DEF onInitialReadStart, runFlush, Tick, dispose, onError, onChunkLine, EmitQuiet
<1>8. CASE UNCHANGED vars
  BY <1>1, <1>8 DEF vars
<1> QED BY <1>3, <1>4, <1>5, <1>6, <1>7, <1>8 DEF Next

\* Nothing is told at the start.
LEMMA InitTold == Init => Told
  BY DEF Init, Told, Rising

\* A subscriber has heard each error that is kept, once and in order.
THEOREM ErrorsCorrect == Spec => []ErrorsHeardOnce
<1>1. ASSUME Told PROVE ErrorsHeardOnce
  <2>1. /\ DOMAIN heard = 1..Len(heard) /\ DOMAIN watchErrors = 1..Len(watchErrors)
    BY <1>1 DEF Told
  <2> QED BY <1>1, <2>1 DEF Told, Rising, ErrorsHeardOnce, ToSet
<1> QED BY InitTold, <1>1, NextTold, PTL DEF Spec

-----------------------------------------------------------------------------
(* The types.                                                              *)

\* What is kept of a sequence is no longer than asked for.
LEMMA LastOfCapped ==
  ASSUME NEW T \in SUBSET Nat, NEW s \in Seq(T), NEW k \in Nat \ {0}
  PROVE  Len(LastOf(s, k)) <= k
<1> DEFINE from == IF Len(s) > k THEN Len(s) - k + 1 ELSE 1
<1>1. Len(s) \in Nat /\ \A i \in 1..Len(s) : s[i] \in T
  OBVIOUS
<1>2. /\ from \in Int /\ 1 <= from /\ from <= Len(s) + 1
      /\ Len(s) - from + 1 <= k /\ LastOf(s, k) = SubSeq(s, from, Len(s))
  BY <1>1 DEF LastOf
<1> HIDE DEF from
<1>3. Len(SubSeq(s, from, Len(s))) = IF from <= Len(s) THEN Len(s) - from + 1 ELSE 0
  <2>1. /\ Len(s) \in Int /\ \A i \in from..Len(s) : s[i] \in T
    BY <1>1, <1>2
  <2> QED BY <1>2, <2>1, SubSeqProperties
<1>4. Len(SubSeq(s, from, Len(s))) <= k
  BY <1>1, <1>2, <1>3
<1> QED BY <1>2, <1>4

\* No more errors are kept than the sticky buffer takes.
LEMMA EmitErrorCapped ==
  ASSUME Told, NEW frames, EmitError(frames)
  PROVE  errorCount' <= MaxErrors /\ Len(watchErrors') <= MAX_STICKY_WATCH_ERRORS
<1> DEFINE w == Append(watchErrors, errorCount + 1)
<1>1. watchErrors' = LastOf(w, MAX_STICKY_WATCH_ERRORS) /\ errorCount' <= MaxErrors
  BY MaxErrorsAssumption DEF EmitError, Told
<1>2. /\ errorCount \in Nat /\ watchErrors \in Seq(1..errorCount) /\ Rising(watchErrors)
  BY DEF Told
<1>3. w \in Seq(1..(errorCount + 1)) /\ 1..(errorCount + 1) \in SUBSET Nat
  BY <1>2, RisingAppend
<1> HIDE DEF w
<1>4. Len(LastOf(w, MAX_STICKY_WATCH_ERRORS)) <= MAX_STICKY_WATCH_ERRORS
  BY <1>3, LastOfCapped, StickyAssumption
<1> QED BY <1>1, <1>4

\* Types are kept by every step.
LEMMA NextTyped == TypeOK /\ Mirrored /\ Told /\ [Next]_vars => TypeOK'
<1> SUFFICES ASSUME TypeOK, Mirrored, Told, [Next]_vars PROVE TypeOK'
  OBVIOUS
<1>1. events' \in Seq(C!Event) /\ cor'.changedIndexes = {}
  BY NextMirrors DEF Mirrored
<1>2. /\ errorCount' \in Nat
      /\ watchErrors' \in Seq(1..errorCount') /\ heard' \in Seq(1..errorCount')
  BY NextTold DEF Told
<1>3. errorCount' <= MaxErrors /\ Len(watchErrors') <= MAX_STICKY_WATCH_ERRORS
  <2>1. CASE \E frames : EmitError(frames)
    BY <2>1, EmitErrorCapped
  <2>2. CASE errorCount' = errorCount /\ watchErrors' \in {watchErrors, <<>>}
    BY <2>2, StickyAssumption, MaxErrorsAssumption DEF TypeOK
  <2>3. CASE \E frames : EmitQuiet(frames)
    BY <2>2, <2>3 DEF EmitQuiet
  <2>4. CASE onInitialReadStart \/ onError \/ runFlush \/ Tick \/ dispose
             \/ \E ev \in C!Event : onChunkLine(ev)
    BY <2>1, <2>3, <2>4 DEF onInitialReadStart, onError, runFlush, Tick, dispose, onChunkLine
  <2>5. CASE onInitialReadComplete \/ \E terminated \in BOOLEAN : onChunkOversized(terminated)
    BY <2>1, <2>3, <2>5 DEF onInitialReadComplete, onChunkOversized, onOversizedBytes
  <2>6. CASE onReset \/ subscribe \/ unsubscribe \/ disposed \/ UNCHANGED vars
    BY <2>2, <2>6 DEF onReset, subscribe, unsubscribe, disposed, vars
  <2> QED BY <2>4, <2>5, <2>6 DEF Next
<1>4. phase' \in Phase /\ life' \in {"open", "closing", "closed"} /\ now' \in Nat
  <2>1. phase' = phase \/ phase' \in {"loading", "complete", "idle"}
    BY DEF Next, vars, onInitialReadStart, onInitialReadComplete, onChunkLine, onChunkOversized,
       onReset, onError, runFlush, Tick, subscribe, unsubscribe, dispose, disposed
  <2>2. life' = life \/ life' \in {"closing", "closed"}
    BY DEF Next, vars, onInitialReadStart, onInitialReadComplete, onChunkLine, onChunkOversized,
       onReset, onError, runFlush, Tick, subscribe, unsubscribe, dispose, disposed
  <2>3. now' \in {now, now + 1}
    BY DEF Next, vars, onInitialReadStart, onInitialReadComplete, onChunkLine, onChunkOversized,
       onReset, onError, runFlush, Tick, subscribe, unsubscribe, dispose, disposed
  <2> QED BY <2>1, <2>2, <2>3 DEF TypeOK, Phase
<1>5. subscribed' \in BOOLEAN
  <2>1. CASE \E frames : EmitQuiet(frames) \/ EmitError(frames)
    BY <2>1, Zenon DEF EmitQuiet, EmitError, TypeOK
  <2>2. CASE onInitialReadStart \/ onError \/ runFlush \/ Tick \/ dispose
             \/ \E ev \in C!Event : onChunkLine(ev)
    BY <2>1, <2>2 DEF onInitialReadStart, onError, runFlush, Tick, dispose, onChunkLine
  <2>3. CASE onInitialReadComplete \/ \E terminated \in BOOLEAN : onChunkOversized(terminated)
    BY <2>1, <2>3 DEF onInitialReadComplete, onChunkOversized, onOversizedBytes
  <2>4. CASE onReset \/ subscribe \/ unsubscribe \/ disposed \/ UNCHANGED vars
    BY <2>4, Zenon DEF onReset, subscribe, unsubscribe, disposed, vars, TypeOK
  <2> QED BY <2>2, <2>3, <2>4 DEF Next
<1>6. oversizedWarningActive' \in BOOLEAN
  <2>1. CASE UNCHANGED oversizedWarningActive \/ oversizedWarningActive' = FALSE
    BY <2>1, Zenon DEF TypeOK
  <2>2. CASE \E terminated \in BOOLEAN : oversizedWarningActive' = ~terminated
    BY <2>2, Zenon
  <2>3. CASE onInitialReadComplete
    BY <2>1, <2>2, <2>3, Zenon DEF onInitialReadComplete, onOversizedBytes
  <2>4. CASE \E terminated \in BOOLEAN : onChunkOversized(terminated)
    BY <2>2, <2>4, Zenon DEF onChunkOversized, onOversizedBytes
  <2>5. CASE \/ onInitialReadStart \/ onReset \/ onError \/ runFlush \/ Tick \/ subscribe
             \/ unsubscribe \/ dispose \/ disposed \/ UNCHANGED vars
             \/ \E ev \in C!Event : onChunkLine(ev)
    BY <2>1, <2>5, Zenon DEF onInitialReadStart, onReset, onError, runFlush, Tick, subscribe,
       unsubscribe, dispose, disposed, onChunkLine, vars
  <2> QED BY <2>3, <2>4, <2>5, Zenon DEF Next
<1> QED BY <1>1, <1>2, <1>3, <1>4, <1>5, <1>6, MaxErrorsAssumption DEF TypeOK

\* Type correctness; in particular no change of the correlator waits for a
\* later step to be shown.
THEOREM TypeCorrect == Spec => []TypeOK
<1>1. Init => TypeOK /\ Mirrored /\ Told
  <2> SUFFICES ASSUME Init PROVE TypeOK /\ Mirrored /\ Told
    OBVIOUS
  <2>1. Mirrored /\ Told
    BY InitMirrors, InitTold
  <2>2. subscribed \in BOOLEAN /\ oversizedWarningActive \in BOOLEAN
    BY Zenon DEF Init
  <2>3. /\ phase \in Phase /\ life \in {"open", "closing", "closed"} /\ now \in Nat
        /\ errorCount \in 0..MaxErrors /\ Len(watchErrors) <= MAX_STICKY_WATCH_ERRORS
    BY StickyAssumption, MaxErrorsAssumption DEF Init, Phase
  <2> QED BY <2>1, <2>2, <2>3 DEF TypeOK, Mirrored, Told
<1> QED BY <1>1, NextMirrors, NextTold, NextTyped, PTL DEF Spec

-----------------------------------------------------------------------------
(* The frames.  A step of AppState is a step of RowSource: its frames, at  *)
(* most three, make of the rows before it those after it.                  *)

\* the operators of RowSource
Applied(rs, frame) == R!Apply(rs, frame)
Suits(rs, frame) == R!Fits(rs, frame)
After(rs, frames) == R!RowsAfter(rs, frames)

\* run is what the rows are before the first frame, between two, and at the end
IsRun(run, sent) ==
  /\ run = [n \in 0..Len(sent) |-> run[n]]
  /\ \A n \in 1..Len(sent) : run[n] = Applied(run[n - 1], sent[n])

\* The rows after the frames are the last of their run.
LEMMA RunEnds ==
  ASSUME NEW S, NEW sent \in Seq(S), Len(sent) <= 3, NEW run, IsRun(run, sent)
  PROVE  After(run[0], sent) = run[Len(sent)]
<1> DEFINE k == Len(sent)
           body(f) == [n \in 0..k |-> IF n = 0 THEN run[0] ELSE Applied(f[n - 1], sent[n])]
           after == CHOOSE f : f = body(f)
<1>0. run = [n \in 0..k |-> run[n]]
  BY DEF IsRun
<1>1. k \in 0..3 /\ \A n \in 1..k : run[n] = Applied(run[n - 1], sent[n])
  BY DEF IsRun
<1>2. After(run[0], sent) = after[k]
  BY DEF After, R!RowsAfter, Applied
<1> HIDE DEF k
<1>3. run = body(run)
  <2>1. \A n \in 0..k : run[n] = IF n = 0 THEN run[0] ELSE Applied(run[n - 1], sent[n])
    BY <1>1
  <2> QED BY <1>0, <2>1
<1>4. after = body(after)
  <2> HIDE DEF body
  <2> QED BY <1>3
<1>5. \A n \in 0..k : after[n] = IF n = 0 THEN run[0] ELSE Applied(after[n - 1], sent[n])
  <2> HIDE DEF after
  <2> QED BY <1>4
<1> HIDE DEF after, body
<1>6. after[0] = run[0] /\ \A n \in 1..k : after[n] = Applied(after[n - 1], sent[n])
  <2>1. 0 \in 0..k /\ \A n \in 1..k : n \in 0..k /\ n # 0
    BY <1>1
  <2> QED BY <1>5, <2>1
<1>7. k >= 1 => after[1] = run[1]
  <2>1. k >= 1 => 1 \in 1..k /\ 1 - 1 = 0
    BY <1>1
  <2> QED BY <1>1, <1>6, <2>1
<1>8. k >= 2 => after[2] = run[2]
  <2>1. k >= 2 => 2 \in 1..k /\ 2 - 1 = 1 /\ k >= 1
    BY <1>1
  <2> QED BY <1>1, <1>6, <1>7, <2>1
<1>9. k >= 3 => after[3] = run[3]
  <2>1. k >= 3 => 3 \in 1..k /\ 3 - 1 = 2 /\ k >= 2
    BY <1>1
  <2> QED BY <1>1, <1>6, <1>8, <2>1
<1> QED BY <1>1, <1>2, <1>6, <1>7, <1>8, <1>9 DEF k

\* A step whose frames fit and have such a run is one of RowSource.
LEMMA RunIsEmit ==
  ASSUME NEW S, NEW sent \in Seq(S), Len(sent) <= 3, out' = sent, NEW run, IsRun(run, sent),
         run[0] = rows, run[Len(sent)] = rows',
         \A n \in 1..Len(sent) : Suits(run[n - 1], sent[n])
  PROVE  R!Emit
<1>1. rows' = After(rows, out')
  BY RunEnds
<1>2. ASSUME NEW n \in DOMAIN sent
      PROVE  Suits(After(rows, SubSeq(sent, 1, n - 1)), sent[n])
  <2> DEFINE front == SubSeq(sent, 1, n - 1)
             part == [m \in 0..(n - 1) |-> run[m]]
  <2>1. n \in 1..Len(sent) /\ Len(sent) \in Nat /\ n \in Int
    BY <1>2
  <2>2. front \in Seq(S) /\ Len(front) = n - 1 /\ \A m \in 1..(n - 1) : front[m] = sent[m]
    <3>1. 1 \in Int /\ n - 1 \in Int /\ \A i \in 1..(n - 1) : sent[i] \in S
      BY <2>1
    <3> DEFINE last == n - 1
    <3> HIDE DEF last
    <3>2. /\ SubSeq(sent, 1, last) \in Seq(S)
          /\ Len(SubSeq(sent, 1, last)) = IF 1 <= last THEN last - 1 + 1 ELSE 0
          /\ \A i \in 1..(last - 1 + 1) : SubSeq(sent, 1, last)[i] = sent[1 + i - 1]
      <4>1. 1 \in Int /\ last \in Int /\ \A i \in 1..last : sent[i] \in S
        BY <3>1 DEF last
      <4> QED BY <4>1, SubSeqProperties
    <3>3. last \in Nat
      BY <2>1 DEF last
    <3>4. /\ SubSeq(sent, 1, last) \in Seq(S) /\ Len(SubSeq(sent, 1, last)) = last
          /\ \A i \in 1..last : SubSeq(sent, 1, last)[i] = sent[i]
      BY <3>2, <3>3
    <3> QED BY <3>4 DEF last
  <2> HIDE DEF front
  <2>3. IsRun(part, front) /\ part[0] = rows /\ part[n - 1] = run[n - 1]
    <3>0. part = [m \in 0..Len(front) |-> part[m]]
      BY <2>1, <2>2
    <3>1. part[0] = rows /\ \A m \in 0..(n - 1) : part[m] = run[m]
      BY <2>1
    <3> HIDE DEF part
    <3>2. ASSUME NEW m \in 1..Len(front) PROVE part[m] = Applied(part[m - 1], front[m])
      <4>1. m \in 1..Len(sent) /\ m \in 1..(n - 1) /\ m \in 0..(n - 1) /\ m - 1 \in 0..(n - 1)
        BY <2>1, <2>2
      <4>2. run[m] = Applied(run[m - 1], sent[m])
        BY <4>1 DEF IsRun
      <4> QED BY <2>2, <3>1, <4>1, <4>2
    <3>3. IsRun(part, front)
      BY <3>0, <3>2 DEF IsRun
    <3>4. n - 1 \in 0..(n - 1)
      BY <2>1
    <3> QED BY <3>1, <3>3, <3>4
  <2> HIDE DEF part
  <2>4. After(rows, front) = run[n - 1]
    BY <2>1, <2>2, <2>3, RunEnds
  <2> QED BY <2>1, <2>4 DEF front
<1> QED BY <1>1, <1>2 DEF R!Emit, After, Suits

\* A frame that is about something else leaves the rows alone.
Silent(frame) == frame.kind \in {"load-progress", "watch-error"}

LEMMA SilentStep ==
  ASSUME NEW frame, Silent(frame), NEW rs
  PROVE  Applied(rs, frame) = rs /\ Suits(rs, frame)
  BY DEF Silent, Applied, Suits, R!Apply, R!Fits

\* The frames of a step in which the rows do not change.
LEMMA SilentEmit ==
  ASSUME NEW S, NEW sent \in Seq(S), Len(sent) <= 3, out' = sent, rows' = rows,
         \A n \in 1..Len(sent) : Silent(sent[n])
  PROVE  R!Emit
<1> DEFINE run == [n \in 0..Len(sent) |-> rows]
<1>1. Len(sent) \in Nat /\ \A n \in 0..Len(sent) : run[n] = rows
  OBVIOUS
<1>2. run = [n \in 0..Len(sent) |-> run[n]]
  OBVIOUS
<1> HIDE DEF run
<1>3. ASSUME NEW n \in 1..Len(sent)
      PROVE  run[n] = Applied(run[n - 1], sent[n]) /\ Suits(run[n - 1], sent[n])
  <2>1. run[n] = rows /\ run[n - 1] = rows
    BY <1>1
  <2> QED BY <2>1, SilentStep
<1>4. IsRun(run, sent)
  BY <1>2, <1>3 DEF IsRun
<1>5. run[0] = rows /\ run[Len(sent)] = rows'
  BY <1>1
<1> QED BY <1>3, <1>4, <1>5, RunIsEmit

\* One frame, two and three.
LEMMA OneFrame ==
  ASSUME NEW a, out' = <<a>>, rows' = Applied(rows, a), Suits(rows, a)
  PROVE  R!Emit
<1> DEFINE run == [n \in 0..1 |-> IF n = 0 THEN rows ELSE rows']
           sent == <<a>>
<1>1. run = [n \in 0..1 |-> run[n]]
  OBVIOUS
<1>2. run[0] = rows /\ run[1] = rows'
  OBVIOUS
<1>3. sent \in Seq({a}) /\ Len(sent) = 1 /\ sent[1] = a /\ out' = sent
  OBVIOUS
<1> HIDE DEF run, sent
<1>4. ASSUME NEW n \in 1..1
      PROVE  run[n] = Applied(run[n - 1], sent[n]) /\ Suits(run[n - 1], sent[n])
  <2>1. n = 1 /\ n - 1 = 0
    OBVIOUS
  <2> QED BY <1>2, <1>3, <2>1
<1>5. IsRun(run, sent)
  BY <1>1, <1>3, <1>4 DEF IsRun
<1>7. /\ run[0] = rows /\ run[Len(sent)] = rows' /\ Len(sent) <= 3 /\ out' = sent
      /\ \A n \in 1..Len(sent) : Suits(run[n - 1], sent[n])
  BY <1>2, <1>3, <1>4
<1>8. PICK S : sent \in Seq(S)
  BY <1>3
<1> QED BY <1>5, <1>7, <1>8, RunIsEmit

LEMMA TwoFrames ==
  ASSUME NEW a, NEW b, out' = <<a, b>>, NEW rs, rs = Applied(rows, a),
         rows' = Applied(rs, b), Suits(rows, a), Suits(rs, b)
  PROVE  R!Emit
<1> DEFINE run == [n \in 0..2 |-> IF n = 0 THEN rows ELSE IF n = 1 THEN rs ELSE rows']
           sent == <<a, b>>
<1>1. run = [n \in 0..2 |-> run[n]]
  OBVIOUS
<1>2. run[0] = rows /\ run[1] = rs /\ run[2] = rows'
  OBVIOUS
<1>3. sent \in Seq({a, b}) /\ Len(sent) = 2 /\ sent[1] = a /\ sent[2] = b /\ out' = sent
  OBVIOUS
<1> HIDE DEF run, sent
<1>4. ASSUME NEW n \in 1..2
      PROVE  run[n] = Applied(run[n - 1], sent[n]) /\ Suits(run[n - 1], sent[n])
  <2>1. (n = 1 /\ n - 1 = 0) \/ (n = 2 /\ n - 1 = 1)
    OBVIOUS
  <2> QED BY <1>2, <1>3, <2>1
<1>5. IsRun(run, sent)
  BY <1>1, <1>3, <1>4 DEF IsRun
<1>7. /\ run[0] = rows /\ run[Len(sent)] = rows' /\ Len(sent) <= 3 /\ out' = sent
      /\ \A n \in 1..Len(sent) : Suits(run[n - 1], sent[n])
  BY <1>2, <1>3, <1>4
<1>8. PICK S : sent \in Seq(S)
  BY <1>3
<1> QED BY <1>5, <1>7, <1>8, RunIsEmit

LEMMA ThreeFrames ==
  ASSUME NEW a, NEW b, NEW c, out' = <<a, b, c>>, NEW rs, rs = Applied(rows, a),
         rows' = Applied(rs, b), Suits(rows, a), Suits(rs, b), Silent(c)
  PROVE  R!Emit
<1> DEFINE run == [n \in 0..3 |-> IF n = 0 THEN rows ELSE IF n = 1 THEN rs ELSE rows']
           sent == <<a, b, c>>
<1>1. run = [n \in 0..3 |-> run[n]]
  OBVIOUS
<1>2. run[0] = rows /\ run[1] = rs /\ run[2] = rows' /\ run[3] = rows'
  OBVIOUS
<1>3. /\ sent \in Seq({a, b, c}) /\ Len(sent) = 3 /\ sent[1] = a /\ sent[2] = b /\ sent[3] = c
      /\ out' = sent
  OBVIOUS
<1> HIDE DEF run, sent
<1>6. rows' = Applied(rows', c) /\ Suits(rows', c)
  BY SilentStep
<1>4. ASSUME NEW n \in 1..3
      PROVE  run[n] = Applied(run[n - 1], sent[n]) /\ Suits(run[n - 1], sent[n])
  <2>1. (n = 1 /\ n - 1 = 0) \/ (n = 2 /\ n - 1 = 1) \/ (n = 3 /\ n - 1 = 2)
    OBVIOUS
  <2> QED BY <1>2, <1>3, <1>6, <2>1
<1>5. IsRun(run, sent)
  BY <1>1, <1>3, <1>4 DEF IsRun
<1>7. /\ run[0] = rows /\ run[Len(sent)] = rows' /\ Len(sent) <= 3 /\ out' = sent
      /\ \A n \in 1..Len(sent) : Suits(run[n - 1], sent[n])
  BY <1>2, <1>3, <1>4
<1>8. PICK S : sent \in Seq(S)
  BY <1>3
<1> QED BY <1>5, <1>7, <1>8, RunIsEmit

\* A patch replaces rows that are there.
LEMMA PatchStep ==
  ASSUME NEW u, NEW rs, DOMAIN u \subseteq DOMAIN rs, DOMAIN u # {}
  PROVE  Applied(rs, PatchFrame(u)) = Patched(rs, u) /\ Suits(rs, PatchFrame(u))
<1> DEFINE frame == PatchFrame(u)
<1>1. frame.kind = "patch" /\ frame.updates = u
  BY DEF PatchFrame
<1> HIDE DEF frame
<1>2. Applied(rs, frame) = Patched(rs, u)
  BY <1>1 DEF Applied, R!Apply, R!Patched, Patched
<1>3. Suits(rs, frame)
  BY <1>1 DEF Suits, R!Fits
<1> QED BY <1>2, <1>3 DEF frame

\* A sequence and one more.
LEMMA AppendIs ==
  ASSUME NEW n \in Nat, NEW f, f = [j \in 1..n |-> f[j]], NEW x
  PROVE  Append(f, x) = [j \in 1..(n + 1) |-> IF j = n + 1 THEN x ELSE f[j]]
<1> DEFINE T == {f[j] : j \in 1..n} \cup {x}
           g == Append(f, x)
<1>1. x \in T /\ \A j \in 1..n : f[j] \in T
  OBVIOUS
<1> HIDE DEF T
<1>2. f \in Seq(T) /\ Len(f) = n
  BY <1>1
<1>3. g \in Seq(T) /\ Len(g) = n + 1 /\ g[n + 1] = x /\ \A j \in 1..n : g[j] = f[j]
  BY <1>1, <1>2
<1> HIDE DEF g
<1>4. g = [j \in 1..(n + 1) |-> g[j]]
  BY <1>3
<1>5. \A j \in 1..(n + 1) : g[j] = IF j = n + 1 THEN x ELSE f[j]
  BY <1>3
<1>6. g = [j \in 1..(n + 1) |-> IF j = n + 1 THEN x ELSE f[j]]
  BY <1>4, <1>5
<1> QED BY <1>6 DEF g

\* An append frame with one row puts it behind the others.
LEMMA AppendStep ==
  ASSUME NEW n \in Nat, NEW rs, rs = [j \in 1..n |-> rs[j]], NEW x
  PROVE  /\ Applied(rs, AppendFrame(n + 1, <<x>>)) = Append(rs, x)
         /\ Suits(rs, AppendFrame(n + 1, <<x>>))
<1> DEFINE frame == AppendFrame(n + 1, <<x>>)
<1>1. frame.kind = "append" /\ frame.from = n + 1 /\ frame.rows = <<x>>
  BY DEF AppendFrame
<1> HIDE DEF frame
<1>2. DOMAIN rs = 1..n /\ Len(rs) = n
  <2> DEFINE T == {rs[j] : j \in 1..n}
  <2>1. \A j \in 1..n : rs[j] \in T
    OBVIOUS
  <2> HIDE DEF T
  <2>2. rs \in Seq(T)
    BY <2>1
  <2> QED BY <2>2
<1>3. Suits(rs, frame)
  BY <1>1, <1>2 DEF Suits, R!Fits
<1>4. Applied(rs, frame) = R!Placed(rs, n + 1, <<x>>)
  BY <1>1 DEF Applied, R!Apply
<1>5. R!Placed(rs, n + 1, <<x>>) = [j \in 1..(n + 1) |-> IF j = n + 1 THEN x ELSE rs[j]]
  <2>1. Len(<<x>>) = 1 /\ <<x>>[1] = x
    OBVIOUS
  <2> DEFINE new == <<x>>
  <2> HIDE DEF new
  <2>2. DOMAIN rs \cup ((n + 1)..(n + 1 + Len(new) - 1)) = 1..(n + 1)
    BY <1>2, <2>1 DEF new
  <2>3. \A j \in 1..(n + 1) :
          (IF j >= n + 1 /\ j < n + 1 + Len(new) THEN new[j - (n + 1) + 1] ELSE rs[j])
            = IF j = n + 1 THEN x ELSE rs[j]
    BY <2>1 DEF new
  <2>4. R!Placed(rs, n + 1, new)
          = [j \in 1..(n + 1) |->
               IF j >= n + 1 /\ j < n + 1 + Len(new) THEN new[j - (n + 1) + 1] ELSE rs[j]]
    BY <2>2 DEF R!Placed
  <2>5. R!Placed(rs, n + 1, new) = [j \in 1..(n + 1) |-> IF j = n + 1 THEN x ELSE rs[j]]
    BY <2>3, <2>4
  <2> QED BY <2>5 DEF new
<1>6. Append(rs, x) = [j \in 1..(n + 1) |-> IF j = n + 1 THEN x ELSE rs[j]]
  BY AppendIs
<1>7. Applied(rs, frame) = Append(rs, x)
  BY <1>4, <1>5, <1>6
<1> QED BY <1>3, <1>7 DEF frame

\* A line that is ingested emits its row, and then what it changed of those
\* before, as they are now.
LEMMA IngestFrames ==
  ASSUME Mirrored, NEW ev, rows' = ingestLine(ev).rows
  PROVE  \E a, u, rs :
           /\ ingestLine(ev).frames = <<a>> \o patchFrames(u)
           /\ rs = Applied(rows, a) /\ Suits(rows, a)
           /\ DOMAIN u = {} => rows' = rs
           /\ DOMAIN u # {} => /\ rows' = Applied(rs, PatchFrame(u))
                               /\ Suits(rs, PatchFrame(u))
<1> DEFINE n == Len(events)
           evs == Append(events, ev)
           c == C!OnAppend(cor, evs, Len(evs))
           u == buildPatchUpdates(c, {j \in c.changedIndexes : j < Len(evs)})
           x == buildRow(c, Len(evs))
           kept == Patched(rows, u)
           rs == Append(rows, x)
<1>1. n \in Nat /\ Len(evs) = n + 1 /\ rows = [j \in 1..n |-> rows[j]]
  <2>1. events \in Seq(C!Event) /\ rows = [j \in 1..n |-> buildRow(cor, j)]
    BY DEF Mirrored
  <2>2. n \in Nat /\ Len(evs) = n + 1
    <3>1. events \in Seq(C!Event \cup {ev})
      BY <2>1
    <3> QED BY <3>1
  <2> HIDE DEF n
  <2> QED BY <2>1, <2>2
<1>2. /\ rows' = Append(kept, x)
      /\ ingestLine(ev).frames = <<AppendFrame(Len(evs), <<x>>)>> \o patchFrames(u)
  BY DEF ingestLine
<1>3. DOMAIN u \subseteq 1..n
  <2>1. DOMAIN rows = 1..n
    BY <1>1
  <2> HIDE DEF c, evs
  <2> QED BY <2>1 DEF buildPatchUpdates
<1> HIDE DEF u, x, c, n, evs
<1>4. kept = [j \in 1..n |-> IF j \in DOMAIN u THEN u[j] ELSE rows[j]]
  BY <1>1 DEF Patched
<1>5. kept = [j \in 1..n |-> kept[j]]
  BY <1>4
<1> HIDE DEF kept
<1>6. rows' = [j \in 1..(n + 1) |-> IF j = n + 1 THEN x ELSE kept[j]]
  BY <1>1, <1>2, <1>5, AppendIs
<1>7. rs = [j \in 1..(n + 1) |-> IF j = n + 1 THEN x ELSE rows[j]]
  BY <1>1, AppendIs
<1> HIDE DEF rs
<1>8. rs = Applied(rows, AppendFrame(n + 1, <<x>>)) /\ Suits(rows, AppendFrame(n + 1, <<x>>))
  BY <1>1, AppendStep DEF rs
<1>9. Patched(rs, u) = rows'
  <2>1. Patched(rs, u) = [j \in 1..(n + 1) |-> IF j \in DOMAIN u THEN u[j] ELSE rs[j]]
    BY <1>7 DEF Patched
  <2>2. ASSUME NEW j \in 1..(n + 1)
        PROVE  (IF j \in DOMAIN u THEN u[j] ELSE rs[j])
                 = IF j = n + 1 THEN x ELSE kept[j]
    <3>1. CASE j = n + 1
      <4>1. j \notin DOMAIN u /\ rs[j] = x
        BY <1>1, <1>3, <1>7, <3>1
      <4> QED BY <3>1, <4>1
    <3>2. CASE j # n + 1
      <4>1. j \in 1..n
        BY <1>1, <3>2
      <4>2. rs[j] = rows[j] /\ kept[j] = IF j \in DOMAIN u THEN u[j] ELSE rows[j]
        BY <1>4, <1>7, <3>2, <4>1
      <4> QED BY <3>2, <4>2
    <3> QED BY <3>1, <3>2
  <2> QED BY <1>6, <2>1, <2>2
<1>10. CASE DOMAIN u = {}
  <2>1. Patched(rs, u) = rs
    BY <1>7, <1>10 DEF Patched
  <2> QED BY <1>1, <1>2, <1>8, <1>9, <1>10, <2>1
<1>11. CASE DOMAIN u # {}
  <2>1. DOMAIN u \subseteq DOMAIN rs
    BY <1>1, <1>3, <1>7
  <2>2. Applied(rs, PatchFrame(u)) = Patched(rs, u) /\ Suits(rs, PatchFrame(u))
    BY <1>11, <2>1, PatchStep
  <2> QED BY <1>1, <1>2, <1>8, <1>9, <1>11, <2>2
<1> QED BY <1>10, <1>11

\* Sequences put together of single frames.
LEMMA Joined ==
  ASSUME NEW a, NEW b, NEW c
  PROVE  /\ <<a>> \o <<>> = <<a>> /\ <<>> \o <<a>> = <<a>> /\ <<a>> \o <<b>> = <<a, b>>
         /\ <<a, b>> \o <<c>> = <<a, b, c>>
<1> DEFINE S == {a, b, c}
<1>1. /\ <<>> \in Seq(S) /\ <<a>> \in Seq(S) /\ <<b>> \in Seq(S) /\ <<c>> \in Seq(S)
      /\ <<a, b>> \in Seq(S)
  OBVIOUS
<1>2. <<a>> \o <<>> = <<a>> /\ <<>> \o <<a>> = <<a>>
  BY <1>1
<1>3. <<a>> \o <<b>> = <<a, b>>
  <2> DEFINE s == <<a>> \o <<b>>
  <2>1. s \in Seq(S) /\ Len(s) = 2 /\ s[1] = a /\ s[2] = b
    BY <1>1
  <2> HIDE DEF s
  <2>2. s = <<a, b>>
    <3>1. s = [n \in 1..2 |-> s[n]] /\ \A n \in 1..2 : s[n] = <<a, b>>[n]
      BY <2>1
    <3> QED BY <3>1
  <2> QED BY <2>2 DEF s
<1>4. <<a, b>> \o <<c>> = <<a, b, c>>
  <2> DEFINE s == <<a, b>> \o <<c>>
  <2>1. s \in Seq(S) /\ Len(s) = 3 /\ s[1] = a /\ s[2] = b /\ s[3] = c
    BY <1>1
  <2> HIDE DEF s
  <2>2. s = <<a, b, c>>
    <3>1. s = [n \in 1..3 |-> s[n]] /\ \A n \in 1..3 : s[n] = <<a, b, c>>[n]
      BY <2>1
    <3> QED BY <3>1
  <2> QED BY <2>2 DEF s
<1> QED BY <1>2, <1>3, <1>4

\* A line that is ingested, within the initial read or after it.
LEMMA IngestEmit ==
  ASSUME Mirrored, NEW ev, rows' = ingestLine(ev).rows, NEW c, Silent(c),
         out' = ingestLine(ev).frames \/ out' = ingestLine(ev).frames \o <<c>>
  PROVE  R!Emit
<1>1. PICK a, u, rs :
        /\ ingestLine(ev).frames = <<a>> \o patchFrames(u)
        /\ rs = Applied(rows, a) /\ Suits(rows, a)
        /\ DOMAIN u = {} => rows' = rs
        /\ DOMAIN u # {} => /\ rows' = Applied(rs, PatchFrame(u))
                            /\ Suits(rs, PatchFrame(u))
  BY IngestFrames
<1>2. CASE DOMAIN u = {}
  <2>1. patchFrames(u) = <<>>
    BY <1>2 DEF patchFrames
  <2>2. ingestLine(ev).frames = <<a>>
    BY <1>1, <2>1, Joined
  <2>3. out' = <<a>> \/ out' = <<a, c>>
    BY <2>2, Joined
  <2>4. CASE out' = <<a>>
    BY <1>1, <1>2, <2>4, OneFrame
  <2>5. CASE out' = <<a, c>>
    <3>1. rows' = Applied(rs, c) /\ Suits(rs, c)
      BY <1>1, <1>2, SilentStep
    <3> QED BY <1>1, <2>5, <3>1, TwoFrames
  <2> QED BY <2>3, <2>4, <2>5
<1>3. CASE DOMAIN u # {}
  <2> DEFINE p == PatchFrame(u)
  <2>1. patchFrames(u) = <<p>>
    BY <1>3 DEF patchFrames
  <2>2. /\ rs = Applied(rows, a) /\ Suits(rows, a)
        /\ rows' = Applied(rs, p) /\ Suits(rs, p)
    BY <1>1, <1>3
  <2> HIDE DEF p
  <2>3. ingestLine(ev).frames = <<a, p>>
    BY <1>1, <2>1, Joined
  <2>4. out' = <<a, p>> \/ out' = <<a, p, c>>
    BY <2>3, Joined
  <2>5. CASE out' = <<a, p>>
    BY <2>2, <2>5, TwoFrames
  <2>6. CASE out' = <<a, p, c>>
    BY <2>2, <2>6, ThreeFrames
  <2> QED BY <2>4, <2>5, <2>6
<1> QED BY <1>2, <1>3

\* The ticker patches the rows whose request it has timed out.
LEMMA FlushEmit ==
  ASSUME Mirrored, runFlush
  PROVE  R!Emit
<1> DEFINE c == C!FlushAt(cor, events, now)
           u == buildPatchUpdates(c, c.changedIndexes)
<1>1. rows' = Patched(rows, u) /\ out' = patchFrames(u)
  BY DEF runFlush, EmitQuiet
<1>2. DOMAIN u \subseteq DOMAIN rows
  BY DEF buildPatchUpdates
<1> HIDE DEF u
<1>3. CASE DOMAIN u = {}
  <2>1. out' = <<>>
    BY <1>1, <1>3 DEF patchFrames
  <2>2. rows = [j \in 1..Len(events) |-> rows[j]]
    BY DEF Mirrored
  <2>3. Patched(rows, u) = rows
    <3> DEFINE n == Len(events)
    <3> HIDE DEF n
    <3>1. rows = [j \in 1..n |-> rows[j]]
      BY <2>2 DEF n
    <3> QED BY <1>3, <3>1 DEF Patched
  <2>4. <<>> \in Seq({}) /\ Len(<<>>) <= 3 /\ \A n \in 1..Len(<<>>) : Silent(<<>>[n])
    OBVIOUS
  <2> QED BY <1>1, <2>1, <2>3, <2>4, SilentEmit
<1>4. CASE DOMAIN u # {}
  <2> DEFINE p == PatchFrame(u)
  <2>1. out' = <<p>>
    BY <1>1, <1>4 DEF patchFrames
  <2>2. Applied(rows, p) = Patched(rows, u) /\ Suits(rows, p)
    BY <1>2, <1>4, PatchStep
  <2> HIDE DEF p
  <2> QED BY <1>1, <2>1, <2>2, OneFrame
<1> QED BY <1>3, <1>4

\* A rotation empties the rows.
LEMMA ResetEmit ==
  ASSUME onReset
  PROVE  R!Emit
<1> DEFINE a == ProgressFrame("idle")
           b == RotationFrame
<1>1. out' = <<a, b>> /\ rows' = <<>>
  BY DEF onReset
<1>2. Silent(a) /\ b.kind = "rotation"
  BY DEF Silent, ProgressFrame, RotationFrame
<1> HIDE DEF a, b
<1>3. rows = Applied(rows, a) /\ Suits(rows, a)
  BY <1>2, SilentStep
<1>4. rows' = Applied(rows, b) /\ Suits(rows, b)
  BY <1>1, <1>2 DEF Applied, Suits, R!Apply, R!Fits
<1> QED BY <1>1, <1>3, <1>4, TwoFrames

\* A step that leaves the rows alone emits nothing, or up to two frames that do.
Quiet ==
  /\ rows' = rows
  /\ \/ out' = <<>>
     \/ \E a : Silent(a) /\ out' = <<a>>
     \/ \E a, b : Silent(a) /\ Silent(b) /\ out' = <<a, b>>

LEMMA QuietEmit ==
  ASSUME Quiet
  PROVE  R!Emit
<1>1. CASE out' = <<>>
  <2>1. <<>> \in Seq({}) /\ Len(<<>>) <= 3 /\ \A n \in 1..Len(<<>>) : Silent(<<>>[n])
    OBVIOUS
  <2> QED BY <1>1, <2>1, SilentEmit DEF Quiet
<1>2. CASE \E a : Silent(a) /\ out' = <<a>>
  <2>1. PICK a : Silent(a) /\ out' = <<a>>
    BY <1>2
  <2>2. rows' = Applied(rows, a) /\ Suits(rows, a)
    BY <2>1, SilentStep DEF Quiet
  <2> QED BY <2>1, <2>2, OneFrame
<1>3. CASE \E a, b : Silent(a) /\ Silent(b) /\ out' = <<a, b>>
  <2>1. PICK a, b : Silent(a) /\ Silent(b) /\ out' = <<a, b>>
    BY <1>3
  <2>2. /\ rows = Applied(rows, a) /\ Suits(rows, a)
        /\ rows' = Applied(rows, b) /\ Suits(rows, b)
    BY <2>1, SilentStep DEF Quiet
  <2> QED BY <2>1, <2>2, TwoFrames
<1> QED BY <1>1, <1>2, <1>3 DEF Quiet

\* The steps about progress, errors, listeners and the clock.
LEMMA QuietSteps ==
  ASSUME \/ onInitialReadStart \/ onError \/ Tick \/ subscribe \/ unsubscribe
         \/ dispose \/ disposed \/ \E terminated \in BOOLEAN : onChunkOversized(terminated)
  PROVE  Quiet
<1>1. ASSUME NEW frames, EmitQuiet(frames) PROVE out' = frames
  BY <1>1 DEF EmitQuiet
<1>2. ASSUME EmitError(<<>>) PROVE \E a : Silent(a) /\ out' = <<a>>
  <2> DEFINE a == WatchErrorFrame(errorCount + 1)
  <2>1. out' = <<a>> \o <<>> /\ Silent(a)
    BY <1>2 DEF EmitError, Silent, WatchErrorFrame
  <2> HIDE DEF a
  <2>2. out' = <<a>>
    BY <2>1, Joined
  <2> QED BY <2>1, <2>2
<1>3. CASE onInitialReadStart
  <2> DEFINE a == ProgressFrame("loading")
  <2>1. rows' = rows /\ out' = <<a>> /\ Silent(a)
    BY <1>1, <1>3 DEF onInitialReadStart, ingestVars, ProgressFrame, Silent
  <2> HIDE DEF a
  <2> QED BY <2>1 DEF Quiet
<1>4. CASE onError \/ \E terminated \in BOOLEAN : onChunkOversized(terminated)
  <2>1. rows' = rows /\ (EmitError(<<>>) \/ EmitQuiet(<<>>))
    BY <1>4 DEF onError, onChunkOversized, onOversizedBytes, ingestVars
  <2> QED BY <1>1, <1>2, <2>1 DEF Quiet
<1>5. CASE Tick \/ dispose
  <2>1. rows' = rows /\ EmitQuiet(<<>>)
    BY <1>5 DEF Tick, dispose, ingestVars
  <2> QED BY <1>1, <2>1 DEF Quiet
<1>6. CASE subscribe \/ unsubscribe \/ disposed
  BY <1>6 DEF subscribe, unsubscribe, disposed, ingestVars, Quiet
<1> QED BY <1>3, <1>4, <1>5, <1>6

\* The end of the initial read, when it ingests no line.
LEMMA CompleteQuiet ==
  ASSUME rows' = rows, NEW c, Silent(c),
         onOversizedBytes(FALSE, <<c>>) \/ EmitQuiet(<<c>>)
  PROVE  Quiet
<1>1. CASE EmitQuiet(<<c>>)
  BY <1>1 DEF EmitQuiet, Quiet
<1>2. CASE EmitError(<<c>>)
  <2> DEFINE a == WatchErrorFrame(errorCount + 1)
  <2>1. out' = <<a>> \o <<c>> /\ Silent(a)
    BY <1>2 DEF EmitError, Silent, WatchErrorFrame
  <2> HIDE DEF a
  <2>2. out' = <<a, c>>
    BY <2>1, Joined
  <2> QED BY <2>1, <2>2 DEF Quiet
<1> QED BY <1>1, <1>2 DEF onOversizedBytes

\* Whatever AppState does to the rows, the frames of the step say.
LEMMA NextEmits == Mirrored /\ [Next]_vars => [R!Emit]_<<rows, out>>
<1> SUFFICES ASSUME Mirrored, [Next]_vars PROVE [R!Emit]_<<rows, out>>
  OBVIOUS
<1> DEFINE c == ProgressFrame("complete")
<1>1. Silent(c)
  BY DEF Silent, ProgressFrame
<1> HIDE DEF c
<1>2. CASE onInitialReadComplete
  <2>1. \/ rows' = rows /\ (onOversizedBytes(FALSE, <<c>>) \/ EmitQuiet(<<c>>))
        \/ \E ev \in C!Event : /\ rows' = ingestLine(ev).rows
                               /\ out' = ingestLine(ev).frames \o <<c>>
    BY <1>2 DEF onInitialReadComplete, Ingested, EmitQuiet, ingestVars, c
  <2> QED BY <1>1, <2>1, CompleteQuiet, QuietEmit, IngestEmit
<1>3. CASE \E ev \in C!Event : onChunkLine(ev)
  <2>1. PICK ev \in C!Event : rows' = ingestLine(ev).rows /\ out' = ingestLine(ev).frames
    BY <1>3 DEF onChunkLine, Ingested, EmitQuiet
  <2> QED BY <1>1, <2>1, IngestEmit
<1>4. CASE runFlush
  BY <1>4, FlushEmit
<1>5. CASE onReset
  BY <1>5, ResetEmit
<1>6. CASE \/ onInitialReadStart \/ onError \/ Tick \/ subscribe \/ unsubscribe
           \/ dispose \/ disposed \/ \E terminated \in BOOLEAN : onChunkOversized(terminated)
  BY <1>6, QuietSteps, QuietEmit
<1>7. CASE UNCHANGED vars
  BY <1>7 DEF vars
<1> QED BY <1>2, <1>3, <1>4, <1>5, <1>6, <1>7 DEF Next

\* The rows of an open log change only as the frames say: AppState implements
\* RowSource.
THEOREM FramesCorrect == Spec => RowsFollowFrames
<1>1. Init => R!Init
  BY DEF Init, R!Init
<1> QED BY <1>1, InitMirrors, NextMirrors, NextEmits, PTL DEF Spec, RowsFollowFrames, R!Spec

=============================================================================
