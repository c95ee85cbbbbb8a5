---------------------------- MODULE RelaySocket ----------------------------
(***************************************************************************)
(* useRelayWebSocket: the browser's WebSocket to the relay, its retry      *)
(* budget, and the generation counter that makes an attempt which is still *)
(* waiting for credentials give up when it has been superseded.  A render  *)
(* and the effects it triggers are one step.  The generation is modelled   *)
(* by what it decides: the attempt of the current generation ("asking") or *)
(* one of an earlier generation ("stale").                                 *)
(***************************************************************************)
EXTENDS Naturals

CONSTANTS Urls,                  \* relay addresses
          NoUrl,                 \* the hook's null url
          MaxReconnectAttempts,
          MaxStale               \* bound on the superseded attempts remembered
ASSUME SocketAssumption == /\ NoUrl \notin Urls
                           /\ MaxReconnectAttempts \in Nat
                           /\ MaxStale \in Nat

VARIABLE sock

NoSocket == [url |-> NoUrl, status |-> "disconnected", ws |-> "none",
             asking |-> FALSE, stale |-> 0, timer |-> FALSE, count |-> 0,
             stable |-> FALSE, intentional |-> FALSE, auto |-> FALSE,
             orphan |-> FALSE]

SocketRecord ==
  [url : Urls \cup {NoUrl},
   status : {"disconnected", "connecting", "connected", "error"},
   ws : {"none", "connecting", "open"}, asking : BOOLEAN,
   stale : 0..MaxStale, timer : BOOLEAN, count : 0..MaxReconnectAttempts,
   stable : BOOLEAN, intentional : BOOLEAN, auto : BOOLEAN, orphan : BOOLEAN]

-----------------------------------------------------------------------------
\* cleanup(): a new generation, no timers, no socket and no handlers.
Cleaned(s) ==
  [s EXCEPT !.asking = FALSE, !.timer = FALSE, !.stable = FALSE, !.ws = "none",
            !.stale = IF s.asking /\ s.stale < MaxStale THEN @ + 1 ELSE @]

\* Fault: the attempts are not counted.
ScheduledForever(s) == [s EXCEPT !.status = "connecting", !.timer = TRUE]

ScheduledReconnect(s) ==
  IF s.count < MaxReconnectAttempts
  THEN [s EXCEPT !.count = @ + 1, !.status = "connecting", !.timer = TRUE]
  ELSE [s EXCEPT !.status = "error"]

\* new WebSocket(): the one wsRef held, if any, keeps its handlers.
Created(s) == [s EXCEPT !.orphan = @ \/ s.ws # "none", !.ws = "connecting",
                        !.asking = FALSE]

\* connect(): protocols at hand open the socket at once, else it awaits them.
ConnectStarted(s, atHand) ==
  LET t == [Cleaned(s) EXCEPT !.intentional = FALSE, !.status = "connecting",
                              !.auto = FALSE]
  IN IF s.url = NoUrl THEN [s EXCEPT !.auto = FALSE, !.timer = FALSE]
     ELSE IF atHand THEN Created(t) ELSE [t EXCEPT !.asking = TRUE]

\* Fault: the generation is not compared after the await.
AttemptAlwaysResumed(s, current) ==
  [Created(s) EXCEPT !.stale = IF current THEN @ ELSE @ - 1]

\* Fault: a failure to get credentials is only logged.
AttemptFailedQuietly(s, current) ==
  IF current THEN [s EXCEPT !.asking = FALSE] ELSE [s EXCEPT !.stale = @ - 1]

\* The await returned: only the current generation goes on.
AttemptResumed(s, current) ==
  IF current THEN Created(s) ELSE [s EXCEPT !.stale = @ - 1]
AttemptFailed(s, current) ==
  IF current THEN ScheduledReconnect([s EXCEPT !.asking = FALSE])
  ELSE [s EXCEPT !.stale = @ - 1]

\* Fault: a handshake is enough to get the attempts back.
SocketOpenedAnew(s) == [s EXCEPT !.ws = "open", !.status = "connected",
                                 !.count = 0, !.stable = TRUE]

SocketOpened(s) == [s EXCEPT !.ws = "open", !.status = "connected",
                             !.stable = TRUE]
SocketStayed(s) == [s EXCEPT !.count = 0, !.stable = FALSE]

SocketClosed(s) ==
  LET t == [s EXCEPT !.ws = "none", !.stable = FALSE]
  IN IF s.intentional THEN [t EXCEPT !.status = "disconnected"]
     ELSE ScheduledReconnect(t)

Disconnected(s) == [Cleaned(s) EXCEPT !.intentional = TRUE,
                                      !.status = "disconnected"]

\* The effect on [autoConnect, url]: its cleanup, then the 0 ms timer.
UrlSet(s, u) == IF u = s.url THEN s
                ELSE [Cleaned(s) EXCEPT !.url = u, !.auto = (u # NoUrl)]

-----------------------------------------------------------------------------
AutoConnects(atHand) == sock.auto /\ sock' = ConnectStarted(sock, atHand)
ReconnectFires       == sock.timer /\ sock' = ConnectStarted(sock, FALSE)
CredentialsArrive(current) ==
  /\ IF current THEN sock.asking ELSE sock.stale > 0
  /\ sock' = AttemptResumed(sock, current)
CredentialsFail(current) ==
  /\ IF current THEN sock.asking ELSE sock.stale > 0
  /\ sock' = AttemptFailed(sock, current)
Opens  == sock.ws = "connecting" /\ sock' = SocketOpened(sock)
Stays  == sock.stable /\ sock' = SocketStayed(sock)
Closes == sock.ws # "none" /\ sock' = SocketClosed(sock)

SocketStep == \/ \E atHand \in BOOLEAN : AutoConnects(atHand)
              \/ ReconnectFires
              \/ \E current \in BOOLEAN : \/ CredentialsArrive(current)
                                          \/ CredentialsFail(current)
              \/ Opens \/ Stays \/ Closes

\* What the hook's owner does: another url, a disconnect, another mount.
OwnerStep == \/ \E u \in Urls : sock' = UrlSet(sock, u)
             \/ sock' = UrlSet(Disconnected(sock), NoUrl)
             \/ sock' = NoSocket

SocketInit == sock = NoSocket
SocketSpec == SocketInit /\ [][SocketStep \/ OwnerStep]_sock

-----------------------------------------------------------------------------
\* No superseded attempt opens a socket: neither a second one beside that
\* which wsRef holds, where the relay would hear the caller twice, nor one
\* after the disconnect that ends the call (generation checks of connect()).
OneLiveSocket ==
  ~sock.orphan /\ (sock.intentional => sock.ws = "none" /\ ~sock.timer)

\* A link that says "connecting" is being worked on: credentials, a
\* handshake or a timer is under way; and "connected" has an open socket
\* unless a new address is about to be dialled.
LinkIsWorkedOn ==
  /\ sock.status = "connecting" =>
       sock.asking \/ sock.ws = "connecting" \/ sock.timer \/ sock.auto
  /\ sock.status = "connected" => sock.ws = "open" \/ sock.auto
  /\ sock.ws # "none" => ~sock.timer /\ ~sock.asking

\* The socket is the link the client promises: a loss costs one attempt,
\* and only a link that stayed up gets its attempts back, so that the
\* retries of a call end (the budget of scheduleReconnect and stableTimer).
LinkOf == [disconnected |-> "down", connecting |-> "trying",
           connected |-> "up", error |-> "failed"]
Link == INSTANCE RelayLink WITH MaxTries <- MaxReconnectAttempts,
                                link <- LinkOf[sock.status], tries <- sock.count
RefinesLink == Link!LinkSpec
=============================================================================
