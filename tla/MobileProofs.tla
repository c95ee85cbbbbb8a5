---------------------------- MODULE MobileProofs ----------------------------
(***************************************************************************)
(* What the phone app guarantees for any number of tasks, sounds, requests *)
(* and attempts. The player is a value that each operation turns into      *)
(* another, so what it promises is proved of the operations first; the     *)
(* socket is proved about together with the screen it belongs to.          *)
(***************************************************************************)
EXTENDS MobileCall, Integers, TLAPS

----------------------------------------------------------------------------
(* The player *)

PlayerRecord == [queue : Int, playing : BOOLEAN, writing : Int, creating : Int,
                 cur : {"none", "sounding", "over"}, astray : Int, stopping : Int]
Worked(p) == p.queue > 0 => p.playing
PlayerInv(p) == p \in PlayerRecord /\ Worked(p)

(* Whatever the player was left in, playNext takes up what waits.          *)
LEMMA PlayNextWorks ==
  ASSUME NEW p \in PlayerRecord
  PROVE  PlayerInv(playNext(p))
<1>1. CASE p.playing \/ p.queue = 0
  BY <1>1 DEF playNext, PlayerInv, PlayerRecord, Worked
<1>2. CASE ~(p.playing \/ p.queue = 0)
  <2> DEFINE rest == p.queue - 1
             files == p.writing + 1
  <2>1. rest \in Int /\ files \in Int
    BY DEF PlayerRecord
  <2>2. playNext(p) = [p EXCEPT !.queue = rest, !.playing = TRUE, !.writing = files]
    BY <1>2 DEF playNext
  <2> HIDE DEF rest, files
  <2>3. QED BY <2>1, <2>2 DEF PlayerInv, PlayerRecord, Worked
<1>3. QED BY <1>1, <1>2

(* What arrives, what ends and what fails goes through playNext.           *)
LEMMA ChainKeepsPlayer ==
  ASSUME NEW p \in PlayerRecord
  PROVE  /\ PlayerInv(enqueue(p))
         /\ \A stage \in {"writing", "creating"} : PlayerInv(SoundFails(p, stage))
         /\ \A lost \in BOOLEAN : PlayerInv(SoundEnds(p, lost))
<1> DEFINE more == p.queue + 1
           written == p.writing - 1
           created == p.creating - 1
           strays == p.astray - 1
<1>1. more \in Int /\ written \in Int /\ created \in Int /\ strays \in Int
  BY DEF PlayerRecord
<1>2. /\ enqueue(p) = playNext([p EXCEPT !.queue = more])
      /\ SoundFails(p, "writing") = playNext([p EXCEPT !.writing = written, !.playing = FALSE])
      /\ SoundFails(p, "creating") = playNext([p EXCEPT !.creating = created, !.playing = FALSE])
      /\ SoundEnds(p, TRUE) = playNext([p EXCEPT !.astray = strays, !.playing = FALSE])
      /\ SoundEnds(p, FALSE) = playNext([p EXCEPT !.cur = "over", !.playing = FALSE])
  BY DEF enqueue, SoundFails, SoundEnds
<1> HIDE DEF more, written, created, strays
<1>3. /\ [p EXCEPT !.queue = more] \in PlayerRecord
      /\ [p EXCEPT !.writing = written, !.playing = FALSE] \in PlayerRecord
      /\ [p EXCEPT !.creating = created, !.playing = FALSE] \in PlayerRecord
      /\ [p EXCEPT !.astray = strays, !.playing = FALSE] \in PlayerRecord
      /\ [p EXCEPT !.cur = "over", !.playing = FALSE] \in PlayerRecord
  BY <1>1 DEF PlayerRecord
<1>4. QED BY <1>2, <1>3, PlayNextWorks

(* The rest leaves the flag alone, or empties the queue.                   *)
LEMMA RestKeepsPlayer ==
  ASSUME NEW p, PlayerInv(p)
  PROVE  /\ PlayerInv(FileWritten(p)) /\ PlayerInv(SoundCreated(p))
         /\ PlayerInv(StopAwaited(p)) /\ PlayerInv(clearQueue(p))
         /\ PlayerInv(stop(p))
<1> USE DEF PlayerInv
<1> DEFINE written == p.writing - 1
           creating == p.creating + 1
           created == p.creating - 1
           strays == IF p.cur = "sounding" THEN p.astray + 1 ELSE p.astray
           stops == IF p.cur = "none" THEN p.stopping ELSE p.stopping + 1
           stopped == p.stopping - 1
           cur == IF p.cur = "none" THEN p.cur ELSE "over"
           empty == 0
<1>1. /\ written \in Int /\ creating \in Int /\ created \in Int
      /\ strays \in Int /\ stops \in Int /\ stopped \in Int
      /\ cur \in {"none", "sounding", "over"} /\ empty \in Int /\ ~(empty > 0)
  BY DEF PlayerRecord
<1>2. /\ FileWritten(p) = [p EXCEPT !.writing = written, !.creating = creating, !.cur = "none"]
      /\ SoundCreated(p) = [p EXCEPT !.creating = created, !.cur = "sounding", !.astray = strays]
      /\ StopAwaited(p) = [p EXCEPT !.stopping = stopped, !.cur = "none"]
      /\ clearQueue(p) = [p EXCEPT !.queue = empty]
      /\ stop(p) = [p EXCEPT !.queue = empty, !.playing = FALSE, !.cur = cur, !.stopping = stops]
  BY DEF FileWritten, SoundCreated, StopAwaited, clearQueue, stop
<1> HIDE DEF written, creating, created, strays, stops, stopped, cur, empty
<1>3. PlayerInv(FileWritten(p)) /\ PlayerInv(SoundCreated(p)) /\ PlayerInv(StopAwaited(p))
  <2>1. PlayerInv(FileWritten(p))
    BY <1>1, <1>2 DEF PlayerRecord, Worked
  <2>2. PlayerInv(SoundCreated(p))
    BY <1>1, <1>2 DEF PlayerRecord, Worked
  <2>3. PlayerInv(StopAwaited(p))
    BY <1>1, <1>2 DEF PlayerRecord, Worked
  <2>4. QED BY <2>1, <2>2, <2>3
<1>4. PlayerInv(clearQueue(p)) /\ PlayerInv(stop(p))
  BY <1>1, <1>2 DEF PlayerRecord, Worked
<1>5. QED BY <1>3, <1>4

(* A fresh player.                                                         *)
LEMMA IdleAudio == PlayerInv(NoPlayer)
  BY DEF PlayerInv, NoPlayer, PlayerRecord, Worked

----------------------------------------------------------------------------
(* The screens and the socket *)

AppRecord == [screen : {"index", "login", "signup", "home", "call"}, below : BOOLEAN,
              loading : BOOLEAN, session : BOOLEAN, busy : BOOLEAN,
              signing : Int, dialing : Int, ending : Int]
ViewRecord == [mode : {"voice", "text"}, ended : BOOLEAN,
               recovery : {"none", "trouble", "recovered"}, fading : BOOLEAN,
               captions : SUBSET {"interim", "final"}]
LinkRecord == [url : {"call", "none"},
               status : {"disconnected", "connecting", "connected", "error"},
               ws : {"none", "connecting", "open"}, asking : BOOLEAN, stale : Int,
               timer : BOOLEAN, count : Int, stable : BOOLEAN,
               intentional : BOOLEAN, auto : BOOLEAN, orphan : BOOLEAN]

\* Something is there that is, or will become, a socket.
AtWork(s) == s.asking \/ s.ws # "none" \/ s.timer \/ s.auto
\* An attempt that awaits its token, a socket and a timer exclude each other.
OneOfThree(s) == /\ s.asking => s.ws = "none" /\ ~s.timer
                 /\ s.timer => s.ws = "none"
\* Only the screen of a call that goes on has a link; only it can be ended.
LinkInv(a, v, s) ==
  /\ a \in AppRecord /\ v \in ViewRecord /\ s \in LinkRecord
  /\ ~s.orphan /\ OneOfThree(s)
  /\ AtWork(s) => a.screen = "call" /\ ~v.ended
  /\ v.ended => a.screen = "call"

MobileInv == LinkInv(app, view, sock) /\ PlayerInv(player)

(* cleanup(): nothing is at work but the timer of the first connect.       *)
LEMMA CleanedIsQuiet ==
  ASSUME NEW s \in LinkRecord
  PROVE  LET t == Hook!Cleaned(s) IN
         /\ t \in LinkRecord /\ ~t.asking /\ ~t.timer /\ t.ws = "none"
         /\ t.url = s.url /\ t.auto = s.auto /\ t.orphan = s.orphan
<1> DEFINE stale == IF s.asking /\ s.stale < MaxStale THEN s.stale + 1 ELSE s.stale
<1>1. stale \in Int
  BY DEF LinkRecord
<1>2. Hook!Cleaned(s) = [s EXCEPT !.asking = FALSE, !.timer = FALSE, !.stable = FALSE,
                                  !.ws = "none", !.stale = stale]
  BY DEF Hook!Cleaned
<1> HIDE DEF stale
<1>3. QED BY <1>1, <1>2 DEF LinkRecord

(* A connect that starts has superseded whatever was at work.              *)
LEMMA ConnectStartedAlone ==
  ASSUME NEW s \in LinkRecord, ~s.orphan, OneOfThree(s)
  PROVE  LET t == Hook!ConnectStarted(s, FALSE) IN
         t \in LinkRecord /\ ~t.orphan /\ OneOfThree(t)
<1> DEFINE c == Hook!Cleaned(s)
           q == [c EXCEPT !.intentional = FALSE, !.status = "connecting", !.auto = FALSE]
<1>1. q \in LinkRecord /\ ~q.asking /\ ~q.timer /\ q.ws = "none" /\ ~q.orphan
  <2>1. c \in LinkRecord /\ ~c.asking /\ ~c.timer /\ c.ws = "none" /\ ~c.orphan
    BY CleanedIsQuiet
  <2> HIDE DEF c
  <2>2. QED BY <2>1 DEF LinkRecord
<1>2. Hook!ConnectStarted(s, FALSE) =
        IF s.url = "none" THEN [s EXCEPT !.auto = FALSE, !.timer = FALSE]
        ELSE [q EXCEPT !.asking = TRUE]
  BY DEF Hook!ConnectStarted
<1> HIDE DEF q, c
<1>3. QED BY <1>1, <1>2 DEF LinkRecord, OneOfThree

(* A token that arrives opens the one socket, or none.                     *)
LEMMA TokenOpensOne ==
  ASSUME NEW s \in LinkRecord, ~s.orphan, OneOfThree(s), NEW current \in BOOLEAN,
         current => s.asking
  PROVE  LET t == Hook!AttemptResumed(s, current) IN
         /\ t \in LinkRecord /\ ~t.orphan /\ OneOfThree(t)
         /\ AtWork(t) => AtWork(s)
<1> DEFINE fewer == s.stale - 1
<1>1. fewer \in Int
  BY DEF LinkRecord
<1>2. CASE current
  BY <1>2 DEF Hook!AttemptResumed, Hook!Created, LinkRecord, OneOfThree, AtWork
<1>3. CASE ~current
  <2>1. Hook!AttemptResumed(s, current) = [s EXCEPT !.stale = fewer]
    BY <1>3 DEF Hook!AttemptResumed
  <2> HIDE DEF fewer
  <2>2. QED BY <1>1, <2>1 DEF LinkRecord, OneOfThree, AtWork
<1>4. QED BY <1>2, <1>3

(* A socket that closes leaves at most a timer.                            *)
LEMMA ClosedLeavesTimer ==
  ASSUME NEW s \in LinkRecord, ~s.orphan, OneOfThree(s), s.ws # "none"
  PROVE  LET t == Hook!SocketClosed(s) IN
         t \in LinkRecord /\ ~t.orphan /\ OneOfThree(t)
<1> DEFINE q == [s EXCEPT !.ws = "none", !.stable = FALSE]
<1>1. q \in LinkRecord /\ q.ws = "none" /\ ~q.asking /\ ~q.orphan
  BY DEF LinkRecord, OneOfThree
<1>2. Hook!SocketClosed(s) =
        IF s.intentional THEN [q EXCEPT !.status = "disconnected"]
        ELSE Hook!ScheduledReconnect(q)
  BY DEF Hook!SocketClosed
<1> HIDE DEF q
<1> DEFINE n == q.count + 1
<1>3. /\ n \in Int
      /\ \/ Hook!ScheduledReconnect(q) = [q EXCEPT !.count = n, !.status = "connecting", !.timer = TRUE]
         \/ Hook!ScheduledReconnect(q) = [q EXCEPT !.status = "error"]
  BY <1>1 DEF Hook!ScheduledReconnect, LinkRecord
<1> HIDE DEF n
<1>4. \A t : \/ t = [q EXCEPT !.status = "disconnected"]
            \/ t = [q EXCEPT !.count = n, !.status = "connecting", !.timer = TRUE]
            \/ t = [q EXCEPT !.status = "error"]
            => t \in LinkRecord /\ ~t.orphan /\ OneOfThree(t)
  <2>1. LET t == [q EXCEPT !.status = "disconnected"]
        IN  t \in LinkRecord /\ ~t.orphan /\ OneOfThree(t)
    BY <1>1 DEF LinkRecord, OneOfThree
  <2>2. LET t == [q EXCEPT !.count = n, !.status = "connecting", !.timer = TRUE]
        IN  t \in LinkRecord /\ ~t.orphan /\ OneOfThree(t)
    BY <1>1, <1>3 DEF LinkRecord, OneOfThree
  <2>3. LET t == [q EXCEPT !.status = "error"]
        IN  t \in LinkRecord /\ ~t.orphan /\ OneOfThree(t)
    BY <1>1 DEF LinkRecord, OneOfThree
  <2>4. QED BY <2>1, <2>2, <2>3
<1>5. QED BY <1>2, <1>3, <1>4

(* Whatever screen is displayed next, only that of a call has a link.      *)
LEMMA DisplayKeepsLink ==
  ASSUME LinkInv(app, view, sock), NEW change \in AppRecord, NEW screen,
         screen \in {"index", "login", "signup", "home", "call"},
         Displays(change, screen)
  PROVE  LinkInv(app, view, sock)'
<1> DEFINE page == IF ~change.session /\ screen \in {"home", "call"} THEN "login" ELSE screen
<1>1. /\ app' \in AppRecord /\ app'.screen = page
  BY DEF Displays, AppRecord, LinkInv
<1>2. CASE page = "call" /\ app.screen # "call"
  <2> DEFINE c == Hook!Cleaned(Hook!NoSocket)
  <2>1. sock' = Hook!UrlSet(Hook!NoSocket, Call) /\ view' = view
    BY <1>2 DEF Displays, CallMounted
  <2>2. Hook!NoSocket \in LinkRecord /\ Hook!NoSocket.url = "none" /\ ~Hook!NoSocket.orphan
    BY DEF Hook!NoSocket, LinkRecord
  <2>3. c \in LinkRecord /\ ~c.orphan /\ ~c.asking /\ ~c.timer /\ c.ws = "none"
    BY <2>2, CleanedIsQuiet
  <2>4. sock' = [c EXCEPT !.url = "call", !.auto = TRUE]
    BY <2>1, <2>2 DEF Hook!UrlSet, Call
  <2> HIDE DEF c
  <2>5. /\ sock' \in LinkRecord /\ ~sock'.orphan /\ ~sock'.asking /\ ~sock'.timer
        /\ sock'.ws = "none"
    BY <2>3, <2>4 DEF LinkRecord
  <2>6. QED BY <1>1, <1>2, <2>1, <2>5 DEF LinkInv, OneOfThree
<1>3. CASE page # "call" /\ app.screen = "call"
  <2>1. sock' = Hook!NoSocket /\ view' = NoView
    BY <1>3 DEF Displays, CallUnmounted
  <2>2. QED
    BY <1>1, <2>1 DEF LinkInv, OneOfThree, AtWork, Hook!NoSocket, NoView, LinkRecord, ViewRecord
<1>4. CASE (page = "call") <=> (app.screen = "call")
  <2>1. UNCHANGED <<sock, view>>
    BY <1>4 DEF Displays, CallKept
  <2>2. QED BY <1>1, <1>4, <2>1 DEF LinkInv
<1>5. QED BY <1>2, <1>3, <1>4

(* ... and recorder and player are kept or dropped.                        *)
LEMMA DisplayKeepsAudio ==
  ASSUME NEW change, NEW screen, Displays(change, screen), PlayerInv(player)
  PROVE  PlayerInv(player)'
BY IdleAudio DEF Displays, CallMounted, CallUnmounted, CallKept

----------------------------------------------------------------------------
(* The steps *)

(* Signing in and out, the start of a call and the way back from it.       *)
LEMMA ScreensKeepInv ==
  ASSUME MobileInv,
         \/ SessionLoaded \/ Links \/ SessionEnds \/ StartAnswered \/ EndAnswered
  PROVE  MobileInv'
<1> DEFINE dialing == app.dialing - 1
           ending == app.ending - 1
           Screens == {"index", "login", "signup", "home", "call"}
<1>1. dialing \in Int /\ ending \in Int
  BY DEF MobileInv, LinkInv, AppRecord
<1>2. ASSUME SessionLoaded
      PROVE  \E change \in AppRecord, screen \in Screens : Displays(change, screen)
  <2>1. PICK q \in BOOLEAN :
          Displays([app EXCEPT !.loading = FALSE, !.session = q], IF q THEN "home" ELSE "login")
    BY <1>2 DEF SessionLoaded
  <2>2. [app EXCEPT !.loading = FALSE, !.session = q] \in AppRecord
    BY DEF MobileInv, LinkInv, AppRecord
  <2>3. (IF q THEN "home" ELSE "login") \in Screens
    OBVIOUS
  <2>4. QED BY <2>1, <2>2, <2>3, Zenon
<1>3. ASSUME Links
      PROVE  \E change \in AppRecord, screen \in Screens : Displays(change, screen)
  BY <1>3 DEF Links, MobileInv, LinkInv
<1>4. ASSUME SessionEnds
      PROVE  \E change \in AppRecord, screen \in Screens : Displays(change, screen)
  <2>1. /\ [app EXCEPT !.session = FALSE] \in AppRecord /\ app.screen \in Screens
        /\ Displays([app EXCEPT !.session = FALSE], app.screen)
    BY <1>4 DEF SessionEnds, MobileInv, LinkInv, AppRecord
  <2>2. QED BY <2>1, Zenon
<1>5. ASSUME StartAnswered
      PROVE  \E change \in AppRecord, screen \in Screens : Displays(change, screen)
  <2> DEFINE answered == [app EXCEPT !.dialing = dialing, !.below = (app.screen = "home")]
             refused == [app EXCEPT !.dialing = dialing, !.busy = FALSE]
  <2>1. Displays(answered, "call") \/ Displays(refused, app.screen)
    BY <1>5 DEF StartAnswered
  <2> HIDE DEF dialing
  <2>2. answered \in AppRecord /\ refused \in AppRecord /\ app.screen \in Screens
    BY <1>1 DEF MobileInv, LinkInv, AppRecord
  <2> HIDE DEF answered, refused
  <2>3. QED BY <2>1, <2>2, Zenon
<1>6. ASSUME EndAnswered
      PROVE  \E change \in AppRecord, screen \in Screens : Displays(change, screen)
  <2> DEFINE left == [app EXCEPT !.ending = ending, !.below = FALSE]
             back == IF app.below THEN "home" ELSE app.screen
  <2>1. Displays(left, back)
    BY <1>6 DEF EndAnswered
  <2> HIDE DEF ending
  <2>2. left \in AppRecord /\ back \in Screens
    BY <1>1 DEF MobileInv, LinkInv, AppRecord
  <2> HIDE DEF left, back
  <2>3. QED BY <2>1, <2>2, Zenon
<1>7. PICK change \in AppRecord, screen \in Screens : Displays(change, screen)
  BY <1>2, <1>3, <1>4, <1>5, <1>6
<1>8. LinkInv(app, view, sock)'
  BY <1>7, DisplayKeepsLink DEF MobileInv
<1>9. PlayerInv(player)'
  BY <1>7, DisplayKeepsAudio DEF MobileInv
<1>10. QED BY <1>8, <1>9 DEF MobileInv

(* Requests that are sent, and answers that change no screen.              *)
LEMMA RequestsKeepInv ==
  ASSUME MobileInv, handleLogin \/ handleSignUp \/ LoginAnswered \/ handleStartCall \/ Restarts
  PROVE  MobileInv'
<1> DEFINE asked == app.signing + 1
           answered == app.signing - 1
           dialing == app.dialing + 1
<1>1. asked \in Int /\ answered \in Int /\ dialing \in Int
  BY DEF MobileInv, LinkInv, AppRecord
<1>2. CASE Restarts
  <2>1. LinkInv(app, view, sock)'
    BY <1>2 DEF Restarts, LinkInv, NoApp, NoView, Hook!NoSocket, AppRecord, ViewRecord, LinkRecord,
                OneOfThree, AtWork
  <2>2. QED BY <1>2, <2>1, IdleAudio DEF Restarts, MobileInv
<1>3. CASE handleLogin \/ handleSignUp \/ LoginAnswered \/ handleStartCall
  <2>1. /\ UNCHANGED <<view, sock, mic, player>>
        /\ \/ app' = [app EXCEPT !.busy = TRUE, !.signing = asked]
           \/ app' = [app EXCEPT !.busy = TRUE, !.dialing = dialing]
           \/ \E q, l \in BOOLEAN : app' = [app EXCEPT !.signing = answered, !.session = q, !.busy = l]
    BY <1>3 DEF handleLogin, handleSignUp, Asks, LoginAnswered, handleStartCall, CallKept,
                MobileInv, LinkInv, AppRecord
  <2> HIDE DEF asked, answered, dialing
  <2>2. app' \in AppRecord /\ app'.screen = app.screen
    BY <1>1, <2>1 DEF MobileInv, LinkInv, AppRecord
  <2>3. QED BY <2>1, <2>2 DEF MobileInv, LinkInv
<1>4. QED BY <1>2, <1>3

(* The socket's own steps.                                                 *)
LEMMA SocketKeepsInv ==
  ASSUME MobileInv, SocketStep
  PROVE  MobileInv'
<1> USE DEF Link
<1>1. CASE Connects \/ Fires
  <2>1. sock' = Hook!ConnectStarted(sock, FALSE) /\ (sock.auto \/ sock.timer)
    BY <1>1 DEF Connects, Fires
  <2>2. sock' \in LinkRecord /\ ~sock'.orphan /\ OneOfThree(sock')
    BY <2>1, ConnectStartedAlone DEF MobileInv, LinkInv
  <2>3. QED BY <1>1, <2>1, <2>2 DEF Connects, Fires, MobileInv, LinkInv, AtWork
<1>2. CASE \E current \in BOOLEAN : TokenArrives(current)
  <2>1. PICK current \in BOOLEAN : TokenArrives(current)
    BY <1>2
  <2>2. sock' = Hook!AttemptResumed(sock, current) /\ (current => sock.asking)
    BY <2>1 DEF TokenArrives
  <2>3. /\ sock' \in LinkRecord /\ ~sock'.orphan /\ OneOfThree(sock')
        /\ AtWork(sock') => AtWork(sock)
    BY <2>2, TokenOpensOne DEF MobileInv, LinkInv
  <2>4. QED BY <2>1, <2>3 DEF TokenArrives, MobileInv, LinkInv
<1>3. CASE Opens
  <2> DEFINE none == 0
  <2>1. none \in Int
    OBVIOUS
  <2>2. /\ sock' = [sock EXCEPT !.ws = "open", !.status = "connected", !.count = none]
        /\ sock.ws = "connecting" /\ UNCHANGED <<app, view, mic, player>>
    BY <1>3 DEF Opens
  <2> HIDE DEF none
  <2>3. QED BY <2>1, <2>2 DEF MobileInv, LinkInv, LinkRecord, OneOfThree, AtWork
<1>4. CASE Closes
  <2>1. sock' = Hook!SocketClosed(sock) /\ sock.ws # "none"
    BY <1>4 DEF Closes
  <2>2. sock' \in LinkRecord /\ ~sock'.orphan /\ OneOfThree(sock')
    BY <2>1, ClosedLeavesTimer DEF MobileInv, LinkInv
  <2>3. QED BY <1>4, <2>1, <2>2 DEF Closes, MobileInv, LinkInv, AtWork
<1>5. QED BY <1>1, <1>2, <1>3, <1>4 DEF SocketStep

(* What the relay says, and the banner's timer.                            *)
LEMMA RelayKeepsInv ==
  ASSUME MobileInv, CaptionSaid \/ AudioSaid \/ InterruptSaid \/ RecoverySaid \/ RecoveryFades
  PROVE  MobileInv'
<1>1. /\ view' \in ViewRecord /\ view'.ended = view.ended /\ UNCHANGED <<app, sock, mic>>
  BY DEF CaptionSaid, AudioSaid, InterruptSaid, RecoverySaid, RecoveryFades, Hears, addCaption,
         MobileInv, LinkInv, ViewRecord
<1>2. \/ UNCHANGED player
      \/ player' = enqueue(player)
      \/ player' = clearQueue(player)
  BY DEF CaptionSaid, AudioSaid, InterruptSaid, RecoverySaid, RecoveryFades
<1>3. PlayerInv(player)'
  BY <1>2, ChainKeepsPlayer, RestKeepsPlayer DEF MobileInv, PlayerInv
<1>4. QED BY <1>1, <1>3 DEF MobileInv, LinkInv

(* What the caller does during a call.                                     *)
LEMMA CallerKeepsInv ==
  ASSUME MobileInv,
         toggleRecording \/ handleSendText \/ (\E mode \in InputModes : setInputMode(mode))
  PROVE  MobileInv'
<1>1. /\ view' \in ViewRecord /\ view'.ended = view.ended /\ UNCHANGED <<app, sock, player>>
  BY DEF toggleRecording, handleSendText, setInputMode, addCaption, InputModes,
         MobileInv, LinkInv, ViewRecord
<1>2. QED BY <1>1 DEF MobileInv, LinkInv

(* End: whatever was at work is no more.                                   *)
LEMMA EndKeepsInv ==
  ASSUME MobileInv, handleEndCall
  PROVE  MobileInv'
<1> DEFINE c == Hook!Cleaned(sock)
           ending == app.ending + 1
<1>1. ending \in Int
  BY DEF MobileInv, LinkInv, AppRecord
<1>2. /\ c \in LinkRecord /\ ~c.asking /\ ~c.timer /\ c.ws = "none"
      /\ c.auto = sock.auto /\ ~c.orphan
  BY CleanedIsQuiet DEF MobileInv, LinkInv
<1>3. /\ ~sock.auto /\ app.screen = "call"
      /\ sock' = [c EXCEPT !.intentional = TRUE, !.status = "disconnected"]
      /\ app' = [app EXCEPT !.ending = ending] /\ view' = [view EXCEPT !.ended = TRUE]
      /\ player' = stop(player)
  BY DEF handleEndCall, Hook!Disconnected
<1> HIDE DEF c, ending
<1>4. /\ sock' \in LinkRecord /\ ~sock'.asking /\ ~sock'.timer /\ sock'.ws = "none"
      /\ ~sock'.auto /\ ~sock'.orphan
  BY <1>2, <1>3 DEF LinkRecord
<1>5. app' \in AppRecord /\ app'.screen = "call"
  BY <1>1, <1>3 DEF MobileInv, LinkInv, AppRecord
<1>6. view' \in ViewRecord
  BY <1>3 DEF MobileInv, LinkInv, ViewRecord
<1>7. LinkInv(app, view, sock)'
  BY <1>4, <1>5, <1>6 DEF LinkInv, OneOfThree, AtWork
<1>8. PlayerInv(player)'
  BY <1>3, RestKeepsPlayer DEF MobileInv
<1>9. QED BY <1>7, <1>8 DEF MobileInv

(* Recorder and player at work.                                            *)
LEMMA AudioKeepsInv ==
  ASSUME MobileInv,
         \/ \E i \in TaskIds : RecorderWorks(i) \/ PieceHeard(i)
         \/ CommitHandled \/ PlayerWorks
  PROVE  MobileInv'
<1> USE DEF MicSteps, PlayerSteps
<1>1. ASSUME NEW i \in TaskIds, RecorderWorks(i) PROVE MobileInv'
  BY <1>1 DEF RecorderWorks, MobileInv, LinkInv
<1>2. ASSUME NEW i \in TaskIds, PieceHeard(i) PROVE MobileInv'
  <2>1. /\ player' = player \/ player' = stop(player)
        /\ UNCHANGED <<app, view, sock>>
    BY <1>2 DEF PieceHeard
  <2>2. PlayerInv(player)'
    BY <2>1, RestKeepsPlayer DEF MobileInv
  <2>3. QED BY <2>1, <2>2 DEF MobileInv, LinkInv
<1>3. CASE CommitHandled
  BY <1>3 DEF CommitHandled, MobileInv, LinkInv
<1>4. CASE PlayerWorks
  <2>1. /\ \/ player' \in {FileWritten(player), SoundCreated(player), StopAwaited(player)}
           \/ \E stage \in {"writing", "creating"} : player' = SoundFails(player, stage)
           \/ \E lost \in BOOLEAN : player' = SoundEnds(player, lost)
        /\ UNCHANGED <<app, view, sock, mic>>
    BY <1>4 DEF PlayerWorks
  <2>2. PlayerInv(player)'
    BY <2>1, ChainKeepsPlayer, RestKeepsPlayer DEF MobileInv, PlayerInv
  <2>3. QED BY <2>1, <2>2 DEF MobileInv, LinkInv
<1>5. QED BY <1>1, <1>2, <1>3, <1>4

----------------------------------------------------------------------------
(* The theorems *)

(* The two invariants are inductive together.                              *)
LEMMA MobileInvHolds == MobileSpec => []MobileInv
<1>1. MobileInit => MobileInv
  BY IdleAudio DEF MobileInit, MobileInv, LinkInv, NoApp, NoView, Hook!NoSocket,
                   AppRecord, ViewRecord, LinkRecord, OneOfThree, AtWork
<1>2. MobileInv /\ [MobileNext]_mobileVars => MobileInv'
  <2> SUFFICES ASSUME MobileInv, [MobileNext]_mobileVars PROVE MobileInv'
    OBVIOUS
  <2>1. CASE UNCHANGED mobileVars
    BY <2>1 DEF mobileVars, MobileInv, LinkInv
  <2>2. CASE MobileNext
    BY <2>2, ScreensKeepInv, RequestsKeepInv, SocketKeepsInv, RelayKeepsInv, CallerKeepsInv,
       EndKeepsInv, AudioKeepsInv
    DEF MobileNext
  <2>3. QED BY <2>1, <2>2
<1>3. QED BY <1>1, <1>2, PTL DEF MobileSpec

\* Whatever the order of presses, tokens, closes and answers: a call that was
\* ended or left has no link and never a second socket.
THEOREM LeftCallIsSilent == MobileSpec => []LeftCallHasNoLink
<1>1. MobileInv => LeftCallHasNoLink
  BY DEF MobileInv, LinkInv, AtWork, LeftCallHasNoLink
<1>2. QED BY <1>1, MobileInvHolds, PTL

\* With any number of sounds prepared, played or stopped, no audio waits at a
\* player that is marked as being at rest.
THEOREM WaitingAudioIsTaken == MobileSpec => []QueueIsWorked
<1>1. MobileInv => QueueIsWorked
  BY DEF MobileInv, PlayerInv, Worked, QueueIsWorked
<1>2. QED BY <1>1, MobileInvHolds, PTL
=============================================================================
