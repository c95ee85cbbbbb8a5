---------------------------- MODULE WebCallProofs ----------------------------
(***************************************************************************)
(* The web client of a call for any modes, bounds and retry budget, first  *)
(* its socket alone, for any addresses and any number of superseded        *)
(* attempts: one socket at most, none after a disconnect, and no link that *)
(* says it connects while nothing works on it. The invariant behind that   *)
(* says who excludes whom: an attempt that awaits credentials, a socket    *)
(* and a timer are never there together, and a hook without an address has *)
(* none of them. It carries over to the call, because every step of the    *)
(* page, the timers and the relay is one of the hook's or of its owner's.  *)
(* Microphone, player and captions each have an invariant of their own,    *)
(* which the steps that touch them keep.                                   *)
(***************************************************************************)
EXTENDS WebCall, TLAPS

----------------------------------------------------------------------------
(* The hook useRelayWebSocket alone                                        *)

\* Credentials awaited, a socket, a timer: one of them at a time.
OneAtWork(s) ==
  /\ s.ws # "none" => ~s.timer /\ ~s.asking
  /\ s.asking => ~s.timer
\* After a disconnect nothing is at work.
IntentIsQuiet(s) == s.intentional => s.ws = "none" /\ ~s.timer /\ ~s.asking
\* Without an address nothing is at work either.
UnsetIsQuiet(s) ==
  s.url = NoUrl =>
    /\ s.ws = "none" /\ ~s.timer /\ ~s.asking /\ ~s.auto
    /\ s.status = "disconnected"
\* Whoever says it connects or is connected has a reason.
StatusIsTrue(s) ==
  /\ s.status = "connecting" => s.asking \/ s.ws = "connecting" \/ s.timer \/ s.auto
  /\ s.status = "connected" => s.ws = "open" \/ s.auto
\* What is at work shows in the status.
WorkShows(s) ==
  /\ s.asking \/ s.ws = "connecting" => s.status = "connecting"
  /\ s.ws = "open" => s.status = "connected"
  /\ s.stable => s.ws = "open"

Sound(s) ==
  /\ s \in SocketRecord
  /\ ~s.orphan /\ OneAtWork(s) /\ IntentIsQuiet(s) /\ UnsetIsQuiet(s)
  /\ StatusIsTrue(s) /\ WorkShows(s)
SocketInv == Sound(sock)

----------------------------------------------------------------------------
(* The helpers of the hook                                                 *)

(* cleanup(): nothing is at work, all else is as it was.                   *)
LEMMA CleanedFields ==
  ASSUME NEW s \in SocketRecord
  PROVE  /\ Cleaned(s) \in SocketRecord
         /\ Cleaned(s).ws = "none" /\ ~Cleaned(s).timer /\ ~Cleaned(s).asking
         /\ ~Cleaned(s).stable
         /\ Cleaned(s).url = s.url /\ Cleaned(s).status = s.status
         /\ Cleaned(s).auto = s.auto /\ Cleaned(s).orphan = s.orphan
         /\ Cleaned(s).intentional = s.intentional
<1> DEFINE stale == IF s.asking /\ s.stale < MaxStale THEN s.stale + 1 ELSE s.stale
<1>1. stale \in 0..MaxStale
  BY SocketAssumption DEF SocketRecord
<1>2. Cleaned(s) = [s EXCEPT !.asking = FALSE, !.timer = FALSE, !.stable = FALSE,
                             !.ws = "none", !.stale = stale]
  BY DEF Cleaned
<1> HIDE DEF stale
<1>3. QED BY <1>1, <1>2 DEF SocketRecord

(* A reconnect is scheduled while there are attempts left.                 *)
LEMMA ScheduledFields ==
  ASSUME NEW s \in SocketRecord
  PROVE  LET t == ScheduledReconnect(s) IN
         /\ t \in SocketRecord
         /\ t.ws = s.ws /\ t.asking = s.asking /\ t.stable = s.stable
         /\ t.url = s.url /\ t.auto = s.auto
         /\ t.orphan = s.orphan /\ t.intentional = s.intentional
         /\ \/ t.status = "connecting" /\ t.timer
            \/ t.status = "error" /\ t.timer = s.timer
<1>1. CASE s.count < MaxReconnectAttempts
  <2> DEFINE n == s.count + 1
  <2>1. n \in 0..MaxReconnectAttempts
    BY <1>1, SocketAssumption DEF SocketRecord
  <2>2. ScheduledReconnect(s) = [s EXCEPT !.count = n, !.status = "connecting", !.timer = TRUE]
    BY <1>1 DEF ScheduledReconnect
  <2> HIDE DEF n
  <2>3. QED BY <2>1, <2>2 DEF SocketRecord
<1>2. CASE ~(s.count < MaxReconnectAttempts)
  BY <1>2 DEF ScheduledReconnect, SocketRecord
<1>3. QED BY <1>1, <1>2

(* An attempt of an earlier generation changes nothing when it resumes.    *)
LEMMA StaleIsIdle ==
  ASSUME NEW s, Sound(s), s.stale > 0
  PROVE  Sound([s EXCEPT !.stale = @ - 1])
<1> DEFINE n == s.stale - 1
<1>1. n \in 0..MaxStale
  BY SocketAssumption DEF Sound, SocketRecord
<1> HIDE DEF n
<1>2. Sound([s EXCEPT !.stale = n])
  BY <1>1 DEF Sound, SocketRecord, OneAtWork, IntentIsQuiet, UnsetIsQuiet, StatusIsTrue, WorkShows
<1>3. QED BY <1>2 DEF n

----------------------------------------------------------------------------
(* The steps of the hook                                                   *)

LEMMA InitEstablishesSocketInv == SocketInit => SocketInv
  BY SocketAssumption
     DEF SocketInit, SocketInv, Sound, SocketRecord, NoSocket, OneAtWork,
         IntentIsQuiet, UnsetIsQuiet, StatusIsTrue, WorkShows

(* connect(), from the 0 ms timer or the reconnect's.                      *)
LEMMA ConnectKeepsSound ==
  ASSUME NEW s, Sound(s), NEW atHand \in BOOLEAN, s.timer \/ s.auto
  PROVE  Sound(ConnectStarted(s, atHand))
<1> DEFINE c == Cleaned(s)
           t == [c EXCEPT !.intentional = FALSE, !.status = "connecting", !.auto = FALSE]
<1>1. s \in SocketRecord /\ s.url # NoUrl /\ ~s.orphan
  BY DEF Sound, UnsetIsQuiet
<1>2. c \in SocketRecord /\ c.ws = "none" /\ ~c.timer /\ ~c.asking /\ ~c.stable
      /\ c.url = s.url /\ ~c.orphan
  BY <1>1, CleanedFields
<1>3. ConnectStarted(s, atHand) = IF atHand THEN Created(t) ELSE [t EXCEPT !.asking = TRUE]
  BY <1>1 DEF ConnectStarted
<1> HIDE DEF c
<1>4. /\ t \in SocketRecord /\ t.ws = "none" /\ ~t.timer /\ ~t.asking /\ ~t.stable /\ ~t.orphan
      /\ t.url # NoUrl /\ ~t.intentional /\ t.status = "connecting"
  BY <1>1, <1>2 DEF SocketRecord
<1> HIDE DEF t
<1>5. CASE atHand
  BY <1>4, <1>3, <1>5
     DEF Sound, SocketRecord, Created, OneAtWork, IntentIsQuiet, UnsetIsQuiet, StatusIsTrue, WorkShows
<1>6. CASE ~atHand
  BY <1>4, <1>3, <1>6
     DEF Sound, SocketRecord, OneAtWork, IntentIsQuiet, UnsetIsQuiet, StatusIsTrue, WorkShows
<1>7. QED BY <1>5, <1>6

(* The credentials arrive or do not, for this attempt or an earlier one.   *)
LEMMA CredentialsKeepSocketInv ==
  ASSUME SocketInv, NEW current \in BOOLEAN,
         CredentialsArrive(current) \/ CredentialsFail(current)
  PROVE  SocketInv'
<1>1. CASE ~current
  BY <1>1, StaleIsIdle
     DEF SocketInv, CredentialsArrive, CredentialsFail, AttemptResumed, AttemptFailed
<1>2. CASE current /\ CredentialsArrive(current)
  <2>1. sock.asking /\ sock' = Created(sock)
    BY <1>2 DEF CredentialsArrive, AttemptResumed
  <2>2. QED
    BY <2>1 DEF SocketInv, Sound, SocketRecord, Created, OneAtWork, IntentIsQuiet,
                UnsetIsQuiet, StatusIsTrue, WorkShows
<1>3. CASE current /\ CredentialsFail(current)
  <2> DEFINE s == [sock EXCEPT !.asking = FALSE]
  <2>1. sock.asking /\ sock' = ScheduledReconnect(s)
    BY <1>3 DEF CredentialsFail, AttemptFailed
  <2>2. /\ s \in SocketRecord /\ s.ws = "none" /\ ~s.asking /\ ~s.timer /\ ~s.stable /\ ~s.orphan
        /\ ~s.intentional /\ s.url # NoUrl
    BY <2>1
       DEF SocketInv, Sound, SocketRecord, OneAtWork, IntentIsQuiet, UnsetIsQuiet, WorkShows
  <2> HIDE DEF s
  <2>3. QED
    BY <2>1, <2>2, ScheduledFields
       DEF SocketInv, Sound, OneAtWork, IntentIsQuiet, UnsetIsQuiet, StatusIsTrue, WorkShows
<1>4. QED BY <1>1, <1>2, <1>3

(* What the browser reports of the socket.                                 *)
LEMMA EventsKeepSocketInv ==
  ASSUME SocketInv, Opens \/ Stays \/ Closes
  PROVE  SocketInv'
<1>1. CASE Opens
  BY <1>1 DEF Opens, SocketOpened, SocketInv, Sound, SocketRecord, OneAtWork,
              IntentIsQuiet, UnsetIsQuiet, StatusIsTrue, WorkShows
<1>2. CASE Stays
  <2>1. 0 \in 0..MaxReconnectAttempts
    BY SocketAssumption
  <2>2. QED BY <1>2, <2>1
     DEF Stays, SocketStayed, SocketInv, Sound, SocketRecord, OneAtWork, IntentIsQuiet,
         UnsetIsQuiet, StatusIsTrue, WorkShows
<1>3. CASE Closes
  <2> DEFINE s == [sock EXCEPT !.ws = "none", !.stable = FALSE]
  <2>1. /\ s \in SocketRecord /\ s.ws = "none" /\ ~s.asking /\ ~s.timer /\ ~s.stable /\ ~s.orphan
        /\ ~s.intentional /\ s.url # NoUrl
    BY <1>3
       DEF Closes, SocketInv, Sound, SocketRecord, OneAtWork, IntentIsQuiet, UnsetIsQuiet,
           WorkShows
  <2>2. sock' = ScheduledReconnect(s)
    BY <1>3, <2>1 DEF Closes, SocketClosed, SocketInv, Sound, SocketRecord
  <2> HIDE DEF s
  <2>3. QED
    BY <2>1, <2>2, ScheduledFields
       DEF SocketInv, Sound, OneAtWork, IntentIsQuiet, UnsetIsQuiet, StatusIsTrue, WorkShows
<1>4. QED BY <1>1, <1>2, <1>3

(* Another address, a disconnect, another mount.                           *)
LEMMA OwnerKeepsSocketInv ==
  ASSUME SocketInv, OwnerStep
  PROVE  SocketInv'
<1> USE DEF Sound, SocketRecord, OneAtWork, IntentIsQuiet, UnsetIsQuiet, StatusIsTrue, WorkShows
<1> DEFINE c == Cleaned(sock)
<1>1. /\ c \in SocketRecord /\ c.ws = "none" /\ ~c.timer /\ ~c.asking /\ ~c.stable /\ ~c.orphan
      /\ c.url = sock.url /\ c.auto = sock.auto
  BY CleanedFields DEF SocketInv
<1>2. CASE \E u \in Urls : sock' = UrlSet(sock, u)
  <2>1. PICK u \in Urls : sock' = UrlSet(sock, u)
    BY <1>2
  <2>2. CASE u = sock.url
    BY <2>1, <2>2 DEF UrlSet, SocketInv
  <2>3. CASE u # sock.url
    <3>1. sock' = [c EXCEPT !.url = u, !.auto = TRUE]
      BY <2>1, <2>3, SocketAssumption DEF UrlSet
    <3> HIDE DEF c
    <3>2. QED BY <1>1, <3>1, SocketAssumption DEF SocketInv
  <2>4. QED BY <2>2, <2>3
<1>3. CASE sock' = UrlSet(Disconnected(sock), NoUrl)
  <2> DEFINE d == Disconnected(sock)
             e == Cleaned(d)
  <2>1. d = [c EXCEPT !.intentional = TRUE, !.status = "disconnected"]
    BY DEF Disconnected
  <2>2. /\ d \in SocketRecord /\ d.ws = "none" /\ ~d.timer /\ ~d.asking /\ ~d.stable /\ ~d.orphan
        /\ d.intentional /\ d.status = "disconnected" /\ d.url = sock.url /\ d.auto = sock.auto
    <3> HIDE DEF c, d
    <3>1. QED BY <1>1, <2>1
  <2>3. /\ e \in SocketRecord /\ e.ws = "none" /\ ~e.timer /\ ~e.asking /\ ~e.stable /\ ~e.orphan
        /\ e.status = "disconnected"
    <3> HIDE DEF d
    <3>1. QED BY <2>2, CleanedFields
  <2>4. CASE sock.url = NoUrl
    <3>1. sock' = d
      BY <1>3, <2>2, <2>4 DEF UrlSet
    <3> HIDE DEF d
    <3>2. QED BY <2>2, <2>4, <3>1 DEF SocketInv
  <2>5. CASE sock.url # NoUrl
    <3>1. sock' = [e EXCEPT !.url = NoUrl, !.auto = FALSE]
      BY <1>3, <2>2, <2>5 DEF UrlSet
    <3> HIDE DEF e
    <3>2. QED BY <2>3, <3>1 DEF SocketInv
  <2>6. QED BY <2>4, <2>5
<1>4. CASE sock' = NoSocket
  BY <1>4, SocketAssumption DEF NoSocket, SocketInv
<1>5. QED BY <1>2, <1>3, <1>4 DEF OwnerStep

LEMMA StepKeepsSocketInv == SocketInv /\ [SocketStep \/ OwnerStep]_sock => SocketInv'
<1> SUFFICES ASSUME SocketInv, [SocketStep \/ OwnerStep]_sock
             PROVE  SocketInv'
  OBVIOUS
<1>1. CASE \E atHand \in BOOLEAN : AutoConnects(atHand)
  BY <1>1, ConnectKeepsSound DEF AutoConnects, SocketInv
<1>2. CASE ReconnectFires
  BY <1>2, ConnectKeepsSound DEF ReconnectFires, SocketInv
<1>3. CASE \E current \in BOOLEAN : CredentialsArrive(current) \/ CredentialsFail(current)
  BY <1>3, CredentialsKeepSocketInv
<1>4. CASE Opens \/ Stays \/ Closes
  BY <1>4, EventsKeepSocketInv
<1>5. CASE OwnerStep
  BY <1>5, OwnerKeepsSocketInv
<1>6. CASE UNCHANGED sock
  BY <1>6 DEF SocketInv
<1>7. QED BY <1>1, <1>2, <1>3, <1>4, <1>5, <1>6 DEF SocketStep

LEMMA SocketInvHolds == SocketSpec => []SocketInv
  BY InitEstablishesSocketInv, StepKeepsSocketInv, PTL DEF SocketSpec

----------------------------------------------------------------------------
(* A superseded attempt opens no socket, neither beside the one at hand    *)
(* nor after the disconnect that ends a call (useRelayWebSocket.ts:67, the *)
(* generation).                                                            *)
THEOREM SocketIsSingle == SocketSpec => []OneLiveSocket
<1>1. SocketInv => OneLiveSocket
  BY DEF SocketInv, Sound, IntentIsQuiet, OneLiveSocket
<1>2. QED BY <1>1, SocketInvHolds, PTL

(* While the hook says that it connects somebody works on it, whatever     *)
(* attempts fail or are superseded (useRelayWebSocket.ts:89).              *)
THEOREM LinkNeverHangs == SocketSpec => []LinkIsWorkedOn
<1>1. SocketInv => LinkIsWorkedOn
  BY DEF SocketInv, Sound, OneAtWork, StatusIsTrue, LinkIsWorkedOn
<1>2. QED BY <1>1, SocketInvHolds, PTL

----------------------------------------------------------------------------
(* The link                                                                *)

(* A loss of a link that is tried or up costs one attempt, or is the last. *)
LEMMA LossIsLinkStep ==
  ASSUME sock \in SocketRecord, NEW s \in SocketRecord, s.count = sock.count,
         sock.status \in {"connecting", "connected"}, sock' = ScheduledReconnect(s)
  PROVE  Link!Retry \/ Link!GiveUp
<1>1. sock.count \in 0..MaxReconnectAttempts /\ MaxReconnectAttempts \in Nat
  BY SocketAssumption DEF SocketRecord
<1>2. LinkOf[sock.status] \in {"trying", "up"}
  BY DEF LinkOf
<1>3. CASE s.count < MaxReconnectAttempts
  <2>1. sock'.status = "connecting" /\ sock'.count = sock.count + 1
    BY <1>3 DEF ScheduledReconnect, SocketRecord
  <2>2. QED BY <1>2, <1>3, <2>1 DEF Link!Retry, LinkOf
<1>4. CASE ~(s.count < MaxReconnectAttempts)
  <2>1. sock'.status = "error" /\ sock'.count = sock.count
    BY <1>4 DEF ScheduledReconnect, SocketRecord
  <2>2. sock.count = MaxReconnectAttempts
    BY <1>1, <1>4
  <2>3. QED BY <1>2, <2>1, <2>2 DEF Link!GiveUp, LinkOf
<1>5. QED BY <1>3, <1>4

LEMMA StepIsLinkStep ==
  ASSUME SocketInv, [SocketStep \/ OwnerStep]_sock
  PROVE  [Link!LinkNext]_<<LinkOf[sock.status], sock.count>>
<1> USE DEF Link!LinkNext
<1>1. sock \in SocketRecord
  BY DEF SocketInv, Sound
<1>2. ASSUME NEW atHand \in BOOLEAN, sock.timer \/ sock.auto, sock' = ConnectStarted(sock, atHand)
      PROVE  Link!Dial
  <2>1. sock.url # NoUrl
    BY <1>2 DEF SocketInv, Sound, UnsetIsQuiet
  <2>2. sock'.status = "connecting" /\ sock'.count = sock.count
    BY <1>1, <1>2, <2>1 DEF ConnectStarted, Created, Cleaned, SocketRecord
  <2>3. QED BY <2>2 DEF Link!Dial, LinkOf
<1>3. ASSUME NEW current \in BOOLEAN, CredentialsArrive(current)
      PROVE  UNCHANGED <<LinkOf[sock.status], sock.count>>
  <2>1. sock'.status = sock.status /\ sock'.count = sock.count
    BY <1>1, <1>3 DEF CredentialsArrive, AttemptResumed, Created, SocketRecord
  <2>2. QED BY <2>1
<1>4. ASSUME NEW current \in BOOLEAN, CredentialsFail(current)
      PROVE  [Link!LinkNext]_<<LinkOf[sock.status], sock.count>>
  <2>1. CASE current
    <3> DEFINE s == [sock EXCEPT !.asking = FALSE]
    <3>1. /\ s \in SocketRecord /\ s.count = sock.count
          /\ sock.status = "connecting" /\ sock' = ScheduledReconnect(s)
      BY <1>1, <1>4, <2>1
         DEF CredentialsFail, AttemptFailed, SocketRecord, SocketInv, Sound, WorkShows
    <3> HIDE DEF s
    <3>2. QED BY <1>1, <3>1, LossIsLinkStep
  <2>2. CASE ~current
    <3>1. sock'.status = sock.status /\ sock'.count = sock.count
      BY <1>1, <1>4, <2>2 DEF CredentialsFail, AttemptFailed, SocketRecord
    <3>2. QED BY <3>1
  <2>3. QED BY <2>1, <2>2
<1>5. ASSUME Opens PROVE Link!Connect
  <2>1. sock.status = "connecting" /\ sock'.status = "connected" /\ sock'.count = sock.count
    BY <1>1, <1>5 DEF Opens, SocketOpened, SocketRecord, SocketInv, Sound, WorkShows
  <2>2. QED BY <2>1 DEF Link!Connect, LinkOf
<1>6. ASSUME Stays PROVE Link!Settle
  <2>1. sock.status = "connected" /\ sock'.status = "connected" /\ sock'.count = 0
    BY <1>1, <1>6 DEF Stays, SocketStayed, SocketRecord, SocketInv, Sound, WorkShows
  <2>2. QED BY <2>1 DEF Link!Settle, LinkOf
<1>7. ASSUME Closes PROVE Link!Retry \/ Link!GiveUp
  <2> DEFINE s == [sock EXCEPT !.ws = "none", !.stable = FALSE]
  <2>1. /\ s \in SocketRecord /\ s.count = sock.count
        /\ sock.status \in {"connecting", "connected"} /\ sock' = ScheduledReconnect(s)
    BY <1>1, <1>7
       DEF Closes, SocketClosed, SocketRecord, SocketInv, Sound, IntentIsQuiet, WorkShows
  <2> HIDE DEF s
  <2>2. QED BY <1>1, <2>1, LossIsLinkStep
<1>8. ASSUME NEW u \in Urls, sock' = UrlSet(sock, u)
      PROVE  UNCHANGED <<LinkOf[sock.status], sock.count>>
  <2>1. sock'.status = sock.status /\ sock'.count = sock.count
    BY <1>1, <1>8 DEF UrlSet, Cleaned, SocketRecord
  <2>2. QED BY <2>1
<1>9. ASSUME sock' = UrlSet(Disconnected(sock), NoUrl)
      PROVE  Link!Hangup
  <2>1. sock'.status = "disconnected" /\ sock'.count = sock.count
    BY <1>1, <1>9 DEF UrlSet, Disconnected, Cleaned, SocketRecord
  <2>2. QED BY <2>1 DEF Link!Hangup, LinkOf
<1>10. ASSUME sock' = NoSocket PROVE Link!Renew
  BY <1>10 DEF NoSocket, Link!Renew, LinkOf
<1>11. CASE UNCHANGED sock
  BY <1>11
<1>12. QED
  BY <1>2, <1>3, <1>4, <1>5, <1>6, <1>7, <1>8, <1>9, <1>10, <1>11
     DEF SocketStep, OwnerStep, AutoConnects, ReconnectFires

(* Whatever its owner does and whatever answers overtake each other, the   *)
(* hook is a link that spends one attempt for a loss and gets them back    *)
(* only after it stayed up (useRelayWebSocket.ts:89 and :146).             *)
THEOREM SocketRefinesLink == SocketSpec => RefinesLink
<1>1. SocketInit => Link!LinkInit
  BY DEF SocketInit, NoSocket, Link!LinkInit, LinkOf
<1>2. SocketInv /\ [SocketStep \/ OwnerStep]_sock
        => [Link!LinkNext]_<<LinkOf[sock.status], sock.count>>
  BY StepIsLinkStep
<1>3. QED
  BY <1>1, <1>2, SocketInvHolds, PTL DEF SocketSpec, RefinesLink, Link!LinkSpec

----------------------------------------------------------------------------
(* The socket of the call                                                  *)

LEMMA StepIsSocketStep ==
  ASSUME [WebCallNext]_callVars
  PROVE  [SocketStep \/ OwnerStep]_sock
<1>1. RelayUrl \in Urls
  BY RelayAssumption DEF RelayUrl
<1>2. StartCall => OwnerStep
  BY <1>1 DEF StartCall, OwnerStep
<1>3. ASSUME NEW p, Torn(p) PROVE OwnerStep
  BY <1>3 DEF Torn, OwnerStep
<1>4. ASSUME NEW host, NEW mode, OpenPage(host, mode) PROVE UNCHANGED sock
  BY <1>4 DEF OpenPage
<1>5. CASE LeavePage \/ FetchRedirects
  BY <1>3, <1>5 DEF LeavePage, FetchRedirects
<1>6. ASSUME NEW record, FetchOk(record) PROVE OwnerStep \/ UNCHANGED sock
  BY <1>2, <1>3, <1>6 DEF FetchOk
<1>7. CASE FetchFails
  BY <1>7 DEF FetchFails
<1>8. CASE EndClicked
  <2>1. ASSUME NEW p, EndCall(p) PROVE OwnerStep \/ UNCHANGED sock
    BY <2>1 DEF EndCall, OwnerStep
  <2>2. QED BY <1>3, <1>8, <2>1 DEF EndClicked
<1>9. CASE MuteClicked \/ LateDisconnect
  BY <1>9 DEF MuteClicked, LateDisconnect, OwnerStep
<1>10. CASE StatusEffect \/ StatusSaid \/ CaptionDone \/ TextSent \/ RelayMoves
  BY <1>10 DEF StatusEffect, StatusSaid, CaptionDone, TextSent, StreamBroken, RelayMoves
<1>11. ASSUME NEW d, CaptionSaid(d) PROVE UNCHANGED sock
  BY <1>11 DEF CaptionSaid
<1>12. CASE AudioSaid \/ InterruptSaid \/ SourceEnds \/ PlayerResumes
  BY <1>12 DEF AudioSaid, InterruptSaid, SourceEnds, PlayerResumes, PlayerMoves
<1>13. CASE Connects
  <2>1. AutoConnects(page.host = "inboundPage")
    BY <1>13 DEF Connects, SocketMoves
  <2>2. (page.host = "inboundPage") \in BOOLEAN
    OBVIOUS
  <2>3. QED BY <2>1, <2>2 DEF SocketStep
<1>14. CASE Reconnects \/ Credentials \/ NoCredential
  BY <1>14 DEF Reconnects, Credentials, NoCredential, SocketMoves, SocketStep
<1>15. CASE Opened \/ Stayed \/ Lost
  BY <1>15 DEF Opened, Stayed, Lost, SocketMoves, SocketStep
<1>16. CASE MicAnswers \/ VadResets
  BY <1>16 DEF MicAnswers, VadResets, MicMoves
<1>17. ASSUME NEW to, Chunk(to) PROVE UNCHANGED sock
  BY <1>17 DEF Chunk, MicMoves
<1>18. CASE UNCHANGED callVars
  BY <1>18 DEF callVars
<1>19. QED
  BY <1>4, <1>5, <1>6, <1>7, <1>8, <1>9, <1>10, <1>11, <1>12, <1>13, <1>14, <1>15,
     <1>16, <1>17, <1>18 DEF WebCallNext

LEMMA CallIsSocket == WebCallSpec => SocketSpec
<1>1. WebCallInit => SocketInit
  BY DEF WebCallInit
<1>2. [WebCallNext]_callVars => [SocketStep \/ OwnerStep]_sock
  BY StepIsSocketStep
<1>3. QED BY <1>1, <1>2, PTL DEF WebCallSpec, SocketSpec

(* One socket and no reconnect after a disconnect, under every click,      *)
(* timer, page change and status of a call (useRelayWebSocket.ts:67).      *)
THEOREM CallHasOneSocket == WebCallSpec => []OneLiveSocket
  BY CallIsSocket, SocketIsSingle, PTL

(* A call that shows "connecting" has somebody who connects.               *)
THEOREM CallLinkNeverHangs == WebCallSpec => []LinkIsWorkedOn
  BY CallIsSocket, LinkNeverHangs, PTL

(* The call's link spends its attempts as the abstract link does.          *)
THEOREM CallRefinesLink == WebCallSpec => RefinesLink
  BY CallIsSocket, SocketRefinesLink, PTL

----------------------------------------------------------------------------
(* The microphone                                                          *)

MicType == [starting : Nat, held : BOOLEAN, leaked : BOOLEAN, refused : BOOLEAN,
            vad : VadStates, buffered : BOOLEAN, resetting : BOOLEAN,
            userSpeaking : BOOLEAN]
MicSound(m) == m \in MicType /\ (m.vad = "committed" => m.resetting)

(* The effects on "enabled" only stop what the VAD says.                   *)
LEMMA FollowingIsSound ==
  ASSUME NEW m, MicSound(m), NEW was, NEW is
  PROVE  MicSound(MicFollows(m, was, is))
<1> USE DEF MicSound, MicType, VadStates
<1>1. MicSound(MicStarted(m))
  <2> DEFINE n == IF m.starting < MaxStarts THEN m.starting + 1 ELSE m.starting
  <2>1. n \in Nat
    OBVIOUS
  <2>2. MicStarted(m) = IF m.held THEN m ELSE [m EXCEPT !.starting = n, !.refused = FALSE]
    BY DEF MicStarted
  <2> HIDE DEF n
  <2>3. QED BY <2>1, <2>2
<1>2. MicSound(MicStopped(m))
  BY DEF MicStopped
<1>3. QED
  <2> HIDE DEF MicSound
  <2>1. QED BY <1>1, <1>2 DEF MicFollows

(* What a chunk makes of the VAD, and that it leaves the recorder alone.   *)
LEMMA CapturedIsSound ==
  ASSUME NEW m, MicSound(m), NEW to \in VadMoves(m.vad)
  PROVE  LET c == Captured(m, to) IN
         /\ MicSound(c)
         /\ c.held = m.held /\ c.starting = m.starting /\ c.refused = m.refused
<1> DEFINE h == Handled(m)
           same(a, b) == a.held = b.held /\ a.starting = b.starting /\ a.refused = b.refused
<1> USE DEF MicSound, MicType, VadStates
<1>1. MicSound(h) /\ same(h, m)
  BY DEF Handled
<1> HIDE DEF h
<1>2. CASE h.vad = "silence" /\ to = "speech"
  <2> DEFINE spoken == h.userSpeaking \/ h.buffered
  <2>1. Processed(h, to) =
          [[h EXCEPT !.userSpeaking = spoken, !.buffered = FALSE] EXCEPT !.vad = "speech"]
    BY <1>2 DEF Processed, Flushed
  <2>2. spoken \in BOOLEAN
    BY <1>1
  <2> HIDE DEF spoken
  <2>3. QED BY <1>1, <2>1, <2>2 DEF Captured, h
<1>3. CASE h.vad = "speech" /\ to = "committed"
  <2>1. Processed(h, to) = [h EXCEPT !.vad = "committed", !.resetting = TRUE, !.userSpeaking = FALSE]
    BY <1>3 DEF Processed
  <2>2. QED BY <1>1, <2>1 DEF Captured, h
<1>4. CASE ~(h.vad = "silence" /\ to = "speech") /\ ~(h.vad = "speech" /\ to = "committed")
  <2>1. Processed(h, to) = h
    BY <1>4 DEF Processed
  <2>2. QED BY <1>1, <2>1 DEF Captured, h
<1>5. QED BY <1>2, <1>3, <1>4

LEMMA StepKeepsMicSound ==
  ASSUME MicSound(mic), [WebCallNext]_callVars
  PROVE  MicSound(mic')
<1>1. CASE UNCHANGED mic
  BY <1>1
<1>2. CASE MicEffect
  BY <1>2, FollowingIsSound DEF MicEffect
<1>3. ASSUME NEW p, Torn(p) PROVE MicSound(mic')
  BY <1>3 DEF Torn, MicOff, MicSound, MicType, VadStates
<1>4. ASSUME NEW host, NEW mode, OpenPage(host, mode) PROVE UNCHANGED mic
  BY <1>4 DEF OpenPage
<1>5. CASE LeavePage \/ FetchRedirects
  BY <1>3, <1>5 DEF LeavePage, FetchRedirects
<1>6. ASSUME NEW record, FetchOk(record) PROVE MicSound(mic')
  BY <1>2, <1>3, <1>6 DEF FetchOk
<1>7. CASE FetchFails
  BY <1>7 DEF FetchFails
<1>8. CASE EndClicked
  BY <1>2, <1>3, <1>8 DEF EndClicked
<1>9. CASE MuteClicked \/ LateDisconnect
  BY <1>2, <1>9 DEF MuteClicked, LateDisconnect
<1>10. CASE StatusEffect \/ StatusSaid \/ CaptionDone \/ TextSent \/ RelayMoves
  BY <1>10 DEF StatusEffect, StatusSaid, CaptionDone, TextSent, StreamBroken, RelayMoves
<1>11. ASSUME NEW d, CaptionSaid(d) PROVE UNCHANGED mic
  BY <1>11 DEF CaptionSaid
<1>12. CASE AudioSaid \/ InterruptSaid \/ SourceEnds \/ PlayerResumes
  BY <1>12 DEF AudioSaid, InterruptSaid, SourceEnds, PlayerResumes, PlayerMoves
<1>13. CASE Connects \/ Reconnects \/ Credentials \/ NoCredential \/ Opened \/ Stayed \/ Lost
  BY <1>2, <1>13
     DEF Connects, Reconnects, Credentials, NoCredential, Opened, Stayed, Lost, SocketMoves
<1>14. CASE MicAnswers
  <2> DEFINE n == mic.starting - 1
             lost == mic.leaked \/ mic.held
  <2>1. n \in Nat /\ lost \in BOOLEAN
    BY <1>14 DEF MicAnswers, MicSound, MicType
  <2>2. \/ mic' = [mic EXCEPT !.starting = n, !.held = TRUE, !.leaked = lost]
        \/ mic' = [mic EXCEPT !.starting = n, !.refused = TRUE]
    BY <1>14 DEF MicAnswers, MicMoves, MicReady, MicDenied
  <2> HIDE DEF n, lost
  <2>3. QED BY <2>1, <2>2 DEF MicSound, MicType, VadStates
<1>15. CASE VadResets
  BY <1>15 DEF VadResets, MicMoves, VadReset, MicSound, MicType, VadStates
<1>16. ASSUME NEW to \in VadStates, Chunk(to) PROVE MicSound(mic')
  BY <1>16, CapturedIsSound DEF Chunk, MicMoves
<1>17. CASE UNCHANGED callVars
  BY <1>17 DEF callVars
<1>18. QED
  BY <1>1, <1>4, <1>5, <1>6, <1>7, <1>8, <1>9, <1>10, <1>11, <1>12, <1>13, <1>14,
     <1>15, <1>16, <1>17 DEF WebCallNext

\* The recorder has something to say for itself.
Fed(m) == m.held \/ m.starting > 0 \/ m.refused

CallStatuses == {"idle", "connecting", "waiting", "connected", "ended"}
PageType == [host : Hosts \cup {"none"}, mode : Modes \cup {"full_agent"}, loading : BOOLEAN,
             error : BOOLEAN, record : {"none", "live", "over"}, left : BOOLEAN,
             fetches : Nat, failures : Nat, started : BOOLEAN]

\* A page of nobody has no address; the fields a step does not name stay.
HostSound ==
  /\ page \in PageType
  /\ call \in [status : CallStatuses, isMuted : BOOLEAN, error : BOOLEAN]
  /\ page.host = "none" => page.fetches = 0 /\ sock.url = NoUrl

MicInv ==
  /\ SocketInv /\ HostSound /\ MicSound(mic)
  /\ VadEnabled(page, call, sock) => Fed(mic)

(* The hook never changes the address it is given.                         *)
LEMMA HookKeepsUrl ==
  ASSUME SocketInv, SocketStep
  PROVE  sock'.url = sock.url
<1>1. sock \in SocketRecord /\ Cleaned(sock) \in SocketRecord /\ Cleaned(sock).url = sock.url
  BY CleanedFields DEF SocketInv, Sound
<1>2. ASSUME NEW s \in SocketRecord PROVE ScheduledReconnect(s).url = s.url
  BY <1>2, ScheduledFields
<1>3. CASE (\E atHand \in BOOLEAN : AutoConnects(atHand)) \/ ReconnectFires
  <2>1. PICK atHand \in BOOLEAN : sock' = ConnectStarted(sock, atHand)
    BY <1>3 DEF AutoConnects, ReconnectFires
  <2> DEFINE t == [Cleaned(sock) EXCEPT !.intentional = FALSE, !.status = "connecting", !.auto = FALSE]
  <2>2. t \in SocketRecord /\ t.url = sock.url
    BY <1>1 DEF SocketRecord
  <2>3. \/ sock' = Created(t)
        \/ sock' = [t EXCEPT !.asking = TRUE]
        \/ sock' = [sock EXCEPT !.auto = FALSE, !.timer = FALSE]
    BY <2>1 DEF ConnectStarted
  <2> HIDE DEF t
  <2>4. QED BY <1>1, <2>2, <2>3 DEF Created, SocketRecord
<1>4. ASSUME NEW current \in BOOLEAN, CredentialsArrive(current) \/ CredentialsFail(current)
      PROVE  sock'.url = sock.url
  <2> DEFINE s == [sock EXCEPT !.asking = FALSE]
  <2>1. s \in SocketRecord /\ s.url = sock.url
    BY <1>1 DEF SocketRecord
  <2>2. \/ sock' = Created(sock) \/ sock' = ScheduledReconnect(s)
        \/ sock' = [sock EXCEPT !.stale = @ - 1] \/ sock' = sock
    BY <1>4 DEF CredentialsArrive, CredentialsFail, AttemptResumed, AttemptFailed
  <2> HIDE DEF s
  <2>3. QED BY <1>1, <1>2, <2>1, <2>2 DEF Created, SocketRecord
<1>5. CASE Opens \/ Stays \/ Closes
  <2> DEFINE s == [sock EXCEPT !.ws = "none", !.stable = FALSE]
  <2>1. s \in SocketRecord /\ s.url = sock.url
    BY <1>1 DEF SocketRecord
  <2>2. CASE Closes
    <3>1. sock' = s \/ sock' = ScheduledReconnect(s) \/ sock' = [s EXCEPT !.status = "disconnected"]
      BY <2>2 DEF Closes, SocketClosed
    <3> HIDE DEF s
    <3>2. QED BY <1>2, <2>1, <3>1 DEF SocketRecord
  <2>3. QED BY <1>1, <1>5, <2>2 DEF Opens, Stays, SocketOpened, SocketStayed, SocketRecord
<1>6. QED BY <1>3, <1>4, <1>5 DEF SocketStep

LEMMA DisconnectUnsetsUrl ==
  ASSUME SocketInv
  PROVE  UrlSet(Disconnected(sock), NoUrl).url = NoUrl
<1> DEFINE d == Disconnected(sock)
<1>1. Cleaned(sock) \in SocketRecord
  BY CleanedFields DEF SocketInv, Sound
<1>2. d \in SocketRecord
  BY <1>1 DEF Disconnected, SocketRecord
<1> HIDE DEF d
<1>3. Cleaned(d) \in SocketRecord
  BY <1>2, CleanedFields
<1>4. UrlSet(d, NoUrl).url = NoUrl
  BY <1>2, <1>3 DEF UrlSet, SocketRecord
<1>5. QED BY <1>4 DEF d

LEMMA SocketMovesKeepUrl ==
  ASSUME SocketInv,
         \/ Connects \/ Reconnects \/ Credentials \/ NoCredential
         \/ Opened \/ Stayed \/ Lost
  PROVE  sock'.url = sock.url /\ page' = page /\ call' = call /\ MicEffect
<1>1. SocketStep /\ page' = page /\ call' = call /\ MicEffect
  <2>1. CASE Connects
    <3>1. AutoConnects(page.host = "inboundPage")
      BY <2>1 DEF Connects, SocketMoves
    <3>2. (page.host = "inboundPage") \in BOOLEAN
      OBVIOUS
    <3>3. QED BY <2>1, <3>1, <3>2 DEF Connects, SocketMoves, SocketStep
  <2>2. QED
    BY <2>1 DEF Reconnects, Credentials, NoCredential, Opened, Stayed, Lost, SocketMoves, SocketStep
<1>2. QED BY <1>1, HookKeepsUrl

LEMMA StepKeepsHostSound ==
  ASSUME SocketInv, HostSound, [WebCallNext]_callVars
  PROVE  HostSound'
<1> USE DEF HostSound, PageType, Hosts, CallStatuses
<1>1. CASE UNCHANGED <<page, call>> /\ sock'.url = sock.url
  BY <1>1
<1>2. ASSUME NEW p, Torn(p), p \in PageType,
             p.host = "none" => p.fetches = 0
      PROVE  HostSound'
  BY <1>2 DEF Torn, NoSocket, NoCall
<1>3. NoPage \in PageType
      /\ NoPage.fetches = 0
  BY DEF NoPage
<1>4. ASSUME NEW host \in Hosts, NEW mode \in Modes, OpenPage(host, mode) PROVE HostSound'
  BY <1>4 DEF OpenPage, NoPage, Hosts
<1>5. CASE LeavePage \/ FetchRedirects
  BY <1>2, <1>3, <1>5 DEF LeavePage, FetchRedirects
<1>6. ASSUME NEW record \in {"live", "over"}, FetchOk(record) PROVE HostSound'
  <2> DEFINE n == page.fetches - 1
             e == IF page.host = "callPage" THEN page.error ELSE FALSE
             p == [page EXCEPT !.fetches = n, !.record = record, !.loading = FALSE,
                               !.error = e, !.failures = 0]
             started == p.started \/ Starts(p)
             q == [p EXCEPT !.started = started]
  <2>1. page.fetches > 0
    BY <1>6 DEF FetchOk
  <2>2. n \in Nat /\ e \in BOOLEAN /\ page.host # "none"
    <3>1. page.host # "none" /\ n \in Nat
      BY <2>1
    <3>2. e \in BOOLEAN
      OBVIOUS
    <3>3. QED BY <3>1, <3>2
  <2>3. started \in BOOLEAN
    OBVIOUS
  <2>4. /\ \/ Torn(p)
           \/ page' = q /\ (StartCall \/ UNCHANGED call)
    BY <1>6 DEF FetchOk
  <2> HIDE DEF n, e, started
  <2>5. p \in PageType
        /\ p.host = page.host
    BY <2>2
  <2> HIDE DEF p
  <2>6. CASE Torn(p)
    BY <1>2, <2>2, <2>5, <2>6
  <2>7. CASE page' = q /\ (StartCall \/ UNCHANGED call)
    <3>1. q \in PageType /\ q.host # "none"
      BY <2>2, <2>5, <2>3
    <3>2. call' \in [status : CallStatuses, isMuted : BOOLEAN, error : BOOLEAN]
      <4>1. CASE UNCHANGED call
        BY <4>1
      <4>2. CASE StartCall
        <5>1. call' = [status |-> "connecting", isMuted |-> FALSE, error |-> FALSE]
          BY <4>2 DEF StartCall
        <5>2. QED BY <5>1
      <4>3. QED BY <2>7, <4>1, <4>2
    <3> HIDE DEF q, PageType
    <3>3. QED BY <2>7, <3>1, <3>2
  <2>8. QED BY <2>4, <2>6, <2>7
<1>7. CASE FetchFails
  <2> DEFINE n == page.fetches - 1
             f == IF page.failures < 3 THEN page.failures + 1 ELSE 3
             e == page.error \/ page.failures >= 2
             l == page.loading /\ page.failures < 2
             e2 == page.error \/ (page.record = "none")
  <2>1. n \in Nat /\ f \in Nat /\ e \in BOOLEAN /\ l \in BOOLEAN /\ e2 \in BOOLEAN
        /\ page.host # "none"
    BY <1>7 DEF FetchFails
  <2>2. /\ \/ page' = [page EXCEPT !.fetches = n, !.failures = f, !.error = e, !.loading = l]
           \/ page' = [page EXCEPT !.fetches = n, !.loading = FALSE, !.error = e2]
        /\ UNCHANGED <<sock, call>>
    BY <1>7 DEF FetchFails
  <2> HIDE DEF n, f, e, l, e2
  <2>3. QED BY <2>1, <2>2
<1>8. CASE EndClicked
  <2>1. page.host # "none"
    BY <1>8 DEF EndClicked, Controls, ViewMounted
  <2>2. CASE page.host = "dashboard" /\ EndCall(page)
    <3>1. page' = page \/ page' = [page EXCEPT !.fetches = @ + 1]
      BY <2>2 DEF EndCall, Refetched
    <3>2. call' = [call EXCEPT !.status = "ended"]
      BY <2>2 DEF EndCall
    <3>3. QED BY <2>1, <3>1, <3>2
  <2>3. CASE page.host # "dashboard"
    <3> DEFINE n == IF page.fetches < 2 THEN page.fetches + 1 ELSE page.fetches
               p == [page EXCEPT !.left = TRUE, !.fetches = n]
    <3>1. n \in Nat
      OBVIOUS
    <3>2. Torn(NoPage) \/ Torn(p)
      BY <1>8, <2>3 DEF EndClicked
    <3> HIDE DEF n
    <3>3. QED BY <1>2, <1>3, <2>1, <3>1, <3>2
  <2>4. QED BY <1>8, <2>2, <2>3 DEF EndClicked
<1>9. CASE MuteClicked
  <2>1. page' = page /\ sock' = sock /\ call' = [call EXCEPT !.isMuted = ~call.isMuted]
    BY <1>9 DEF MuteClicked
  <2>2. QED BY <2>1
<1>10. CASE LateDisconnect
  <2>1. page' = page /\ call' = call /\ sock' = UrlSet(Disconnected(sock), NoUrl)
    BY <1>10 DEF LateDisconnect
  <2>2. sock'.url = NoUrl
    BY <2>1, DisconnectUnsetsUrl
  <2>3. QED BY <2>1, <2>2
<1>11. CASE StatusEffect
  <2>1. /\ UNCHANGED <<page, sock>>
        /\ call' = [call EXCEPT !.status = "waiting"] \/ call' = [call EXCEPT !.error = TRUE]
    BY <1>11 DEF StatusEffect
  <2>2. QED BY <2>1
<1>12. CASE StatusSaid
  <2>1. page' = page \/ page' = [page EXCEPT !.fetches = @ + 1]
    BY <1>12 DEF StatusSaid, Refetched
  <2>2. /\ UNCHANGED sock /\ page.host # "none"
        /\ \E st \in CallStatuses : call' = [call EXCEPT !.status = st]
    BY <1>12 DEF StatusSaid, Hears, ViewMounted
  <2>3. QED BY <2>1, <2>2
<1>13. CASE CaptionDone \/ TextSent \/ RelayMoves
  BY <1>1, <1>13 DEF CaptionDone, TextSent, StreamBroken, RelayMoves
<1>14. ASSUME NEW d, CaptionSaid(d) PROVE HostSound'
  BY <1>1, <1>14 DEF CaptionSaid
<1>15. CASE AudioSaid \/ InterruptSaid \/ SourceEnds \/ PlayerResumes
  BY <1>1, <1>15 DEF AudioSaid, InterruptSaid, SourceEnds, PlayerResumes, PlayerMoves
<1>16. CASE Connects \/ Reconnects \/ Credentials \/ NoCredential \/ Opened \/ Stayed \/ Lost
  BY <1>1, <1>16, SocketMovesKeepUrl
<1>17. CASE MicAnswers \/ VadResets
  BY <1>1, <1>17 DEF MicAnswers, VadResets, MicMoves
<1>18. ASSUME NEW to, Chunk(to) PROVE HostSound'
  BY <1>1, <1>18 DEF Chunk, MicMoves
<1>19. CASE UNCHANGED callVars
  BY <1>1, <1>19 DEF callVars
<1>20. QED
  BY <1>4, <1>5, <1>6, <1>7, <1>8, <1>9, <1>10, <1>11, <1>12, <1>13, <1>14,
     <1>15, <1>16, <1>17, <1>18, <1>19 DEF WebCallNext

(* Whoever becomes enabled starts a recorder; stops only come with the     *)
(* end of being enabled.                                                   *)
LEMMA StepKeepsFed ==
  ASSUME MicInv, [WebCallNext]_callVars
  PROVE  VadEnabled(page, call, sock)' => Fed(mic')
<1> DEFINE on == VadEnabled(page, call, sock)
<1> USE DEF MicInv
<1>1. CASE UNCHANGED mic /\ (on' => on)
  BY <1>1
<1>2. CASE MicEffect
  <2>1. VadEnabled(page', call', sock') = on'
    BY DEF VadEnabled
  <2>2. Fed(MicStarted(mic))
    <3> DEFINE n == IF mic.starting < MaxStarts THEN mic.starting + 1 ELSE mic.starting
    <3>1. n \in Nat /\ n > 0
      BY MaxStartsAssumption DEF MicSound, MicType
    <3>2. MicStarted(mic) = IF mic.held THEN mic ELSE [mic EXCEPT !.starting = n, !.refused = FALSE]
      BY DEF MicStarted
    <3> HIDE DEF n
    <3>3. QED BY <3>1, <3>2 DEF Fed, MicSound, MicType
  <2>3. on' => mic' = MicStarted(mic) \/ (on /\ mic' = mic)
    BY <1>2, <2>1 DEF MicEffect, MicFollows
  <2> HIDE DEF on
  <2>4. QED BY <2>2, <2>3 DEF on
<1>3. ASSUME NEW p, Torn(p) PROVE ~on'
  BY <1>3 DEF Torn, NoSocket, VadEnabled
<1>4. ASSUME NEW host \in Hosts, NEW mode \in Modes, OpenPage(host, mode) PROVE ~on'
  BY <1>4 DEF OpenPage, VadEnabled, HostSound
<1>5. CASE LeavePage \/ FetchRedirects
  BY <1>3, <1>5 DEF LeavePage, FetchRedirects
<1>6. ASSUME NEW record, FetchOk(record) PROVE MicEffect \/ ~on'
  BY <1>3, <1>6 DEF FetchOk
<1>7. CASE FetchFails
  <2>1. page'.mode = page.mode /\ UNCHANGED <<sock, call, mic>>
    BY <1>7 DEF FetchFails, HostSound, PageType
  <2>2. QED BY <1>1, <2>1 DEF VadEnabled
<1>8. CASE EndClicked
  <2>1. MicEffect \/ \E p : Torn(p)
    BY <1>8 DEF EndClicked
  <2>2. QED BY <1>2, <1>3, <2>1
<1>9. CASE MuteClicked \/ LateDisconnect
  BY <1>2, <1>9 DEF MuteClicked, LateDisconnect
<1>10. CASE StatusEffect \/ StatusSaid
  <2>1. page'.mode = page.mode /\ call'.isMuted = call.isMuted /\ UNCHANGED <<sock, mic>>
    BY <1>10 DEF StatusEffect, StatusSaid, Refetched, HostSound, PageType
  <2>2. QED BY <1>1, <2>1 DEF VadEnabled
<1>11. CASE UNCHANGED <<page, call, sock, mic>>
  BY <1>1, <1>11 DEF VadEnabled
<1>12. CASE CaptionDone \/ TextSent \/ RelayMoves
  BY <1>11, <1>12 DEF CaptionDone, TextSent, StreamBroken, RelayMoves
<1>13. ASSUME NEW d, CaptionSaid(d) PROVE UNCHANGED <<page, call, sock, mic>>
  BY <1>13 DEF CaptionSaid
<1>14. CASE AudioSaid \/ InterruptSaid \/ SourceEnds \/ PlayerResumes
  BY <1>11, <1>14 DEF AudioSaid, InterruptSaid, SourceEnds, PlayerResumes, PlayerMoves
<1>15. CASE Connects \/ Reconnects \/ Credentials \/ NoCredential \/ Opened \/ Stayed \/ Lost
  BY <1>2, <1>15, SocketMovesKeepUrl
<1>16. CASE MicAnswers
  <2>1. UNCHANGED <<page, call, sock>> /\ (mic' = MicReady(mic) \/ mic' = MicDenied(mic))
    BY <1>16 DEF MicAnswers, MicMoves
  <2>2. QED BY <2>1 DEF MicReady, MicDenied, Fed, MicSound, MicType
<1>17. CASE VadResets
  <2>1. UNCHANGED <<page, call, sock>> /\ mic' = VadReset(mic)
    BY <1>17 DEF VadResets, MicMoves
  <2>2. Fed(mic) => Fed(mic')
    BY <2>1 DEF VadReset, Fed, MicSound, MicType
  <2>3. QED BY <2>1, <2>2 DEF VadEnabled
<1>18. ASSUME NEW to \in VadStates, Chunk(to) PROVE on' => Fed(mic')
  <2>1. /\ UNCHANGED <<page, call, sock>>
        /\ mic' = Captured(mic, to) /\ to \in VadMoves(mic.vad)
    BY <1>18 DEF Chunk, MicMoves
  <2>2. Fed(mic) => Fed(mic')
    BY <2>1, CapturedIsSound DEF Fed
  <2>3. QED BY <2>1, <2>2 DEF VadEnabled
<1>19. CASE UNCHANGED callVars
  BY <1>11, <1>19 DEF callVars
<1>20. QED
  BY <1>2, <1>4, <1>5, <1>6, <1>7, <1>8, <1>9, <1>10, <1>11, <1>12, <1>13, <1>14,
     <1>15, <1>16, <1>17, <1>18, <1>19 DEF WebCallNext

(* Whatever mutes, reconnects and pages came and went while the microphone *)
(* was asked for, a caller who is not muted has a recorder that runs or is *)
(* started, or was refused one, and no commit leaves the VAD deaf (start() *)
(* and stop() of useWebAudioRecorder.ts, useClientVad.ts).                 *)
THEOREM CallerIsHeard == WebCallSpec => []EnabledIsHeard
<1>1. WebCallInit => MicInv
  BY InitEstablishesSocketInv
     DEF WebCallInit, MicInv, HostSound, PageType, Hosts, CallStatuses, NoPage, NoCall, SocketInit, NoSocket, VadEnabled,
         MicOff, MicSound, MicType, VadStates
<1>2. MicInv /\ [WebCallNext]_callVars => MicInv'
  <2> SUFFICES ASSUME MicInv, [WebCallNext]_callVars
               PROVE  MicInv'
    OBVIOUS
  <2>1. SocketInv'
    BY StepIsSocketStep, StepKeepsSocketInv DEF MicInv
  <2>2. HostSound'
    BY StepKeepsHostSound DEF MicInv
  <2>3. MicSound(mic')
    BY StepKeepsMicSound DEF MicInv
  <2>4. QED BY <2>1, <2>2, <2>3, StepKeepsFed DEF MicInv
<1>3. MicInv => EnabledIsHeard
  BY DEF MicInv, Fed, MicSound, EnabledIsHeard
<1>4. QED BY <1>1, <1>2, <1>3, PTL DEF WebCallSpec

----------------------------------------------------------------------------
(* The player                                                              *)

PlayerType == [queue : Nat, current : BOOLEAN, earlier : BOOLEAN, stale : BOOLEAN,
               resuming : BOOLEAN, suspended : BOOLEAN, playing : BOOLEAN]
\* Only a player that plays queues, and one that plays has something to end.
PlayerSound(p) ==
  /\ p \in PlayerType
  /\ p.queue > 0 => p.playing
  /\ p.playing => p.current \/ p.earlier \/ p.stale \/ p.resuming

LEMMA ScheduledIsSound ==
  ASSUME NEW p \in PlayerType, p.queue > 0 => p.playing
  PROVE  PlayerSound(Scheduled(p))
<1> DEFINE unnamed == p.earlier \/ p.current
<1>1. unnamed \in BOOLEAN /\ Scheduled(p) = [p EXCEPT !.current = TRUE, !.earlier = unnamed]
  BY DEF Scheduled
<1> HIDE DEF unnamed
<1>2. QED BY <1>1 DEF PlayerSound, PlayerType

LEMMA PlayedNextIsSound ==
  ASSUME NEW p \in PlayerType
  PROVE  PlayerSound(PlayedNext(p))
<1>1. CASE p.queue = 0
  <2> DEFINE q == [p EXCEPT !.playing = FALSE]
  <2>1. PlayedNext(p) = q
    BY <1>1 DEF PlayedNext
  <2>2. q \in PlayerType /\ q.queue = 0 /\ ~q.playing
    BY <1>1 DEF PlayerType
  <2> HIDE DEF q
  <2>3. QED BY <2>1, <2>2 DEF PlayerSound
<1>2. CASE p.queue # 0
  <2> DEFINE n == p.queue - 1
             q == [p EXCEPT !.queue = n, !.playing = TRUE]
  <2>1. n \in Nat
    BY <1>2 DEF PlayerType
  <2>2. PlayedNext(p) = IF p.suspended THEN [q EXCEPT !.resuming = TRUE] ELSE Scheduled(q)
    BY <1>2 DEF PlayedNext
  <2> HIDE DEF n
  <2>3. q \in PlayerType /\ q.playing
    BY <2>1 DEF PlayerType
  <2>4. PlayerSound([q EXCEPT !.resuming = TRUE])
    BY <2>3 DEF PlayerType, PlayerSound
  <2> HIDE DEF q
  <2>5. QED BY <2>2, <2>3, <2>4, ScheduledIsSound
<1>3. QED BY <1>1, <1>2

(* stop() and a cleared queue leave nothing to play.                       *)
LEMMA StoppedIsSound ==
  ASSUME NEW p, PlayerSound(p)
  PROVE  PlayerSound(PlayerStopped(p)) /\ PlayerSound(QueueCleared(p))
<1> DEFINE still == p.stale \/ p.current
           e == [p EXCEPT !.queue = 0]
           q == [e EXCEPT !.current = FALSE, !.stale = still, !.playing = FALSE]
<1>1. p \in PlayerType /\ still \in BOOLEAN
  BY DEF PlayerSound, PlayerType
<1>2. PlayerStopped(p) = q /\ QueueCleared(p) = e
  BY <1>1 DEF PlayerStopped, QueueCleared, PlayerType
<1> HIDE DEF still
<1>3. PlayerSound(e)
  BY <1>1 DEF PlayerSound, PlayerType
<1>4. e \in PlayerType /\ e.queue = 0
  BY <1>1 DEF PlayerType
<1> HIDE DEF e
<1>5. q \in PlayerType /\ q.queue = 0 /\ ~q.playing
  BY <1>1, <1>4 DEF PlayerType
<1> HIDE DEF q
<1>6. PlayerSound(q)
  BY <1>5 DEF PlayerSound
<1>7. QED BY <1>2, <1>3, <1>6

(* Audio arrives, a source ends, the context resumes.                      *)
LEMMA PlayerEventsAreSound ==
  ASSUME PlayerSound(player), AudioSaid \/ InterruptSaid \/ SourceEnds \/ PlayerResumes
  PROVE  PlayerSound(player')
<1>1. CASE AudioSaid
  <2> DEFINE n == player.queue + 1
             q == [player EXCEPT !.queue = n]
  <2>1. n \in Nat
    BY DEF PlayerSound, PlayerType
  <2>2. player' = IF player.playing THEN q ELSE PlayedNext(q)
    BY <1>1 DEF AudioSaid, PlayerMoves, Played
  <2> HIDE DEF n
  <2>3. q \in PlayerType
    BY <2>1 DEF PlayerSound, PlayerType
  <2>4. player.playing => PlayerSound(q)
    BY <2>1, <2>3 DEF PlayerSound, PlayerType
  <2> HIDE DEF q
  <2>5. QED BY <2>2, <2>3, <2>4, PlayedNextIsSound
<1>2. CASE InterruptSaid
  BY <1>2, StoppedIsSound DEF InterruptSaid, PlayerMoves
<1>3. CASE SourceEnds
  <2>1. PICK which \in Sources : player' = SourceEnded(player, which)
    BY <1>3 DEF SourceEnds, PlayerMoves
  <2>2. \E q \in PlayerType : player' = PlayedNext(q)
    BY <2>1 DEF SourceEnded, Sources, PlayerSound, PlayerType
  <2>3. QED BY <2>2, PlayedNextIsSound
<1>4. CASE PlayerResumes
  <2> DEFINE q == [player EXCEPT !.resuming = FALSE, !.suspended = FALSE]
  <2>1. q \in PlayerType /\ (q.queue > 0 => q.playing)
    BY DEF PlayerSound, PlayerType
  <2>2. player' = Scheduled(q)
    BY <1>4 DEF PlayerResumes, PlayerMoves, PlayerResumed
  <2> HIDE DEF q
  <2>3. QED BY <2>1, <2>2, ScheduledIsSound
<1>5. QED BY <1>1, <1>2, <1>3, <1>4

LEMMA StepKeepsPlayerSound ==
  ASSUME PlayerSound(player), [WebCallNext]_callVars
  PROVE  PlayerSound(player')
<1>1. CASE UNCHANGED player
  BY <1>1
<1>2. CASE player' = PlayerStopped(player)
  BY <1>2, StoppedIsSound
<1>3. ASSUME NEW p, Torn(p) PROVE PlayerSound(player')
  BY <1>3 DEF Torn, NoPlayer, PlayerSound, PlayerType
<1>4. ASSUME NEW host, NEW mode, OpenPage(host, mode) PROVE UNCHANGED player
  BY <1>4 DEF OpenPage
<1>5. CASE LeavePage \/ FetchRedirects
  BY <1>3, <1>5 DEF LeavePage, FetchRedirects
<1>6. ASSUME NEW record, FetchOk(record) PROVE PlayerSound(player')
  BY <1>1, <1>3, <1>6 DEF FetchOk
<1>7. CASE FetchFails
  BY <1>7 DEF FetchFails
<1>8. CASE EndClicked
  BY <1>2, <1>3, <1>8 DEF EndClicked, EndCall
<1>9. CASE MuteClicked \/ LateDisconnect
  BY <1>9 DEF MuteClicked, LateDisconnect
<1>10. CASE StatusEffect \/ CaptionDone \/ TextSent \/ RelayMoves
  BY <1>10 DEF StatusEffect, CaptionDone, TextSent, StreamBroken, RelayMoves
<1>11. CASE StatusSaid
  BY <1>1, <1>2, <1>11 DEF StatusSaid
<1>12. ASSUME NEW d, CaptionSaid(d) PROVE UNCHANGED player
  BY <1>12 DEF CaptionSaid
<1>13. CASE Connects \/ Reconnects \/ Credentials \/ NoCredential \/ Opened \/ Stayed \/ Lost
  BY <1>13 DEF Connects, Reconnects, Credentials, NoCredential, Opened, Stayed, Lost, SocketMoves
<1>14. CASE MicAnswers \/ VadResets
  BY <1>1, <1>2, <1>14 DEF MicAnswers, VadResets, MicMoves
<1>15. ASSUME NEW to, Chunk(to) PROVE PlayerSound(player')
  BY <1>1, <1>2, <1>15 DEF Chunk, MicMoves
<1>16. CASE UNCHANGED callVars
  BY <1>16 DEF callVars
<1>17. QED
  BY <1>1, <1>4, <1>5, <1>6, <1>7, <1>8, <1>9, <1>10, <1>11, <1>12, <1>13, <1>14,
     <1>15, <1>16, PlayerEventsAreSound DEF WebCallNext

(* Audio that was queued is played: something is there whose end starts    *)
(* it, whatever is stopped, interrupted or resumed (WebAudioPlayer).       *)
THEOREM AudioIsPlayed == WebCallSpec => []QueuedIsPlayed
<1>1. WebCallInit => PlayerSound(player)
  BY DEF WebCallInit, NoPlayer, PlayerSound, PlayerType
<1>2. PlayerSound(player) /\ [WebCallNext]_callVars => PlayerSound(player)'
  BY StepKeepsPlayerSound
<1>3. PlayerSound(player) => QueuedIsPlayed
  BY DEF PlayerSound, QueuedIsPlayed
<1>4. QED BY <1>1, <1>2, <1>3, PTL DEF WebCallSpec

----------------------------------------------------------------------------
(* The captions                                                            *)

CaptionType == [speaker : {"user", "recipient"}, stage : {1, 2}, original : BOOLEAN]
CaptionInv == captions \in Seq(CaptionType) /\ StreamIsLast

LEMMA CaptionedEndsWith ==
  ASSUME NEW caps \in Seq(CaptionType), NEW cur, NEW d \in Deltas,
         cur = d => /\ caps # <<>>
                    /\ caps[Len(caps)].speaker = d.speaker
                    /\ caps[Len(caps)].stage = d.stage
  PROVE  LET c == Captioned(caps, cur, d) IN
         /\ c \in Seq(CaptionType) /\ c # <<>>
         /\ c[Len(c)].speaker = d.speaker /\ c[Len(c)].stage = d.stage
<1> DEFINE n     == Len(caps)
           entry == [speaker |-> d.speaker, stage |-> d.stage, original |-> FALSE]
           whole == [entry EXCEPT !.original = TRUE]
<1>1. n \in Nat /\ entry \in CaptionType
  BY DEF Deltas, CaptionType
<1>2. entry.speaker = d.speaker /\ entry.stage = d.stage
  OBVIOUS
<1>3. Captioned(caps, cur, d) =
        IF cur = d THEN caps
        ELSE IF d.stage = 2 /\ n > 0 /\ caps[n].stage = 1 /\ caps[n].speaker = d.speaker
             THEN [caps EXCEPT ![n] = whole] ELSE Append(caps, entry)
  BY DEF Captioned
<1> HIDE DEF entry
<1>4. whole \in CaptionType /\ whole.speaker = d.speaker /\ whole.stage = d.stage
  BY <1>1, <1>2 DEF CaptionType
<1> HIDE DEF whole
<1>5. ASSUME n > 0
      PROVE  LET c == [caps EXCEPT ![n] = whole] IN
             /\ c \in Seq(CaptionType) /\ Len(c) = n /\ c[n] = whole
  <2>1. n \in 1..Len(caps)
    BY <1>1, <1>5
  <2>2. QED BY <1>4, <2>1
<1>6. LET c == Append(caps, entry) IN
      /\ c \in Seq(CaptionType) /\ Len(c) = n + 1 /\ c[n + 1] = entry
  BY <1>1
<1>7. CASE cur = d
  BY <1>3, <1>7
<1>8. CASE /\ cur # d
           /\ d.stage = 2 /\ n > 0 /\ caps[n].stage = 1 /\ caps[n].speaker = d.speaker
  BY <1>1, <1>3, <1>4, <1>5, <1>8
<1>9. CASE /\ cur # d
           /\ ~(d.stage = 2 /\ n > 0 /\ caps[n].stage = 1 /\ caps[n].speaker = d.speaker)
  <2>1. Captioned(caps, cur, d) = Append(caps, entry)
    BY <1>3, <1>9
  <2>2. Append(caps, entry) # <<>>
    BY <1>1, <1>6
  <2>3. QED BY <1>2, <1>6, <2>1, <2>2
<1>10. QED BY <1>7, <1>8, <1>9

LEMMA StepKeepsCaptionInv ==
  ASSUME CaptionInv, [WebCallNext]_callVars
  PROVE  CaptionInv'
<1>1. CASE UNCHANGED captionVars
  BY <1>1 DEF CaptionInv, StreamIsLast, captionVars
<1>2. CASE captions' = <<>> /\ streaming' = NoStream
  BY <1>2 DEF CaptionInv, StreamIsLast
<1>3. ASSUME NEW p, Torn(p) PROVE CaptionInv'
  BY <1>2, <1>3 DEF Torn
<1>4. ASSUME NEW host, NEW mode, OpenPage(host, mode) PROVE UNCHANGED captionVars
  BY <1>4 DEF OpenPage, captionVars
<1>5. CASE LeavePage \/ FetchRedirects
  BY <1>3, <1>5 DEF LeavePage, FetchRedirects
<1>6. ASSUME NEW record, FetchOk(record) PROVE CaptionInv'
  BY <1>1, <1>2, <1>3, <1>6 DEF FetchOk, StartCall
<1>7. CASE FetchFails
  BY <1>1, <1>7 DEF FetchFails, captionVars
<1>8. CASE EndClicked
  BY <1>1, <1>3, <1>8 DEF EndClicked
<1>9. CASE MuteClicked \/ LateDisconnect
  BY <1>1, <1>9 DEF MuteClicked, LateDisconnect, captionVars
<1>10. CASE StatusEffect \/ StatusSaid \/ RelayMoves
  BY <1>1, <1>10 DEF StatusEffect, StatusSaid, RelayMoves, captionVars
<1>11. CASE CaptionDone \/ TextSent
  BY <1>11 DEF CaptionDone, TextSent, StreamBroken, CaptionInv, StreamIsLast
<1>12. ASSUME NEW d \in Deltas, CaptionSaid(d) PROVE CaptionInv'
  <2>1. captions' = Captioned(captions, streaming, d) /\ streaming' = d
    BY <1>12 DEF CaptionSaid
  <2>2. d # NoStream
    BY DEF Deltas, NoStream
  <2>3. streaming = d => /\ captions # <<>>
                         /\ captions[Len(captions)].speaker = d.speaker
                         /\ captions[Len(captions)].stage = d.stage
    BY <2>2 DEF CaptionInv, StreamIsLast
  <2>4. LET c == captions' IN
        /\ c \in Seq(CaptionType) /\ c # <<>>
        /\ c[Len(c)].speaker = d.speaker /\ c[Len(c)].stage = d.stage
    BY <2>1, <2>3, CaptionedEndsWith DEF CaptionInv
  <2>5. QED BY <2>1, <2>4 DEF CaptionInv, StreamIsLast
<1>13. CASE AudioSaid \/ InterruptSaid \/ SourceEnds \/ PlayerResumes
  BY <1>1, <1>13 DEF AudioSaid, InterruptSaid, SourceEnds, PlayerResumes, PlayerMoves, captionVars
<1>14. CASE Connects \/ Reconnects \/ Credentials \/ NoCredential \/ Opened \/ Stayed \/ Lost
  BY <1>1, <1>14 DEF Connects, Reconnects, Credentials, NoCredential, Opened, Stayed, Lost, SocketMoves, captionVars
<1>15. CASE MicAnswers \/ VadResets
  BY <1>1, <1>15 DEF MicAnswers, VadResets, MicMoves, captionVars
<1>16. ASSUME NEW to, Chunk(to) PROVE UNCHANGED captionVars
  BY <1>16 DEF Chunk, MicMoves, captionVars
<1>17. CASE UNCHANGED callVars
  BY <1>1, <1>17 DEF callVars, captionVars
<1>18. QED
  BY <1>1, <1>4, <1>5, <1>6, <1>7, <1>8, <1>9, <1>10, <1>11, <1>12, <1>13, <1>14,
     <1>15, <1>16, <1>17 DEF WebCallNext

(* A delta is appended to the caption of its own speaker and stage, for    *)
(* any number of captions and calls (handleMessage's streamingRef).        *)
THEOREM DeltaContinuesItsCaption == WebCallSpec => []StreamIsLast
<1>1. WebCallInit => CaptionInv
  BY DEF WebCallInit, CaptionInv, StreamIsLast
<1>2. CaptionInv /\ [WebCallNext]_callVars => CaptionInv'
  BY StepKeepsCaptionInv
<1>3. CaptionInv => StreamIsLast
  BY DEF CaptionInv
<1>4. QED BY <1>1, <1>2, <1>3, PTL DEF WebCallSpec
=============================================================================
