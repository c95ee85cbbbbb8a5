----------------------------- MODULE AudioProofs -----------------------------
(***************************************************************************)
(* A call's audio: the echo window while Session A speaks, what is heard   *)
(* of a response that the guardrail blocks (VoiceToVoice), what becomes of *)
(* the chunks when a session is lost (RecipientAudio), and the recovery of *)
(* that session: one at a time, none forgotten, and the connection it      *)
(* makes is read (SessionRecovery). For any number of requests, faults,    *)
(* events, speeches, chunks, sockets and tasks.                            *)
(***************************************************************************)
EXTENDS VoiceToVoice, RecipientAudio, SessionRecovery, SequenceTheorems, Integers, TLAPS

(* The window alone is not inductive: a cooldown would close it.  What     *)
(* keeps it open is that every chunk cancels the cooldown before it, and   *)
(* that a new one starts only when the response is done.                   *)
MaskInv == counting => window /\ cooldown \notin {"sleeping", "clearing"}

LEMMA InitEstablishesMaskInv == Init => MaskInv
BY DEF Init, GateInit, MaskInv

(* The gate's operations, whoever calls them.                              *)
LEMMA GateKeepsMaskInv ==
  ASSUME MaskInv,
         \/ PreActivate \/ OnTtsChunk \/ OnTtsDone \/ OnRecipientSpeech \/ FilterLoud
         \/ WatchdogFires \/ CooldownClears \/ CooldownCloses \/ ClearRaises
         \/ UNCHANGED gateVars
  PROVE  MaskInv'
<1>1. CASE PreActivate
  BY <1>1 DEF MaskInv, PreActivate, Activate
<1>2. CASE OnTtsChunk
  BY <1>2 DEF MaskInv, OnTtsChunk, Activate
<1>3. CASE OnTtsDone
  BY <1>3 DEF MaskInv, OnTtsDone
<1>4. CASE OnRecipientSpeech
  BY <1>4 DEF MaskInv, OnRecipientSpeech, Deactivate, gateVars
<1>5. CASE FilterLoud
  BY <1>5 DEF MaskInv, FilterLoud, Deactivate
<1>6. CASE WatchdogFires \/ CooldownClears \/ CooldownCloses \/ ClearRaises
  BY <1>6 DEF MaskInv, WatchdogFires, CooldownClears, CooldownCloses, ClearRaises
<1>7. CASE UNCHANGED gateVars
  BY <1>7 DEF MaskInv, gateVars
<1>8. QED BY <1>1, <1>2, <1>3, <1>4, <1>5, <1>6, <1>7

(* Every step of the pipeline is one operation of the gate, or none.       *)
LEMMA NextKeepsMaskInv ==
  ASSUME MaskInv, [Next]_vars
  PROVE  MaskInv'
<1>1. CASE UserCommits
  BY <1>1, GateKeepsMaskInv DEF UserCommits
<1>2. CASE AppMarks \/ AppAsks \/ FallbackGreets \/ GreeterMarks \/ GreeterAsks \/ ShieldEnds
  BY <1>2, GateKeepsMaskInv
     DEF AppMarks, AppAsks, FallbackGreets, GreeterMarks, GreeterAsks, ShieldEnds
<1>3. CASE AudioArrives
  BY <1>3, GateKeepsMaskInv DEF AudioArrives
<1>4. CASE ResponseEnds
  BY <1>4, GateKeepsMaskInv DEF ResponseEnds
<1>5. CASE SessionAStep
  BY <1>5, GateKeepsMaskInv DEF SessionAStep
<1>6. CASE FrameTaken
  BY <1>6, GateKeepsMaskInv DEF FrameTaken
<1>7. CASE VadUndecided \/ VadSpeaks \/ VadStops \/ SpeechStops
  BY <1>7, GateKeepsMaskInv DEF VadUndecided, VadSpeaks, VadStops, SpeechStops
<1>8. CASE SpeechStarts
  BY <1>8, GateKeepsMaskInv DEF SpeechStarts
<1>9. CASE TimeoutFires \/ TimeoutForces \/ HoldingExpires
  BY <1>9, GateKeepsMaskInv DEF TimeoutFires, TimeoutForces, HoldingExpires
<1>10. CASE GateTimer \/ WindowEnds \/ ClearFails
  BY <1>10, GateKeepsMaskInv DEF GateTimer, WindowEnds, ClearFails
<1>11. CASE UNCHANGED vars
  BY <1>11, GateKeepsMaskInv DEF vars
<1>12. QED
  BY <1>1, <1>2, <1>3, <1>4, <1>5, <1>6, <1>7, <1>8, <1>9, <1>10, <1>11 DEF Next

(* As long as a response is being spoken, no timer of an earlier response  *)
(* or commit opens the recipient's microphone to its echo                  *)
(* (echo_gate.py:174-177, 277).                                            *)
THEOREM SpeakingIsMasked == Spec => []StreamingIsMasked
<1>1. Init => MaskInv
  BY InitEstablishesMaskInv
<1>2. MaskInv /\ [Next]_vars => MaskInv'
  BY NextKeepsMaskInv
<1>3. MaskInv => StreamingIsMasked
  BY DEF MaskInv, StreamingIsMasked
<1>4. QED BY <1>1, <1>2, <1>3, PTL DEF Spec
-----------------------------------------------------------------------------
(* The events in flight                                                    *)

Kinds == {"audio", "harm", "transcript", "done"}
Responses(e) == {e[i][2] : i \in DOMAIN e}

\* One response after the other, each with its response.done last, and that
\* of the active one is still to come.
Ordered(e, s, n) ==
  /\ n \in Nat /\ s \in {0, n} /\ e \in Seq(Kinds \X Nat)
  /\ \A i \in 1..Len(e) :
       /\ e[i][2] \in 1..n /\ (e[i][1] = "done" => e[i][2] # s)
       /\ \A j \in 1..Len(e) : i < j =>
            e[i][2] <= e[j][2] /\ (e[i][1] = "done" => e[i][2] < e[j][2])

LEMMA FlyingAreMade ==
  ASSUME NEW e, NEW s, NEW n, Ordered(e, s, n)
  PROVE  Responses(e) \subseteq 1..n /\ 0 \notin Responses(e)
<1>1. Responses(e) \subseteq 1..n
  BY LenProperties DEF Ordered, Responses
<1>2. 0 \notin 1..n
  BY DEF Ordered
<1>3. QED BY <1>1, <1>2

(* The first event is read.                                                *)
LEMMA ReadKeepsOrder ==
  ASSUME NEW e, NEW s, NEW n, Ordered(e, s, n), e # <<>>
  PROVE  /\ Ordered(Tail(e), s, n)
         /\ Head(e)[2] \in Responses(e) /\ Responses(Tail(e)) \subseteq Responses(e)
         /\ \A y \in Responses(Tail(e)) :
              Head(e)[2] <= y /\ (Head(e)[1] = "done" => Head(e)[2] < y)
<1> DEFINE t == Tail(e)
           l == Len(e)
<1>1. /\ t \in Seq(Kinds \X Nat) /\ Len(t) = l - 1 /\ Head(e) = e[1]
      /\ \A i \in 1..Len(t) : t[i] = e[i + 1]
  BY HeadTailProperties DEF Ordered
<1>2. l \in Nat \ {0} /\ DOMAIN e = 1..l /\ DOMAIN t = 1..(l - 1)
  BY <1>1, EmptySeq, LenProperties DEF Ordered
<1> HIDE DEF t, l
<1>3. \A i \in 1..(l - 1) : i + 1 \in 1..l /\ 1 < i + 1 /\ t[i] = e[i + 1]
  BY <1>1, <1>2
<1>4. Ordered(t, s, n)
  <2>1. ASSUME NEW i \in 1..(l - 1), NEW j \in 1..(l - 1), i < j
        PROVE  t[i][2] <= t[j][2] /\ (t[i][1] = "done" => t[i][2] < t[j][2])
    <3>1. i + 1 \in 1..l /\ j + 1 \in 1..l /\ i + 1 < j + 1
      BY <1>3, <1>2, <2>1
    <3>2. QED BY <1>3, <3>1 DEF Ordered, l
  <2>2. ASSUME NEW i \in 1..(l - 1)
        PROVE  t[i][2] \in 1..n /\ (t[i][1] = "done" => t[i][2] # s)
    BY <1>3 DEF Ordered, l
  <2>3. QED BY <1>1, <1>2, <2>1, <2>2 DEF Ordered
<1>5. Head(e)[2] \in Responses(e) /\ Responses(t) \subseteq Responses(e)
  <2>1. 1 \in 1..l
    BY <1>2
  <2>2. Head(e)[2] \in Responses(e)
    BY <1>1, <1>2, <2>1 DEF Responses
  <2>3. ASSUME NEW i \in 1..(l - 1) PROVE t[i][2] \in Responses(e)
    BY <1>2, <1>3 DEF Responses
  <2>4. QED BY <1>2, <2>2, <2>3 DEF Responses
<1>6. \A y \in Responses(t) : Head(e)[2] <= y /\ (Head(e)[1] = "done" => Head(e)[2] < y)
  <2>1. ASSUME NEW i \in 1..(l - 1)
        PROVE  e[1][2] <= t[i][2] /\ (e[1][1] = "done" => e[1][2] < t[i][2])
    <3>1. 1 \in 1..l /\ i + 1 \in 1..l /\ 1 < i + 1 /\ t[i] = e[i + 1]
      BY <1>2, <1>3
    <3>2. QED BY <3>1 DEF Ordered, l
  <2>2. QED BY <1>1, <1>2, <2>1 DEF Responses
<1>7. QED BY <1>4, <1>5, <1>6 DEF t

(* The active response goes on, ...                                        *)
LEMMA EventKeepsOrder ==
  ASSUME NEW e, NEW s, NEW n, Ordered(e, s, n), s # 0, NEW k \in Kinds
  PROVE  LET f == Append(e, <<k, s>>) IN
         /\ Ordered(f, IF k = "done" THEN 0 ELSE s, n)
         /\ Responses(f) = Responses(e) \cup {s}
<1> DEFINE f == Append(e, <<k, s>>)
           l == Len(e)
<1>1. /\ f \in Seq(Kinds \X Nat) /\ Len(f) = l + 1 /\ f[l + 1] = <<k, s>>
      /\ \A i \in 1..l : f[i] = e[i]
  BY AppendProperties DEF Ordered
<1>2. l \in Nat /\ DOMAIN e = 1..l /\ DOMAIN f = 1..(l + 1) /\ l + 1 \in 1..(l + 1)
  BY <1>1, LenProperties DEF Ordered
<1> HIDE DEF f, l
<1>3. \A i \in 1..(l + 1) : i = l + 1 \/ (i \in 1..l /\ i < l + 1)
  BY <1>2
<1>4. Responses(f) = Responses(e) \cup {s}
  <2>1. l + 1 \in DOMAIN f /\ f[l + 1][2] = s
    BY <1>1, <1>2
  <2>2. \A i \in DOMAIN e : i \in DOMAIN f /\ f[i][2] = e[i][2]
    <3>1. \A i \in 1..l : i \in 1..(l + 1)
      BY <1>2
    <3>2. QED BY <1>1, <1>2, <3>1
  <2>3. \A i \in DOMAIN f : f[i][2] = s \/ i \in DOMAIN e
    BY <1>2, <1>3, <2>1
  <2>4. QED BY <2>1, <2>2, <2>3, Zenon DEF Responses
<1>5. \A i \in 1..l : e[i][2] \in 1..n /\ e[i][2] <= s /\ (e[i][1] = "done" => e[i][2] < s)
  BY DEF Ordered, l
<1>6. Ordered(f, IF k = "done" THEN 0 ELSE s, n)
  <2> DEFINE r == IF k = "done" THEN 0 ELSE s
  <2>1. n \in Nat /\ s = n /\ r \in {0, n}
    BY DEF Ordered
  <2>2. ASSUME NEW i \in 1..(l + 1)
        PROVE  f[i][2] \in 1..n /\ (f[i][1] = "done" => f[i][2] # r)
    <3>1. CASE i = l + 1
      BY <1>1, <2>1, <3>1
    <3>2. CASE i \in 1..l
      BY <1>1, <1>5, <2>1, <3>2
    <3>3. QED BY <1>3, <3>1, <3>2
  <2>3. ASSUME NEW i \in 1..(l + 1), NEW j \in 1..(l + 1), i < j
        PROVE  f[i][2] <= f[j][2] /\ (f[i][1] = "done" => f[i][2] < f[j][2])
    <3>1. i \in 1..l /\ f[i] = e[i]
      BY <1>1, <1>2, <2>3
    <3>2. CASE j = l + 1
      BY <1>1, <1>5, <3>1, <3>2
    <3>3. CASE j \in 1..l
      BY <1>1, <2>3, <3>1, <3>3 DEF Ordered, l
    <3>4. QED BY <1>3, <3>2, <3>3
  <2> HIDE DEF r
  <2>4. Ordered(f, r, n)
    BY <1>1, <2>1, <2>2, <2>3 DEF Ordered
  <2>5. QED BY <2>4 DEF r
<1>7. QED BY <1>4, <1>6 DEF f

(* ... and the next one comes after it.                                    *)
LEMMA BeginKeepsOrder ==
  ASSUME NEW e, NEW n, Ordered(e, 0, n)
  PROVE  Ordered(e, n + 1, n + 1)
BY DEF Ordered
-----------------------------------------------------------------------------
(* What is blocked                                                         *)

\* A harmful response that is still wanted is the oldest in flight, so no
\* response.done of another one comes before its audio and resets the level.
Blocked(fly, s, n, w, h, b) ==
  /\ w \subseteq 1..n /\ h \subseteq 1..n
  /\ \A x \in w \cap h : /\ x = s \/ x \in fly => b
                       /\ \A y \in fly : x <= y

BlockInv ==
  /\ Ordered(events, server, made)
  /\ Blocked(Responses(events), server, made, wanted, harmful, blocking)

(* What Session A's operations do to the events.                           *)
EventsMove == UNCHANGED <<made, wanted, harmful, blocking>>

LEMMA MovesKeepBlockInv ==
  ASSUME BlockInv, EventsMove, Ordered(events', server', made),
         Responses(events') \subseteq (Responses(events) \cup {server}) \ {0},
         server' \in {0, server}
  PROVE  BlockInv'
<1>1. server \in {0, made} /\ made \in Nat
  BY DEF BlockInv, Ordered
<1>2. \A x \in wanted \cap harmful :
        /\ x = server' \/ x \in Responses(events') => blocking
        /\ \A y \in Responses(events') : x <= y
  BY <1>1 DEF BlockInv, Blocked
<1>3. QED BY <1>2 DEF BlockInv, Blocked, EventsMove

(* A command to cancel, with or without an event read before.              *)
LEMMA CancelOrders ==
  ASSUME NEW e, Ordered(e, server, made), ServerCancels(e)
  PROVE  /\ Ordered(events', 0, made) /\ server' = 0
         /\ Responses(events') \subseteq (Responses(e) \cup {server}) \ {0}
<1>1. CASE server = 0
  <2>1. events' = e /\ server' = 0
    BY <1>1 DEF ServerCancels
  <2>2. QED BY <1>1, <2>1, FlyingAreMade
<1>2. CASE server # 0
  <2>1. events' = Append(e, <<"done", server>>) /\ server' = 0
    BY <1>2 DEF ServerCancels
  <2>2. Ordered(events', 0, made) /\ Responses(events') = Responses(e) \cup {server}
    BY <1>2, <2>1, EventKeepsOrder DEF Kinds
  <2>3. 0 \notin Responses(e)
    BY FlyingAreMade
  <2>4. QED BY <1>2, <2>1, <2>2, <2>3
<1>3. QED BY <1>1, <1>2

(* An event that is read.                                                  *)
LEMMA HeardIsFirst ==
  ASSUME BlockInv, NEW k, Hears(k)
  PROVE  /\ Ordered(Tail(events), server, made)
         /\ Heard \in Responses(events) /\ Heard \in 1..made
         /\ Responses(Tail(events)) \subseteq Responses(events) \ {0}
         /\ \A y \in Responses(Tail(events)) : Heard <= y /\ (k = "done" => Heard < y)
<1>1. Ordered(events, server, made) /\ events # <<>> /\ Head(events)[1] = k
  BY DEF BlockInv, Hears
<1>2. Responses(events) \subseteq 1..made /\ 0 \notin Responses(events)
  BY <1>1, FlyingAreMade
<1>3. /\ Ordered(Tail(events), server, made)
      /\ Head(events)[2] \in Responses(events)
      /\ Responses(Tail(events)) \subseteq Responses(events)
      /\ \A y \in Responses(Tail(events)) :
           Head(events)[2] <= y /\ (Head(events)[1] = "done" => Head(events)[2] < y)
  BY <1>1, ReadKeepsOrder
<1>4. QED BY <1>1, <1>2, <1>3 DEF Heard
(* OpenAI's steps: events of its response, or another one.                 *)
LEMMA ServerKeepsBlockInv ==
  ASSUME BlockInv, ServerStep
  PROVE  BlockInv'
<1>1. Ordered(events, server, made) /\ made \in Nat
  BY DEF BlockInv, Ordered
<1>2. CASE ServerSpeaks \/ ServerHarms
  <2>1. server # 0 /\ UNCHANGED server /\ EventsMove
    BY <1>2 DEF ServerSpeaks, ServerHarms, EventsMove, flags, marks
  <2>2. PICK k \in {"audio", "harm"} : events' = Append(events, <<k, server>>)
    BY <1>2 DEF ServerSpeaks, ServerHarms
  <2>3. k \in Kinds /\ k # "done"
    BY DEF Kinds
  <2>4. Ordered(events', server, made) /\ Responses(events') = Responses(events) \cup {server}
    BY <1>1, <2>1, <2>2, <2>3, EventKeepsOrder
  <2>5. QED BY <1>1, <2>1, <2>4, FlyingAreMade, MovesKeepBlockInv DEF EventsMove
<1>3. CASE ServerFinishes
  <2> DEFINE t == <<"transcript", server>>
             d == <<"done", server>>
             e == Append(events, t)
  <2>1. /\ server # 0 /\ server' = 0 /\ EventsMove
        /\ events' = events \o <<t, d>>
    BY <1>3 DEF ServerFinishes, EventsMove, flags, marks
  <2>2. t \in Kinds \X Nat /\ d \in Kinds \X Nat /\ events \in Seq(Kinds \X Nat)
    BY <1>1 DEF Kinds, Ordered
  <2>3. events' = Append(e, d)
    <3> HIDE DEF t, d
    <3>1. Append(events, t) = events \o <<t>> /\ events \o <<t>> \in Seq(Kinds \X Nat)
      BY <2>2, AppendIsConcat, AppendProperties
    <3>2. Append(events \o <<t>>, d) = (events \o <<t>>) \o <<d>>
      BY <2>2, <3>1, AppendIsConcat
    <3>3. (events \o <<t>>) \o <<d>> = events \o (<<t>> \o <<d>>)
      BY <2>2, ConcatAssociative
    <3>4. <<t>> \o <<d>> = <<t, d>>
      <4>1. <<t>> \in Seq(Kinds \X Nat) /\ <<d>> \in Seq(Kinds \X Nat)
        BY <2>2
      <4>2. <<t, d>> \in Seq(Kinds \X Nat) /\ Len(<<t, d>>) = 2
        BY <2>2
      <4>3. <<t>> \o <<d>> \in Seq(Kinds \X Nat) /\ Len(<<t>> \o <<d>>) = 2
        BY <4>1, ConcatProperties
      <4>4. \A i \in 1..2 : (<<t>> \o <<d>>)[i] = <<t, d>>[i]
        BY <4>1, ConcatProperties
      <4>5. QED BY <4>2, <4>3, <4>4, SeqEqual
    <3>5. QED BY <2>1, <3>1, <3>2, <3>3, <3>4
  <2>4. Ordered(e, server, made) /\ Responses(e) = Responses(events) \cup {server}
    BY <1>1, <2>1, EventKeepsOrder DEF Kinds
  <2>5. Ordered(events', 0, made) /\ Responses(events') = Responses(events) \cup {server}
    <3>1. Ordered(Append(e, d), 0, made) /\ Responses(Append(e, d)) = Responses(e) \cup {server}
      BY <2>1, <2>4, EventKeepsOrder DEF Kinds
    <3>2. QED BY <2>3, <2>4, <3>1
  <2>6. 0 \notin Responses(events) \cup {server}
    BY <1>1, <2>1, FlyingAreMade
  <2>7. QED BY <2>1, <2>5, <2>6, MovesKeepBlockInv DEF EventsMove
<1>4. CASE ServerStarts
  <2>1. /\ server = 0 /\ made' = made + 1 /\ server' = made + 1
        /\ UNCHANGED <<events, wanted, harmful, blocking>>
    BY <1>4 DEF ServerStarts, flags, marks
  <2>2. Ordered(events', server', made')
    BY <1>1, <2>1, BeginKeepsOrder
  <2>3. QED BY <1>1, <2>1, <2>2 DEF BlockInv, Blocked
<1>5. QED BY <1>2, <1>3, <1>4 DEF ServerStep

(* A request: what it makes was not heard yet.                             *)
LEMMA CreateKeepsBlockInv ==
  ASSUME BlockInv, Create, UNCHANGED <<events, harmful, blocking>>
  PROVE  BlockInv'
<1>1. Ordered(events, server, made) /\ made \in Nat
  BY DEF BlockInv, Ordered
<1>2. CASE server = 0
  <2>1. made' = made + 1 /\ server' = made + 1 /\ wanted' = wanted \cup {made + 1}
    BY <1>2 DEF Create
  <2>2. Ordered(events', server', made')
    BY <1>1, <1>2, <2>1, BeginKeepsOrder
  <2>3. made + 1 \notin harmful
    BY <1>1 DEF BlockInv, Blocked
  <2>4. QED BY <1>1, <2>1, <2>2, <2>3 DEF BlockInv, Blocked
<1>3. CASE server # 0
  BY <1>3 DEF Create, BlockInv
<1>4. QED BY <1>2, <1>3

(* The recipient interrupts: what is in flight is no longer wanted.        *)
LEMMA InterruptKeepsBlockInv ==
  ASSUME BlockInv, Cancel
  PROVE  BlockInv'
<1> DEFINE gone == Responses(events) \cup {server}
<1>1. Ordered(events, server, made)
  BY DEF BlockInv
<1>2. /\ ServerCancels(events) /\ UNCHANGED <<made, harmful>>
      /\ wanted' = wanted \ gone
  BY DEF Cancel, Responses
<1>3. /\ Ordered(events', 0, made) /\ server' = 0 /\ Responses(events') \subseteq gone \ {0}
  BY <1>1, <1>2, CancelOrders
<1>4. \A x \in wanted' \cap harmful : \A y \in gone \ {0} : x <= y
  <2>1. \A x \in wanted' \cap harmful : \A y \in Responses(events) : x <= y
    BY <1>2 DEF BlockInv, Blocked
  <2>2. wanted \subseteq 1..made /\ (server # 0 => server = made)
    BY <1>1 DEF BlockInv, Blocked, Ordered
  <2>3. \A x \in wanted' \cap harmful : server # 0 => x <= server
    BY <1>1, <1>2, <2>2 DEF Ordered
  <2>4. QED BY <2>1, <2>3
<1> HIDE DEF gone
<1>5. /\ wanted' \subseteq 1..made' /\ harmful' \subseteq 1..made'
      /\ 0 \notin 1..made' /\ wanted' \cap gone = {}
  <2>1. wanted \subseteq 1..made /\ harmful \subseteq 1..made
    BY DEF BlockInv, Blocked
  <2>2. 0 \notin 1..made
    BY <1>1 DEF Ordered
  <2>3. QED BY <1>2, <2>1, <2>2
<1>6. Blocked(Responses(events'), 0, made', wanted', harmful', blocking')
  BY <1>2, <1>3, <1>4, <1>5 DEF Blocked
<1>7. QED BY <1>2, <1>3, <1>6 DEF BlockInv

(* The listen task reads an event.                                         *)
LEMMA ListenKeepsBlockInv ==
  ASSUME BlockInv, AudioForwarded \/ ResponseDone \/ ListenStep
  PROVE  BlockInv'
<1>1. Ordered(events, server, made) /\ made \in Nat /\ server \in {0, made}
  BY DEF BlockInv, Ordered
<1>2. CASE AudioForwarded \/ AudioBlocked \/ TranscriptHeard
  <2>1. PICK k \in Kinds : Hears(k)
    BY <1>2 DEF AudioForwarded, AudioPasses, AudioBlocked, TranscriptHeard, Kinds
  <2>2. events' = Tail(events) /\ UNCHANGED server /\ EventsMove
    BY <1>2 DEF AudioForwarded, AudioBlocked, TranscriptHeard, Read, EventsMove, flags, marks
  <2>3. QED BY <2>1, <2>2, HeardIsFirst, MovesKeepBlockInv
<1>3. CASE AudioUnexpected
  <2>1. Hears("audio") /\ ServerCancels(Tail(events)) /\ EventsMove
    BY <1>3 DEF AudioUnexpected, EventsMove, flags, marks
  <2>2. /\ Ordered(Tail(events), server, made)
        /\ Responses(Tail(events)) \subseteq Responses(events)
    BY <2>1, HeardIsFirst
  <2>3. /\ Ordered(events', 0, made) /\ server' = 0
        /\ Responses(events') \subseteq (Responses(Tail(events)) \cup {server}) \ {0}
    BY <2>1, <2>2, CancelOrders
  <2>4. QED BY <2>1, <2>2, <2>3, MovesKeepBlockInv DEF EventsMove
<1>4. CASE HarmHeard
  <2>1. /\ events' = Tail(events) /\ UNCHANGED <<server, made, wanted>>
        /\ Hears("harm") /\ blocking' = TRUE /\ harmful' = harmful \cup {Heard}
    BY <1>4 DEF HarmHeard, Read
  <2>2. /\ Ordered(events', server, made) /\ Heard \in 1..made
        /\ Responses(events') \subseteq Responses(events)
        /\ \A y \in Responses(events') : Heard <= y
    BY <2>1, HeardIsFirst
  <2>3. Blocked(Responses(events'), server, made, wanted, harmful', TRUE)
    BY <2>1, <2>2 DEF BlockInv, Blocked
  <2>4. QED BY <2>1, <2>2, <2>3 DEF BlockInv
<1>5. CASE Corrected
  BY <1>5 DEF Corrected, MarkGenerating, serverVars, marks, BlockInv
<1>6. CASE CorrectionSent
  BY <1>6, CreateKeepsBlockInv DEF CorrectionSent, flags
<1>7. CASE ResponseDone
  <2>1. /\ events' = Tail(events) /\ UNCHANGED <<server, made>> /\ Hears("done")
        /\ wanted' = wanted \ {Heard} /\ harmful' = harmful \ {Heard}
    BY <1>7 DEF ResponseDone, Read
  <2>2. /\ Ordered(events', server, made)
        /\ Heard \in Responses(events) /\ Heard \in 1..made
        /\ Responses(events') \subseteq Responses(events)
        /\ \A y \in Responses(events') : Heard < y
    BY <2>1, HeardIsFirst
  \* A harmful response that is still wanted is older than the one that is
  \* done, so nothing of it is in flight.
  <2>3. ASSUME NEW x \in wanted' \cap harmful'
        PROVE  /\ x # server /\ x \notin Responses(events')
               /\ \A y \in Responses(events') : x <= y
    <3>1. x \in 1..made /\ x <= Heard /\ x # Heard
      BY <2>1, <2>2 DEF BlockInv, Blocked
    <3>2. Heard \in Nat /\ x < Heard /\ Heard <= made /\ x # 0
      BY <1>1, <2>2, <3>1
    <3>3. x # server
      BY <1>1, <3>1, <3>2
    <3>4. x \notin Responses(events')
      BY <2>2, <3>1, <3>2
    <3>5. QED BY <2>1, <2>2, <3>3, <3>4 DEF BlockInv, Blocked
  <2>4. wanted' \subseteq 1..made /\ harmful' \subseteq 1..made
    BY <2>1 DEF BlockInv, Blocked
  <2>5. Blocked(Responses(events'), server, made, wanted', harmful', blocking')
    BY <2>3, <2>4 DEF Blocked
  <2>6. QED BY <2>1, <2>2, <2>5 DEF BlockInv
<1>8. QED BY <1>2, <1>3, <1>4, <1>5, <1>6, <1>7 DEF ListenStep

(* Every step of the pipeline is one of Session A, or none.                *)
LEMMA NextKeepsBlockInv ==
  ASSUME BlockInv, [Next]_vars
  PROVE  BlockInv'
<1>1. ASSUME UNCHANGED <<events, server, made, wanted, harmful, blocking>> PROVE BlockInv'
  BY <1>1 DEF BlockInv
<1>2. CASE UNCHANGED saVars
  BY <1>1, <1>2 DEF saVars, serverVars, flags, marks
<1>3. ASSUME NEW a, Mark(a) PROVE BlockInv'
  BY <1>1, <1>3 DEF Mark, MarkGenerating, serverVars, marks
<1>4. ASSUME NEW a, Ask(a) PROVE BlockInv'
  BY <1>4, CreateKeepsBlockInv DEF Ask, flags
<1>5. CASE AppMarks \/ AppAsks \/ GreeterMarks \/ GreeterAsks
  BY <1>3, <1>4, <1>5 DEF AppMarks, AppAsks, GreeterMarks, GreeterAsks
<1>6. CASE AudioArrives \/ ResponseEnds \/ SessionAStep
  BY <1>6, ListenKeepsBlockInv, ServerKeepsBlockInv
     DEF AudioArrives, ResponseEnds, SessionAStep
<1>7. CASE SpeechStarts
  BY <1>2, <1>7, InterruptKeepsBlockInv DEF SpeechStarts, Interrupt
<1>8. CASE \/ UserCommits \/ FallbackGreets \/ ShieldEnds \/ FrameTaken \/ VadUndecided
           \/ VadSpeaks \/ VadStops \/ SpeechStops \/ TimeoutFires \/ TimeoutForces
           \/ HoldingExpires \/ GateTimer \/ WindowEnds \/ ClearFails
  BY <1>2, <1>8
     DEF UserCommits, FallbackGreets, ShieldEnds, FrameTaken, VadUndecided, VadSpeaks,
         VadStops, SpeechStops, TimeoutFires, TimeoutForces, HoldingExpires, GateTimer,
         WindowEnds, ClearFails
<1>9. CASE UNCHANGED vars
  BY <1>2, <1>9 DEF vars
<1>10. QED BY <1>5, <1>6, <1>7, <1>8, <1>9 DEF Next

(* Whatever is asked for, interrupted, corrected or begun by OpenAI itself *)
(* meanwhile: once a response was rated Level 3, no audio of it reaches the *)
(* recipient (session_a.py:221), because no response.done that resets the  *)
(* level comes between.                                                    *)
THEOREM HarmIsBlocked == Spec => []BlockedIsSilent
<1>1. Init => BlockInv
  BY LenProperties, EmptySeq DEF Init, SessionAInit, BlockInv, Ordered, Blocked, Responses
<1>2. BlockInv /\ [Next]_vars => BlockInv'
  BY NextKeepsBlockInv
<1>3. BlockInv => BlockedIsSilent
  <2> SUFFICES ASSUME BlockInv, AudioPasses, Heard \in wanted \cap harmful PROVE FALSE
    BY DEF BlockedIsSilent
  <2>1. Heard \in Responses(events) /\ ~blocking
    BY HeardIsFirst DEF AudioPasses
  <2>2. QED BY <2>1 DEF BlockInv, Blocked
<1>4. QED BY <1>1, <1>2, <1>3, PTL DEF Spec

-----------------------------------------------------------------------------
(* The ring buffer                                                         *)

\* The newest chunk is behind the write position; from there on lie those of
\* the lap before, or nothing yet.
Slot(w, n, i) ==
  IF i < w THEN n - w + i + 1
  ELSE IF n - w + i + 1 > Capacity THEN n - w + i + 1 - Capacity ELSE 0
RingInv ==
  /\ RingTypeOK
  /\ writePos <= lastReceived
  /\ \A i \in 0..Capacity - 1 : slots[i] = Slot(writePos, lastReceived, i)

LEMMA NextPosition ==
  ASSUME NEW w \in 0..Capacity - 1
  PROVE  (w + 1) % Capacity = IF w + 1 = Capacity THEN 0 ELSE w + 1
BY CapacityAssumption

LEMMA WriteKeepsRing ==
  ASSUME RingInv, Write
  PROVE  RingInv'
<1> USE CapacityAssumption DEF RingInv, RingTypeOK, Write
<1>1. writePos' = IF writePos + 1 = Capacity THEN 0 ELSE writePos + 1
  BY NextPosition
<1>2. RingTypeOK' /\ writePos' <= lastReceived'
  BY <1>1
<1>3. ASSUME NEW i \in 0..Capacity - 1
      PROVE  slots'[i] = Slot(writePos', lastReceived', i)
  <2>1. slots'[i] = IF i = writePos THEN lastReceived + 1 ELSE Slot(writePos, lastReceived, i)
    OBVIOUS
  <2>2. CASE writePos + 1 = Capacity
    <3>1. writePos' = 0 /\ lastReceived' = lastReceived + 1
      BY <1>1, <2>2
    <3>2. QED BY <2>1, <2>2, <3>1 DEF Slot
  <2>3. CASE writePos + 1 # Capacity
    <3>1. writePos' = writePos + 1 /\ lastReceived' = lastReceived + 1
      BY <1>1, <2>3
    <3>2. slots'[i] = Slot(writePos + 1, lastReceived + 1, i)
      <4>1. CASE i = writePos
        BY <2>1, <4>1 DEF Slot
      <4>2. CASE i # writePos
        BY <2>1, <4>2 DEF Slot
      <4>3. QED BY <4>1, <4>2
    <3>3. QED BY <3>1, <3>2
  <2>4. QED BY <2>2, <2>3
<1>4. QED BY <1>2, <1>3

LEMMA RingHoldsTheTail == RingInv => UnsentIsTheTail
<1> SUFFICES ASSUME RingInv PROVE UnsentIsTheTail
  OBVIOUS
<1> USE CapacityAssumption DEF RingInv, RingTypeOK
<1>1. ASSUME NEW n \in lastSent + 1..lastReceived, n + Capacity > lastReceived
      PROVE  \E i \in DOMAIN slots : slots[i] = n
  <2> DEFINE k == n - 1 - (lastReceived - writePos)
             i == IF k < 0 THEN k + Capacity ELSE k
  <2>1. i \in 0..Capacity - 1
    BY <1>1
  <2>2. Slot(writePos, lastReceived, i) = n
    BY <1>1 DEF Slot
  <2>3. QED BY <2>1, <2>2
<1>2. ASSUME NEW i \in DOMAIN slots, slots[i] \in lastSent + 1..lastReceived
      PROVE  slots[i] + Capacity > lastReceived
  BY <1>2 DEF Slot
<1>3. QED BY <1>1, <1>2 DEF UnsentIsTheTail, Unsent
-----------------------------------------------------------------------------
(* The chunks through a loss                                               *)

Accounted == delivered \cup transcribed \cup gated \cup wasted \cup late \cup swallowed
\* Everything in the buffer up to n is accounted for, but for those of S.
AccountedUpTo(n, S) ==
  \A k \in 1..n : k + Capacity > lastReceived => k \in Accounted \cup S

\* The mark jumps: to the chunk that is being sent, or to the last one when a
\* catch-up ends. Neither may jump over a chunk that nobody has heard of.
JumpInv ==
  /\ isRecovering <=> catchup # "no"
  /\ AccountedUpTo(lastSent, {})
  /\ handling # 0 => AccountedUpTo(handling, {handling})
  /\ callUp /\ ~isRecovering /\ ~isDegraded => AccountedUpTo(lastReceived, {handling})
  /\ catchup = "transcribing" => AccountedUpTo(lastReceived, batch)
UserIsWhispered == path = "user" => DegradedIsWhispered
ForgetInv == RingInv /\ AudioTypeOK /\ UserIsWhispered /\ JumpInv

LEMMA ForgetInit == AudioInit => ForgetInv
<1> SUFFICES ASSUME AudioInit PROVE ForgetInv
  OBVIOUS
<1> USE CapacityAssumption, AudioAssumption DEF AudioInit, RingInit
<1>1. RingInv
  BY DEF RingInv, RingTypeOK, Slot
<1>2. RingTypeOK
  BY <1>1 DEF RingInv
<1>3. lastReceived \in 0..MaxChunks /\ lastSent \in 0..lastReceived /\ troubles \in 0..MaxTroubles
      /\ handling \in 0..lastReceived
  OBVIOUS
<1>4. AudioTypeOK
  BY <1>2, <1>3 DEF AudioTypeOK
<1>5. UserIsWhispered /\ JumpInv
  BY DEF UserIsWhispered, DegradedIsWhispered, JumpInv, AccountedUpTo
<1>6. QED BY <1>1, <1>4, <1>5 DEF ForgetInv

LEMMA ForgetImplies == ForgetInv => UnsentIsTheTail /\ NoAudioIsForgotten
<1>1. ForgetInv => SentIsAccountedFor
  BY DEF ForgetInv, JumpInv, AccountedUpTo, Accounted, SentIsAccountedFor, AudioTypeOK, Retained
<1>2. QED BY <1>1, RingHoldsTheTail DEF ForgetInv, UserIsWhispered, NoAudioIsForgotten

(* The window only moves on, and what was accounted for stays so.          *)
LEMMA AccountsLast ==
  ASSUME lastReceived \in Nat, lastReceived' \in {lastReceived, lastReceived + 1},
         Accounted \subseteq Accounted',
         NEW n \in Nat, n <= lastReceived, NEW S, AccountedUpTo(n, S)
  PROVE  \A k \in 1..n : k + Capacity > lastReceived' => k \in Accounted' \cup S
BY CapacityAssumption DEF AccountedUpTo

(* The handler of the stream.                                              *)
LEMMA ArrivalKeepsTypes ==
  ASSUME ForgetInv, Arrives
  PROVE  /\ RingInv' /\ RingTypeOK'
         /\ lastReceived' = lastReceived + 1 /\ lastReceived' \in 0..MaxChunks
         /\ lastSent' = lastSent /\ lastSent' \in 0..lastReceived'
         /\ lastReceived \in Nat /\ callUp /\ handling = 0
         /\ lastReceived' \in 1..lastReceived'
         /\ \A S \in SUBSET (1..lastReceived) : S \subseteq 1..lastReceived'
BY WriteKeepsRing, AudioAssumption DEF ForgetInv, AudioTypeOK, RingInv, RingTypeOK, Arrives, Write

LEMMA ArrivalsKeepForgetInv ==
  ASSUME ForgetInv, ChunkHeld \/ ChunkDegraded \/ ChunkGated \/ ChunkTaken
  PROVE  ForgetInv'
<1> USE CapacityAssumption
<1>1. Arrives
  BY DEF ChunkHeld, ChunkDegraded, ChunkGated, ChunkTaken
<1>2. /\ RingInv' /\ RingTypeOK'
      /\ lastReceived' = lastReceived + 1 /\ lastReceived' \in 0..MaxChunks
      /\ lastSent' = lastSent /\ lastSent' \in 0..lastReceived'
      /\ lastReceived \in Nat /\ callUp /\ handling = 0
      /\ lastReceived' \in 1..lastReceived'
      /\ \A S \in SUBSET (1..lastReceived) : S \subseteq 1..lastReceived'
  BY <1>1, ArrivalKeepsTypes
<1>3. AudioTypeOK'
  <2>1. CASE ChunkHeld
    BY <1>2, <2>1 DEF ForgetInv, AudioTypeOK, ChunkHeld, recoveryVars, degradedVars
  <2>2. CASE ChunkGated
    BY <1>2, <2>2 DEF ForgetInv, AudioTypeOK, ChunkGated, recoveryVars, degradedVars
  <2>3. CASE ChunkTaken
    BY <1>2, <2>3 DEF ForgetInv, AudioTypeOK, ChunkTaken, recoveryVars, degradedVars, fates
  <2>4. CASE ChunkDegraded
    <3>1. /\ degradedBuffer' \subseteq degradedBuffer \cup {lastReceived'}
          /\ whispering' \subseteq whispering \cup degradedBuffer \cup {lastReceived'}
          /\ whispered' \subseteq whispered \cup degradedBuffer \cup {lastReceived'}
          /\ waived' = waived \cup {lastReceived'}
      BY <2>4 DEF ChunkDegraded, Collect, degradedVars
    <3>2. {degradedBuffer', whispering', whispered', waived'} \subseteq SUBSET (1..lastReceived')
      BY <1>2, <3>1 DEF ForgetInv, AudioTypeOK
    <3>3. QED BY <1>2, <2>4, <3>2 DEF ForgetInv, AudioTypeOK, ChunkDegraded, recoveryVars
  <2>5. QED BY <2>1, <2>2, <2>3, <2>4
<1>4. UserIsWhispered'
  BY DEF ForgetInv, UserIsWhispered, DegradedIsWhispered, ChunkHeld, ChunkDegraded, Collect,
         ChunkGated, ChunkTaken, degradedVars, fates
<1>5. Accounted \subseteq Accounted' /\ lastSent' \in Nat /\ lastSent' <= lastReceived
  <2>1. Accounted \subseteq Accounted'
    BY DEF Accounted, ChunkHeld, ChunkDegraded, ChunkGated, ChunkTaken, fates
  <2>2. lastSent' \in Nat /\ lastSent' <= lastReceived
    BY <1>2 DEF ForgetInv, AudioTypeOK
  <2>3. QED BY <2>1, <2>2
<1>6. JumpInv'
  <2>1. /\ JumpInv /\ UNCHANGED recoveryVars /\ UNCHANGED callUp
    BY DEF ForgetInv, ChunkHeld, ChunkDegraded, ChunkGated, ChunkTaken, recoveryVars
  <2>2. AccountedUpTo(lastSent, {})'
    BY <1>2, <1>5, <2>1, AccountsLast DEF JumpInv, AccountedUpTo
  <2>3. ASSUME NEW S, AccountedUpTo(lastReceived, S), lastReceived' \in Accounted' \cup S
        PROVE \A k \in 1..lastReceived' : k + Capacity > lastReceived' => k \in Accounted' \cup S
    BY <1>2, <1>5, <2>3, AccountsLast DEF AccountedUpTo
  <2>4. CASE ChunkHeld
    BY <1>2, <2>1, <2>2, <2>3, <2>4 DEF JumpInv, AccountedUpTo, recoveryVars, ChunkHeld, Accounted
  <2>5. CASE ChunkGated
    BY <1>2, <2>1, <2>2, <2>3, <2>5 DEF JumpInv, AccountedUpTo, recoveryVars, ChunkGated, Accounted
  <2>6. CASE ChunkTaken
    BY <1>2, <2>1, <2>2, <2>3, <2>6
       DEF JumpInv, AccountedUpTo, recoveryVars, ChunkTaken, Accounted, fates
  <2>7. CASE ChunkDegraded
    BY <1>2, <2>1, <2>2, <2>7 DEF JumpInv, AccountedUpTo, recoveryVars, ChunkDegraded
  <2>8. QED BY <2>4, <2>5, <2>6, <2>7
<1>7. QED BY <1>2, <1>3, <1>4, <1>6 DEF ForgetInv
(* The chunk is sent, swallowed, or raises.                                *)
LEMMA SendingKeepsForgetInv ==
  ASSUME ForgetInv, ChunkSent
  PROVE  ForgetInv'
<1>1. /\ lastReceived' = lastReceived /\ slots' = slots /\ writePos' = writePos
      /\ lastReceived \in Nat /\ handling \in 1..lastReceived /\ handling' = 0
      /\ lastSent \in 0..lastReceived /\ lastSent' \in 0..lastReceived'
      /\ lastSent' \in {lastSent, handling}
  BY DEF ForgetInv, AudioTypeOK, RingTypeOK, ChunkSent, MarkSent, ringVars
<1>2. RingInv' /\ RingTypeOK'
  BY <1>1 DEF ForgetInv, RingInv, RingTypeOK, Slot
<1>3. AudioTypeOK'
  <2>1. /\ delivered' \subseteq delivered \cup {handling}
        /\ swallowed' \subseteq swallowed \cup {handling}
    BY DEF ChunkSent
  <2>2. delivered' \in SUBSET (1..lastReceived') /\ swallowed' \in SUBSET (1..lastReceived')
    BY <1>1, <2>1 DEF ForgetInv, AudioTypeOK
  <2>3. handling' \in 0..lastReceived' /\ lastReceived' \in 0..MaxChunks
    BY <1>1 DEF ForgetInv, AudioTypeOK
  <2>4. callUp' \in BOOLEAN
    BY DEF ForgetInv, AudioTypeOK, ChunkSent
  <2>5. QED
    BY <1>1, <1>2, <2>2, <2>3, <2>4
       DEF ForgetInv, AudioTypeOK, ChunkSent, recoveryVars, degradedVars
<1>4. UserIsWhispered'
  BY DEF ForgetInv, UserIsWhispered, DegradedIsWhispered, ChunkSent, degradedVars
<1>5. JumpInv'
  <2>1. Accounted \subseteq Accounted' /\ UNCHANGED recoveryVars /\ JumpInv
    BY DEF ForgetInv, Accounted, ChunkSent, recoveryVars
  <2>2. CASE conn = "broken"
    <3>1. ~callUp' /\ lastSent' = lastSent /\ Accounted' = Accounted
      BY <2>2 DEF ChunkSent, ringVars, Accounted
    <3>2. QED BY <1>1, <2>1, <3>1 DEF JumpInv, AccountedUpTo, recoveryVars
  <2>3. CASE conn # "broken"
    <3>1. handling \in Accounted' /\ callUp' = callUp
      BY <2>3 DEF ChunkSent, Accounted
    <3>2. QED BY <1>1, <2>1, <3>1 DEF JumpInv, AccountedUpTo, recoveryVars
  <2>4. QED BY <2>2, <2>3
<1>6. QED BY <1>2, <1>3, <1>4, <1>5 DEF ForgetInv

(* The session is lost, and its recovery begins, fails or catches up.      *)
LEMMA RecoveryKeepsForgetInv ==
  ASSUME ForgetInv,
         \/ DegradedAnswered \/ ConnectionBreaks \/ LossNoticed \/ RecoveryStarts
         \/ SessionDropped \/ Reconnected \/ ReconnectFails \/ CaughtUp \/ CatchUpFails
  PROVE  ForgetInv'
<1>1. /\ lastReceived' = lastReceived /\ slots' = slots /\ writePos' = writePos
      /\ lastReceived \in Nat /\ lastSent \in 0..lastReceived
      /\ lastSent' \in 0..lastReceived' /\ handling' = handling
      /\ waived' = waived /\ whispered' = whispered /\ path' = path /\ callUp' = callUp
      /\ degradedBuffer' = degradedBuffer /\ whispering' \in {whispering, {}}
      /\ gated' = gated /\ delivered' = delivered /\ swallowed' = swallowed /\ late' = late
  BY DEF ForgetInv, AudioTypeOK, RingTypeOK, ringVars, fates, degradedVars, MarkAllSent,
         DegradedAnswered, ConnectionBreaks, LossNoticed, RecoveryStarts, SessionDropped, Reconnected,
         ReconnectFails, CaughtUp, CatchUpFails
<1>2. RingInv' /\ RingTypeOK'
  BY <1>1 DEF ForgetInv, RingInv, RingTypeOK, Slot
<1>3. UserIsWhispered'
  BY <1>1 DEF ForgetInv, UserIsWhispered, DegradedIsWhispered
<1>4. Unsent = {n \in lastSent + 1..lastReceived : n + Capacity > lastReceived}
  BY RingHoldsTheTail DEF ForgetInv, UnsentIsTheTail
<1>5. AudioTypeOK' /\ JumpInv'
  <2> USE DEF ForgetInv
  <2>1. CASE ConnectionBreaks \/ LossNoticed \/ SessionDropped
    <3>1. UNCHANGED <<lastSent, recoveryVars, fates>>
      BY <2>1 DEF ConnectionBreaks, LossNoticed, SessionDropped, ringVars
    <3>2. AudioTypeOK'
      <4>1. troubles' \in 0..MaxTroubles /\ conn' \in {"up", "broken", "closed"}
        BY <2>1, AudioAssumption DEF AudioTypeOK, ConnectionBreaks, LossNoticed, SessionDropped, Trouble
      <4>2. QED BY <1>1, <1>2, <3>1, <4>1 DEF AudioTypeOK, recoveryVars, fates
    <3>3. JumpInv'
      BY <1>1, <3>1 DEF JumpInv, AccountedUpTo, Accounted, recoveryVars, fates
    <3>4. QED BY <3>2, <3>3
  <2>2. CASE RecoveryStarts
    <3>1. UNCHANGED <<lastSent, fates>> /\ isRecovering' /\ catchup' = "reconnecting" /\ UNCHANGED <<isDegraded, batch, conn>>
      BY <2>2 DEF RecoveryStarts, ringVars
    <3>2. AudioTypeOK'
      <4>1. troubles' \in 0..MaxTroubles
        BY <2>2, AudioAssumption DEF AudioTypeOK, RecoveryStarts, Trouble
      <4>2. QED BY <1>1, <1>2, <3>1, <4>1 DEF AudioTypeOK, fates
    <3>3. JumpInv'
      BY <1>1, <3>1 DEF JumpInv, AccountedUpTo, Accounted, fates
    <3>4. QED BY <3>2, <3>3
  <2>3. CASE Reconnected
    <3>1. UNCHANGED <<lastSent, fates, isDegraded, troubles>> /\ Accounted' = Accounted
      BY <2>3 DEF Reconnected, ringVars, fates, Accounted
    <3>2. AudioTypeOK'
      <4>1. Unsent \in SUBSET (1..lastReceived)
        BY <1>1, <1>4
      <4>2. batch' \in SUBSET (1..lastReceived) /\ isRecovering' \in BOOLEAN
            /\ conn' = "up" /\ catchup' \in {"no", "transcribing"}
        BY <2>3, <4>1 DEF AudioTypeOK, Reconnected
      <4>3. QED BY <1>1, <1>2, <3>1, <4>2 DEF AudioTypeOK, fates
    <3>3. CASE Unsent = {}
      <4>1. lastSent = lastReceived
        BY <1>1, <1>4, <3>3, CapacityAssumption
      <4>2. JumpInv'
        BY <1>1, <2>3, <3>1, <3>3, <4>1 DEF JumpInv, AccountedUpTo, Reconnected
      <4>3. QED BY <3>2, <4>2
    <3>4. CASE Unsent # {}
      <4>1. catchup' = "transcribing" /\ isRecovering' = isRecovering /\ batch' = Unsent /\ isRecovering
        BY <2>3, <3>4 DEF Reconnected, JumpInv
      <4>2. AccountedUpTo(lastReceived, batch)'
        BY <1>1, <1>4, <3>1, <4>1, CapacityAssumption DEF JumpInv, AccountedUpTo
      <4>3. JumpInv'
        BY <1>1, <3>1, <4>1, <4>2 DEF JumpInv, AccountedUpTo
      <4>4. QED BY <3>2, <4>3
    <3>5. QED BY <3>3, <3>4
  <2>4. CASE ReconnectFails
    <3>1. UNCHANGED <<lastSent, fates, troubles, batch>> /\ ~isRecovering' /\ catchup' = "no" /\ isDegraded'
      BY <2>4 DEF ReconnectFails, ringVars
    <3>2. AudioTypeOK'
      BY <1>1, <1>2, <2>4, <3>1 DEF AudioTypeOK, fates, ReconnectFails
    <3>3. JumpInv'
      BY <1>1, <3>1 DEF JumpInv, AccountedUpTo, Accounted, fates
    <3>4. QED BY <3>2, <3>3
  <2>5. CASE CaughtUp \/ CatchUpFails
    <3>1. AudioTypeOK'
      <4>1. CASE CaughtUp
        <5>1. /\ transcribed' \in SUBSET (1..lastReceived) /\ wasted' \in SUBSET (1..lastReceived)
              /\ batch' = {} /\ isRecovering' = FALSE /\ catchup' = "no"
          BY <4>1 DEF AudioTypeOK, CaughtUp
        <5>2. UNCHANGED <<conn, isDegraded, troubles>>
          BY <4>1 DEF CaughtUp
        <5>3. QED BY <1>1, <1>2, <5>1, <5>2 DEF AudioTypeOK
      <4>2. CASE CatchUpFails
        <5>1. /\ wasted' \in SUBSET (1..lastReceived) /\ batch' = {}
              /\ isRecovering' = FALSE /\ catchup' = "no"
          BY <4>2 DEF AudioTypeOK, CatchUpFails
        <5>2. /\ UNCHANGED <<conn, isDegraded, transcribed, troubles>>
              /\ transcribed \in SUBSET (1..lastReceived)
          BY <4>2 DEF CatchUpFails, AudioTypeOK
        <5>3. QED BY <1>1, <1>2, <5>1, <5>2 DEF AudioTypeOK
      <4>3. QED BY <2>5, <4>1, <4>2
    <3>2. /\ ~isRecovering' /\ catchup' = "no" /\ AccountedUpTo(lastReceived, batch)
          /\ Accounted' = Accounted \cup batch /\ lastSent' \in {lastSent, lastReceived}
      BY <2>5 DEF CaughtUp, CatchUpFails, MarkAllSent, Accounted, JumpInv, ringVars
    <3>3. JumpInv'
      BY <1>1, <3>2 DEF JumpInv, AccountedUpTo
    <3>4. QED BY <3>1, <3>3
  <2>6. CASE DegradedAnswered
    <3>1. /\ UNCHANGED <<lastSent, recoveryVars, conn, wasted, troubles>>
          /\ transcribed \subseteq transcribed' /\ transcribed' \subseteq transcribed \cup whispering
      BY <2>6 DEF DegradedAnswered, ringVars
    <3>2. AudioTypeOK'
      BY <1>1, <1>2, <3>1 DEF AudioTypeOK, recoveryVars
    <3>3. JumpInv'
      BY <1>1, <3>1 DEF JumpInv, AccountedUpTo, Accounted, recoveryVars
    <3>4. QED BY <3>2, <3>3
  <2>7. QED BY <2>1, <2>2, <2>3, <2>4, <2>5, <2>6
<1>6. QED BY <1>2, <1>3, <1>5 DEF ForgetInv

LEMMA AudioInvariant == AudioSpec => []ForgetInv
<1>1. ForgetInv /\ [AudioNext]_audioVars => ForgetInv'
  <2> SUFFICES ASSUME ForgetInv, [AudioNext]_audioVars PROVE ForgetInv'
    OBVIOUS
  <2>1. CASE UNCHANGED audioVars
    BY <2>1 DEF ForgetInv, RingInv, RingTypeOK, Slot, AudioTypeOK, UserIsWhispered,
                DegradedIsWhispered, JumpInv, AccountedUpTo, Accounted, audioVars, ringVars,
                recoveryVars, degradedVars, fates
  <2>2. QED
    BY <2>1, ArrivalsKeepForgetInv, SendingKeepsForgetInv, RecoveryKeepsForgetInv DEF AudioNext
<1>2. QED BY <1>1, ForgetInit, PTL DEF AudioSpec

(* A recovery is given what is missing of the audio: all of it that is     *)
(* still in the buffer and nothing else (get_unsent), whatever its size.   *)
THEOREM RecoveryGetsTheTail == AudioSpec => []UnsentIsTheTail
BY AudioInvariant, ForgetImplies, PTL

(* However often the session is lost, degraded and restored, a chunk that  *)
(* the buffer still has and nobody got stays in the gap that the next      *)
(* reconnect transcribes, unless it was filtered or lost in one of three   *)
(* ways: Whisper or its caption failed, it came while Whisper was at work, *)
(* its session was marked closed. The user's audio of degraded mode goes   *)
(* to Whisper or waits to (recovery.py against the handlers of the two     *)
(* streams).                                                               *)
THEOREM LossIsCaughtUp == AudioSpec => []NoAudioIsForgotten
BY AudioInvariant, ForgetImplies, PTL

-----------------------------------------------------------------------------
(* One recovery of a session: type correctness                             *)

LEMMA InitEstablishesType == RecoveryInit => RecoveryTypeOK
<1> SUFFICES ASSUME RecoveryInit PROVE RecoveryTypeOK
  OBVIOUS
<1>1. PICK s \in Sockets, l \in Listeners :
        /\ ws = s /\ open = {s} /\ registered = l
        /\ listener = [k \in Listeners |-> IF k = l THEN "reading" ELSE "idle"]
        /\ reads = [k \in Listeners |-> IF k = l THEN s ELSE None]
  BY DEF RecoveryInit
<1>2. /\ ws \in Sockets \cup {None} /\ open \in SUBSET Sockets
      /\ registered \in Listeners \cup {None}
      /\ reads \in [Listeners -> Sockets \cup {None}]
      /\ listener \in [Listeners -> {"idle", "reading"}]
  BY <1>1
<1>3. listener \in [Listeners -> {"idle", "spawned", "reading", "handling", "starting"}]
  BY <1>2
<1>4. /\ closed = FALSE /\ recovering = FALSE /\ degraded = FALSE /\ attempt = 0
      /\ state = "CONNECTED" /\ heartbeat = "asleep" /\ task = None
      /\ recovery = [r \in Recoveries |-> "idle"] /\ ending = "no" /\ upsets = 0
  BY DEF RecoveryInit
<1>5. attempt \in 0..MaxAttempts /\ upsets \in 0..MaxUpsets
  BY <1>4, RecoveryAssumption
<1>6. recovery \in [Recoveries -> {"idle", "backoff", "closing", "connecting",
                                  "catchup", "recovered", "degraded"}]
  BY <1>4
<1>7. closed \in BOOLEAN /\ recovering \in BOOLEAN /\ degraded \in BOOLEAN
  BY <1>4
<1>8. QED BY <1>2, <1>3, <1>4, <1>5, <1>6, <1>7 DEF RecoveryTypeOK

(* Sockets, readers and detection.                                         *)
LEMMA ListenKeepsType ==
  ASSUME RecoveryTypeOK,
         \/ \E s \in Sockets : SocketBreaks(s)
         \/ \E l \in Listeners : ListenerStep(l)
         \/ HeartbeatStep
  PROVE  RecoveryTypeOK'
<1> USE RecoveryAssumption DEF RecoveryTypeOK
<1>1. ASSUME NEW s \in Sockets, SocketBreaks(s) PROVE RecoveryTypeOK'
  BY <1>1 DEF SocketBreaks, Upset, listenVars, recoveryFlags, taskVars
<1>2. ASSUME NEW l \in Listeners, ListenEnds(l) PROVE RecoveryTypeOK'
  BY <1>2 DEF ListenEnds, ListenerOver, recoveryFlags, taskVars
<1>3. ASSUME NEW l \in Listeners,
             HandleMessage(l) \/ MessageHandled(l) \/ ListenBegins(l)
      PROVE  RecoveryTypeOK'
  BY <1>3 DEF HandleMessage, MessageHandled, ListenBegins, Upset, socketVars, recoveryFlags, taskVars
<1>4. ASSUME NEW l \in Listeners, SessionError(l) PROVE RecoveryTypeOK'
  BY <1>4 DEF SessionError, StartRecovery, Upset, socketVars, taskVars
<1>5. ASSUME NEW l \in Listeners, NEW r \in Recoveries, ErrorNotified(l, r)
      PROVE  RecoveryTypeOK'
  BY <1>5 DEF ErrorNotified, Launch, socketVars
<1>6. CASE Heartbeat
  BY <1>6 DEF Heartbeat, StartRecovery, Upset, socketVars, listenVars
<1>7. ASSUME NEW r \in Recoveries, HeartbeatNotified(r) PROVE RecoveryTypeOK'
  BY <1>7 DEF HeartbeatNotified, Launch, socketVars
<1>8. QED
  BY <1>1, <1>2, <1>3, <1>4, <1>5, <1>6, <1>7 DEF ListenerStep, HeartbeatStep

(* The recovery task.                                                      *)
LEMMA RecoveryKeepsType ==
  ASSUME RecoveryTypeOK, NEW r \in Recoveries, RecoveryStep(r)
  PROVE  RecoveryTypeOK'
<1> USE RecoveryAssumption DEF RecoveryTypeOK
<1>1. CASE RecoveryTimeout(r)
  BY <1>1 DEF RecoveryTimeout, EnterDegraded, socketVars, listenVars
<1>2. CASE CloseOld(r) \/ OldClosed(r)
  BY <1>2 DEF CloseOld, OldClosed, listenVars, recoveryFlags
<1>3. CASE SocketConnected(r)
  BY <1>3 DEF SocketConnected, listenVars, recoveryFlags
<1>4. CASE ConnectFails(r)
  <2>1. CASE attempt < MaxAttempts
    BY <1>4, <2>1 DEF ConnectFails, socketVars, listenVars
  <2>2. CASE ~(attempt < MaxAttempts)
    BY <1>4, <2>2 DEF ConnectFails, EnterDegraded, socketVars, listenVars
  <2>3. QED BY <2>1, <2>2
<1>5. CASE CatchUpOver(r)
  BY <1>5 DEF CatchUpOver, socketVars, listenVars
<1>6. CASE Announced(r)
  BY <1>6 DEF Announced, socketVars, recoveryFlags
<1>7. QED BY <1>1, <1>2, <1>3, <1>4, <1>5, <1>6 DEF RecoveryStep

(* The end of the call.                                                    *)
LEMMA EndKeepsType ==
  ASSUME RecoveryTypeOK, EndStep
  PROVE  RecoveryTypeOK'
<1> USE RecoveryAssumption DEF RecoveryTypeOK
<1>1. CASE StopHeartbeat
  BY <1>1 DEF StopHeartbeat, socketVars, listenVars, recoveryFlags
<1>2. CASE StopRecovery
  BY <1>2 DEF StopRecovery, socketVars, listenVars, recoveryFlags
<1>3. CASE CancelListen
  BY <1>3 DEF CancelListen, ListenerOver, listenVars, recoveryFlags, taskVars
<1>4. CASE CloseSession \/ SessionClosed
  BY <1>4 DEF CloseSession, SessionClosed, listenVars, recoveryFlags, taskVars
<1>5. QED BY <1>1, <1>2, <1>3, <1>4 DEF EndStep

LEMMA NextKeepsType ==
  ASSUME RecoveryTypeOK, [RecoveryNext]_sessionVars
  PROVE  RecoveryTypeOK'
<1>1. CASE UNCHANGED sessionVars
  BY <1>1 DEF RecoveryTypeOK, sessionVars, socketVars, listenVars, recoveryFlags, taskVars
<1>2. QED
  BY <1>1, ListenKeepsType, RecoveryKeepsType, EndKeepsType DEF RecoveryNext

(* The state of the session, its tasks and its manager, for every value of *)
(* the constants; the attempts never pass the maximum (recovery.py:299).   *)
THEOREM RecoveryTypeCorrect == RecoverySpec => []RecoveryTypeOK
BY InitEstablishesType, NextKeepsType, PTL DEF RecoverySpec

-----------------------------------------------------------------------------
(* Who is at work                                                          *)

Starts(l) == listener[l] = "starting"
Recovers(r) == recovery[r] \in Working

(* Nobody is at work unless _recovering is set: this is what makes the     *)
(* guard of _start_recovery exclude a second one.                          *)
WorkIsMarked ==
  /\ \A l \in Listeners : Starts(l) => recovering
  /\ heartbeat = "starting" => recovering
  /\ \A r \in Recoveries : Recovers(r) => recovering

WorkIsSingle ==
  /\ \A k, l \in Listeners : Starts(k) /\ Starts(l) => k = l
  /\ \A q, r \in Recoveries : Recovers(q) /\ Recovers(r) => q = r
  /\ \A l \in Listeners : Starts(l) => heartbeat # "starting"
  /\ \A r \in Recoveries : Recovers(r) => heartbeat # "starting"
  /\ \A l \in Listeners, r \in Recoveries : ~(Starts(l) /\ Recovers(r))

MarkIsWorkedOn ==
  recovering /\ ending = "no" =>
    \/ \E l \in Listeners : Starts(l)
    \/ heartbeat = "starting"
    \/ \E r \in Recoveries : Recovers(r)

WorkInv == WorkIsMarked /\ WorkIsSingle /\ MarkIsWorkedOn

LEMMA InitEstablishesWorkInv == RecoveryInit => WorkInv
<1> SUFFICES ASSUME RecoveryInit PROVE WorkInv
  OBVIOUS
<1>1. \A l \in Listeners : ~Starts(l)
  BY DEF RecoveryInit, Starts
<1>2. \A r \in Recoveries : ~Recovers(r)
  BY DEF RecoveryInit, Recovers, Working
<1>3. heartbeat # "starting" /\ ~recovering
  BY DEF RecoveryInit
<1>4. QED BY <1>1, <1>2, <1>3 DEF WorkInv, WorkIsMarked, WorkIsSingle, MarkIsWorkedOn

(* A step that leaves everybody at work, or idle, as they were.            *)
LEMMA SameWork ==
  ASSUME WorkInv, recovering' = recovering,
         heartbeat' = "starting" <=> heartbeat = "starting",
         \A l \in Listeners : Starts(l)' <=> Starts(l),
         \A r \in Recoveries : Recovers(r)' <=> Recovers(r),
         ending' = "no" => ending = "no"
  PROVE  WorkInv'
BY DEF WorkInv, WorkIsMarked, WorkIsSingle, MarkIsWorkedOn

(* A step at or after the end of the call that may send somebody home.     *)
LEMMA LessWork ==
  ASSUME WorkInv, recovering' = recovering, ending' # "no",
         heartbeat' = "starting" => heartbeat = "starting",
         \A l \in Listeners : Starts(l)' => Starts(l),
         \A r \in Recoveries : Recovers(r)' => Recovers(r)
  PROVE  WorkInv'
BY DEF WorkInv, WorkIsMarked, WorkIsSingle, MarkIsWorkedOn

(* A recovery starts: nobody is at work, since it was not marked.          *)
LEMMA WorkStarts ==
  ASSUME WorkInv, ~recovering, recovering' = TRUE,
         \A r \in Recoveries : Recovers(r)' <=> Recovers(r),
         \/ /\ heartbeat' = "starting"
            /\ \A l \in Listeners : Starts(l)' <=> Starts(l)
         \/ /\ heartbeat' = heartbeat
            /\ \E k \in Listeners : \A l \in Listeners : Starts(l)' <=> (l = k)
  PROVE  WorkInv'
BY DEF WorkInv, WorkIsMarked, WorkIsSingle, MarkIsWorkedOn

(* The one who started it hands it to the recovery task.                   *)
LEMMA WorkIsHandedOn ==
  ASSUME WorkInv, recovering' = recovering, ending' = ending,
         NEW r \in Recoveries, Recovers(r)',
         \A q \in Recoveries \ {r} : Recovers(q)' <=> Recovers(q),
         heartbeat' # "starting", \A l \in Listeners : ~Starts(l)',
         \/ heartbeat = "starting"
         \/ \E l \in Listeners : Starts(l)
  PROVE  WorkInv'
BY DEF WorkInv, WorkIsMarked, WorkIsSingle, MarkIsWorkedOn

(* The recovery task is done and takes the mark back.                      *)
LEMMA WorkEnds ==
  ASSUME WorkInv, NEW r \in Recoveries, Recovers(r),
         recovering' = FALSE, ~Recovers(r)',
         \A q \in Recoveries \ {r} : Recovers(q)' <=> Recovers(q),
         heartbeat' = heartbeat, \A l \in Listeners : Starts(l)' <=> Starts(l)
  PROVE  WorkInv'
BY DEF WorkInv, WorkIsMarked, WorkIsSingle, MarkIsWorkedOn

LEMMA ListenKeepsWorkInv ==
  ASSUME RecoveryTypeOK, WorkInv,
         \/ \E s \in Sockets : SocketBreaks(s)
         \/ \E l \in Listeners : ListenerStep(l)
         \/ HeartbeatStep
  PROVE  WorkInv'
<1> USE DEF Starts, Recovers
<1>1. ASSUME NEW s \in Sockets, SocketBreaks(s) PROVE WorkInv'
  BY <1>1, SameWork DEF SocketBreaks, listenVars, recoveryFlags, taskVars
<1>2. ASSUME NEW l \in Listeners,
             ListenEnds(l) \/ HandleMessage(l) \/ MessageHandled(l) \/ ListenBegins(l)
      PROVE  WorkInv'
  <2>1. listener[l] # "starting" /\ listener'[l] # "starting"
    BY <1>2 DEF ListenEnds, ListenerOver, HandleMessage, MessageHandled, ListenBegins,
                RecoveryTypeOK
  <2>2. \A k \in Listeners \ {l} : listener'[k] = listener[k]
    BY <1>2 DEF ListenEnds, ListenerOver, HandleMessage, MessageHandled, ListenBegins,
                RecoveryTypeOK
  <2>3. UNCHANGED <<recovering, heartbeat, recovery, ending>>
    BY <1>2 DEF ListenEnds, HandleMessage, MessageHandled, ListenBegins, recoveryFlags, taskVars
  <2>4. QED BY <2>1, <2>2, <2>3, SameWork
<1>3. ASSUME NEW l \in Listeners, SessionError(l) PROVE WorkInv'
  <2>1. ~recovering /\ recovering' = TRUE /\ UNCHANGED <<heartbeat, recovery>>
    BY <1>3 DEF SessionError, StartRecovery, taskVars
  <2>2. listener' = [listener EXCEPT ![l] = "starting"]
    BY <1>3 DEF SessionError
  <2>3. \A k \in Listeners : ~Starts(k)
    BY <2>1 DEF WorkInv, WorkIsMarked
  <2>4. \A k \in Listeners : Starts(k)' <=> (k = l)
    BY <2>2, <2>3 DEF RecoveryTypeOK
  <2>5. QED BY <2>1, <2>4, WorkStarts
<1>4. ASSUME NEW l \in Listeners, NEW r \in Recoveries, ErrorNotified(l, r)
      PROVE  WorkInv'
  <2>1. Starts(l) /\ ~Starts(l)' /\ \A k \in Listeners \ {l} : Starts(k)' <=> Starts(k)
    BY <1>4 DEF ErrorNotified, RecoveryTypeOK
  <2>2. \A k \in Listeners : ~Starts(k)'
    BY <2>1 DEF WorkInv, WorkIsSingle
  <2>3. heartbeat' # "starting"
    BY <1>4, <2>1 DEF WorkInv, WorkIsSingle, ErrorNotified
  <2>4. Recovers(r)' /\ \A q \in Recoveries \ {r} : Recovers(q)' <=> Recovers(q)
    BY <1>4 DEF ErrorNotified, Launch, RecoveryTypeOK, Working
  <2>5. UNCHANGED <<recovering, ending>>
    BY <1>4 DEF ErrorNotified, Launch
  <2>6. QED BY <2>1, <2>2, <2>3, <2>4, <2>5, WorkIsHandedOn
<1>5. CASE Heartbeat
  <2>1. ~recovering /\ recovering' = TRUE /\ heartbeat' = "starting"
        /\ UNCHANGED <<listener, recovery>>
    BY <1>5 DEF Heartbeat, StartRecovery, listenVars
  <2>2. QED BY <2>1, WorkStarts
<1>6. ASSUME NEW r \in Recoveries, HeartbeatNotified(r) PROVE WorkInv'
  <2>1. heartbeat = "starting" /\ heartbeat' # "starting" /\ UNCHANGED listener
    BY <1>6 DEF HeartbeatNotified
  <2>2. \A k \in Listeners : ~Starts(k)'
    BY <2>1 DEF WorkInv, WorkIsSingle
  <2>3. Recovers(r)' /\ \A q \in Recoveries \ {r} : Recovers(q)' <=> Recovers(q)
    BY <1>6 DEF HeartbeatNotified, Launch, RecoveryTypeOK, Working
  <2>4. UNCHANGED <<recovering, ending>>
    BY <1>6 DEF HeartbeatNotified, Launch
  <2>5. QED BY <2>1, <2>2, <2>3, <2>4, WorkIsHandedOn
<1>7. QED
  BY <1>1, <1>2, <1>3, <1>4, <1>5, <1>6 DEF ListenerStep, HeartbeatStep

LEMMA RecoveryKeepsWorkInv ==
  ASSUME RecoveryTypeOK, WorkInv, NEW r \in Recoveries, RecoveryStep(r)
  PROVE  WorkInv'
<1> USE DEF Starts, Recovers
<1>1. CASE RecoveryTimeout(r) \/ CatchUpOver(r)
  <2>1. /\ Recovers(r) /\ ~Recovers(r)' /\ recovering' = FALSE
        /\ \A q \in Recoveries \ {r} : Recovers(q)' <=> Recovers(q)
        /\ UNCHANGED <<heartbeat, listener>>
    BY <1>1 DEF RecoveryTimeout, EnterDegraded, CatchUpOver, RecoveryTypeOK, Working, listenVars
  <2>2. QED BY <2>1, WorkEnds
<1>2. CASE CloseOld(r) \/ OldClosed(r) \/ SocketConnected(r)
  <2>1. Recovers(r) /\ Recovers(r)'
        /\ \A q \in Recoveries \ {r} : Recovers(q)' <=> Recovers(q)
    BY <1>2 DEF CloseOld, OldClosed, SocketConnected, RecoveryTypeOK, Working
  <2>2. UNCHANGED <<recovering, heartbeat, listener, ending>>
    BY <1>2 DEF CloseOld, OldClosed, SocketConnected, listenVars, recoveryFlags
  <2>3. QED BY <2>1, <2>2, SameWork
<1>3. CASE Announced(r)
  <2>1. \A q \in Recoveries : Recovers(q)' <=> Recovers(q)
    BY <1>3 DEF Announced, RecoveryTypeOK, Working
  <2>2. \A l \in Listeners : Starts(l)' <=> Starts(l)
    BY <1>3 DEF Announced, RecoveryTypeOK
  <2>3. UNCHANGED <<recovering, heartbeat, ending>>
    BY <1>3 DEF Announced, recoveryFlags
  <2>4. QED BY <2>1, <2>2, <2>3, SameWork
<1>4. CASE ConnectFails(r)
  <2>1. Recovers(r) /\ (\A q \in Recoveries \ {r} : Recovers(q)' <=> Recovers(q))
        /\ UNCHANGED <<heartbeat, listener, ending>>
    BY <1>4 DEF ConnectFails, EnterDegraded, RecoveryTypeOK, Working, listenVars
  <2>2. CASE attempt < MaxAttempts
    <3>1. Recovers(r)' /\ UNCHANGED recovering
      BY <1>4, <2>2 DEF ConnectFails, RecoveryTypeOK, Working
    <3>2. QED BY <2>1, <3>1, SameWork
  <2>3. CASE ~(attempt < MaxAttempts)
    <3>1. ~Recovers(r)' /\ recovering' = FALSE
      BY <1>4, <2>3 DEF ConnectFails, EnterDegraded, RecoveryTypeOK, Working
    <3>2. QED BY <2>1, <3>1, WorkEnds
  <2>4. QED BY <2>2, <2>3
<1>5. QED BY <1>1, <1>2, <1>3, <1>4 DEF RecoveryStep

LEMMA EndKeepsWorkInv ==
  ASSUME RecoveryTypeOK, WorkInv, EndStep
  PROVE  WorkInv'
<1> USE DEF Starts, Recovers
<1>1. recovering' = recovering /\ ending' # "no"
  BY DEF EndStep, StopHeartbeat, StopRecovery, CancelListen, CloseSession, SessionClosed, recoveryFlags
<1>2. heartbeat' = "starting" => heartbeat = "starting"
  BY DEF EndStep, StopHeartbeat, StopRecovery, CancelListen, CloseSession, SessionClosed,
         taskVars
<1>3. \A l \in Listeners : Starts(l)' => Starts(l)
  BY DEF EndStep, StopHeartbeat, StopRecovery, CancelListen, ListenerOver, CloseSession,
         SessionClosed, listenVars, RecoveryTypeOK
<1>4. \A r \in Recoveries : Recovers(r)' => Recovers(r)
  BY DEF EndStep, StopHeartbeat, StopRecovery, CancelListen, CloseSession, SessionClosed,
         taskVars, RecoveryTypeOK, Working
<1>5. QED BY <1>1, <1>2, <1>3, <1>4, LessWork

LEMMA NextKeepsWorkInv ==
  ASSUME RecoveryTypeOK, WorkInv, [RecoveryNext]_sessionVars
  PROVE  WorkInv'
<1>1. CASE UNCHANGED sessionVars
  BY <1>1, SameWork DEF sessionVars, listenVars, recoveryFlags, taskVars, Starts, Recovers
<1>2. QED
  BY <1>1, ListenKeepsWorkInv, RecoveryKeepsWorkInv, EndKeepsWorkInv DEF RecoveryNext

(* The three kinds of members of AtWork.                                   *)
LEMMA AtWorkIsThreefold ==
  ASSUME NEW v \in AtWork
  PROVE  \/ \E l \in Listeners : Starts(l) /\ v = <<"listener", l>>
         \/ heartbeat = "starting" /\ v = <<"heartbeat", None>>
         \/ \E r \in Recoveries : Recovers(r) /\ v = <<"recovery", r>>
BY DEF AtWork, Starts, Recovers

LEMMA SingleIsOne == WorkInv => OneRecoveryAtATime
<1> SUFFICES ASSUME WorkInv, NEW v \in AtWork, NEW w \in AtWork PROVE v = w
  BY DEF OneRecoveryAtATime
<1>1. CASE \E l \in Listeners : Starts(l) /\ v = <<"listener", l>>
  BY <1>1, AtWorkIsThreefold DEF WorkInv, WorkIsSingle
<1>2. CASE heartbeat = "starting" /\ v = <<"heartbeat", None>>
  BY <1>2, AtWorkIsThreefold DEF WorkInv, WorkIsSingle
<1>3. CASE \E r \in Recoveries : Recovers(r) /\ v = <<"recovery", r>>
  BY <1>3, AtWorkIsThreefold DEF WorkInv, WorkIsSingle
<1>4. QED BY <1>1, <1>2, <1>3, AtWorkIsThreefold

LEMMA MarkedIsWorkedOn == WorkInv => RecoveringIsWorkedOn
<1> SUFFICES ASSUME WorkInv, recovering, ending = "no" PROVE AtWork # {}
  BY DEF RecoveringIsWorkedOn
<1>1. CASE \E l \in Listeners : Starts(l)
  <2>1. PICK l \in Listeners : Starts(l)
    BY <1>1
  <2>2. <<"listener", l>> \in {"listener"} \X {k \in Listeners : listener[k] = "starting"}
    BY <2>1 DEF Starts
  <2>3. QED BY <2>2 DEF AtWork
<1>2. CASE heartbeat = "starting"
  BY <1>2 DEF AtWork
<1>3. CASE \E r \in Recoveries : Recovers(r)
  <2>1. PICK r \in Recoveries : Recovers(r)
    BY <1>3
  <2>2. <<"recovery", r>> \in {"recovery"} \X {q \in Recoveries : recovery[q] \in Working}
    BY <2>1 DEF Recovers
  <2>3. QED BY <2>2 DEF AtWork
<1>4. QED BY <1>1, <1>2, <1>3 DEF WorkInv, MarkIsWorkedOn

(* However errors, heartbeats and closed connections are detected, one     *)
(* recovery of the session is at work at a time (recovery.py:177).         *)
THEOREM RecoveryIsSingle == RecoverySpec => []OneRecoveryAtATime
<1>1. RecoveryInit => RecoveryTypeOK /\ WorkInv
  BY InitEstablishesType, InitEstablishesWorkInv
<1>2. RecoveryTypeOK /\ WorkInv /\ [RecoveryNext]_sessionVars => (RecoveryTypeOK /\ WorkInv)'
  BY NextKeepsType, NextKeepsWorkInv
<1>3. QED BY <1>1, <1>2, SingleIsOne, PTL DEF RecoverySpec

(* Until the call ends, a session marked as recovering has somebody who    *)
(* will take the mark back, whatever fails (recovery.py:286).              *)
THEOREM RecoveryIsNotForgotten == RecoverySpec => []RecoveringIsWorkedOn
<1>1. RecoveryInit => RecoveryTypeOK /\ WorkInv
  BY InitEstablishesType, InitEstablishesWorkInv
<1>2. RecoveryTypeOK /\ WorkInv /\ [RecoveryNext]_sessionVars => (RecoveryTypeOK /\ WorkInv)'
  BY NextKeepsType, NextKeepsWorkInv
<1>3. QED BY <1>1, <1>2, MarkedIsWorkedOn, PTL DEF RecoverySpec

(* A recovery that is marked has exactly one task at work (recovery.py:177 *)
(* and 286 together).                                                      *)
THEOREM RecoveryIsOne == RecoverySpec => []OneRecoveryWorks
<1>1. RecoveryTypeOK /\ OneRecoveryAtATime /\ RecoveringIsWorkedOn => OneRecoveryWorks
  BY DEF OneRecoveryWorks
<1>2. QED BY <1>1, RecoveryTypeCorrect, RecoveryIsSingle, RecoveryIsNotForgotten, PTL
-----------------------------------------------------------------------------
(* The connection and who reads it                                         *)

\* Only a recovery replaces the websocket, and it has closed the old one by then.
SocketInv ==
  ending = "no" =>
    /\ open \subseteq {ws}
    /\ \A r \in Recoveries : recovery[r] \in {"closing", "connecting"} => open = {}

\* Whether it is being recovered or not, an open connection has a reader, or a
\* listen task that will begin, or the recovery task that will create one.
IsRead ==
  \/ \E l \in Listeners : reads[l] = ws \/ listener[l] = "spawned"
  \/ \E r \in Recoveries : recovery[r] \in {"catchup", "recovered"}
HeardInv == ending = "no" /\ ~closed /\ ws \in open => IsRead

ConnectionInv == SocketInv /\ HeardInv

LEMMA InitEstablishesConnectionInv == RecoveryInit => ConnectionInv
<1> SUFFICES ASSUME RecoveryInit PROVE ConnectionInv
  OBVIOUS
<1>1. PICK s \in Sockets, l \in Listeners :
        /\ ws = s /\ open = {s}
        /\ reads = [k \in Listeners |-> IF k = l THEN s ELSE None]
  BY DEF RecoveryInit
<1>2. recovery = [r \in Recoveries |-> "idle"]
  BY DEF RecoveryInit
<1>3. SocketInv
  BY <1>1, <1>2 DEF SocketInv
<1>4. reads[l] = ws
  BY <1>1
<1>5. QED BY <1>3, <1>4 DEF ConnectionInv, HeardInv, IsRead

(* A listen task only stops to read when it marks the session closed.      *)
LEMMA ListenKeepsConnectionInv ==
  ASSUME RecoveryTypeOK, ConnectionInv,
         \/ \E s \in Sockets : SocketBreaks(s)
         \/ \E l \in Listeners : ListenerStep(l)
         \/ HeartbeatStep
  PROVE  ConnectionInv'
<1> USE DEF ConnectionInv, SocketInv, HeardInv, IsRead, RecoveryTypeOK
<1>1. ASSUME NEW s \in Sockets, SocketBreaks(s) PROVE ConnectionInv'
  BY <1>1 DEF SocketBreaks, listenVars, taskVars
<1>2. ASSUME NEW l \in Listeners, ListenEnds(l) PROVE ConnectionInv'
  BY <1>2 DEF ListenEnds, taskVars
<1>3. ASSUME NEW l \in Listeners, HandleMessage(l) \/ MessageHandled(l) \/ SessionError(l)
      PROVE  ConnectionInv'
  <2>1. /\ UNCHANGED <<ws, closed, open, reads, recovery, ending>>
        /\ \A k \in Listeners : listener[k] = "spawned" => listener'[k] = "spawned"
    BY <1>3 DEF HandleMessage, MessageHandled, SessionError, socketVars, taskVars
  <2>2. QED BY <2>1
<1>4. ASSUME NEW l \in Listeners, ListenBegins(l) PROVE ConnectionInv'
  <2>1. UNCHANGED <<ws, closed, open, recovery, ending>> /\ reads'[l] = ws
    BY <1>4 DEF ListenBegins, socketVars, taskVars
  <2>2. QED BY <2>1
<1>5. ASSUME NEW r \in Recoveries, Launch(r),
             \A k \in Listeners : listener[k] = "spawned" => listener'[k] = "spawned"
      PROVE  ConnectionInv'
  <2>1. /\ UNCHANGED <<ws, closed, open, reads, ending>>
        /\ recovery[r] = "idle" /\ recovery'[r] = "backoff"
        /\ \A q \in Recoveries \ {r} : recovery'[q] = recovery[q]
    BY <1>5 DEF Launch, socketVars
  <2>2. SocketInv'
    BY <2>1
  <2>3. IsRead => IsRead'
    BY <1>5, <2>1
  <2>4. QED BY <2>1, <2>2, <2>3
<1>6. ASSUME NEW l \in Listeners, NEW r \in Recoveries, ErrorNotified(l, r)
      PROVE  ConnectionInv'
  <2>1. \A k \in Listeners : listener[k] = "spawned" => listener'[k] = "spawned"
    BY <1>6 DEF ErrorNotified
  <2>2. QED BY <1>5, <1>6, <2>1 DEF ErrorNotified
<1>7. ASSUME NEW r \in Recoveries, HeartbeatNotified(r) PROVE ConnectionInv'
  BY <1>5, <1>7 DEF HeartbeatNotified
<1>8. CASE Heartbeat
  BY <1>8 DEF Heartbeat, socketVars, listenVars
<1>9. QED
  BY <1>1, <1>2, <1>3, <1>4, <1>6, <1>7, <1>8 DEF ListenerStep, HeartbeatStep

(* The recovery closes, connects, and hands the connection to a new reader;*)
(* being the only one, nobody replaces its connection on the way.          *)
LEMMA RecoveryKeepsConnectionInv ==
  ASSUME RecoveryTypeOK, WorkInv, ConnectionInv, NEW r \in Recoveries, RecoveryStep(r)
  PROVE  ConnectionInv'
<1> USE RecoveryAssumption DEF ConnectionInv, SocketInv, HeardInv, IsRead, RecoveryTypeOK
<1>1. CASE RecoveryTimeout(r)
  <2>1. /\ UNCHANGED <<ws, closed, open, listener, reads, ending>>
        /\ recovery[r] = "backoff" /\ recovery'[r] = "degraded"
        /\ \A q \in Recoveries \ {r} : recovery'[q] = recovery[q]
    BY <1>1 DEF RecoveryTimeout, EnterDegraded, socketVars, listenVars
  <2>2. SocketInv'
    BY <2>1
  <2>3. IsRead => IsRead'
    BY <2>1
  <2>4. QED BY <2>1, <2>2, <2>3
<1>2. CASE CloseOld(r)
  <2>1. ending' = ending /\ ws' = ws /\ (ending = "no" => open' = {})
    BY <1>2 DEF CloseOld
  <2>2. QED BY <2>1
<1>3. CASE OldClosed(r)
  <2>1. ending' = ending /\ open' = open /\ (ending = "no" => open = {})
    BY <1>3 DEF OldClosed
  <2>2. QED BY <2>1
<1>4. CASE SocketConnected(r)
  <2>1. /\ ending' = ending /\ recovery[r] = "connecting" /\ recovery'[r] = "catchup"
        /\ \A q \in Recoveries \ {r} : recovery'[q] = recovery[q]
        /\ ending = "no" => open' = {ws'}
    BY <1>4 DEF SocketConnected
  <2>2. \A q \in Recoveries \ {r} : recovery[q] \notin {"closing", "connecting"}
    BY <2>1 DEF WorkInv, WorkIsSingle, Recovers, Working
  <2>3. SocketInv'
    BY <2>1, <2>2
  <2>4. IsRead'
    BY <2>1
  <2>5. QED BY <2>3, <2>4
<1>5. CASE ConnectFails(r)
  <2>1. ending' = ending /\ open' = open /\ (ending = "no" => open = {})
    BY <1>5 DEF ConnectFails, socketVars
  <2>2. QED BY <2>1
<1>6. CASE CatchUpOver(r)
  <2>1. /\ UNCHANGED <<ws, closed, open, listener, reads, ending>> /\ recovery'[r] = "recovered"
        /\ \A q \in Recoveries \ {r} : recovery'[q] = recovery[q]
    BY <1>6 DEF CatchUpOver, socketVars, listenVars
  <2>2. SocketInv'
    BY <2>1
  <2>3. QED BY <2>1, <2>2
<1>7. CASE Announced(r)
  <2>1. /\ UNCHANGED <<ws, closed, open, reads, ending>> /\ recovery'[r] = "idle"
        /\ \A q \in Recoveries \ {r} : recovery'[q] = recovery[q]
        /\ \A k \in Listeners : listener[k] = "spawned" => listener'[k] = "spawned"
    BY <1>7 DEF Announced, socketVars
  <2>2. SocketInv'
    BY <2>1
  <2>3. CASE recovery[r] = "recovered"
    <3>1. \E l \in Listeners : listener'[l] = "spawned"
      BY <1>7, <2>3 DEF Announced
    <3>2. QED BY <2>2, <3>1
  <2>4. CASE recovery[r] = "degraded"
    <3>1. IsRead => IsRead'
      BY <2>1, <2>4
    <3>2. QED BY <2>1, <2>2, <3>1
  <2>5. QED BY <1>7, <2>3, <2>4 DEF Announced
<1>8. QED BY <1>1, <1>2, <1>3, <1>4, <1>5, <1>6, <1>7 DEF RecoveryStep

LEMMA NextKeepsConnectionInv ==
  ASSUME RecoveryTypeOK, WorkInv, ConnectionInv, [RecoveryNext]_sessionVars
  PROVE  ConnectionInv'
<1>1. CASE UNCHANGED sessionVars
  BY <1>1 DEF sessionVars, socketVars, listenVars, taskVars, ConnectionInv, SocketInv, HeardInv,
              IsRead
<1>2. CASE EndStep
  <2>1. ending' # "no"
    BY <1>2 DEF EndStep, StopHeartbeat, StopRecovery, CancelListen, CloseSession, SessionClosed
  <2>2. QED BY <2>1 DEF ConnectionInv, SocketInv, HeardInv
<1>3. QED
  BY <1>1, <1>2, ListenKeepsConnectionInv, RecoveryKeepsConnectionInv DEF RecoveryNext

(* However often a session is lost and recovered, until the call ends no   *)
(* websocket but the session's own is open, and one that counts as healthy *)
(* is read or about to be read (recovery.py, _recovery_loop;               *)
(* session_manager.py, connect and close).                                 *)
THEOREM ConnectionsAreHeard == RecoverySpec => []ConnectionIsHeard
<1>1. RecoveryInit => RecoveryTypeOK /\ WorkInv /\ ConnectionInv
  BY InitEstablishesType, InitEstablishesWorkInv, InitEstablishesConnectionInv
<1>2. /\ RecoveryTypeOK /\ WorkInv /\ ConnectionInv /\ [RecoveryNext]_sessionVars
      => (RecoveryTypeOK /\ WorkInv /\ ConnectionInv)'
  BY NextKeepsType, NextKeepsWorkInv, NextKeepsConnectionInv
<1>3. ConnectionInv => OpenSocketIsOurs
  BY DEF ConnectionInv, SocketInv, OpenSocketIsOurs
<1>4. RecoveryTypeOK /\ WorkInv /\ ConnectionInv => HealthyIsHeard
  <2> SUFFICES ASSUME WorkInv, ConnectionInv, ending = "no", ~closed, ~recovering, ws \in open
               PROVE  \/ \E l \in Listeners : reads[l] = ws \/ listener[l] = "spawned"
                      \/ \E r \in Recoveries : recovery[r] = "recovered"
    BY DEF HealthyIsHeard
  <2>1. \A r \in Recoveries : recovery[r] # "catchup"
    BY DEF WorkInv, WorkIsMarked, Recovers, Working
  <2>2. QED BY <2>1 DEF ConnectionInv, HeardInv, IsRead
<1>5. RecoveryTypeOK /\ WorkInv /\ ConnectionInv => ConnectionIsHeard
  BY <1>3, <1>4 DEF ConnectionIsHeard
<1>6. QED BY <1>1, <1>2, <1>5, PTL DEF RecoverySpec
=============================================================================
