----------------------------- MODULE ChatProofs -----------------------------
(***************************************************************************)
(* What holds of the chat for any number of tabs, conversations, calls and *)
(* requests in flight, whatever the model replies.                         *)
(***************************************************************************)
EXTENDS Chat, FiniteSetTheorems, TLAPS

----------------------------------------------------------------------------
(* Rows of calls are never revived                                         *)

\* A call that is over stays over, however late the answer of the relay to
\* its start is handled.
THEOREM CallsEndOnce == ChatSpec => FinishedStaysFinished
<1> DEFINE Kept == \A k \in Calls : calls[k].status \in Finished => calls'[k].status \in Finished
<1> DEFINE Rows == /\ DOMAIN calls = Calls
                   /\ \A k \in Calls : DOMAIN calls[k] = {"status", "conv", "dialed"}
<1>1. ChatInit => Rows
  BY DEF ChatInit, NoCall
<1>2. ASSUME Rows, ChatNext PROVE Rows' /\ Kept
  <2> USE <1>2
  <2>1. CASE UNCHANGED calls
    BY <2>1
  <2>2. ASSUME NEW i \in Ids, CallClaims(i) PROVE Rows' /\ Kept
    <3> DEFINE k == Unused(Calls, calls)
    <3>1. SomeUnused(Calls, calls) => k \in Calls /\ calls[k].status = "none"
      BY DEF SomeUnused, Unused
    <3>2. QED BY <2>2, <3>1 DEF CallClaims, Answer, NoCall, Finished
  <2>3. ASSUME NEW i \in Ids, StartClaims(i) PROVE Rows' /\ Kept
    BY <2>3 DEF StartClaims, Finished
  <2>4. ASSUME NEW i \in Ids, StartDials(i) PROVE Rows' /\ Kept
    BY <2>4 DEF StartDials
  <2>5. ASSUME NEW i \in Ids, StartFails(i) PROVE Rows' /\ Kept
    BY <2>5 DEF StartFails, markCallFailed, Finished
  <2>6. ASSUME NEW i \in Ids, StartPromotes(i) PROVE Rows' /\ Kept
    BY <2>6 DEF StartPromotes, Promoted, Finished
  <2>7. ASSUME NEW k \in Calls, RelayFinishes(k) PROVE Rows' /\ Kept
    BY <2>7 DEF RelayFinishes, Finished
  <2>8. ASSUME NEW t \in Tabs, UserActs(t) PROVE UNCHANGED calls
    BY <2>8 DEF UserActs, LoadPage, NewChatMenu, ShowHistory, ShowChat, handleScenarioSelect,
                sendMessage, handleConfirm, handleEdit, handleNewConversation, Reset, CallEnded
  <2>9. ASSUME NEW i \in Ids, \/ CreateInserts(i) \/ CreateGreets(i) \/ ResumeReads(i)
                              \/ SendAsks(i) \/ (\E reply \in Replies : SendReplied(i, reply))
                              \/ SendUpdates(i) \/ CallChecks(i) \/ StartChecks(i)
                              \/ SendApologizes(i) \/ RouteFails(i) \/ Answered(i)
                              \/ LosesConnection(i)
        PROVE  UNCHANGED calls
    BY <2>9 DEF CreateInserts, CreateGreets, ResumeReads, SendAsks, SendReplied, SendUpdates,
                CallChecks, StartChecks, SendApologizes, RouteFails, Answered, LosesConnection
  <2>10. QED BY <1>2, <2>1, <2>2, <2>3, <2>4, <2>5, <2>6, <2>7, <2>8, <2>9
         DEF ChatNext, Serves, Fails, InFlight
<1>3. ASSUME Rows, UNCHANGED chatVars PROVE Rows' /\ Kept
  BY <1>3 DEF chatVars
<1>4. QED BY <1>1, <1>2, <1>3, PTL DEF ChatSpec, FinishedStaysFinished

----------------------------------------------------------------------------
(* No more calls than READYs                                               *)

CallsOf(c) == {k \in Calls : calls[k].conv = c}

\* A conversation that is ready has a READY left; one that does not exist
\* yet has no call.
SpendInv ==
  /\ DOMAIN calls = Calls /\ DOMAIN conv = Convs
  /\ \A k \in Calls : DOMAIN calls[k] = {"status", "conv", "dialed"}
  /\ \A c \in Convs :
       /\ DOMAIN conv[c] = {"status", "data", "messages", "readied"}
       /\ conv[c].readied \in Nat
       /\ Cardinality(CallsOf(c)) <= conv[c].readied
       /\ conv[c].status = "READY" => Cardinality(CallsOf(c)) < conv[c].readied
       /\ conv[c].status = "none" => CallsOf(c) = {}

(* The calls of a conversation are finitely many.                          *)
LEMMA CallsAreFinite ==
  ASSUME NEW c PROVE IsFiniteSet(CallsOf(c)) /\ Cardinality(CallsOf(c)) \in Nat
<1>1. CallsOf(c) \subseteq Calls
  BY DEF CallsOf
<1>2. QED BY <1>1, FS_Subset, FS_CardinalityType, ChatAssumption

(* What the routes write to a conversation: a READY is counted, any other  *)
(* status is written without one.                                          *)
LEMMA WritesKeepSpend ==
  ASSUME SpendInv, NEW d,
         DOMAIN conv' = Convs,
         \A c \in Convs \ {d} : conv'[c] = conv[c],
         d \in Convs =>
           /\ DOMAIN conv'[d] = DOMAIN conv[d]
           /\ conv'[d].status = "none" => conv[d].status = "none"
           /\ \/ conv'[d].readied = conv[d].readied + 1
              \/ /\ conv'[d].readied = conv[d].readied
                 /\ conv'[d].status = "READY" => conv[d].status = "READY",
         DOMAIN calls' = Calls,
         \A k \in Calls : DOMAIN calls'[k] = DOMAIN calls[k] /\ calls'[k].conv = calls[k].conv
  PROVE  SpendInv'
<1>1. \A c : CallsOf(c)' = CallsOf(c)
  BY DEF CallsOf
<1>2. QED BY <1>1, CallsAreFinite DEF SpendInv

(* The claim spends the READY it has found.                                *)
LEMMA ClaimKeepsSpend ==
  ASSUME SpendInv, NEW i \in Ids, CallClaims(i)
  PROVE  SpendInv'
<1> DEFINE d == reqs[i].conv
           k == Unused(Calls, calls)
<1>1. CASE ~Claimable(d)
  BY <1>1 DEF CallClaims, SpendInv, CallsOf
<1>2. CASE Claimable(d)
  <2>1. k \in Calls /\ calls[k].status = "none"
    BY <1>2 DEF CallClaims, SomeUnused, Unused
  <2>2. /\ calls' = [calls EXCEPT ![k] = [NoCall EXCEPT !.status = "PENDING", !.conv = d]]
        /\ conv' = [conv EXCEPT ![d].status = "CALLING"]
    BY <1>2 DEF CallClaims
  <2> HIDE DEF k
  <2>3. \A c : CallsOf(c)' \subseteq CallsOf(c) \cup {k}
    BY <2>1, <2>2 DEF CallsOf, NoCall, SpendInv
  <2>4. \A c : c # d => CallsOf(c)' \subseteq CallsOf(c)
    BY <2>1, <2>2 DEF CallsOf, NoCall, SpendInv
  <2>5. \A c : /\ Cardinality(CallsOf(c)') \in Nat
               /\ Cardinality(CallsOf(c)') <= Cardinality(CallsOf(c)) + 1
               /\ c # d => Cardinality(CallsOf(c)') <= Cardinality(CallsOf(c))
    <3> SUFFICES ASSUME NEW c
                 PROVE  /\ Cardinality(CallsOf(c)') \in Nat
                        /\ Cardinality(CallsOf(c)') <= Cardinality(CallsOf(c)) + 1
                        /\ c # d => Cardinality(CallsOf(c)') <= Cardinality(CallsOf(c))
      OBVIOUS
    <3>1. IsFiniteSet(CallsOf(c)) /\ Cardinality(CallsOf(c)) \in Nat
      BY CallsAreFinite
    <3>2. /\ IsFiniteSet(CallsOf(c) \cup {k})
          /\ Cardinality(CallsOf(c) \cup {k}) <= Cardinality(CallsOf(c)) + 1
          /\ Cardinality(CallsOf(c) \cup {k}) \in Nat
      <4>1. /\ IsFiniteSet(CallsOf(c) \cup {k})
            /\ \/ Cardinality(CallsOf(c) \cup {k}) = Cardinality(CallsOf(c))
               \/ Cardinality(CallsOf(c) \cup {k}) = Cardinality(CallsOf(c)) + 1
        BY <3>1, FS_AddElement, Zenon
      <4>2. QED BY <3>1, <4>1
    <3>3. /\ IsFiniteSet(CallsOf(c)')
          /\ Cardinality(CallsOf(c)') <= Cardinality(CallsOf(c) \cup {k})
      BY <3>2, <2>3, FS_Subset
    <3>4. c # d => Cardinality(CallsOf(c)') <= Cardinality(CallsOf(c))
      BY <3>1, <2>4, FS_Subset
    <3>5. Cardinality(CallsOf(c)') \in Nat
      BY <3>3, FS_CardinalityType
    <3>6. QED BY <3>1, <3>2, <3>3, <3>4, <3>5
  <2>6. QED
    <3>1. /\ DOMAIN calls' = Calls /\ DOMAIN conv' = Convs
          /\ \A x \in Calls : DOMAIN calls'[x] = {"status", "conv", "dialed"}
      BY <2>1, <2>2 DEF SpendInv, NoCall
    <3>2. ASSUME NEW c \in Convs
          PROVE  /\ DOMAIN conv'[c] = {"status", "data", "messages", "readied"}
                 /\ conv'[c].readied = conv[c].readied
                 /\ c # d => conv'[c].status = conv[c].status
                 /\ c = d => conv'[c].status = "CALLING" /\ conv[c].status = "READY"
      BY <1>2, <2>2 DEF SpendInv, Claimable
    <3>3. ASSUME NEW c \in Convs, c # d, conv[c].status = "none" PROVE CallsOf(c)' = {}
      BY <3>3, <2>4 DEF SpendInv
    <3>4. QED BY <3>1, <3>2, <3>3, <2>5, CallsAreFinite DEF SpendInv
<1>3. QED BY <1>1, <1>2

(* A new conversation takes the place of none.                             *)
LEMMA CreationKeepsSpend ==
  ASSUME SpendInv, NEW i \in Ids, CreateInserts(i)
  PROVE  SpendInv'
<1> DEFINE d == Unused(Convs, conv)
<1>1. d \in Convs /\ conv[d].status = "none"
  BY DEF CreateInserts, SomeUnused, Unused
<1>2. /\ UNCHANGED calls
      /\ conv' = [conv EXCEPT ![d] = [NoConv EXCEPT !.status = "COLLECTING", !.data = reqs[i].snap]]
  BY DEF CreateInserts
<1> HIDE DEF d
<1>3. \A c : CallsOf(c)' = CallsOf(c)
  BY <1>2 DEF CallsOf
<1>4. Cardinality(CallsOf(d)) = 0
  BY <1>1, FS_EmptySet DEF SpendInv
<1>5. QED BY <1>1, <1>2, <1>3, <1>4 DEF SpendInv, NoConv

(* The other handlers write a conversation, a call's status, or neither.   *)
LEMMA RoutesKeepSpend ==
  ASSUME SpendInv, NEW i \in Ids, Serves(i) \/ Fails(i)
  PROVE  SpendInv'
<1> DEFINE d == reqs[i].conv
<1>1. ASSUME UNCHANGED <<conv, calls>> PROVE SpendInv'
  BY <1>1 DEF SpendInv, CallsOf
<1>2. ASSUME CreateGreets(i) \/ SendAsks(i) \/ (\E reply \in Replies : SendReplied(i, reply))
      PROVE  SpendInv'
  BY <1>2, WritesKeepSpend DEF CreateGreets, SendAsks, SendReplied, SpendInv
<1>3. ASSUME SendUpdates(i) PROVE SpendInv'
  <2>1. NowStatus(reqs[i]) \in {"READY", "COLLECTING"}
    BY DEF NowStatus
  <2> DEFINE new == NowStatus(reqs[i])
  <2>2. /\ UNCHANGED calls
        /\ conv' = [conv EXCEPT ![d].data = Merged(reqs[i]), ![d].status = new,
                     ![d].readied = IF new = "READY" THEN @ + 1 ELSE @]
    BY <1>3 DEF SendUpdates
  <2>3. new \in {"READY", "COLLECTING"}
    BY <2>1
  <2> HIDE DEF new, d
  <2>4. DOMAIN conv' = Convs /\ \A c \in Convs \ {d} : conv'[c] = conv[c]
    BY <2>2 DEF SpendInv
  <2>5. ASSUME d \in Convs
        PROVE  /\ DOMAIN conv'[d] = DOMAIN conv[d] /\ conv'[d].status # "none"
               /\ \/ conv'[d].readied = conv[d].readied + 1
                  \/ /\ conv'[d].readied = conv[d].readied
                     /\ conv'[d].status # "READY"
    BY <2>2, <2>3, <2>5 DEF SpendInv
  <2>6. DOMAIN calls' = Calls /\ UNCHANGED calls
    BY <2>2 DEF SpendInv
  <2>7. QED BY <2>4, <2>5, <2>6, WritesKeepSpend
<1>4. ASSUME StartClaims(i) \/ StartFails(i) PROVE SpendInv'
  <2> DEFINE k == reqs[i].call
             c == calls[k].conv
  <2>1. CASE UNCHANGED <<conv, calls>>
    BY <1>1, <2>1
  <2>2. CASE ~UNCHANGED <<conv, calls>>
    <3>1. \E s \in {"CALLING", "FAILED"} : calls' = [calls EXCEPT ![k].status = s]
      BY <1>4, <2>2 DEF StartClaims, StartFails, markCallFailed
    <3>2. \/ UNCHANGED conv
          \/ \E s \in {"CALLING", "COMPLETED"} : conv' = [conv EXCEPT ![c].status = s]
      BY <1>4, <2>2 DEF StartClaims, StartFails, markCallFailed
    <3> HIDE DEF k, c
    <3>3. /\ DOMAIN calls' = Calls
          /\ \A x \in Calls : DOMAIN calls'[x] = DOMAIN calls[x] /\ calls'[x].conv = calls[x].conv
      BY <3>1 DEF SpendInv
    <3>4. /\ DOMAIN conv' = Convs /\ \A x \in Convs \ {c} : conv'[x] = conv[x]
          /\ c \in Convs =>
               /\ DOMAIN conv'[c] = DOMAIN conv[c] /\ conv'[c].readied = conv[c].readied
               /\ conv'[c].status = conv[c].status \/ conv'[c].status \notin {"none", "READY"}
      BY <3>2 DEF SpendInv
    <3>5. QED BY <3>3, <3>4, WritesKeepSpend
  <2>3. QED BY <2>1, <2>2
<1>5. ASSUME StartDials(i) \/ StartPromotes(i) PROVE SpendInv'
  <2>1. /\ DOMAIN calls' = Calls
        /\ \A k \in Calls : DOMAIN calls'[k] = DOMAIN calls[k] /\ calls'[k].conv = calls[k].conv
    BY <1>5 DEF StartDials, StartPromotes, Promoted, SpendInv
  <2>2. \A c : CallsOf(c)' = CallsOf(c)
    BY <2>1 DEF CallsOf
  <2>3. UNCHANGED conv
    BY <1>5 DEF StartDials, StartPromotes
  <2>4. QED BY <2>1, <2>2, <2>3 DEF SpendInv
<1>6. QED BY <1>1, <1>2, <1>3, <1>4, <1>5, ClaimKeepsSpend, CreationKeepsSpend
      DEF Serves, Fails, ResumeReads, CallChecks, StartChecks, SendApologizes, RouteFails

(* A conversation has no more calls than it was declared ready for: a call *)
(* is inserted only with the READY that it spends.                         *)
THEOREM CallsSpendReadies == ChatSpec => []EveryCallSpentAReady
<1>1. ChatInit => SpendInv
  <2> SUFFICES ASSUME ChatInit PROVE SpendInv
    OBVIOUS
  <2>1. \A c \in Convs : CallsOf(c) = {}
    BY ChatAssumption DEF ChatInit, NoCall, CallsOf
  <2>2. Cardinality({}) = 0
    BY FS_EmptySet
  <2>3. /\ calls = [k \in Calls |-> NoCall] /\ conv = [c \in Convs |-> NoConv]
    BY DEF ChatInit
  <2>4. /\ DOMAIN calls = Calls /\ DOMAIN conv = Convs
        /\ \A k \in Calls : DOMAIN calls[k] = {"status", "conv", "dialed"}
    BY <2>3 DEF NoCall
  <2>5. \A c \in Convs : /\ DOMAIN conv[c] = {"status", "data", "messages", "readied"}
                         /\ conv[c].readied = 0 /\ conv[c].status = "none"
    BY <2>3 DEF NoConv
  <2>6. QED BY <2>1, <2>2, <2>4, <2>5 DEF SpendInv
<1>2. SpendInv /\ [ChatNext]_chatVars => SpendInv'
  <2> SUFFICES ASSUME SpendInv, [ChatNext]_chatVars PROVE SpendInv'
    OBVIOUS
  <2>1. ASSUME UNCHANGED <<conv, calls>> PROVE SpendInv'
    BY <2>1 DEF SpendInv, CallsOf
  <2>2. ASSUME NEW t \in Tabs, UserActs(t) PROVE UNCHANGED <<conv, calls>>
    BY <2>2 DEF UserActs, LoadPage, NewChatMenu, ShowHistory, ShowChat, handleScenarioSelect,
                sendMessage, handleConfirm, handleEdit, handleNewConversation, Reset, CallEnded
  <2>3. ASSUME NEW i \in Ids, Answered(i) \/ LosesConnection(i) PROVE UNCHANGED <<conv, calls>>
    BY <2>3 DEF Answered, LosesConnection
  <2>4. ASSUME NEW k \in Calls, RelayFinishes(k) PROVE SpendInv'
    BY <2>4, WritesKeepSpend DEF RelayFinishes, SpendInv
  <2>5. QED BY <2>1, <2>2, <2>3, <2>4, RoutesKeepSpend DEF ChatNext, InFlight, chatVars
<1>3. SpendInv => EveryCallSpentAReady
  BY DEF SpendInv, EveryCallSpentAReady, CallsOf
<1>4. QED BY <1>1, <1>2, <1>3, PTL DEF ChatSpec

----------------------------------------------------------------------------
(* The answer to a message is shown in its conversation                    *)

RequestFields == {"kind", "tab", "link", "conv", "call", "stage", "text",
                  "mode", "snap", "was", "said", "answer"}

\* What the records have, for the updates of their fields to mean something.
Shapes ==
  /\ DOMAIN tab = Tabs /\ DOMAIN reqs = Ids
  /\ \A t \in Tabs : /\ DOMAIN tab[t] = {"mounted", "selected", "calling", "ended", "hook"}
                     /\ DOMAIN tab[t].hook = DOMAIN NewHook
  /\ \A i \in InFlight : DOMAIN reqs[i] = RequestFields /\ reqs[i].tab \in Tabs

Awaited(t) == {i \in InFlight : reqs[i].tab = t /\ reqs[i].link = "live"}

\* A mounted chat waits for one request at a time, and shows that it waits:
\* for a resume with the start screen, else with the disabled input.
Waits(t) ==
  \A i \in Awaited(t) :
    /\ tab[t].mounted
    /\ IF reqs[i].kind = "resume" THEN tab[t].hook.init
       ELSE tab[t].hook.loading /\ ~tab[t].hook.init
    /\ reqs[i].kind = "send" => tab[t].hook.conv = reqs[i].conv
    /\ \A j \in Awaited(t) : j = i

WaitInv == Shapes /\ \A t \in Tabs : Waits(t)

(* A tab whose requests and chat are as they were waits as it did.         *)
LEMMA OthersWait ==
  ASSUME WaitInv, NEW u \in Tabs, tab'[u] = tab[u],
         \A i \in Awaited(u)' : i \in Awaited(u) /\ reqs'[i] = reqs[i]
  PROVE  Waits(u)'
BY DEF WaitInv, Waits

(* A step of one tab t, if t waits as it should afterwards.                *)
LEMMA TabSteps ==
  ASSUME WaitInv, NEW t \in Tabs, Shapes', Waits(t)',
         \A u \in Tabs \ {t} : tab'[u] = tab[u],
         \A i \in InFlight' : \/ i \in InFlight /\ reqs'[i] = reqs[i]
                              \/ reqs'[i].tab = t \/ reqs'[i].link # "live"
  PROVE  WaitInv'
<1>1. ASSUME NEW u \in Tabs \ {t} PROVE Waits(u)'
  <2>1. \A i \in Awaited(u)' : i \in Awaited(u) /\ reqs'[i] = reqs[i]
    BY DEF Awaited
  <2>2. QED BY <2>1, OthersWait
<1>2. QED BY <1>1 DEF WaitInv

(* A handler moves its request on and leaves the chat alone.               *)
LEMMA RouteStep ==
  ASSUME WaitInv, NEW i \in InFlight, UNCHANGED tab,
         DOMAIN reqs' = Ids, \A j \in Ids \ {i} : reqs'[j] = reqs[j],
         DOMAIN reqs'[i] = DOMAIN reqs[i],
         reqs'[i].tab = reqs[i].tab, reqs'[i].link = reqs[i].link,
         \/ reqs'[i].kind = reqs[i].kind
         \/ reqs[i].kind = "call" /\ reqs'[i].kind = "start",
         reqs'[i].conv = reqs[i].conv \/ reqs[i].kind = "create"
  PROVE  WaitInv'
<1>1. InFlight' = InFlight /\ InFlight \subseteq Ids
  BY DEF InFlight
<1>2. \A t : Awaited(t)' = Awaited(t)
  BY <1>1 DEF Awaited
<1>3. Shapes'
  <2>1. ASSUME NEW j \in InFlight PROVE DOMAIN reqs'[j] = RequestFields /\ reqs'[j].tab \in Tabs
    BY <1>1 DEF WaitInv, Shapes
  <2>2. QED BY <1>1, <2>1 DEF WaitInv, Shapes
<1>4. ASSUME NEW t \in Tabs PROVE Waits(t)'
  <2>1. ASSUME NEW j \in Awaited(t)
        PROVE  /\ j \in Ids /\ tab'[t] = tab[t]
               /\ (reqs'[j].kind = "resume") <=> (reqs[j].kind = "resume")
               /\ reqs'[j].kind = "send" => reqs[j].kind = "send" /\ reqs'[j].conv = reqs[j].conv
    BY DEF Awaited, InFlight
  <2>2. QED BY <1>2, <2>1 DEF WaitInv, Waits
<1>5. QED BY <1>3, <1>4 DEF WaitInv

LEMMA ServesKeepWaits ==
  ASSUME WaitInv, NEW i \in InFlight, Serves(i) \/ Fails(i)
  PROVE  WaitInv'
<1>1. i \in Ids /\ DOMAIN reqs = Ids /\ DOMAIN reqs[i] = RequestFields
  BY DEF WaitInv, Shapes, InFlight
<1>2. UNCHANGED tab
  BY DEF Serves, Fails, CreateInserts, CreateGreets, ResumeReads, SendAsks, SendReplied,
         SendUpdates, CallChecks, CallClaims, StartChecks, StartClaims, StartDials,
         StartPromotes, SendApologizes, StartFails, RouteFails
<1> DEFINE Moved == /\ DOMAIN reqs' = Ids /\ \A j \in Ids \ {i} : reqs'[j] = reqs[j]
                    /\ DOMAIN reqs'[i] = DOMAIN reqs[i]
                    /\ reqs'[i].tab = reqs[i].tab /\ reqs'[i].link = reqs[i].link
                    /\ reqs'[i].kind = reqs[i].kind
                    /\ reqs'[i].conv = reqs[i].conv \/ reqs[i].kind = "create"
<1>3. ASSUME NEW a, Answer(i, a) PROVE Moved
  BY <1>1, <1>3 DEF Answer
<1>4. ASSUME NEW s, Proceed(i, s) PROVE Moved
  BY <1>1, <1>4 DEF Proceed
<1>5. ASSUME CreateInserts(i) PROVE Moved
  BY <1>1, <1>5 DEF CreateInserts, At
<1>6. ASSUME ResumeReads(i) PROVE Moved
  BY <1>1, <1>6 DEF ResumeReads
<1>7. ASSUME SendAsks(i) PROVE Moved
  BY <1>1, <1>7 DEF SendAsks
<1>8. ASSUME NEW reply, SendReplied(i, reply) PROVE Moved
  BY <1>1, <1>8 DEF SendReplied
<1>9. ASSUME SendUpdates(i) PROVE Moved
  BY <1>1, <1>9 DEF SendUpdates
<1>10. ASSUME CallClaims(i) PROVE Moved
  <2>1. CASE Claimable(reqs[i].conv)
    <3>1. PICK k : reqs' = [reqs EXCEPT ![i].stage = "answered", ![i].answer = "ok",
                                        ![i].call = k]
      BY <1>10, <2>1 DEF CallClaims
    <3>2. QED BY <1>1, <3>1
  <2>2. CASE ~Claimable(reqs[i].conv)
    BY <1>3, <1>10, <2>2 DEF CallClaims
  <2>3. QED BY <2>1, <2>2
<1>11. ASSUME CreateGreets(i) \/ CallChecks(i) \/ StartChecks(i) \/ StartClaims(i)
              \/ StartDials(i) \/ StartPromotes(i) \/ Fails(i)
       PROVE  Moved
  BY <1>3, <1>4, <1>11
     DEF CreateGreets, CallChecks, StartChecks, StartClaims, StartDials, StartPromotes,
         Fails, SendApologizes, StartFails, RouteFails, Raises
<1>12. Moved
  BY <1>5, <1>6, <1>7, <1>8, <1>9, <1>10, <1>11 DEF Serves
<1>13. QED BY <1>2, <1>12, RouteStep

\* Requests of which none is awaited by t, and those of the other tabs are
\* as they were.
Cleared(t, others) ==
  /\ DOMAIN others = Ids
  /\ \A j \in Ids : others[j].kind # "none" =>
       /\ DOMAIN others[j] = RequestFields /\ others[j].tab \in Tabs
       /\ others[j].link = "live" => others[j].tab # t /\ others[j] = reqs[j]

(* Leaving a page or a panel lets go of its requests.                      *)
LEMMA Clears ==
  ASSUME WaitInv, NEW t \in Tabs, NEW gone \in {"dead", "stale"}
  PROVE  Cleared(t, Relinked(t, gone))
<1> DEFINE o == Relinked(t, gone)
<1>1. DOMAIN o = Ids
  BY DEF Relinked
<1>2. ASSUME NEW j \in Ids, o[j].kind # "none"
      PROVE  /\ DOMAIN o[j] = RequestFields /\ o[j].tab \in Tabs
             /\ o[j].link = "live" => o[j].tab # t /\ o[j] = reqs[j]
  <2>1. CASE reqs[j].kind = "none" \/ reqs[j].tab # t
    BY <1>2, <2>1 DEF Relinked, WaitInv, Shapes, InFlight
  <2>2. CASE reqs[j].kind # "none" /\ reqs[j].tab = t
    <3>1. DOMAIN reqs[j] = RequestFields
      BY <2>2 DEF WaitInv, Shapes, InFlight
    <3>2. \/ o[j] = [reqs[j] EXCEPT !.link = gone]
          \/ o[j] = reqs[j] /\ reqs[j].link # "live"
      BY <2>2 DEF Relinked
    <3>3. QED BY <2>2, <3>1, <3>2 DEF RequestFields
  <2>3. QED BY <2>1, <2>2
<1>3. QED BY <1>1, <1>2 DEF Cleared

(* A mounted chat resumes what is saved, or waits for nothing.             *)
LEMMA MountsToWait ==
  ASSUME WaitInv, NEW t \in Tabs, NEW store, NEW others, Cleared(t, others),
         DOMAIN store = DOMAIN tab[t], store.mounted, Mounted(t, store, others)
  PROVE  WaitInv'
<1>1. DOMAIN tab = Tabs /\ "hook" \in DOMAIN store /\ t \in DOMAIN tab
  BY DEF WaitInv, Shapes
<1>2. CASE saved'.conv # None
  <2> DEFINE r == Request(t, "resume", saved'.conv)
  <2>1. PICK i \in Ids : reqs' = [others EXCEPT ![i] = r]
    BY <1>2 DEF Mounted
  <2>2. /\ DOMAIN r = RequestFields
        /\ r.tab = t /\ r.kind = "resume"
    BY DEF Request, RequestFields
  <2> HIDE DEF r
  <2>3. tab' = [tab EXCEPT ![t] = [store EXCEPT !.hook = NewHook]]
    BY <1>2 DEF Mounted
  <2>4. tab'[t].mounted /\ tab'[t].hook.init
    BY <1>1, <2>3 DEF NewHook
  <2>5. /\ DOMAIN reqs' = Ids /\ reqs'[i] = r
        /\ \A j \in Ids \ {i} : reqs'[j] = others[j]
    BY <2>1 DEF Cleared
  <2>6. Awaited(t)' \subseteq {i}
    BY <2>5 DEF Awaited, InFlight, Cleared
  <2>7. Waits(t)'
    BY <2>2, <2>4, <2>5, <2>6 DEF Waits
  <2>8. Shapes'
    BY <1>1, <2>2, <2>3, <2>5 DEF Shapes, WaitInv, Cleared, InFlight
  <2>9. QED BY <2>2, <2>3, <2>5, <2>7, <2>8, <1>1, TabSteps DEF Cleared, InFlight
<1>3. CASE saved'.conv = None
  <2>1. /\ reqs' = others
        /\ tab' = [tab EXCEPT ![t] = [store EXCEPT !.selected = FALSE,
                                        !.hook = [NewHook EXCEPT !.init = FALSE]]]
    BY <1>3 DEF Mounted
  <2>2. Awaited(t)' = {}
    BY <2>1 DEF Awaited, InFlight, Cleared
  <2>3. Shapes'
    BY <1>1, <2>1 DEF Shapes, WaitInv, Cleared, InFlight
  <2>4. QED BY <1>1, <2>1, <2>2, <2>3, TabSteps DEF Cleared, InFlight, Waits
<1>4. QED BY <1>2, <1>3

(* A chat that waits for nothing sends a request and waits for it.         *)
LEMMA IssuesToWait ==
  ASSUME WaitInv, NEW t \in Tabs, NEW r, Issue(r),
         DOMAIN r = RequestFields, r.tab = t, r.kind \notin {"none", "resume"},
         r.kind = "send" => r.conv = tab[t].hook.conv,
         tab[t].mounted, ~tab[t].hook.init, ~tab[t].hook.loading,
         tab' = [tab EXCEPT ![t].hook.loading = TRUE]
  PROVE  WaitInv'
<1>1. Awaited(t) = {}
  BY DEF WaitInv, Waits
<1>2. PICK i \in Ids : reqs[i].kind = "none" /\ reqs' = [reqs EXCEPT ![i] = r]
  BY DEF Issue, FreeId, InFlight
<1>3. DOMAIN reqs' = Ids /\ reqs'[i] = r /\ \A j \in Ids \ {i} : reqs'[j] = reqs[j]
  BY <1>2 DEF WaitInv, Shapes
<1>4. Awaited(t)' \subseteq {i}
  BY <1>1, <1>3 DEF Awaited, InFlight
<1>5. /\ tab'[t].mounted /\ tab'[t].hook.loading /\ ~tab'[t].hook.init
      /\ tab'[t].hook.conv = tab[t].hook.conv
  BY DEF WaitInv, Shapes, NewHook
<1>6. Waits(t)'
  BY <1>3, <1>4, <1>5 DEF Waits
<1>7. Shapes'
  BY <1>3 DEF Shapes, WaitInv, InFlight
<1>8. QED BY <1>3, <1>6, <1>7, TabSteps DEF InFlight, WaitInv, Shapes

LEMMA UserKeepsWaits ==
  ASSUME WaitInv, NEW t \in Tabs, UserActs(t)
  PROVE  WaitInv'
<1>1. /\ DOMAIN tab = Tabs /\ DOMAIN tab[t] = {"mounted", "selected", "calling", "ended", "hook"}
      /\ DOMAIN tab[t].hook = DOMAIN NewHook
  BY DEF WaitInv, Shapes
<1>2. DOMAIN NewTab = DOMAIN tab[t] /\ NewTab.mounted
  BY <1>1 DEF NewTab
<1>3. CASE LoadPage(t) \/ NewChatMenu(t)
  BY <1>2, <1>3, Clears, MountsToWait DEF LoadPage, NewChatMenu
<1>4. CASE ShowChat(t)
  <2>1. Awaited(t) = {}
    BY <1>4 DEF ShowChat, WaitInv, Waits
  <2>2. Cleared(t, reqs)
    BY <2>1 DEF Cleared, Awaited, WaitInv, Shapes, InFlight
  <2>3. DOMAIN [tab[t] EXCEPT !.mounted = TRUE] = DOMAIN tab[t]
        /\ [tab[t] EXCEPT !.mounted = TRUE].mounted
    BY <1>1
  <2>4. QED BY <1>4, <2>2, <2>3, MountsToWait DEF ShowChat
<1>5. CASE ShowHistory(t)
  <2>1. Cleared(t, reqs')
    BY <1>5, Clears DEF ShowHistory
  <2>2. /\ DOMAIN tab' = Tabs /\ DOMAIN tab'[t] = DOMAIN tab[t] /\ tab'[t].hook = tab[t].hook
        /\ \A u \in Tabs \ {t} : tab'[u] = tab[u]
    BY <1>1, <1>5 DEF ShowHistory
  <2>3. Awaited(t)' = {}
    BY <2>1 DEF Awaited, InFlight, Cleared
  <2>4. Shapes'
    BY <1>1, <2>1, <2>2 DEF Shapes, WaitInv, Cleared, InFlight
  <2>5. QED BY <2>1, <2>2, <2>3, <2>4, TabSteps DEF Cleared, InFlight, Waits
<1>6. ASSUME NEW start \in Starts, handleScenarioSelect(t, start) PROVE WaitInv'
  <2> DEFINE r == [Request(t, "create", None) EXCEPT
                     !.mode = start.mode,
                     !.snap = [createEmptyCollectedData EXCEPT !.scenario = start.scenario]]
  <2>1. DOMAIN r = RequestFields /\ r.tab = t /\ r.kind = "create"
    BY DEF Request, RequestFields
  <2>2. Issue(r)
    BY <1>6 DEF handleScenarioSelect
  <2> HIDE DEF r
  <2>3. QED BY <1>6, <2>1, <2>2, IssuesToWait DEF handleScenarioSelect, ShowsSelector
<1>7. ASSUME NEW text \in Typed, sendMessage(t, text) PROVE WaitInv'
  <2> DEFINE r == [Request(t, "send", tab[t].hook.conv) EXCEPT !.text = text]
  <2>1. DOMAIN r = RequestFields /\ r.tab = t /\ r.kind = "send" /\ r.conv = tab[t].hook.conv
    BY DEF Request, RequestFields
  <2>2. Issue(r)
    BY <1>7 DEF sendMessage
  <2> HIDE DEF r
  <2>3. QED BY <1>7, <2>1, <2>2, IssuesToWait DEF sendMessage, InputEnabled, ShowsChat
<1>8. CASE handleConfirm(t)
  <2> DEFINE r == Request(t, "call", tab[t].hook.conv)
  <2>1. DOMAIN r = RequestFields /\ r.tab = t /\ r.kind = "call"
    BY DEF Request, RequestFields
  <2>2. Issue(r)
    BY <1>8 DEF handleConfirm
  <2> HIDE DEF r
  <2>3. QED BY <1>8, <2>1, <2>2, IssuesToWait DEF handleConfirm, CardEnabled, ShowsCard, ShowsChat
<1>9. CASE handleNewConversation(t)
  <2>1. Awaited(t) = {}
    BY <1>9 DEF handleNewConversation, ShowsChat, WaitInv, Waits
  <2>2. /\ UNCHANGED reqs /\ DOMAIN tab' = Tabs
        /\ DOMAIN tab'[t] = DOMAIN tab[t] /\ DOMAIN tab'[t].hook = DOMAIN NewHook
        /\ \A u \in Tabs \ {t} : tab'[u] = tab[u]
    <3> DEFINE s == [NewTab EXCEPT !.hook = [NewHook EXCEPT !.init = FALSE,
                                               !.loading = tab[t].hook.loading]]
    <3>1. DOMAIN s = DOMAIN NewTab /\ DOMAIN s.hook = DOMAIN NewHook
      BY DEF NewTab
    <3>2. UNCHANGED reqs /\ tab' = [tab EXCEPT ![t] = s]
      BY <1>9 DEF handleNewConversation, Reset
    <3> HIDE DEF s
    <3>3. QED BY <1>1, <1>2, <3>1, <3>2
  <2>3. InFlight' = InFlight /\ Awaited(t)' = Awaited(t)
    BY <2>2 DEF Awaited, InFlight
  <2>4. QED BY <1>1, <2>1, <2>2, <2>3, TabSteps DEF Shapes, WaitInv, Waits
<1>10. CASE handleEdit(t) \/ CallEnded(t)
  <2>1. /\ UNCHANGED reqs /\ DOMAIN tab' = Tabs
        /\ DOMAIN tab'[t] = DOMAIN tab[t] /\ DOMAIN tab'[t].hook = DOMAIN NewHook
        /\ \A u \in Tabs \ {t} : tab'[u] = tab[u]
    BY <1>1, <1>10 DEF handleEdit, CallEnded
  <2>2. /\ tab'[t].mounted = tab[t].mounted /\ tab'[t].hook.init = tab[t].hook.init
        /\ tab'[t].hook.loading = tab[t].hook.loading /\ tab'[t].hook.conv = tab[t].hook.conv
    <3>1. CASE handleEdit(t)
      BY <1>1, <3>1 DEF handleEdit, NewHook
    <3>2. CASE CallEnded(t)
      BY <1>1, <3>2 DEF CallEnded
    <3>3. QED BY <1>10, <3>1, <3>2
  <2>3. InFlight' = InFlight /\ Awaited(t)' = Awaited(t)
    BY <2>1 DEF Awaited, InFlight
  <2>4. Waits(t)'
    BY <2>1, <2>2, <2>3 DEF Waits, WaitInv
  <2>5. QED BY <1>1, <2>1, <2>3, <2>4, TabSteps DEF Shapes, WaitInv
<1>11. QED BY <1>3, <1>4, <1>5, <1>6, <1>7, <1>8, <1>9, <1>10 DEF UserActs

(* A request that is done with lets its chat go; if its chat is gone, the  *)
(* one that is mounted now waits as it did.                                *)
LEMMA DoneLetsGo ==
  ASSUME WaitInv, NEW i \in InFlight, NEW t, t = reqs[i].tab,
         DOMAIN reqs' = Ids, \A j \in Ids \ {i} : reqs'[j] = reqs[j],
         reqs'[i].kind = "none" \/ /\ DOMAIN reqs'[i] = RequestFields
                                   /\ reqs'[i].tab = t /\ reqs'[i].link # "live",
         DOMAIN tab' = Tabs, DOMAIN tab'[t] = DOMAIN tab[t],
         DOMAIN tab'[t].hook = DOMAIN tab[t].hook,
         \A u \in Tabs \ {t} : tab'[u] = tab[u],
         \/ reqs[i].link = "live"
         \/ tab'[t].hook = tab[t].hook /\ tab'[t].mounted = tab[t].mounted
  PROVE  WaitInv'
<1>1. t \in Tabs /\ i \in Ids
  BY DEF WaitInv, Shapes, InFlight
<1>2. Shapes'
  BY <1>1 DEF WaitInv, Shapes, InFlight
<1>3. \A j \in Awaited(t)' : j \in Awaited(t) \ {i} /\ reqs'[j] = reqs[j]
  BY DEF Awaited, InFlight
<1>4. Waits(t)'
  <2>1. CASE reqs[i].link = "live"
    <3>1. i \in Awaited(t)
      BY <2>1 DEF Awaited
    <3>2. Awaited(t)' = {}
      BY <1>1, <1>3, <3>1 DEF WaitInv, Waits
    <3>3. QED BY <3>2 DEF Waits
  <2>2. CASE tab'[t].hook = tab[t].hook /\ tab'[t].mounted = tab[t].mounted
    BY <1>1, <1>3, <2>2 DEF WaitInv, Waits
  <2>3. QED BY <2>1, <2>2
<1>5. QED BY <1>1, <1>2, <1>4, TabSteps DEF InFlight

LEMMA AnswersKeepWaits ==
  ASSUME WaitInv, NEW i \in InFlight, Answered(i) \/ LosesConnection(i)
  PROVE  WaitInv'
<1> DEFINE t == reqs[i].tab
<1>1. /\ i \in Ids /\ DOMAIN reqs = Ids /\ DOMAIN reqs[i] = RequestFields
      /\ t \in Tabs /\ DOMAIN tab = Tabs
      /\ DOMAIN tab[t] = {"mounted", "selected", "calling", "ended", "hook"}
      /\ DOMAIN tab[t].hook = DOMAIN NewHook
  BY DEF WaitInv, Shapes, InFlight
<1> DEFINE Landing == /\ DOMAIN tab' = Tabs /\ DOMAIN tab'[t] = DOMAIN tab[t]
                      /\ DOMAIN tab'[t].hook = DOMAIN tab[t].hook
                      /\ \A u \in Tabs \ {t} : tab'[u] = tab[u]
                      /\ \/ reqs[i].link = "live"
                         \/ tab'[t].hook = tab[t].hook /\ tab'[t].mounted = tab[t].mounted
<1>2. ASSUME Done(i), Landing PROVE WaitInv'
  BY <1>1, <1>2, DoneLetsGo DEF Done, NoReq
<1>3. CASE CreateAnswered(i)
  <2>1. Landing
    BY <1>1, <1>3 DEF CreateAnswered, Hook
  <2>2. QED BY <1>2, <1>3, <2>1 DEF CreateAnswered
<1>4. CASE ResumeAnswered(i)
  <2>1. Landing
    <3>1. CASE UNCHANGED tab
      BY <1>1, <3>1
    <3>2. CASE ~UNCHANGED tab
      <4> DEFINE before == tab[t].hook
                 resumed == [before EXCEPT !.conv = reqs[i].conv, !.status = reqs[i].was,
                               !.complete = (reqs[i].was = "READY"), !.init = FALSE,
                               !.mode = IF saved.mode = None THEN @ ELSE saved.mode]
                 given == [before EXCEPT !.init = FALSE]
      <4>1. \E sel : \/ tab' = [tab EXCEPT ![t].selected = sel, ![t].hook = Hook(i, resumed)]
                     \/ tab' = [tab EXCEPT ![t].selected = sel, ![t].hook = Hook(i, given)]
        BY <1>4, <3>2 DEF ResumeAnswered
      <4>2. DOMAIN resumed = DOMAIN before /\ DOMAIN given = DOMAIN before
        OBVIOUS
      <4> HIDE DEF resumed, given
      <4>3. PICK sel, h : /\ tab' = [tab EXCEPT ![t].selected = sel, ![t].hook = h]
                          /\ DOMAIN h = DOMAIN tab[t].hook
                          /\ reqs[i].link = "live" \/ h = tab[t].hook
        BY <4>1, <4>2 DEF Hook
      <4>4. QED BY <1>1, <4>3
    <3>3. QED BY <3>1, <3>2
  <2>2. QED BY <1>2, <1>4, <2>1 DEF ResumeAnswered
<1>5. CASE SendAnswered(i)
  <2>1. Landing
    BY <1>1, <1>5 DEF SendAnswered, Hook, AfterSend
  <2>2. QED BY <1>2, <1>5, <2>1 DEF SendAnswered
<1>6. CASE CallAnswered(i)
  <2>1. CASE reqs[i].answer = "ok" /\ reqs[i].link # "dead"
    <3>1. reqs[i].kind = "call"
      BY <1>6 DEF CallAnswered, Landed, At
    <3>2. /\ UNCHANGED tab
          /\ reqs' = [reqs EXCEPT ![i] = [reqs[i] EXCEPT !.kind = "start", !.stage = "sent",
                                                         !.answer = None]]
      BY <1>6, <2>1 DEF CallAnswered
    <3>3. QED BY <1>1, <3>1, <3>2, RouteStep DEF RequestFields
  <2>2. CASE ~(reqs[i].answer = "ok" /\ reqs[i].link # "dead")
    <3>1. Landing
      BY <1>1, <1>6, <2>2 DEF CallAnswered, Hook
    <3>2. QED BY <1>2, <1>6, <2>2, <3>1 DEF CallAnswered
  <2>3. QED BY <2>1, <2>2
<1>7. CASE StartAnswered(i)
  <2>1. Landing
    BY <1>1, <1>7 DEF StartAnswered, Hook
  <2>2. QED BY <1>2, <1>7, <2>1 DEF StartAnswered
<1>8. CASE LosesConnection(i)
  <2>1. reqs' = [reqs EXCEPT ![i].link = "dead"] /\ reqs[i].link = "live"
    BY <1>8 DEF LosesConnection
  <2> DEFINE gaveUp == [tab[t].hook EXCEPT !.loading = FALSE, !.init = FALSE]
  <2>2. /\ DOMAIN gaveUp = DOMAIN tab[t].hook
        /\ \/ tab' = [tab EXCEPT ![t].selected = FALSE, ![t].hook = gaveUp]
           \/ tab' = [tab EXCEPT ![t].hook = gaveUp]
    BY <1>8 DEF LosesConnection
  <2> HIDE DEF gaveUp
  <2>3. Landing
    BY <1>1, <2>1, <2>2
  <2>4. QED BY <1>1, <2>1, <2>3, DoneLetsGo DEF RequestFields
<1>9. QED BY <1>3, <1>4, <1>5, <1>6, <1>7, <1>8 DEF Answered

(* The answer to a message is shown in the conversation it was sent in:    *)
(* nothing changes the conversation of a mounted chat under a request it   *)
(* waits for.                                                              *)
THEOREM AnswersComeHome == ChatSpec => []NoForeignAnswer
<1>1. ChatInit => WaitInv
  BY DEF ChatInit, WaitInv, Shapes, Waits, Awaited, InFlight, NoReq, NewTab, NewHook
<1>2. WaitInv /\ [ChatNext]_chatVars => WaitInv'
  <2> SUFFICES ASSUME WaitInv, [ChatNext]_chatVars PROVE WaitInv'
    OBVIOUS
  <2>1. CASE UNCHANGED <<tab, reqs>>
    BY <2>1 DEF WaitInv, Shapes, Waits, Awaited, InFlight
  <2>2. ASSUME NEW k \in Calls, RelayFinishes(k) PROVE UNCHANGED <<tab, reqs>>
    BY <2>2 DEF RelayFinishes
  <2>3. QED BY <2>1, <2>2, UserKeepsWaits, ServesKeepWaits, AnswersKeepWaits
        DEF ChatNext, chatVars
<1>3. WaitInv => NoForeignAnswer
  BY DEF WaitInv, Shapes, Waits, Awaited, NoForeignAnswer
<1>4. QED BY <1>1, <1>2, <1>3, PTL DEF ChatSpec
=============================================================================
