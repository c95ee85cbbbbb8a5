-------------------------------- MODULE Chat --------------------------------
(***************************************************************************)
(* From the first message to the call: the browser tabs of one user        *)
(* (hooks/useChat.ts, components/chat/ChatContainer.tsx and the menus of   *)
(* the dashboard), the routes /api/conversations, /api/chat, /api/calls    *)
(* and /api/calls/[id]/start, and the rows they share.                     *)
(*                                                                         *)
(* A request is in flight from its fetch to its answer and its handler     *)
(* runs statement by statement. Its link says what is left of its caller:  *)
(* "live" the component is mounted, "stale" the component is gone and only *)
(* the page's store and localStorage can be reached, "dead" nobody waits.  *)
(***************************************************************************)
EXTENDS ChatTurn

CONSTANTS Tabs,          \* browser tabs of the user
          Convs, Calls,  \* ids of rows that may be inserted
          Ids,           \* requests that may be in flight at once
          Replies,       \* what the model may answer
          Typed,         \* what the user may type
          Starts,        \* modes and scenarios the user may choose
          Valid,         \* may the collected phone number be in E.164 form
          HistoryLimit,  \* CONVERSATION_HISTORY_LIMIT
          ContextLimit,  \* LLM_CONTEXT_MESSAGE_LIMIT
          MaxMessages,   \* bound: messages of a conversation
          MaxFailures,   \* bound: statements, model or relay calls that fail
          MaxLoads       \* bound: page loads and menu changes

ASSUME ChatAssumption ==
  /\ Replies \subseteq LLMReplies /\ Typed \subseteq Texts
  /\ Starts \subseteq [mode : ChatModes, scenario : Scenarios]
  /\ HistoryLimit \in Nat \ {0} /\ ContextLimit \in Nat \ {0}
  /\ None \notin Convs \cup Calls /\ IsFiniteSet(Calls)

VARIABLES conv,      \* conversations, with the READYs written to each
          calls,     \* calls
          saved,     \* localStorage: the current conversation, of all tabs
          tab,       \* per tab: the store useDashboard and the hook useChat
          reqs,      \* requests in flight
          failures, loads

chatVars == <<conv, calls, saved, tab, reqs, failures, loads>>

Finished == {"COMPLETED", "FAILED"}
NoConv == [status |-> "none", data |-> createEmptyCollectedData,
           messages |-> 0, readied |-> 0]
\* dialed: the relay has been asked for the call and has not ended it yet.
NoCall == [status |-> "none", conv |-> None, dialed |-> FALSE]
NoReq  == [kind |-> "none"]
NothingSaved == [conv |-> None, mode |-> None]
\* A freshly mounted useChat.
NewHook == [conv |-> None, complete |-> FALSE, status |-> "COLLECTING",
            mode |-> None, init |-> TRUE, loading |-> FALSE]
NewTab == [mounted |-> TRUE, selected |-> FALSE, calling |-> None,
           ended |-> FALSE, hook |-> NewHook]

InFlight == {i \in Ids : reqs[i].kind # "none"}
\* An id that no row has; bound: some are left.
SomeUnused(ids, rows) == \E x \in ids : rows[x].status = "none"
Unused(ids, rows) == CHOOSE x \in ids : rows[x].status = "none"
FreeId == CHOOSE i \in Ids \ InFlight : TRUE
Pending(kinds) == {i \in InFlight : reqs[i].kind \in kinds /\ reqs[i].stage # "answered"}
NoSaying == [known |-> {}, complete |-> FALSE, scenario |-> None]
Request(t, k, c) == [kind |-> k, tab |-> t, link |-> "live", conv |-> c,
                     call |-> None, stage |-> "sent", text |-> {},
                     mode |-> tab[t].hook.mode, snap |-> createEmptyCollectedData,
                     was |-> "COLLECTING", said |-> NoSaying, answer |-> None]
Issue(r) == InFlight # Ids /\ reqs' = [reqs EXCEPT ![FreeId] = r]
\* The requests of t after its component or its page is gone.
Relinked(t, gone) ==
  [i \in Ids |-> IF reqs[i].kind = "none" \/ reqs[i].tab # t THEN reqs[i]
                 ELSE IF gone = "dead" \/ reqs[i].link = "live"
                      THEN [reqs[i] EXCEPT !.link = gone] ELSE reqs[i]]

----------------------------------------------------------------------------
(* ChatContainer: what is on the screen of a tab *)

ShowsChat(s) == s.mounted /\ ~s.hook.init /\ s.selected
isCallActive(s) == s.calling # None /\ ~s.ended
ShowsCard(s) == /\ ShowsChat(s) /\ s.calling = None /\ s.hook.conv # None
                /\ s.hook.complete \/ s.hook.status = "READY"
InputEnabled(s) == /\ ShowsChat(s)
                   /\ ~s.hook.loading /\ ~s.hook.complete /\ ~isCallActive(s)
CardEnabled(s) == ShowsCard(s) /\ ~s.hook.loading

----------------------------------------------------------------------------
(* Mounting useChat: resume what localStorage names, or offer the choice *)

Mounted(t, store, others) ==
  /\ loads < MaxLoads /\ loads' = loads + 1
  /\ IF saved'.conv # None
     THEN /\ \E i \in Ids : others[i].kind = "none"
          /\ LET i == CHOOSE j \in Ids : others[j].kind = "none"
             IN reqs' = [others EXCEPT ![i] = Request(t, "resume", saved'.conv)]
          /\ tab' = [tab EXCEPT ![t] = [store EXCEPT !.hook = NewHook]]
     ELSE /\ reqs' = others
          /\ tab' = [tab EXCEPT ![t] = [store EXCEPT !.selected = FALSE,
                                          !.hook = [NewHook EXCEPT !.init = FALSE]]]

\* The page is loaded again; the menu "new chat" and the button of the
\* summary of a finished call first forget the conversation.
LoadPage(t) ==
  /\ saved' = saved
  /\ Mounted(t, NewTab, Relinked(t, "dead"))
  /\ UNCHANGED <<conv, calls, failures>>
NewChatMenu(t) ==
  /\ saved' = NothingSaved
  /\ Mounted(t, NewTab, Relinked(t, "dead"))
  /\ UNCHANGED <<conv, calls, failures>>
\* The menu "history" unmounts chat and call panel, the logo mounts them;
\* the button of the summary of a finished call also forgets the call.
ShowHistory(t) ==
  /\ tab[t].mounted
  /\ \E fromSummary \in {FALSE, tab[t].calling # None /\ tab[t].ended} :
       tab' = [tab EXCEPT ![t].mounted = FALSE, ![t].ended = FALSE,
                          ![t].calling = IF fromSummary THEN None ELSE @]
  /\ reqs' = Relinked(t, "stale")
  /\ UNCHANGED <<conv, calls, saved, failures, loads>>
ShowChat(t) ==
  /\ ~tab[t].mounted
  /\ saved' = saved
  /\ Mounted(t, [tab[t] EXCEPT !.mounted = TRUE], reqs)
  /\ UNCHANGED <<conv, calls, failures>>

----------------------------------------------------------------------------
(* The handlers of useChat up to their fetch *)

CanWrite(c) ==
  conv[c].messages + 2 * Cardinality({i \in Pending({"send"}) : reqs[i].conv = c}) + 2
    <= MaxMessages

ShowsSelector(s) == s.mounted /\ ~s.hook.init /\ ~s.selected
handleScenarioSelect(t, start) ==
  /\ ShowsSelector(tab[t]) /\ ~tab[t].hook.loading
  /\ \E step \in SelectorSteps : start \in Offers(step)
  /\ Cardinality({c \in Convs : conv[c].status = "none"}) > Cardinality(Pending({"create"}))
  /\ Issue([Request(t, "create", None) EXCEPT
              !.mode = start.mode,
              !.snap = [createEmptyCollectedData EXCEPT !.scenario = start.scenario]])
  /\ tab' = [tab EXCEPT ![t].hook.loading = TRUE]
  /\ UNCHANGED <<conv, calls, saved, failures, loads>>

sendMessage(t, text) ==
  /\ InputEnabled(tab[t]) /\ tab[t].hook.conv # None
  /\ CanWrite(tab[t].hook.conv)
  /\ Issue([Request(t, "send", tab[t].hook.conv) EXCEPT !.text = text])
  /\ tab' = [tab EXCEPT ![t].hook.loading = TRUE]
  /\ UNCHANGED <<conv, calls, saved, failures, loads>>

handleConfirm(t) ==
  /\ CardEnabled(tab[t])
  /\ Cardinality({k \in Calls : calls[k].status = "none"}) > Cardinality(Pending({"call"}))
  /\ Issue(Request(t, "call", tab[t].hook.conv))
  /\ tab' = [tab EXCEPT ![t].hook.loading = TRUE]
  /\ UNCHANGED <<conv, calls, saved, failures, loads>>

handleEdit(t) ==
  /\ CardEnabled(tab[t])
  /\ tab' = [tab EXCEPT ![t].hook.complete = FALSE, ![t].hook.status = "COLLECTING"]
  /\ UNCHANGED <<conv, calls, saved, reqs, failures, loads>>

\* "New chat" in the header and in the card.
Reset(t) ==
  /\ saved' = NothingSaved
  /\ tab' = [tab EXCEPT ![t] = [NewTab EXCEPT
              !.hook = [NewHook EXCEPT !.init = FALSE, !.loading = tab[t].hook.loading]]]
  /\ UNCHANGED <<conv, calls, reqs, failures, loads>>
\* Fault: the button is not disabled while an answer is awaited.
NewConversationAnytime(t) == ShowsChat(tab[t]) /\ ~isCallActive(tab[t]) /\ Reset(t)
handleNewConversation(t) ==
  /\ ShowsChat(tab[t]) /\ ~isCallActive(tab[t]) /\ ~tab[t].hook.loading
  /\ Reset(t)

\* The relay socket of the call panel reports the end.
CallEnded(t) ==
  /\ tab[t].mounted /\ isCallActive(tab[t])
  /\ tab' = [tab EXCEPT ![t].ended = TRUE]
  /\ UNCHANGED <<conv, calls, saved, reqs, failures, loads>>

UserActs(t) ==
  \/ LoadPage(t) \/ NewChatMenu(t) \/ ShowHistory(t) \/ ShowChat(t)
  \/ \E start \in Starts : handleScenarioSelect(t, start)
  \/ \E text \in Typed : sendMessage(t, text)
  \/ handleConfirm(t) \/ handleEdit(t) \/ handleNewConversation(t) \/ CallEnded(t)

----------------------------------------------------------------------------
(* The handlers of the routes *)

Answer(i, a) == reqs' = [reqs EXCEPT ![i].stage = "answered", ![i].answer = a]
Proceed(i, s) == reqs' = [reqs EXCEPT ![i].stage = s]
\* A statement, the model or the relay raises: the route answers 500.
Raises(i) ==
  /\ failures < MaxFailures /\ failures' = failures + 1
  /\ Answer(i, "error")
At(i, k, s) == reqs[i].kind = k /\ reqs[i].stage = s

\* POST /api/conversations: the row, then its greeting, in no transaction.
CreateInserts(i) ==
  /\ At(i, "create", "sent") /\ SomeUnused(Convs, conv)
  /\ LET c == Unused(Convs, conv) IN
       /\ conv' = [conv EXCEPT ![c] = [NoConv EXCEPT !.status = "COLLECTING",
                                                     !.data = reqs[i].snap]]
       /\ reqs' = [reqs EXCEPT ![i].stage = "inserted", ![i].conv = c]
  /\ UNCHANGED <<calls, saved, tab, failures, loads>>
CreateGreets(i) ==
  /\ At(i, "create", "inserted")
  /\ conv' = [conv EXCEPT ![reqs[i].conv].messages = 1]
  /\ Answer(i, "ok")
  /\ UNCHANGED <<calls, saved, tab, failures, loads>>

\* GET /api/conversations/[id]: a CALLING whose call is over is COMPLETED.
ResumeReads(i) ==
  /\ At(i, "resume", "sent")
  /\ LET c == conv[reqs[i].conv]
         over == \E k \in Calls : calls[k].conv = reqs[i].conv /\ calls[k].status \in Finished
     IN  reqs' = [reqs EXCEPT ![i].stage = "answered", ![i].answer = "ok", ![i].snap = c.data,
            ![i].was = IF c.status = "CALLING" /\ over THEN "COMPLETED" ELSE c.status]
  /\ UNCHANGED <<conv, calls, saved, tab, failures, loads>>

\* POST /api/chat reads the row and stores the message of the user; ...
SendAsks(i) ==
  /\ At(i, "send", "sent")
  /\ reqs' = [reqs EXCEPT ![i].stage = "asked", ![i].snap = conv[reqs[i].conv].data,
                          ![i].was = conv[reqs[i].conv].status]
  /\ conv' = [conv EXCEPT ![reqs[i].conv].messages = @ + 1]
  /\ UNCHANGED <<calls, saved, tab, failures, loads>>

\* ... the history is the oldest HistoryLimit messages of which the model
\* is shown the last ContextLimit, then its reply is stored; ...
Shown(n) == LET h == IF n < HistoryLimit THEN n ELSE HistoryLimit
            IN  {m \in 1..h : m > h - ContextLimit}
SendReplied(i, reply) ==
  /\ At(i, "send", "asked")
  /\ LET r == reqs[i] IN
       reqs' = [reqs EXCEPT ![i].stage = "replied",
                  ![i].said = processChat(r.snap, r.text, r.mode, reply)]
  /\ conv' = [conv EXCEPT ![reqs[i].conv].messages = @ + 1]
  /\ UNCHANGED <<calls, saved, tab, failures, loads>>
\* ... a model that fails is answered with an apology and what was read; ...
SendApologizes(i) ==
  /\ At(i, "send", "asked") /\ ~IsDirect(reqs[i].text, reqs[i].mode)
  /\ failures < MaxFailures /\ failures' = failures + 1
  /\ Answer(i, "ok")
  /\ UNCHANGED <<conv, calls, saved, tab, loads>>

\* ... what was said is merged into what was read and written back.
Merged(r) == mergeCollectedData(r.snap, r.said)
NowStatus(r) == IF isReadyForCall(Merged(r), r.said.complete, r.mode)
                THEN "READY" ELSE "COLLECTING"
SendUpdates(i) ==
  /\ At(i, "send", "replied")
  /\ LET r == reqs[i] IN
       /\ conv' = [conv EXCEPT ![r.conv].data = Merged(r), ![r.conv].status = NowStatus(r),
                     ![r.conv].readied = IF NowStatus(r) = "READY" THEN @ + 1 ELSE @]
       /\ reqs' = [reqs EXCEPT ![i].stage = "answered", ![i].answer = "ok",
                               ![i].was = NowStatus(r)]
  /\ UNCHANGED <<calls, saved, tab, failures, loads>>

\* POST /api/calls: the conversation is read and checked, ...
CallChecks(i) ==
  /\ At(i, "call", "sent")
  /\ LET c == conv[reqs[i].conv]
         placeable == c.status = "READY" /\ "target_phone" \in c.data.known
     IN  IF placeable THEN Proceed(i, "checked") ELSE Answer(i, "error")
  /\ UNCHANGED <<conv, calls, saved, tab, failures, loads>>

\* ... then claimed and the call inserted in one transaction.
\* Fault: the claim relies on the check made before.
ClaimableAsRead(c) == TRUE
Claimable(c) == conv[c].status = "READY"
CallClaims(i) ==
  /\ At(i, "call", "checked")
  /\ LET c == reqs[i].conv
     IN  IF Claimable(c)
         THEN LET k == Unused(Calls, calls) IN
                /\ SomeUnused(Calls, calls)
                /\ calls' = [calls EXCEPT ![k] = [NoCall EXCEPT !.status = "PENDING", !.conv = c]]
                /\ conv' = [conv EXCEPT ![c].status = "CALLING"]
                /\ reqs' = [reqs EXCEPT ![i].stage = "answered", ![i].answer = "ok",
                                        ![i].call = k]
         ELSE Answer(i, "error") /\ UNCHANGED <<conv, calls>>
  /\ UNCHANGED <<saved, tab, failures, loads>>

\* POST /api/calls/[id]/start: a PENDING call with a number in E.164 form
\* is claimed and its conversation set to CALLING; the second statement
\* may raise after the first.
StartChecks(i) ==
  /\ At(i, "start", "sent")
  /\ \E valid \in Valid :
       IF calls[reqs[i].call].status = "PENDING" /\ valid
       THEN Proceed(i, "checked") ELSE Answer(i, "error")
  /\ UNCHANGED <<conv, calls, saved, tab, failures, loads>>
StartClaims(i) ==
  /\ At(i, "start", "checked")
  /\ LET k == reqs[i].call
     IN  IF calls[k].status # "PENDING"
         THEN Answer(i, "error") /\ UNCHANGED <<conv, calls, failures>>
         ELSE /\ calls' = [calls EXCEPT ![k].status = "CALLING"]
              /\ \/ /\ conv' = [conv EXCEPT ![calls[k].conv].status = "CALLING"]
                    /\ Proceed(i, "claimed") /\ UNCHANGED failures
                 \/ Raises(i) /\ UNCHANGED conv
  /\ UNCHANGED <<saved, tab, loads>>

\* The relay takes the call, or it fails and the call is marked FAILED where
\* it is still CALLING: also when the relay took it and its answer was lost.
markCallFailed(k) ==
  IF calls[k].status = "CALLING"
  THEN /\ calls' = [calls EXCEPT ![k].status = "FAILED"]
       /\ conv' = [conv EXCEPT ![calls[k].conv].status = "COMPLETED"]
  ELSE UNCHANGED <<conv, calls>>
StartDials(i) ==
  /\ At(i, "start", "claimed")
  /\ calls' = [calls EXCEPT ![reqs[i].call].dialed = TRUE]
  /\ Proceed(i, "dialed")
  /\ UNCHANGED <<conv, saved, tab, failures, loads>>
StartFails(i) ==
  /\ At(i, "start", "claimed") \/ At(i, "start", "dialed")
  /\ Raises(i) /\ markCallFailed(reqs[i].call)
  /\ UNCHANGED <<saved, tab, loads>>

\* Fault: the relay's answer is taken for the newest state of the call.
PromotedAnyway(k) == [calls EXCEPT ![k].status = "IN_PROGRESS"]
Promoted(k) == IF calls[k].status = "CALLING"
               THEN [calls EXCEPT ![k].status = "IN_PROGRESS"] ELSE calls
StartPromotes(i) ==
  /\ At(i, "start", "dialed")
  /\ calls' = Promoted(reqs[i].call)
  /\ Answer(i, "ok")
  /\ UNCHANGED <<conv, saved, tab, failures, loads>>

\* Any other statement raises: before the first write, or the reply of the
\* model, its greeting or the promotion is not stored.
RouteFails(i) ==
  /\ \/ reqs[i].stage = "sent"
     \/ At(i, "create", "inserted") \/ At(i, "send", "asked") \/ At(i, "send", "replied")
     \/ At(i, "call", "checked") \/ At(i, "start", "checked") \/ At(i, "start", "dialed")
  /\ Raises(i)
  /\ UNCHANGED <<conv, calls, saved, tab, loads>>

\* The relay persists the end of a call over whatever the row says, then
\* the conversation.
RelayFinishes(k) ==
  /\ calls[k].dialed
  /\ \E end \in Finished :
       calls' = [calls EXCEPT ![k].status = end, ![k].dialed = FALSE]
  /\ conv' = [conv EXCEPT ![calls[k].conv].status = "COMPLETED"]
  /\ UNCHANGED <<saved, tab, reqs, failures, loads>>

Serves(i) ==
  \/ CreateInserts(i) \/ CreateGreets(i) \/ ResumeReads(i)
  \/ SendAsks(i) \/ (\E reply \in Replies : SendReplied(i, reply)) \/ SendUpdates(i)
  \/ CallChecks(i) \/ CallClaims(i)
  \/ StartChecks(i) \/ StartClaims(i) \/ StartDials(i) \/ StartPromotes(i)
Fails(i) == SendApologizes(i) \/ StartFails(i) \/ RouteFails(i)

----------------------------------------------------------------------------
(* The answers, back in useChat. What a component that is gone sets in its *)
(* own state is lost; the store of the page and localStorage are not.      *)

Done(i) == reqs' = [reqs EXCEPT ![i] = NoReq]
Landed(i, k) == At(i, k, "answered")
Hook(t, h) == IF reqs[t].link = "live" THEN h ELSE tab[reqs[t].tab].hook

CreateAnswered(i) ==
  LET r == reqs[i]  t == r.tab  h == tab[t].hook IN
  /\ Landed(i, "create")
  /\ IF r.answer = "ok" /\ r.link # "dead"
     THEN /\ saved' = [conv |-> r.conv, mode |-> r.mode]
          /\ tab' = [tab EXCEPT ![t].selected = TRUE,
               ![t].hook = Hook(i, [NewHook EXCEPT !.conv = r.conv, !.mode = r.mode,
                                                   !.init = h.init])]
     ELSE /\ tab' = [tab EXCEPT ![t].hook = Hook(i, [h EXCEPT !.loading = FALSE])]
          /\ UNCHANGED saved
  /\ Done(i)

Resumable(r) == r.answer = "ok" /\ r.was \notin {"CALLING", "COMPLETED"}
ResumeAnswered(i) ==
  LET r == reqs[i]  t == r.tab  h == tab[t].hook IN
  /\ Landed(i, "resume")
  /\ IF r.link = "dead" THEN UNCHANGED <<saved, tab>>
     ELSE IF Resumable(r)
     THEN /\ tab' = [tab EXCEPT ![t].selected = (r.snap.scenario # None),
               ![t].hook = Hook(i, [h EXCEPT !.conv = r.conv, !.status = r.was,
                              !.complete = (r.was = "READY"), !.init = FALSE,
                              !.mode = IF saved.mode = None THEN @ ELSE saved.mode])]
          /\ UNCHANGED saved
     ELSE /\ saved' = NothingSaved
          /\ tab' = [tab EXCEPT ![t].selected = FALSE,
                                ![t].hook = Hook(i, [h EXCEPT !.init = FALSE])]
  /\ Done(i)

\* The apology of the route carries the status that was read and
\* is_complete FALSE.
\* Fault: a refused message is rolled back and the input stays disabled.
AfterSendStuck(h, r) ==
  IF r.answer = "ok" THEN [h EXCEPT !.loading = FALSE, !.status = r.was,
                                    !.complete = (r.was = "READY")]
  ELSE h
AfterSend(h, r) ==
  [h EXCEPT !.loading = FALSE, !.status = IF r.answer = "ok" THEN r.was ELSE @,
            !.complete = IF r.answer = "ok" THEN r.was = "READY" ELSE @]
SendAnswered(i) ==
  LET r == reqs[i]  t == r.tab  h == tab[t].hook IN
  /\ Landed(i, "send")
  /\ tab' = [tab EXCEPT ![t].hook = Hook(i, AfterSend(h, r))]
  /\ Done(i)
  /\ UNCHANGED saved

\* createCall and startCall of handleConfirm run one after the other; the
\* panel of the call is opened through the store.
CallAnswered(i) ==
  LET r == reqs[i] IN
  /\ Landed(i, "call")
  /\ IF r.answer = "ok" /\ r.link # "dead"
     THEN /\ reqs' = [reqs EXCEPT ![i] = [r EXCEPT !.kind = "start", !.stage = "sent",
                                                  !.answer = None]]
          /\ UNCHANGED tab
     ELSE /\ Done(i)
          /\ tab' = [tab EXCEPT ![r.tab].hook = Hook(i, [@ EXCEPT !.loading = FALSE])]
  /\ UNCHANGED saved
StartAnswered(i) ==
  LET r == reqs[i]  t == r.tab IN
  /\ Landed(i, "start")
  /\ tab' = [tab EXCEPT ![t].hook = Hook(i, [@ EXCEPT !.loading = FALSE]),
               ![t].calling = IF r.answer = "ok" /\ r.link # "dead" THEN r.call ELSE @,
               ![t].ended = IF r.answer = "ok" /\ r.link # "dead" THEN FALSE ELSE @]
  /\ Done(i)
  /\ UNCHANGED saved

Answered(i) ==
  /\ \/ CreateAnswered(i) \/ ResumeAnswered(i) \/ SendAnswered(i)
     \/ CallAnswered(i) \/ StartAnswered(i)
  /\ UNCHANGED <<conv, calls, failures, loads>>
\* The connection of a live request breaks: useChat takes it for a failure
\* while the handler goes on for nobody.
LosesConnection(i) ==
  /\ i \in InFlight /\ reqs[i].link = "live" /\ reqs[i].stage # "answered"
  /\ failures < MaxFailures /\ failures' = failures + 1
  /\ reqs' = [reqs EXCEPT ![i].link = "dead"]
  /\ LET t == reqs[i].tab
         gaveUp == [tab[t].hook EXCEPT !.loading = FALSE, !.init = FALSE]
     IN  IF reqs[i].kind = "resume"
         THEN /\ saved' = NothingSaved
              /\ tab' = [tab EXCEPT ![t].selected = FALSE, ![t].hook = gaveUp]
         ELSE tab' = [tab EXCEPT ![t].hook = gaveUp] /\ UNCHANGED saved
  /\ UNCHANGED <<conv, calls, loads>>

----------------------------------------------------------------------------
ChatInit ==
  /\ conv = [c \in Convs |-> NoConv]
  /\ calls = [k \in Calls |-> NoCall]
  /\ saved = NothingSaved
  /\ tab = [t \in Tabs |-> [NewTab EXCEPT !.hook.init = FALSE]]
  /\ reqs = [i \in Ids |-> NoReq]
  /\ failures = 0 /\ loads = 0

ChatNext ==
  \/ \E t \in Tabs : UserActs(t)
  \/ \E i \in InFlight : Serves(i) \/ Fails(i) \/ Answered(i) \/ LosesConnection(i)
  \/ \E k \in Calls : RelayFinishes(k)

\* A route ends with an answer and its answer arrives; nothing obliges the
\* user, the other tabs or the relay.
ChatSpec ==
  /\ ChatInit /\ [][ChatNext]_chatVars
  /\ \A i \in Ids : WF_chatVars(i \in InFlight /\ (Serves(i) \/ Answered(i)))

----------------------------------------------------------------------------
(* Properties *)

\* A conversation has no more calls than it was declared ready for: of the
\* tabs and clicks that confirm the same READY at once one places a call
\* (app/api/calls/route.ts, the claim READY -> CALLING).
EveryCallSpentAReady ==
  \A c \in Convs :
    Cardinality({k \in Calls : calls[k].conv = c}) <= conv[c].readied

\* A call that the relay or the route has finished is never shown as running
\* again, however late the answer of the relay to its start is handled
\* (app/api/calls/[id]/start/route.ts, the status predicate of step 4).
FinishedStaysFinished ==
  [][\A k \in Calls : calls[k].status \in Finished => calls'[k].status \in Finished]_chatVars

\* The answer to a message is shown in the conversation it was sent in: no
\* menu, new chat or resume changes the conversation of a mounted chat under
\* a request it is waiting for (hooks/useChat.ts, sendMessage).
NoForeignAnswer ==
  \A i \in InFlight :
    reqs[i].kind = "send" /\ reqs[i].link = "live"
      => tab[reqs[i].tab].hook.conv = reqs[i].conv

\* Whatever the routes answer, the chat is usable again: neither the start
\* screen nor the disabled input stays for ever (hooks/useChat.ts, finally).
Waiting(s) == s.mounted /\ (s.hook.init \/ s.hook.loading)
LoadingEnds == \A t \in Tabs : []<>~Waiting(tab[t])

\* The message the user has just sent is among those the model is shown
\* (lib/constants.ts, LLM_CONTEXT_MESSAGE_LIMIT: the recent messages).
LlmSeesTheMessage ==
  \A i \in InFlight :
    At(i, "send", "asked") /\ Cardinality(InFlight) = 1
      => conv[reqs[i].conv].messages \in Shown(conv[reqs[i].conv].messages)
=============================================================================
