---------------------------- MODULE InboundProofs ----------------------------
(***************************************************************************)
(* Inbound calls, for any number of calls, agents, sockets and restarts,   *)
(* and whether or not statements of the database raise: the rows obey the  *)
(* table of models.py whoever writes them, slots and queue stay within     *)
(* their bounds, a call has one agent, a deadline decides once, and what a *)
(* call holds is owned until it is released. If no statement raises,       *)
(* somebody also watches over every call until it is over.                 *)
(***************************************************************************)
EXTENDS InboundDispatch, CapacityManagerProofs, SequenceTheorems

----------------------------------------------------------------------------
(* The row alone                                                           *)

RowInv == RowTypeOK /\ ClaimHeld /\ QueueUnclaimed

LEMMA RowInitEstablishesRowInv == RowInit => RowInv
BY DEF RowInit, RowInv, RowTypeOK, ClaimHeld, QueueUnclaimed, DispatchState

(* One row's move, by the state it leaves: the table lets a claim go only  *)
(* to states that need none.                                               *)
LEMMA MoveKeepsClaim ==
  ASSUME NEW c \in Calls, RowInv, RowMove(c)
  PROVE  /\ row'[c] \in {"CLAIMED", "SESSION_STARTING", "CONNECTED"} => claimant'[c] # Nobody
         /\ row'[c] \in {"absent", "RINGING", "WAITING_FOR_AGENT"} => claimant'[c] = Nobody
<1>1. CASE row[c] = "absent"
  BY <1>1 DEF RowMove
<1>2. CASE row[c] # "absent"
  <2>1. row[c] \in DispatchState
    BY <1>2 DEF RowInv, RowTypeOK
  <2>2. row'[c] \in Allowed[row[c]] /\ ClaimRule(row'[c], claimant[c], claimant'[c])
    BY <1>2 DEF RowMove
  <2>3. /\ row'[c] \notin {"absent", "RINGING"}
        /\ row'[c] = "SESSION_STARTING" => row[c] = "CLAIMED"
        /\ row'[c] = "CONNECTED" => row[c] = "SESSION_STARTING"
    BY <2>1, <2>2 DEF Allowed, DispatchState, Preconnected, Terminal
  <2>4. row[c] \in {"CLAIMED", "SESSION_STARTING"} => claimant[c] # Nobody
    BY DEF RowInv, ClaimHeld
  <2>5. QED BY <2>2, <2>3, <2>4 DEF ClaimRule
<1>3. QED BY <1>1, <1>2

LEMMA RowNextKeepsRowInv ==
  ASSUME RowInv, [RowNext]_rowVars
  PROVE  RowInv'
<1>1. CASE UNCHANGED rowVars
  BY <1>1 DEF rowVars, RowInv, RowTypeOK, ClaimHeld, QueueUnclaimed
<1>2. CASE RowNext
  <2>1. RowTypeOK'
    BY <1>2 DEF RowNext, RowTypeOK
  <2>2. ASSUME NEW c \in Calls
        PROVE  /\ row'[c] \in {"CLAIMED", "SESSION_STARTING", "CONNECTED"}
                    => claimant'[c] # Nobody
               /\ row'[c] \in {"absent", "RINGING", "WAITING_FOR_AGENT"}
                    => claimant'[c] = Nobody
    <3>1. CASE RowMove(c)
      BY <3>1, MoveKeepsClaim
    <3>2. CASE UNCHANGED <<row[c], claimant[c]>>
      BY <3>2 DEF RowInv, ClaimHeld, QueueUnclaimed
    <3>3. QED BY <1>2, <3>1, <3>2 DEF RowNext
  <2>3. QED BY <2>1, <2>2 DEF RowInv, ClaimHeld, QueueUnclaimed
<1>3. QED BY <1>1, <1>2

(* The CHECK constraint of inbound_call_dispatch follows from the states   *)
(* and the claim rule alone: a row in service is claimed, a row that nobody *)
(* serves yet is not (models.py:28, the migration's CHECK on claimed_by).  *)
THEOREM RowClaims == RowSpec => [](ClaimHeld /\ QueueUnclaimed)
<1>1. RowInit => RowInv
  BY RowInitEstablishesRowInv
<1>2. RowInv /\ [RowNext]_rowVars => RowInv'
  BY RowNextKeepsRowInv
<1>3. RowInv => ClaimHeld /\ QueueUnclaimed
  BY DEF RowInv
<1>4. QED BY <1>1, <1>2, <1>3, PTL DEF RowSpec

----------------------------------------------------------------------------
(* The steps of a cleanup                                                  *)

\* What may follow a step, and what may be the last one: a row is read right
\* before it is written, the lock is left after the row or at once, a slot is
\* returned after cleanup_call, a deadline is over with the last step.
Follows ==
  {<<"close", "call">>, <<"call", "slot">>, <<"slot", "close">>, <<"slot", "finish">>,
   <<"finish", "read">>, <<"read", "update">>, <<"update", "finish">>, <<"update", "flag">>,
   <<"update", "forget">>, <<"update", "unlock">>, <<"tear", "unwind">>,
   <<"unwind", "unlock">>, <<"unlock", "slot">>}
Lasts == {"call", "update", "flag", "forget", "unlock"}

Orderly(s) ==
  /\ s \in Seq(Steps)
  /\ \A k \in 1..(Len(s) - 1) : <<s[k], s[k + 1]>> \in Follows
  /\ s # <<>> => s[Len(s)] \in Lasts

Starts(s, x) == s # <<>> /\ Head(s) = x
Has(s, x) == \E k \in 1..Len(s) : s[k] = x
Flagged(s) == Has(s, "flag")

(* What follows a step.                                                    *)
LEMMA TailIsOrderly ==
  ASSUME NEW s, Orderly(s), s # <<>>
  PROVE  /\ Orderly(Tail(s)) /\ Has(s, Head(s))
         /\ \A x : Has(s, x) <=> x = Head(s) \/ Has(Tail(s), x)
         /\ IF Tail(s) = <<>> THEN Head(s) \in Lasts
            ELSE <<Head(s), Head(Tail(s))>> \in Follows
<1> DEFINE u == Tail(s)
           n == Len(s) - 1
<1>1. /\ n \in Nat /\ Len(s) = n + 1 /\ Len(u) = n /\ u \in Seq(Steps)
      /\ Head(s) = s[1] /\ (u = <<>> <=> n = 0) /\ (n > 0 => Head(u) = u[1])
      /\ \A k \in 1..n : u[k] = s[k + 1]
  <2>1. s \in Seq(Steps) /\ Len(s) \in Nat \ {0}
    BY EmptySeq DEF Orderly
  <2>2. u \in Seq(Steps) /\ Len(u) = Len(s) - 1 /\ \A k \in 1..Len(u) : u[k] = s[k + 1]
    BY <2>1, HeadTailProperties, Zenon
  <2>3. u = <<>> <=> Len(u) = 0
    BY <2>2, EmptySeq
  <2>4. Head(s) = s[1]
    BY <2>1
  <2> HIDE DEF u
  <2>5. u # <<>> => Head(u) = u[1]
    BY <2>2
  <2>6. QED BY <2>1, <2>2, <2>3, <2>4, <2>5
<1>2. (\A k \in 1..n : <<s[k], s[k + 1]>> \in Follows) /\ s[n + 1] \in Lasts
  BY <1>1 DEF Orderly
<1> HIDE DEF u, n
<1>3. \A k \in 1..(n - 1) : <<u[k], u[k + 1]>> \in Follows
  <2> SUFFICES ASSUME NEW k \in 1..(n - 1) PROVE <<u[k], u[k + 1]>> \in Follows
    OBVIOUS
  <2>1. k \in 1..n /\ k + 1 \in 1..n
    BY <1>1
  <2>2. QED BY <1>1, <1>2, <2>1
<1>4. n > 0 => u[n] = s[n + 1] /\ u[1] = s[2] /\ <<s[1], s[2]>> \in Follows
  <2> SUFFICES ASSUME n > 0 PROVE u[n] = s[n + 1] /\ u[1] = s[2] /\ <<s[1], s[2]>> \in Follows
    OBVIOUS
  <2>1. 1 \in 1..n /\ n \in 1..n /\ 1 + 1 = 2
    BY <1>1
  <2>2. QED BY <1>1, <1>2, <2>1
<1>5. Orderly(u)
  BY <1>1, <1>2, <1>3, <1>4 DEF Orderly
<1>6. ASSUME NEW x PROVE Has(s, x) <=> x = s[1] \/ Has(u, x)
  <2>1. ASSUME NEW k \in 1..(n + 1), s[k] = x PROVE x = s[1] \/ Has(u, x)
    <3>1. k = 1 \/ (k - 1 \in 1..n /\ (k - 1) + 1 = k)
      BY <1>1
    <3>2. QED BY <1>1, <2>1, <3>1 DEF Has
  <2>2. ASSUME NEW k \in 1..n, u[k] = x PROVE Has(s, x)
    <3>1. k + 1 \in 1..(n + 1) /\ s[k + 1] = x
      BY <1>1, <2>2
    <3>2. QED BY <1>1, <3>1 DEF Has
  <2>3. 1 \in 1..(n + 1)
    BY <1>1
  <2>4. QED BY <1>1, <2>1, <2>2, <2>3 DEF Has
<1>7. QED BY <1>1, <1>2, <1>4, <1>5, <1>6 DEF u

LEMMA NothingIsOrderly == Orderly(<<>>) /\ \A x : ~Has(<<>>, x)
BY EmptySeq DEF Orderly, Has

(* A step that follows at once is passed by.                               *)
LEMMA PastIsOrderly ==
  ASSUME NEW e, NEW s, Orderly(s)
  PROVE  /\ Orderly(Past(e, s))
         /\ \A x : Has(Past(e, s), x) => Has(s, x)
         /\ \A x : Has(s, x) => x = e \/ Has(Past(e, s), x)
         /\ \/ Past(e, s) = s /\ ~Starts(s, e)
            \/ Past(e, s) = <<>> /\ Starts(s, e)
            \/ Starts(s, e) /\ Past(e, s) # <<>> /\ <<e, Head(Past(e, s))>> \in Follows
<1>1. CASE s # <<>> /\ Head(s) = e
  BY <1>1, TailIsOrderly DEF Past, Starts
<1>2. CASE ~(s # <<>> /\ Head(s) = e)
  BY <1>2 DEF Past, Starts
<1>3. QED BY <1>1, <1>2

(* Steps put in front of those that are left.                              *)
LEMMA SpliceIsOrderly ==
  ASSUME NEW p, NEW s, Orderly(p), p # <<>>, Orderly(s),
         s # <<>> => <<p[Len(p)], Head(s)>> \in Follows
  PROVE  /\ Orderly(p \o s) /\ p \o s # <<>> /\ Head(p \o s) = Head(p)
         /\ \A x : Has(p \o s, x) <=> Has(p, x) \/ Has(s, x)
<1> DEFINE q == p \o s
           m == Len(p)
           n == Len(s)
<1>1. p \in Seq(Steps) /\ s \in Seq(Steps) /\ m \in Nat \ {0} /\ n \in Nat
  BY EmptySeq, LenProperties DEF Orderly
<1>2. /\ q \in Seq(Steps) /\ Len(q) = m + n
      /\ \A k \in 1..(m + n) : q[k] = IF k <= m THEN p[k] ELSE s[k - m]
  BY <1>1, ConcatProperties, Zenon
<1>3. /\ Head(p) = p[1] /\ Head(q) = q[1] /\ q # <<>> /\ (n > 0 <=> s # <<>>)
      /\ n > 0 => Head(s) = s[1]
  BY <1>1, <1>2, EmptySeq
<1>4. /\ \A k \in 1..(m - 1) : <<p[k], p[k + 1]>> \in Follows
      /\ \A k \in 1..(n - 1) : <<s[k], s[k + 1]>> \in Follows
      /\ n > 0 => <<p[m], s[1]>> \in Follows /\ s[n] \in Lasts
      /\ p[m] \in Lasts
  BY <1>3 DEF Orderly
<1>5. Len(p) = m /\ Len(s) = n
  OBVIOUS
<1> HIDE DEF q, m, n
<1>6. /\ \A k \in 1..m : k \in 1..(m + n) /\ q[k] = p[k]
      /\ \A k \in 1..n : m + k \in 1..(m + n) /\ q[m + k] = s[k]
  <2>1. ASSUME NEW k \in 1..m PROVE k \in 1..(m + n) /\ q[k] = p[k]
    BY <1>1, <1>2
  <2>2. ASSUME NEW k \in 1..n PROVE m + k \in 1..(m + n) /\ q[m + k] = s[k]
    <3>1. m + k \in 1..(m + n) /\ ~(m + k <= m) /\ (m + k) - m = k
      BY <1>1
    <3>2. QED BY <1>2, <3>1
  <2>3. QED BY <2>1, <2>2
<1>7. \A k \in 1..(m + n) : k \in 1..m \/ \E i \in 1..n : k = m + i
  <2> SUFFICES ASSUME NEW k \in 1..(m + n), k \notin 1..m PROVE \E i \in 1..n : k = m + i
    OBVIOUS
  <2>1. k - m \in 1..n /\ k = m + (k - m)
    BY <1>1
  <2>2. QED BY <2>1
<1>8. ASSUME NEW k \in 1..(m + n - 1) PROVE <<q[k], q[k + 1]>> \in Follows
  <2>1. CASE k < m
    <3>1. k \in 1..(m - 1) /\ k \in 1..m /\ k + 1 \in 1..m
      BY <1>1, <2>1
    <3>2. QED BY <1>4, <1>6, <3>1
  <2>2. CASE k = m
    <3>1. n > 0 /\ m \in 1..m /\ 1 \in 1..n
      BY <1>1, <2>2
    <3>2. QED BY <1>4, <1>6, <2>2, <3>1
  <2>3. CASE k > m
    <3> DEFINE i == k - m
    <3>1. i \in 1..(n - 1) /\ i \in 1..n /\ i + 1 \in 1..n /\ k = m + i /\ k + 1 = m + (i + 1)
      BY <1>1, <2>3
    <3> HIDE DEF i
    <3>2. <<s[i], s[i + 1]>> \in Follows /\ q[m + i] = s[i] /\ q[m + (i + 1)] = s[i + 1]
      BY <1>4, <1>6, <3>1
    <3>3. QED BY <3>1, <3>2
  <2>4. QED BY <1>1, <2>1, <2>2, <2>3
<1>9. q[m + n] \in Lasts
  <2>1. CASE n = 0
    BY <1>1, <1>4, <1>6, <2>1
  <2>2. CASE n > 0
    <3>1. n \in 1..n
      BY <1>1, <2>2
    <3>2. QED BY <1>4, <1>6, <2>2, <3>1
  <2>3. QED BY <1>1, <2>1, <2>2
<1>10. Orderly(q)
  BY <1>1, <1>2, <1>8, <1>9 DEF Orderly
<1>11. q[1] = p[1]
  <2>1. 1 \in 1..m
    BY <1>1
  <2>2. QED BY <1>6, <2>1
<1>12. ASSUME NEW x PROVE Has(q, x) <=> Has(p, x) \/ Has(s, x)
  BY <1>2, <1>5, <1>6, <1>7 DEF Has
<1>13. QED BY <1>3, <1>10, <1>11, <1>12 DEF q

(* The cleanups the code begins.                                           *)
Unflagged == {<<"call">>, CleanUp, CleanUp \o <<"forget">>, FailStart,
              <<"call", "slot">> \o FailStart}
Begun == Unflagged \cup {CleanUp \o <<"flag">>}

LEMMA CleanupsAreOrderly ==
  /\ \A s \in Begun : /\ Orderly(s) /\ s # <<>> /\ ~Starts(s, "update") /\ ~Starts(s, "slot")
                      /\ Has(s, "call") /\ ~Has(s, "tear") /\ ~Has(s, "unlock")
                      /\ s \in Unflagged => ~Flagged(s)
  /\ Has(CleanUp, "close")
  /\ Has(<<"call", "slot">> \o FailStart, "slot")
<1> DEFINE Begins(s) == /\ Orderly(s) /\ s # <<>> /\ ~Starts(s, "update") /\ ~Starts(s, "slot")
                        /\ Has(s, "call") /\ ~Has(s, "tear") /\ ~Has(s, "unlock")
           Plain(s) == Begins(s) /\ ~Has(s, "flag")
<1> USE DEF CleanUp, FinishRow, FailStart, Orderly, Starts, Has, Steps, Follows, Lasts
<1>1. Plain(<<"call">>)
  OBVIOUS
<1>2. Plain(CleanUp) /\ Has(CleanUp, "close")
  OBVIOUS
<1>3. Plain(CleanUp \o <<"forget">>)
  OBVIOUS
<1>4. Begins(CleanUp \o <<"flag">>)
  OBVIOUS
<1>5. Plain(FailStart)
  OBVIOUS
<1>6. Plain(<<"call", "slot">> \o FailStart)
  OBVIOUS
<1>7. Has(<<"call", "slot">> \o FailStart, "slot")
  OBVIOUS
<1> HIDE DEF CleanUp, FinishRow, FailStart, Orderly, Starts, Has
<1>8. \A s \in Unflagged : Plain(s)
  BY <1>1, <1>2, <1>3, <1>5, <1>6 DEF Unflagged
<1>9. QED BY <1>2, <1>4, <1>7, <1>8 DEF Begun, Flagged

(* The steps that cleanup_call adds.                                       *)
TearSteps == <<"tear", "unwind", "unlock">>

LEMMA AddedAreOrderly ==
  /\ Orderly(TearSteps) /\ TearSteps # <<>> /\ Head(TearSteps) = "tear"
  /\ TearSteps[Len(TearSteps)] = "unlock"
  /\ \A x : Has(TearSteps, x) <=> x \in {"tear", "unwind", "unlock"}
  /\ Orderly(FinishRow) /\ FinishRow # <<>> /\ Head(FinishRow) = "finish"
  /\ FinishRow[Len(FinishRow)] = "update"
  /\ \A x : Has(FinishRow, x) <=> x \in {"finish", "read", "update"}
<1>1. /\ Orderly(TearSteps) /\ TearSteps # <<>> /\ Head(TearSteps) = "tear"
      /\ TearSteps[Len(TearSteps)] = "unlock"
  BY DEF TearSteps, Orderly, Steps, Follows, Lasts
<1>2. /\ Orderly(FinishRow) /\ FinishRow # <<>> /\ Head(FinishRow) = "finish"
      /\ FinishRow[Len(FinishRow)] = "update"
  BY DEF FinishRow, Orderly, Steps, Follows, Lasts
<1>3. ASSUME NEW x PROVE Has(TearSteps, x) <=> x \in {"tear", "unwind", "unlock"}
  <2>1. /\ Len(TearSteps) = 3 /\ TearSteps[1] = "tear" /\ TearSteps[2] = "unwind"
        /\ TearSteps[3] = "unlock"
    BY DEF TearSteps
  <2>2. QED BY <2>1 DEF Has
<1>4. ASSUME NEW x PROVE Has(FinishRow, x) <=> x \in {"finish", "read", "update"}
  <2>1. /\ Len(FinishRow) = 3 /\ FinishRow[1] = "finish" /\ FinishRow[2] = "read"
        /\ FinishRow[3] = "update"
    BY DEF FinishRow
  <2>2. QED BY <2>1 DEF Has
<1>5. QED BY <1>1, <1>2, <1>3, <1>4

(* Only the first step can be "tear", and what goes with each step is      *)
(* still to come.                                                          *)
LEMMA WhatGoesTogether ==
  ASSUME NEW s, Orderly(s)
  PROVE  /\ Has(s, "tear") => Starts(s, "tear")
         /\ Has(s, "close") => Has(s, "call")
         /\ Has(s, "unwind") => Has(s, "unlock")
         /\ Has(s, "tear") => Has(s, "unwind")
<1> DEFINE n == Len(s)
<1>1. /\ n \in Nat /\ (n > 0 => s # <<>> /\ Head(s) = s[1] /\ s[n] \in Lasts)
      /\ \A k \in 1..(n - 1) : <<s[k], s[k + 1]>> \in Follows
  BY EmptySeq, LenProperties DEF Orderly
<1>2. n = Len(s)
  OBVIOUS
<1> HIDE DEF n
<1>3. ASSUME NEW k \in 1..n, s[k] = "tear" PROVE Starts(s, "tear")
  <2>1. CASE k = 1
    BY <1>1, <1>3, <2>1 DEF Starts
  <2>2. CASE k # 1
    <3>1. k - 1 \in 1..(n - 1) /\ (k - 1) + 1 = k
      BY <1>1, <2>2
    <3>2. <<s[k - 1], "tear">> \in Follows
      BY <1>1, <1>3, <3>1
    <3>3. QED BY <3>2 DEF Follows
  <2>3. QED BY <2>1, <2>2
<1>4. ASSUME NEW x \in {"close", "unwind", "tear"}, NEW k \in 1..n, s[k] = x
      PROVE  \E y : <<x, y>> \in Follows /\ Has(s, y)
  <2>1. k # n
    BY <1>1, <1>4 DEF Lasts
  <2>2. k \in 1..(n - 1) /\ k + 1 \in 1..n
    BY <1>1, <2>1
  <2>3. QED BY <1>1, <1>2, <1>4, <2>2 DEF Has
<1>5. QED BY <1>2, <1>3, <1>4 DEF Has, Follows

\* The state that finish_dispatch has read is one that it finishes.
OpenState == Preconnected \cup {"CONNECTED"}
TodoInv ==
  /\ todo \in [Task -> Seq(Steps)] /\ seen \in [Task -> DispatchState \cup {"absent"}]
  /\ \A t \in Task : /\ Orderly(todo[t])
                     /\ Starts(todo[t], "update") => seen[t] \in OpenState

(* A task gets other steps to do.                                          *)
LEMMA TodoSet ==
  ASSUME TodoInv, NEW t \in Task, NEW s, Orderly(s), todo' = [todo EXCEPT ![t] = s],
         seen' \in [Task -> DispatchState \cup {"absent"}],
         \A u \in Task \ {t} : seen'[u] = seen[u],
         Starts(s, "update") => seen'[t] \in OpenState
  PROVE  TodoInv' /\ todo'[t] = s /\ \A u \in Task \ {t} : todo'[u] = todo[u]
<1>1. s \in Seq(Steps)
  BY DEF Orderly
<1>2. /\ todo' \in [Task -> Seq(Steps)] /\ todo'[t] = s
      /\ \A u \in Task \ {t} : todo'[u] = todo[u]
  BY <1>1 DEF TodoInv
<1>3. QED BY <1>2 DEF TodoInv

\* What is left of steps s when some of them, "lost" and the first, are done.
Leaves(s, u, lost) ==
  /\ Orderly(u) /\ ~Has(u, "tear")
  /\ \A x : Has(u, x) => Has(s, x)
  /\ \A x : Has(s, x) => x = Head(s) \/ x \in lost \/ Has(u, x)
  /\ Starts(u, "slot") => Has(s, "unlock") /\ ~Has(s, "tear")

LEMMA DoneLeaves ==
  ASSUME NEW s, Orderly(s), s # <<>>, Head(s) \notin {"call", "unlock", "read"}
  PROVE  /\ Leaves(s, After(Tail(s)), {"unlock"}) /\ ~Starts(After(Tail(s)), "update")
         /\ Head(s) = "flag" => After(Tail(s)) = <<>>
<1> DEFINE r == Tail(s)
           u == Past("unlock", r)
<1>1. /\ Orderly(r) /\ \A x : Has(s, x) <=> x = Head(s) \/ Has(r, x)
      /\ r # <<>> => <<Head(s), Head(r)>> \in Follows
  BY TailIsOrderly
<1>2. /\ Orderly(u) /\ (\A x : Has(u, x) => Has(r, x))
      /\ \A x : Has(r, x) => x = "unlock" \/ Has(u, x)
      /\ \/ u = r /\ ~Starts(r, "unlock")
         \/ u = <<>> /\ Starts(r, "unlock")
         \/ Starts(r, "unlock") /\ u # <<>> /\ <<"unlock", Head(u)>> \in Follows
  BY <1>1, PastIsOrderly
<1>3. Starts(r, "unlock") => Has(r, "unlock") /\ Head(s) # "tear"
  BY <1>1, TailIsOrderly DEF Starts, Follows
<1>4. Has(s, "tear") => Head(s) = "tear"
  BY WhatGoesTogether DEF Starts
<1> HIDE DEF r, u
<1>5. Has(u, "tear") => Starts(u, "tear")
  BY <1>2, WhatGoesTogether
<1>6. u # <<>> => Head(u) \notin {"update", "tear"} /\ (Head(u) = "slot" => Starts(r, "unlock"))
  BY <1>1, <1>2 DEF Follows, Starts
<1>7. Head(s) = "flag" => u = <<>>
  BY <1>1, <1>2 DEF Follows, Starts
<1>8. QED BY <1>1, <1>2, <1>3, <1>4, <1>5, <1>6, <1>7 DEF Leaves, Starts, After, u, r

LEMMA NothingToCleanLeaves ==
  ASSUME NEW s, Orderly(s), Starts(s, "call")
  PROVE  LET u == Past("finish", Past("slot", Tail(s))) IN
           Leaves(s, u, {"slot", "finish"}) /\ ~Starts(u, "update")
<1> DEFINE r == Tail(s)
           q == Past("slot", r)
           u == Past("finish", q)
<1>1. /\ Orderly(r) /\ \A x : Has(s, x) <=> x = "call" \/ Has(r, x)
      /\ r # <<>> => <<"call", Head(r)>> \in Follows
  BY TailIsOrderly DEF Starts
<1>2. /\ Orderly(q) /\ (\A x : Has(q, x) => Has(r, x))
      /\ \A x : Has(r, x) => x = "slot" \/ Has(q, x)
      /\ \/ q = r /\ ~Starts(r, "slot")
         \/ q = <<>> /\ Starts(r, "slot")
         \/ Starts(r, "slot") /\ q # <<>> /\ <<"slot", Head(q)>> \in Follows
  BY <1>1, PastIsOrderly
<1>3. q # <<>> => Head(q) \in {"close", "finish"}
  BY <1>1, <1>2 DEF Follows, Starts
<1> HIDE DEF r, q
<1>4. /\ Orderly(u) /\ (\A x : Has(u, x) => Has(q, x))
      /\ \A x : Has(q, x) => x = "finish" \/ Has(u, x)
      /\ \/ u = q /\ ~Starts(q, "finish")
         \/ u = <<>> /\ Starts(q, "finish")
         \/ Starts(q, "finish") /\ u # <<>> /\ <<"finish", Head(u)>> \in Follows
  BY <1>2, PastIsOrderly
<1>5. u # <<>> => Head(u) \in {"close", "read"}
  BY <1>3, <1>4 DEF Follows, Starts
<1> HIDE DEF u
<1>6. ~Has(u, "tear") /\ ~Starts(u, "slot") /\ ~Starts(u, "update")
  BY <1>4, <1>5, WhatGoesTogether DEF Starts
<1>7. QED BY <1>1, <1>2, <1>4, <1>6 DEF Leaves, Starts, u, q, r

LEMMA ReadLeaves ==
  ASSUME NEW s, Orderly(s), Starts(s, "read")
  PROVE  /\ After(Tail(s)) = Tail(s) /\ Starts(Tail(s), "update") /\ Leaves(s, Tail(s), {})
         /\ LET u == After(Tail(Tail(s))) IN
              Leaves(s, u, {"update", "unlock"}) /\ ~Starts(u, "update")
<1> DEFINE r == Tail(s)
           u == After(Tail(r))
<1>1. /\ Orderly(r) /\ \A x : Has(s, x) <=> x = "read" \/ Has(r, x)
      /\ r # <<>> /\ Head(r) = "update"
  BY TailIsOrderly DEF Starts, Lasts, Follows
<1>2. ~Has(s, "tear")
  BY WhatGoesTogether DEF Starts
<1>3. After(r) = r
  BY <1>1 DEF After, Past
<1> HIDE DEF r
<1>4. Leaves(r, u, {"unlock"}) /\ ~Starts(u, "update")
  BY <1>1, DoneLeaves
<1>5. Leaves(s, r, {})
  BY <1>1, <1>2 DEF Leaves, Starts
<1>6. Leaves(s, u, {"update", "unlock"})
  BY <1>1, <1>2, <1>4 DEF Leaves, Starts
<1>7. QED BY <1>1, <1>3, <1>4, <1>5, <1>6 DEF Starts, r

(* cleanup_call goes on: the teardown before, the row after it.            *)
LEMMA AddedLeaves ==
  ASSUME NEW s, Orderly(s), NEW p,
         \/ Starts(s, "call") /\ p = TearSteps
         \/ Starts(s, "unwind") /\ p = FinishRow
  PROVE  LET u == p \o Tail(s) IN
           /\ Orderly(u) /\ ~Starts(u, "update") /\ ~Starts(u, "slot")
           /\ \A x : Has(u, x) => Has(p, x) \/ Has(s, x)
           /\ \A x : Has(s, x) \/ Has(p, x) => x = Head(s) \/ Has(u, x)
           /\ Has(u, "tear") <=> p = TearSteps
<1> DEFINE r == Tail(s)
           u == p \o r
<1>1. /\ Orderly(r) /\ \A x : Has(s, x) <=> x = Head(s) \/ Has(r, x)
      /\ r # <<>> => <<Head(s), Head(r)>> \in Follows
      /\ s # <<>>
  BY TailIsOrderly DEF Starts
<1>2. /\ Orderly(p) /\ p # <<>> /\ Head(p) \in {"tear", "finish"}
      /\ r # <<>> => <<p[Len(p)], Head(r)>> \in Follows
      /\ Has(p, "tear") <=> p = TearSteps
  BY <1>1, AddedAreOrderly DEF Starts, Follows
<1> HIDE DEF r
<1>3. /\ Orderly(u) /\ u # <<>> /\ Head(u) = Head(p)
      /\ \A x : Has(u, x) <=> Has(p, x) \/ Has(r, x)
  BY <1>1, <1>2, SpliceIsOrderly
<1>4. ~Has(r, "tear")
  BY <1>1, WhatGoesTogether DEF Starts, Follows
<1> HIDE DEF u
<1>5. /\ \A x : Has(u, x) => Has(p, x) \/ Has(s, x)
      /\ \A x : Has(s, x) \/ Has(p, x) => x = Head(s) \/ Has(u, x)
  BY <1>1, <1>3
<1>6. QED BY <1>2, <1>3, <1>4, <1>5 DEF Starts, u, r

(* A step of a cleanup: its task alone moves on.                           *)
LEMMA CleanupLeaves ==
  ASSUME TodoInv, RowTypeOK, NEW t \in Task, CleanupStep(t)
  PROVE  /\ TodoInv' /\ (\A v \in Task \ {t} : todo'[v] = todo[v])
         /\ todo[t] # <<>> /\ Orderly(todo[t])
         /\ \/ Leaves(todo[t], todo'[t], {"unlock", "update"}) /\ ~EnterCleanup(t)
            \/ Leaves(todo[t], todo'[t], {"slot", "finish"}) /\ NothingToClean(t)
            \/ \E p \in {TearSteps, FinishRow} :
                 /\ p = TearSteps => EnterCleanup(t)
                 /\ p = FinishRow => Unwound(t)
                 /\ \A x : Has(todo'[t], x) => Has(p, x) \/ Has(todo[t], x)
                 /\ \A x : Has(todo[t], x) \/ Has(p, x) => x = Head(todo[t]) \/ Has(todo'[t], x)
                 /\ Has(todo'[t], "tear") <=> p = TearSteps
                 /\ ~Starts(todo'[t], "slot")
         /\ At(t, "flag") => ~Flagged(todo'[t])
<1> DEFINE s == todo[t]
           Others == \A v \in Task \ {t} : todo'[v] = todo[v]
<1>1. Orderly(s) /\ seen \in [Task -> DispatchState \cup {"absent"}]
  BY DEF TodoInv
<1>2. ASSUME NEW x \in Steps \ {"call", "unlock", "read"}, At(t, x), Done(t), UNCHANGED seen
      PROVE  /\ TodoInv' /\ Others /\ Leaves(s, todo'[t], {"unlock", "update"})
             /\ At(t, "flag") => ~Flagged(todo'[t])
  <2>1. /\ Leaves(s, After(Tail(s)), {"unlock"}) /\ ~Starts(After(Tail(s)), "update")
        /\ At(t, "flag") => After(Tail(s)) = <<>>
    BY <1>1, <1>2, DoneLeaves DEF At
  <2>2. Orderly(After(Tail(s))) /\ todo' = [todo EXCEPT ![t] = After(Tail(s))]
    BY <1>2, <2>1 DEF Done, Leaves
  <2>3. TodoInv' /\ todo'[t] = After(Tail(s)) /\ Others
    BY <1>1, <1>2, <2>1, <2>2, TodoSet
  <2>4. QED BY <2>1, <2>3, NothingIsOrderly DEF Leaves, Flagged
<1>3. ASSUME NEW p, todo' = [todo EXCEPT ![t] = p \o Tail(s)], UNCHANGED seen,
             \/ At(t, "call") /\ p = TearSteps
             \/ At(t, "unwind") /\ p = FinishRow
      PROVE  /\ TodoInv' /\ Others
             /\ \A x : Has(todo'[t], x) => Has(p, x) \/ Has(s, x)
             /\ \A x : Has(s, x) \/ Has(p, x) => x = Head(s) \/ Has(todo'[t], x)
             /\ Has(todo'[t], "tear") <=> p = TearSteps
             /\ ~Starts(todo'[t], "slot")
  <2> DEFINE u == p \o Tail(s)
  <2>1. /\ Orderly(u) /\ ~Starts(u, "update") /\ ~Starts(u, "slot")
        /\ \A x : Has(u, x) => Has(p, x) \/ Has(s, x)
        /\ \A x : Has(s, x) \/ Has(p, x) => x = Head(s) \/ Has(u, x)
        /\ Has(u, "tear") <=> p = TearSteps
    BY <1>1, <1>3, AddedLeaves DEF At, Starts
  <2>2. TodoInv' /\ todo'[t] = u /\ Others
    BY <1>1, <1>3, <2>1, TodoSet
  <2>3. QED BY <2>1, <2>2
<1>4. ASSUME At(t, "read"), UNCHANGED seen, todo' = [todo EXCEPT ![t] = After(Tail(Tail(@)))]
      PROVE  TodoInv' /\ Others /\ Leaves(s, todo'[t], {"unlock", "update"})
  <2>1. LET u == After(Tail(Tail(s))) IN
          Leaves(s, u, {"update", "unlock"}) /\ ~Starts(u, "update") /\ Orderly(u)
    BY <1>1, <1>4, ReadLeaves DEF At, Starts, Leaves
  <2>2. TodoInv' /\ todo'[t] = After(Tail(Tail(s))) /\ Others
    BY <1>1, <1>4, <2>1, TodoSet
  <2>3. QED BY <2>1, <2>2 DEF Leaves
<1>5. CASE FinishReads(t)
  <2>1. At(t, "read")
    BY <1>5 DEF FinishReads
  <2>2. CASE row[Of(t)] \in Terminal \cup {"absent"}
    BY <1>1, <1>4, <1>5, <2>1, <2>2 DEF FinishReads, At, EnterCleanup
  <2>3. CASE row[Of(t)] \notin Terminal \cup {"absent"}
    <3>1. After(Tail(s)) = Tail(s) /\ Starts(Tail(s), "update") /\ Leaves(s, Tail(s), {})
      BY <1>1, <2>1, ReadLeaves DEF At, Starts
    <3>2. todo' = [todo EXCEPT ![t] = Tail(s)] /\ seen' = [seen EXCEPT ![t] = row[Of(t)]]
      BY <1>5, <2>3, <3>1 DEF FinishReads, Done
    <3>3. row[Of(t)] \in OpenState
      BY <2>3 DEF RowTypeOK, DispatchState, OpenState, Task, Of
    <3>4. /\ seen' \in [Task -> DispatchState \cup {"absent"}] /\ seen'[t] \in OpenState
          /\ \A v \in Task \ {t} : seen'[v] = seen[v]
      BY <1>1, <3>2, <3>3 DEF OpenState, DispatchState
    <3>5. TodoInv' /\ todo'[t] = Tail(s) /\ Others
      BY <3>1, <3>2, <3>4, TodoSet DEF Leaves
    <3>6. QED BY <1>1, <2>1, <3>1, <3>5 DEF Leaves, At, EnterCleanup
  <2>4. QED BY <2>2, <2>3
<1>6. ASSUME ~EnterCleanup(t), \E x \in Steps \ {"call", "unlock", "read"} : At(t, x),
             Done(t), UNCHANGED seen
      PROVE  /\ TodoInv' /\ Others /\ Leaves(s, todo'[t], {"unlock", "update"}) /\ s # <<>>
             /\ At(t, "flag") => ~Flagged(todo'[t])
  BY <1>2, <1>6 DEF At
<1>7. CASE CloseStream(t) \/ TearDown(t) \/ SlotReturned(t) \/ FinishStarts(t)
           \/ FinishWrites(t) \/ DeadlineOver(t) \/ Forget(t)
  <2>1. /\ \E x \in Steps \ {"call", "unlock", "read"} : At(t, x)
        /\ Done(t) /\ UNCHANGED seen
    BY <1>7 DEF CloseStream, TearDown, SlotReturned, FinishStarts, FinishWrites, DeadlineOver,
                Forget, Steps, tasks
  <2>2. ~EnterCleanup(t)
    BY <2>1 DEF EnterCleanup, At
  <2>3. QED BY <1>1, <1>6, <2>1, <2>2
<1>8. CASE NothingToClean(t)
  <2> DEFINE u == Past("finish", Past("slot", Tail(s)))
  <2>1. At(t, "call") /\ todo' = [todo EXCEPT ![t] = u] /\ UNCHANGED seen
    BY <1>8 DEF NothingToClean
  <2>2. Leaves(s, u, {"slot", "finish"}) /\ ~Starts(u, "update")
    BY <1>1, <2>1, NothingToCleanLeaves DEF At, Starts
  <2>3. TodoInv' /\ todo'[t] = u /\ Others
    BY <1>1, <2>1, <2>2, TodoSet DEF Leaves
  <2>4. QED BY <1>1, <1>8, <2>1, <2>2, <2>3 DEF At
<1>9. CASE EnterCleanup(t)
  <2>1. At(t, "call") /\ UNCHANGED seen /\ todo' = [todo EXCEPT ![t] = TearSteps \o Tail(s)]
    BY <1>9 DEF EnterCleanup, TearSteps
  <2>2. TearSteps # FinishRow
    BY DEF TearSteps, FinishRow
  <2>3. QED BY <1>1, <1>3, <1>9, <2>1, <2>2 DEF At
<1>10. CASE Unwound(t)
  <2>1. At(t, "unwind") /\ UNCHANGED seen
    BY <1>10 DEF Unwound
  <2>2. CASE Of(t) \in known
    <3>1. todo' = [todo EXCEPT ![t] = FinishRow \o Tail(s)]
      BY <1>10, <2>2 DEF Unwound
    <3>2. TearSteps # FinishRow
      BY DEF TearSteps, FinishRow
    <3>3. QED BY <1>1, <1>3, <1>10, <2>1, <3>1, <3>2 DEF At
  <2>3. CASE Of(t) \notin known
    <3>1. Done(t) /\ "unwind" \in Steps \ {"call", "unlock", "read"} /\ ~EnterCleanup(t)
      BY <1>10, <2>1, <2>3 DEF Unwound, Steps, EnterCleanup, At
    <3>2. QED BY <1>1, <1>6, <2>1, <3>1
  <2>4. QED BY <2>2, <2>3
<1>11. CASE FinishFails(t)
  <2>1. CASE At(t, "read") /\ todo' = [todo EXCEPT ![t] = After(Tail(Tail(@)))]
    BY <1>1, <1>4, <1>11, <2>1 DEF FinishFails, At, EnterCleanup
  <2>2. CASE At(t, "update") /\ Done(t)
    <3>1. "update" \in Steps \ {"call", "unlock", "read"} /\ ~EnterCleanup(t) /\ UNCHANGED seen
      BY <1>11, <2>2 DEF FinishFails, Steps, EnterCleanup, At
    <3>2. QED BY <1>1, <1>6, <2>2, <3>1
  <2>3. QED BY <1>11, <2>1, <2>2 DEF FinishFails
<1>12. QED BY <1>5, <1>7, <1>8, <1>9, <1>10, <1>11 DEF CleanupStep

(* No deadline's end appears.                                              *)
LEMMA CleanupKeepsTodo ==
  ASSUME TodoInv, RowTypeOK, NEW t \in Task, CleanupStep(t)
  PROVE  /\ TodoInv'
         /\ \A u \in Task : Flagged(todo'[u]) => Flagged(todo[u])
         /\ At(t, "flag") => ~Flagged(todo'[t])
<1>1. ~Has(TearSteps, "flag") /\ ~Has(FinishRow, "flag")
  BY AddedAreOrderly
<1>2. Flagged(todo'[t]) => Flagged(todo[t])
  BY <1>1, CleanupLeaves DEF Leaves, Flagged
<1>3. QED BY <1>2, CleanupLeaves

(* The tasks that begin a cleanup.                                         *)
LEMMA BeginKeepsTodo ==
  ASSUME TodoInv, NEW t \in Task, UNCHANGED seen, NEW s \in Unflagged,
         Begin(t, s)
  PROVE  /\ TodoInv'
         /\ \A u \in Task : Flagged(todo'[u]) => Flagged(todo[u])
<1>1. Orderly(s) /\ ~Starts(s, "update") /\ ~Flagged(s)
  BY CleanupsAreOrderly DEF Begun
<1>2. todo' = [todo EXCEPT ![t] = s] /\ seen \in [Task -> DispatchState \cup {"absent"}]
  BY DEF Begin, TodoInv
<1>3. TodoInv' /\ todo'[t] = s /\ \A u \in Task \ {t} : todo'[u] = todo[u]
  BY <1>1, <1>2, TodoSet
<1>4. QED BY <1>1, <1>3

----------------------------------------------------------------------------
(* Every writer of the rows obeys their table                              *)

(* The write of one row.                                                   *)
LEMMA OneRowMoves ==
  ASSUME RowInv, NEW c \in Calls, NEW s \in DispatchState, NEW a \in Agents \cup {Nobody},
         row' = [row EXCEPT ![c] = s], claimant' = [claimant EXCEPT ![c] = a],
         \/ row[c] = "absent" /\ s = "RINGING" /\ a = Nobody
         \/ row[c] # "absent" /\ s \in Allowed[row[c]] /\ ClaimRule(s, claimant[c], a)
  PROVE  RowNext
<1>1. /\ row' \in [Calls -> DispatchState \cup {"absent"}]
      /\ claimant' \in [Calls -> Agents \cup {Nobody}]
  BY DEF RowInv, RowTypeOK
<1>2. RowMove(c)
  BY DEF RowInv, RowTypeOK, RowMove
<1>3. \A d \in Calls \ {c} : UNCHANGED <<row[d], claimant[d]>>
  BY DEF RowInv, RowTypeOK
<1>4. QED BY <1>1, <1>2, <1>3 DEF RowNext

(* The write of a state, the claim left as it is.                          *)
LEMMA OneStateMoves ==
  ASSUME RowInv, NEW c \in Calls, NEW s \in DispatchState, UNCHANGED claimant,
         row' = [row EXCEPT ![c] = s],
         \/ row[c] = "absent" /\ s = "RINGING"
         \/ row[c] # "absent" /\ s \in Allowed[row[c]]
            /\ ClaimRule(s, claimant[c], claimant[c])
  PROVE  RowNext
<1>1. claimant[c] \in Agents \cup {Nobody} /\ claimant' = [claimant EXCEPT ![c] = claimant[c]]
  BY DEF RowInv, RowTypeOK
<1>2. row[c] = "absent" => claimant[c] = Nobody
  BY DEF RowInv, QueueUnclaimed
<1>3. QED BY <1>1, <1>2, OneRowMoves

LEMMA CleanupMovesRow ==
  ASSUME RowInv, TodoInv, NEW t \in Task, CleanupStep(t)
  PROVE  [RowNext]_rowVars
<1>1. CASE FinishWrites(t)
  <2> DEFINE c == Of(t)
  <2>1. c \in Calls /\ seen[t] \in OpenState /\ UNCHANGED claimant
    BY <1>1 DEF FinishWrites, TodoInv, Starts, At, Task, Of
  <2>2. CASE row[c] = seen[t]
    <3>1. row' = [row EXCEPT ![c] = TerminalFor(seen[t])]
      BY <1>1, <2>2 DEF FinishWrites
    <3>2. /\ TerminalFor(seen[t]) \in DispatchState /\ row[c] # "absent"
          /\ TerminalFor(seen[t]) \in Allowed[row[c]]
          /\ ClaimRule(TerminalFor(seen[t]), claimant[c], claimant[c])
      BY <2>1, <2>2 DEF TerminalFor, OpenState, Preconnected, Allowed, DispatchState, Terminal,
                        ClaimRule
    <3>3. QED BY <2>1, <3>1, <3>2, OneStateMoves
  <2>3. CASE row[c] # seen[t]
    BY <1>1, <2>3 DEF FinishWrites, rowVars
  <2>4. QED BY <2>2, <2>3
<1>2. CASE ~FinishWrites(t)
  BY <1>2 DEF CleanupStep, CloseStream, NothingToClean, EnterCleanup, TearDown, Unwound,
         SlotReturned,
              FinishStarts, FinishReads, FinishFails, DeadlineOver, Forget, table, rowVars
<1>3. QED BY <1>1, <1>2

LEMMA CallMovesRow ==
  ASSUME RowInv, NEW c \in Calls, CallStep(c)
  PROVE  [RowNext]_rowVars
<1> USE DEF Allowed, DispatchState, Preconnected, Terminal, ClaimRule
<1>1. CASE InsertRinging(c)
  BY <1>1, OneStateMoves DEF InsertRinging, rowVars
<1>2. CASE StreamStarts(c)
  <2>1. claimant[c] = Nobody
    BY <1>2 DEF StreamStarts, RowInv, QueueUnclaimed
  <2>2. QED BY <1>2, <2>1, OneStateMoves DEF StreamStarts
<1>3. CASE ReleaseExpiredClaim(c)
  BY <1>3, OneRowMoves DEF ReleaseExpiredClaim
<1>4. CASE TimeoutWaiting(c)
  BY <1>4, OneStateMoves DEF TimeoutWaiting
<1>5. CASE \/ CountQueue(c) \/ StreamConnects(c) \/ StreamEnds(c) \/ StatusCallback(c)
           \/ EndCall(c) \/ InitialExpires(c) \/ GraceExpires(c)
  BY <1>5 DEF CountQueue, StreamConnects, StreamEnds, StatusCallback, EndCall, InitialExpires,
              GraceExpires, table, rowVars
<1>6. QED BY <1>1, <1>2, <1>3, <1>4, <1>5 DEF CallStep

LEMMA PickupMovesRow ==
  ASSUME RowInv, NEW a \in Agents, NEW c \in Calls, PickupStep(a, c)
  PROVE  [RowNext]_rowVars
<1> USE DEF Allowed, DispatchState, Preconnected, Terminal, ClaimRule
<1>1. CASE Claim(a, c)
  BY <1>1, InboundAssumption, OneRowMoves DEF Claim
<1>2. CASE StartSession(a, c)
  BY <1>2, OneStateMoves DEF StartSession, rowVars
<1>3. CASE Answer(a, c)
  BY <1>3, OneStateMoves DEF Answer, rowVars
<1>4. CASE \/ PickupAgain(a, c) \/ SessionConnected(a, c) \/ BootstrapFails(a, c)
           \/ HandedOff(a, c) \/ PickupRaises(a, c)
  BY <1>4 DEF PickupAgain, SessionConnected, BootstrapFails, HandedOff, PickupRaises, table,
              rowVars
<1>5. QED BY <1>1, <1>2, <1>3, <1>4 DEF PickupStep

LEMMA RestartMovesRows ==
  ASSUME RowInv, Restart
  PROVE  RowNext
<1>1. /\ row' = [c \in Calls |-> IF Open(c) THEN TerminalFor(row[c]) ELSE row[c]]
      /\ claimant' = [c \in Calls |->
           IF Open(c) /\ row[c] # "CONNECTED" THEN Nobody ELSE claimant[c]]
  BY DEF Restart
<1>2. ASSUME NEW c \in Calls
      PROVE  /\ row'[c] \in DispatchState \cup {"absent"}
             /\ claimant'[c] \in Agents \cup {Nobody}
             /\ RowMove(c) \/ UNCHANGED <<row[c], claimant[c]>>
  <2>1. row[c] \in DispatchState \cup {"absent"} /\ claimant[c] \in Agents \cup {Nobody}
    BY DEF RowInv, RowTypeOK
  <2>2. CASE row[c] = "CONNECTED"
    BY <1>1, <2>1, <2>2 DEF Open, TerminalFor, RowMove, Allowed, ClaimRule, DispatchState,
                            Preconnected, Terminal
  <2>3. CASE row[c] \in Preconnected
    BY <1>1, <2>1, <2>3 DEF Open, TerminalFor, RowMove, Allowed, ClaimRule, DispatchState,
                            Preconnected, Terminal
  <2>4. CASE row[c] \in Terminal \cup {"absent"}
    BY <1>1, <2>1, <2>4 DEF Open, Preconnected, Terminal
  <2>5. QED BY <2>1, <2>2, <2>3, <2>4 DEF DispatchState
<1>3. QED BY <1>1, <1>2 DEF RowNext

LEMMA StepMovesRow ==
  ASSUME RowInv, TodoInv, [Next]_vars
  PROVE  [RowNext]_rowVars
<1>1. ASSUME NEW c \in Calls, NEW x \in Apps, AppStep(x, c) PROVE UNCHANGED rowVars
  BY <1>1 DEF AppStep, AppConnects, AppAttaches, AppLeaves, AppEndsCall, table, rowVars
<1>2. CASE UNCHANGED vars
  BY <1>2 DEF vars, table, rowVars
<1>3. QED BY <1>1, <1>2, CleanupMovesRow, CallMovesRow, PickupMovesRow, RestartMovesRows DEF Next

(* The other steps and the steps of the cleanups.                          *)
LEMMA StepKeepsTodo ==
  ASSUME RowInv, TodoInv, [Next]_vars
  PROVE  TodoInv'
<1>1. ASSUME NEW t \in Task, CleanupStep(t) PROVE TodoInv'
  BY <1>1, CleanupKeepsTodo DEF RowInv
<1>2. ASSUME NEW c \in Calls
      PROVE  /\ \A x \in {"stream", "status", "sweep", "initial", "grace", "end"} :
                  <<x, c>> \in Task
             /\ \A x \in Agents \cup Apps : <<x, c>> \in Task
  BY DEF Task
<1>3. ASSUME UNCHANGED tasks PROVE TodoInv'
  BY <1>3 DEF tasks, TodoInv
<1>4. ASSUME NEW t \in Task, todo' = [todo EXCEPT ![t] = CleanUp \o <<"flag">>], UNCHANGED seen
      PROVE  TodoInv'
  BY <1>4, TodoSet, CleanupsAreOrderly DEF TodoInv, Begun
<1>5. ASSUME NEW c \in Calls, CallStep(c) PROVE TodoInv'
  <2>1. CASE StreamEnds(c) \/ StatusCallback(c) \/ EndCall(c) \/ TimeoutWaiting(c)
    BY <1>2, <2>1, BeginKeepsTodo
       DEF StreamEnds, StatusCallback, EndCall, TimeoutWaiting, Unflagged
  <2>2. CASE InitialExpires(c) \/ GraceExpires(c)
    BY <1>2, <1>3, <1>4, <2>2 DEF InitialExpires, GraceExpires, Begin, tasks
  <2>3. CASE \/ CountQueue(c) \/ InsertRinging(c) \/ StreamConnects(c) \/ StreamStarts(c)
             \/ ReleaseExpiredClaim(c)
    BY <1>3, <2>3 DEF CountQueue, InsertRinging, StreamConnects, StreamStarts,
                      ReleaseExpiredClaim
  <2>4. QED BY <1>5, <2>1, <2>2, <2>3 DEF CallStep
<1>6. ASSUME NEW a \in Agents, NEW c \in Calls, PickupStep(a, c) PROVE TodoInv'
  <2>1. ASSUME NEW s \in {FailStart, <<"call", "slot">> \o FailStart}, Begin(<<a, c>>, s),
               UNCHANGED seen
        PROVE  TodoInv'
    BY <1>2, <2>1, BeginKeepsTodo DEF Unflagged
  <2>2. CASE StartSession(a, c) \/ SessionConnected(a, c) \/ BootstrapFails(a, c) \/ Answer(a, c)
    BY <1>3, <2>1, <2>2 DEF StartSession, SessionConnected, BootstrapFails, Answer, tasks
  <2>3. CASE Claim(a, c) \/ PickupAgain(a, c) \/ HandedOff(a, c) \/ PickupRaises(a, c)
    BY <1>3, <2>3 DEF Claim, PickupAgain, HandedOff, PickupRaises
  <2>4. QED BY <1>6, <2>2, <2>3 DEF PickupStep
<1>7. ASSUME NEW x \in Apps, NEW c \in Calls, AppStep(x, c) PROVE TodoInv'
  <2>1. CASE AppEndsCall(x, c)
    BY <1>2, <2>1, BeginKeepsTodo DEF AppEndsCall, Unflagged
  <2>2. CASE AppConnects(x, c) \/ AppAttaches(x, c) \/ AppLeaves(x, c)
    BY <1>3, <2>2 DEF AppConnects, AppAttaches, AppLeaves
  <2>3. QED BY <1>7, <2>1, <2>2 DEF AppStep
<1>8. CASE Restart
  BY <1>8, NothingIsOrderly DEF Restart, TodoInv, Starts
<1>9. CASE UNCHANGED vars
  BY <1>3, <1>9 DEF vars
<1>10. QED BY <1>1, <1>5, <1>6, <1>7, <1>8, <1>9 DEF Next

LEMMA InitOrdersTodo == Init => RowInv /\ TodoInv
BY RowInitEstablishesRowInv, NothingIsOrderly DEF Init, TodoInv, Starts

LEMMA RowsHold == Spec => [](RowInv /\ TodoInv)
<1>1. RowInv /\ TodoInv /\ [Next]_vars => (RowInv /\ TodoInv)'
  BY StepMovesRow, StepKeepsTodo, RowNextKeepsRowInv
<1>2. QED BY <1>1, InitOrdersTodo, PTL DEF Spec

(* The handlers, the sweeper, finish_dispatch and the recovery after a     *)
(* restart implement the row of models.py: none of their UPDATEs takes a   *)
(* transition the table forbids, whatever has happened to the row since    *)
(* its state was read.                                                     *)
THEOREM InboundRefinesRow == Spec => RefinesRow
<1>1. Init => RowInit
  BY DEF Init
<1>2. RowInv /\ TodoInv /\ [Next]_vars => [RowNext]_rowVars
  BY StepMovesRow
<1>3. QED BY <1>1, <1>2, RowsHold, PTL DEF Spec, RefinesRow, RowSpec

----------------------------------------------------------------------------
(* Slots                                                                   *)

LEMMA StepMovesSlots ==
  ASSUME [Next]_vars
  PROVE  [CapNext]_capVars \/ (reserved' = {} /\ active' = {})
<1>1. ASSUME NEW t \in Task, CleanupStep(t) PROVE [CapNext]_capVars
  <2>1. Of(t) \in Calls
    BY DEF Task, Of
  <2>2. ReturnSlot(Of(t)) \/ UNCHANGED capVars
    BY <1>1 DEF CleanupStep, CloseStream, NothingToClean, EnterCleanup, TearDown, Unwound,
                SlotReturned,
                FinishStarts, FinishReads, FinishWrites, FinishFails, DeadlineOver, Forget
  <2>3. QED BY <2>1, <2>2 DEF CapNext
<1>2. ASSUME NEW c \in Calls, CallStep(c) PROVE UNCHANGED capVars
  BY <1>2 DEF CallStep, CountQueue, InsertRinging, StreamConnects, StreamStarts, StreamEnds,
              StatusCallback, EndCall, ReleaseExpiredClaim, TimeoutWaiting, InitialExpires,
              GraceExpires
<1>3. ASSUME NEW a \in Agents, NEW c \in Calls, PickupStep(a, c)
      PROVE  Reserve(c) \/ Commit(c) \/ UNCHANGED capVars
  BY <1>3 DEF PickupStep, Claim, PickupAgain, StartSession, SessionConnected, BootstrapFails,
              HandedOff, Answer, PickupRaises, capVars
<1>4. ASSUME NEW x \in Apps, NEW c \in Calls, AppStep(x, c) PROVE UNCHANGED capVars
  BY <1>4 DEF AppStep, AppConnects, AppAttaches, AppLeaves, AppEndsCall
<1>5. QED BY <1>1, <1>2, <1>3, <1>4 DEF Next, CapNext, Restart, vars

LEMMA SlotsHold == Spec => []CapInv
<1>1. Init => CapInv
  BY CapInitEstablishesCapInv DEF Init
<1>2. CapInv /\ [Next]_vars => CapInv'
  BY StepMovesSlots, CapNextKeepsCapInv, ShrinkKeepsCapInv
<1>3. QED BY <1>1, <1>2, PTL DEF Spec

(* Inbound calls too stay within max_concurrent_calls: a pickup reserves,  *)
(* commits and returns its slot through the capacity manager only, and a   *)
(* restart empties it (inbound/media.py, bootstrap_inbound_media).         *)
THEOREM InboundCapacityBound == Spec => []CapacityBound
<1>1. CapInv => CapacityBound
  BY DEF CapInv
<1>2. QED BY <1>1, SlotsHold, PTL

----------------------------------------------------------------------------
(* The queue                                                               *)

\* A row appears only by the webhook, and is connected only by a pickup.
RowsKept ==
  \A d \in Calls : /\ row'[d] = "CONNECTED" => row[d] = "CONNECTED"
                   /\ row[d] = "absent" => row'[d] = "absent"

LEMMA WhoWritesRows ==
  ASSUME RowInv, TodoInv, [Next]_vars
  PROVE  \/ RowsKept
         \/ \E c \in Calls : InsertRinging(c) /\ row[c] = "absent"
         \/ \E a \in Agents, c \in Calls :
              Answer(a, c) /\ row[c] = "SESSION_STARTING" /\ claimant[c] = a
<1>1. ASSUME UNCHANGED row PROVE RowsKept
  BY <1>1 DEF RowsKept
<1>2. ASSUME NEW d \in Calls, NEW s \in DispatchState \ {"CONNECTED"}, row[d] # "absent",
             row' = [row EXCEPT ![d] = s]
      PROVE  RowsKept
  BY <1>2 DEF RowInv, RowTypeOK, RowsKept
<1>3. ASSUME NEW t \in Task, CleanupStep(t) PROVE RowsKept
  <2>1. CASE UNCHANGED row
    BY <1>1, <2>1
  <2>2. CASE FinishWrites(t) /\ row[Of(t)] = seen[t]
    <3>1. Of(t) \in Calls /\ seen[t] \in OpenState
      BY <2>2 DEF FinishWrites, TodoInv, Starts, At, Task, Of
    <3>2. TerminalFor(seen[t]) \in DispatchState \ {"CONNECTED"} /\ row[Of(t)] # "absent"
      BY <2>2, <3>1 DEF TerminalFor, DispatchState, Terminal, OpenState, Preconnected
    <3>3. QED BY <1>2, <2>2, <3>1, <3>2 DEF FinishWrites
  <2>3. QED
    BY <1>3, <2>1, <2>2
       DEF CleanupStep, CloseStream, NothingToClean, EnterCleanup, TearDown, Unwound, SlotReturned,
           FinishStarts, FinishReads, FinishWrites, FinishFails, DeadlineOver, Forget, table
<1>4. ASSUME NEW c \in Calls, CallStep(c)
      PROVE  RowsKept \/ (InsertRinging(c) /\ row[c] = "absent")
  <2>1. CASE StreamStarts(c) \/ ReleaseExpiredClaim(c) \/ TimeoutWaiting(c)
    BY <1>2, <2>1 DEF StreamStarts, ReleaseExpiredClaim, TimeoutWaiting, DispatchState,
                      Preconnected, Terminal
  <2>2. CASE UNCHANGED row
    BY <1>1, <2>2
  <2>3. QED
    BY <1>4, <2>1, <2>2 DEF CallStep, CountQueue, InsertRinging, StreamConnects, StreamEnds,
                            StatusCallback, EndCall, InitialExpires, GraceExpires, table
<1>5. ASSUME NEW a \in Agents, NEW c \in Calls, PickupStep(a, c)
      PROVE  RowsKept \/ (Answer(a, c) /\ row[c] = "SESSION_STARTING" /\ claimant[c] = a)
  <2>1. CASE Claim(a, c) \/ StartSession(a, c)
    BY <1>1, <1>2, <2>1 DEF Claim, StartSession, DispatchState, Preconnected, Terminal
  <2>2. CASE UNCHANGED row
    BY <1>1, <2>2
  <2>3. QED
    BY <1>5, <2>1, <2>2 DEF PickupStep, PickupAgain, SessionConnected, BootstrapFails,
                            HandedOff, Answer, PickupRaises, table
<1>6. ASSUME NEW x \in Apps, NEW c \in Calls, AppStep(x, c) PROVE UNCHANGED row
  BY <1>6 DEF AppStep, AppConnects, AppAttaches, AppLeaves, AppEndsCall, table
<1>7. CASE Restart
  <2>1. row' = [c \in Calls |-> IF Open(c) THEN TerminalFor(row[c]) ELSE row[c]]
    BY <1>7 DEF Restart
  <2>2. QED BY <2>1 DEF RowsKept, Open, TerminalFor, Preconnected
<1>8. CASE UNCHANGED vars
  BY <1>1, <1>8 DEF vars, table
<1>9. QED BY <1>1, <1>3, <1>4, <1>5, <1>6, <1>7, <1>8 DEF Next

\* Whoever counts the queue under the lock inserts one row, and finds room.
QueueInv ==
  /\ IsFiniteSet(InQueue) /\ QueueBound
  /\ counted # {} => Cardinality(InQueue) < MaxWaiting
  /\ \A c, d \in counted : c = d

LEMMA QueueShrinks ==
  ASSUME QueueInv, InQueue' \subseteq InQueue, counted' \subseteq counted
  PROVE  QueueInv'
<1>1. IsFiniteSet(InQueue') /\ Cardinality(InQueue') <= Cardinality(InQueue)
  BY FS_Subset DEF QueueInv
<1>2. Cardinality(InQueue) \in Nat /\ Cardinality(InQueue') \in Nat
  BY <1>1, FS_CardinalityType DEF QueueInv
<1>3. QED BY <1>1, <1>2, InboundAssumption DEF QueueInv, QueueBound

(* No state of the table leads back into the queue.                        *)
LEMMA QueueIsLeft ==
  ASSUME RowInv, [RowNext]_rowVars, NEW c \in Calls, row[c] # "absent",
         row'[c] \in Preconnected
  PROVE  row[c] \in Preconnected
<1>1. row[c] \in DispatchState
  BY DEF RowInv, RowTypeOK
<1>2. row'[c] = row[c] \/ row'[c] \in Allowed[row[c]]
  BY DEF RowNext, RowMove, rowVars
<1>3. QED BY <1>1, <1>2 DEF Allowed, DispatchState, Preconnected, Terminal

LEMMA StepKeepsQueue ==
  ASSUME RowInv, TodoInv, QueueInv, [Next]_vars
  PROVE  QueueInv'
<1>1. [RowNext]_rowVars
  BY StepMovesRow
<1>2. CASE \E c \in Calls : InsertRinging(c) /\ row[c] = "absent"
  <2>1. PICK c \in Calls : InsertRinging(c) /\ row[c] = "absent"
    BY <1>2
  <2>2. row' = [row EXCEPT ![c] = "RINGING"] /\ counted' = counted \ {c} /\ c \in counted
    BY <2>1 DEF InsertRinging
  <2>3. InQueue' = InQueue \cup {c} /\ c \notin InQueue
    BY <2>1, <2>2 DEF InQueue, RowInv, RowTypeOK, Preconnected
  <2>4. IsFiniteSet(InQueue') /\ Cardinality(InQueue') = Cardinality(InQueue) + 1
    BY <2>3, FS_AddElement DEF QueueInv
  <2>5. Cardinality(InQueue) \in Nat /\ Cardinality(InQueue) < MaxWaiting /\ counted' = {}
    BY <2>2, FS_CardinalityType DEF QueueInv
  <2>6. QED BY <2>4, <2>5, InboundAssumption DEF QueueInv, QueueBound
<1>3. CASE ~\E c \in Calls : InsertRinging(c) /\ row[c] = "absent"
  <2>1. \A d \in Calls : row[d] = "absent" => row'[d] = "absent"
    <3>1. ASSUME NEW a \in Agents, NEW c \in Calls, Answer(a, c), row[c] = "SESSION_STARTING",
                 claimant[c] = a
          PROVE  \A d \in Calls : row[d] = "absent" => row'[d] = "absent"
      BY <3>1 DEF Answer, RowInv, RowTypeOK
    <3>2. QED BY <1>3, <3>1, WhoWritesRows DEF RowsKept
  <2>2. InQueue' \subseteq InQueue
    BY <1>1, <2>1, QueueIsLeft DEF InQueue, Preconnected
  <2>3. CASE counted' \subseteq counted
    BY <2>2, <2>3, QueueShrinks
  <2>4. CASE \E c \in Calls : CountQueue(c)
    <3>1. PICK c \in Calls : CountQueue(c)
      BY <2>4
    <3>2. UNCHANGED row /\ counted' = {c} /\ Cardinality(InQueue) < MaxWaiting
      BY <3>1 DEF CountQueue, table
    <3>3. InQueue' = InQueue
      BY <3>2 DEF InQueue
    <3>4. QED BY <3>2, <3>3 DEF QueueInv, QueueBound
  <2>5. counted' \subseteq counted \/ \E c \in Calls : CountQueue(c)
    <3>1. ASSUME NEW t \in Task, CleanupStep(t) PROVE counted' = counted
      BY <3>1 DEF CleanupStep, CloseStream, NothingToClean, EnterCleanup, TearDown, Unwound,
                  SlotReturned,
             FinishStarts, FinishReads, FinishWrites, FinishFails, DeadlineOver, Forget, rest
    <3>2. ASSUME NEW c \in Calls, CallStep(c) PROVE counted' \subseteq counted \/ CountQueue(c)
      BY <3>2 DEF CallStep, InsertRinging, StreamConnects, StreamStarts, StreamEnds,
             StatusCallback, EndCall, ReleaseExpiredClaim, TimeoutWaiting, InitialExpires,
             GraceExpires, rest
    <3>3. ASSUME NEW a \in Agents, NEW c \in Calls, PickupStep(a, c) PROVE counted' = counted
      BY <3>3 DEF PickupStep, Claim, PickupAgain, StartSession, SessionConnected,
             BootstrapFails, HandedOff, Answer, PickupRaises
    <3>4. ASSUME NEW x \in Apps, NEW c \in Calls, AppStep(x, c) PROVE counted' = counted
      BY <3>4 DEF AppStep, AppConnects, AppAttaches, AppLeaves, AppEndsCall
    <3>5. QED BY <3>1, <3>2, <3>3, <3>4 DEF Next, Restart, vars, rest
  <2>6. QED BY <2>3, <2>4, <2>5
<1>4. QED BY <1>2, <1>3

(* The calls without an agent never exceed max_waiting_calls, however many *)
(* callers ring at once: create_ringing counts and inserts under one lock. *)
THEOREM QueueStaysBounded == Spec => []QueueBound
<1>1. Init => QueueInv
  <2> SUFFICES ASSUME Init PROVE QueueInv
    OBVIOUS
  <2>1. InQueue = {} /\ counted = {}
    BY DEF Init, RowInit, InQueue, Preconnected
  <2>2. QED BY <2>1, FS_EmptySet, InboundAssumption DEF QueueInv, QueueBound
<1>2. RowInv /\ TodoInv /\ QueueInv /\ [Next]_vars => QueueInv'
  BY StepKeepsQueue
<1>3. QueueInv => QueueBound
  BY DEF QueueInv
<1>4. QED BY <1>1, <1>2, <1>3, RowsHold, PTL DEF Spec

----------------------------------------------------------------------------
(* One agent                                                               *)

Starters == {"connecting", "handing", "handed"}

\* Whoever was answered is the claimant of a row that was connected, which
\* no other pickup can become.
AgentInv ==
  /\ DOMAIN pick = Agents \X Calls /\ answered \subseteq Agents \X Calls
  /\ StarterHoldsClaim
  /\ \A a \in Agents, c \in Calls :
       <<a, c>> \in answered => row[c] \in {"CONNECTED", "ENDED"} /\ claimant[c] = a

(* A row keeps its claimant while its session is started and afterwards.   *)
LEMMA ClaimIsKept ==
  ASSUME RowInv, [RowNext]_rowVars, NEW c \in Calls
  PROVE  /\ row[c] \in {"CONNECTED", "ENDED"} =>
              row'[c] \in {"CONNECTED", "ENDED"} /\ claimant'[c] = claimant[c]
         /\ row[c] = "SESSION_STARTING" /\ row'[c] # "CONNECTED" =>
              \/ row'[c] \in Terminal
              \/ row'[c] = "SESSION_STARTING" /\ claimant'[c] = claimant[c]
         /\ row[c] \in Terminal => row'[c] \in Terminal
<1>1. row[c] \in DispatchState \cup {"absent"}
  BY DEF RowInv, RowTypeOK
<1>2. \/ row'[c] = row[c] /\ claimant'[c] = claimant[c]
      \/ row[c] = "absent"
      \/ row'[c] \in Allowed[row[c]] /\ ClaimRule(row'[c], claimant[c], claimant'[c])
  BY DEF RowNext, RowMove, rowVars
<1>3. QED BY <1>1, <1>2 DEF Allowed, ClaimRule, DispatchState, Preconnected, Terminal

(* Steps that start and answer no pickup.                                  *)
LEMMA AgentIsKept ==
  ASSUME RowInv, AgentInv, [RowNext]_rowVars, answered' = answered,
         DOMAIN pick' = Agents \X Calls,
         \A p \in Agents \X Calls : pick'[p] \in Starters => pick[p] \in Starters,
         \A c \in Calls : row'[c] = "CONNECTED" => row[c] = "CONNECTED"
  PROVE  AgentInv'
<1>1. ASSUME NEW a \in Agents, NEW c \in Calls, pick'[<<a, c>>] \in Starters,
             row'[c] \notin Terminal
      PROVE  row'[c] = "SESSION_STARTING" /\ claimant'[c] = a
  <2>1. <<a, c>> \in Agents \X Calls
    OBVIOUS
  <2>2. row[c] \notin Terminal
    BY <1>1, ClaimIsKept
  <2>3. row[c] = "SESSION_STARTING" /\ claimant[c] = a
    BY <1>1, <2>1, <2>2 DEF AgentInv, StarterHoldsClaim, Starters
  <2>4. row'[c] # "CONNECTED"
    BY <2>3
  <2>5. QED BY <1>1, <2>3, <2>4, ClaimIsKept
<1>2. StarterHoldsClaim'
  BY <1>1 DEF StarterHoldsClaim, Starters
<1>3. QED BY <1>2, ClaimIsKept DEF AgentInv

LEMMA StartsKeepAgent ==
  ASSUME RowInv, AgentInv, [RowNext]_rowVars, NEW a \in Agents, NEW c \in Calls,
         row[c] = "CLAIMED", claimant[c] = a, row' = [row EXCEPT ![c] = "SESSION_STARTING"],
         UNCHANGED <<claimant, answered>>, NEW s,
         pick' = [pick EXCEPT ![<<a, c>>] = s]
  PROVE  AgentInv'
<1>1. \A d \in Calls \ {c} : row'[d] = row[d] /\ claimant'[d] = claimant[d]
  BY DEF RowInv, RowTypeOK
<1>2. row'[c] = "SESSION_STARTING" /\ claimant'[c] = a
  BY DEF RowInv, RowTypeOK
<1>3. \A b \in Agents : pick[<<b, c>>] \notin Starters /\ <<b, c>> \notin answered
  BY DEF AgentInv, StarterHoldsClaim, Starters, Terminal
<1>4. ASSUME NEW b \in Agents, NEW d \in Calls, pick'[<<b, d>>] \in Starters,
             row'[d] \notin Terminal
      PROVE  row'[d] = "SESSION_STARTING" /\ claimant'[d] = b
  <2>1. CASE <<b, d>> = <<a, c>>
    BY <1>2, <2>1
  <2>2. CASE <<b, d>> # <<a, c>>
    <3>1. pick[<<b, d>>] \in Starters
      BY <1>4, <2>2 DEF AgentInv
    <3>2. d # c
      BY <1>3, <3>1
    <3>3. QED BY <1>1, <1>4, <3>1, <3>2 DEF AgentInv, StarterHoldsClaim, Starters
  <2>3. QED BY <2>1, <2>2
<1>5. StarterHoldsClaim'
  BY <1>4 DEF StarterHoldsClaim, Starters
<1>6. QED BY <1>1, <1>3, <1>5 DEF AgentInv

LEMMA AnswersKeepAgent ==
  ASSUME RowInv, AgentInv, NEW a \in Agents, NEW c \in Calls,
         row[c] = "SESSION_STARTING", claimant[c] = a, row' = [row EXCEPT ![c] = "CONNECTED"],
         UNCHANGED claimant, answered' = answered \cup {<<a, c>>},
         pick' = [pick EXCEPT ![<<a, c>>] = "idle"]
  PROVE  AgentInv'
<1>1. /\ \A d \in Calls \ {c} : row'[d] = row[d]
      /\ row'[c] = "CONNECTED"
  BY DEF RowInv, RowTypeOK
<1>2. \A b \in Agents : pick'[<<b, c>>] \notin Starters
  BY DEF AgentInv, StarterHoldsClaim, Starters, Terminal
<1>3. ASSUME NEW b \in Agents, NEW d \in Calls, pick'[<<b, d>>] \in Starters,
             row'[d] \notin Terminal
      PROVE  row'[d] = "SESSION_STARTING" /\ claimant'[d] = b
  <2>1. d # c
    BY <1>2, <1>3
  <2>2. pick[<<b, d>>] \in Starters
    BY <1>3, <2>1 DEF AgentInv
  <2>3. QED BY <1>1, <1>3, <2>1, <2>2 DEF AgentInv, StarterHoldsClaim, Starters
<1>4. StarterHoldsClaim'
  BY <1>3 DEF StarterHoldsClaim, Starters
<1>5. \A b \in Agents : <<b, c>> \in answered' => b = a
  BY DEF AgentInv
<1>6. QED BY <1>1, <1>4, <1>5 DEF AgentInv

LEMMA StepKeepsAgent ==
  ASSUME RowInv, TodoInv, AgentInv, [Next]_vars
  PROVE  AgentInv'
<1>1. [RowNext]_rowVars
  BY StepMovesRow
<1>2. ASSUME UNCHANGED <<pick, answered>>, ~\E a \in Agents, c \in Calls : Answer(a, c)
      PROVE  AgentInv'
  <2>1. \A c \in Calls : row'[c] = "CONNECTED" => row[c] = "CONNECTED"
    <3>1. ASSUME NEW c \in Calls, InsertRinging(c), NEW d \in Calls, row'[d] = "CONNECTED"
          PROVE  row[d] = "CONNECTED"
      BY <3>1 DEF InsertRinging, RowInv, RowTypeOK
    <3>2. QED BY <1>2, <3>1, WhoWritesRows DEF RowsKept
  <2>2. QED BY <1>1, <1>2, <2>1, AgentIsKept DEF AgentInv
<1>3. ASSUME NEW a \in Agents, NEW c \in Calls, NEW s, s \notin Starters, UNCHANGED answered,
             pick' = [pick EXCEPT ![<<a, c>>] = s],
             \A d \in Calls : row'[d] = "CONNECTED" => row[d] = "CONNECTED"
      PROVE  AgentInv'
  BY <1>1, <1>3, AgentIsKept DEF AgentInv
<1>4. ASSUME NEW a \in Agents, NEW c \in Calls, PickupStep(a, c) PROVE AgentInv'
  <2>1. CASE Claim(a, c)
    <3>1. \A d \in Calls : row'[d] = "CONNECTED" => row[d] = "CONNECTED"
      BY <2>1 DEF Claim, RowInv, RowTypeOK
    <3>2. QED BY <1>3, <2>1, <3>1 DEF Claim, Starters
  <2>2. CASE PickupAgain(a, c)
    <3>1. /\ row[c] = "CONNECTED" /\ claimant[c] = a /\ UNCHANGED <<row, claimant, pick>>
          /\ answered' = answered \cup {<<a, c>>}
      BY <2>2 DEF PickupAgain, table
    <3>2. StarterHoldsClaim'
      BY <3>1 DEF AgentInv, StarterHoldsClaim
    <3>3. QED BY <3>1, <3>2 DEF AgentInv
  <2>3. CASE StartSession(a, c)
    <3>1. CASE row[c] = "CLAIMED" /\ claimant[c] = a
      <4>1. PICK s \in {"connecting", "idle"} : pick' = [pick EXCEPT ![<<a, c>>] = s]
        BY <2>3 DEF StartSession
      <4>2. row' = [row EXCEPT ![c] = "SESSION_STARTING"] /\ UNCHANGED <<claimant, answered>>
        BY <2>3, <3>1 DEF StartSession
      <4>3. QED BY <1>1, <3>1, <4>1, <4>2, StartsKeepAgent
    <3>2. CASE ~(row[c] = "CLAIMED" /\ claimant[c] = a)
      <4>1. /\ pick' = [pick EXCEPT ![<<a, c>>] = "idle"] /\ UNCHANGED <<row, answered>>
        BY <2>3, <3>2 DEF StartSession
      <4>2. QED BY <1>3, <4>1 DEF Starters
    <3>3. QED BY <3>1, <3>2
  <2>4. CASE SessionConnected(a, c) \/ BootstrapFails(a, c) \/ HandedOff(a, c) \/ PickupRaises(a, c)
    <3>1. /\ UNCHANGED <<row, claimant, answered>> /\ DOMAIN pick' = Agents \X Calls
          /\ \A p \in Agents \X Calls : pick'[p] \in Starters => pick[p] \in Starters
      BY <2>4 DEF SessionConnected, BootstrapFails, HandedOff, PickupRaises, table, Starters,
                  AgentInv
    <3>2. QED BY <1>1, <3>1, AgentIsKept
  <2>5. CASE Answer(a, c)
    <3>1. CASE row[c] = "SESSION_STARTING" /\ claimant[c] = a
      BY <2>5, <3>1, AnswersKeepAgent DEF Answer
    <3>2. CASE ~(row[c] = "SESSION_STARTING" /\ claimant[c] = a)
      BY <1>3, <2>5, <3>2 DEF Answer, Starters
    <3>3. QED BY <3>1, <3>2
  <2>6. QED BY <1>4, <2>1, <2>2, <2>3, <2>4, <2>5 DEF PickupStep
<1>5. CASE \E a \in Agents, c \in Calls : PickupStep(a, c)
  BY <1>4, <1>5
<1>6. CASE Restart
  <2>1. /\ DOMAIN pick' = Agents \X Calls /\ answered' = answered
        /\ \A p \in Agents \X Calls : pick'[p] = "idle"
    BY <1>6 DEF Restart
  <2>2. \A c \in Calls : row'[c] = "CONNECTED" => row[c] = "CONNECTED"
    BY <1>6 DEF Restart, Open, TerminalFor
  <2>3. QED BY <1>1, <2>1, <2>2, AgentIsKept DEF Starters
<1>7. CASE (~\E a \in Agents, c \in Calls : PickupStep(a, c)) /\ ~Restart
  <2>1. ASSUME NEW t \in Task, CleanupStep(t) PROVE UNCHANGED <<pick, answered>>
    BY <2>1 DEF CleanupStep, CloseStream, NothingToClean, EnterCleanup, TearDown, Unwound,
                SlotReturned,
           FinishStarts, FinishReads, FinishWrites, FinishFails, DeadlineOver, Forget, rest
  <2>2. ASSUME NEW c \in Calls, CallStep(c) PROVE UNCHANGED <<pick, answered>>
    BY <2>2 DEF CallStep, CountQueue, InsertRinging, StreamConnects, StreamStarts, StreamEnds,
           StatusCallback, EndCall, ReleaseExpiredClaim, TimeoutWaiting, InitialExpires,
           GraceExpires, rest
  <2>3. ASSUME NEW x \in Apps, NEW c \in Calls, AppStep(x, c) PROVE UNCHANGED <<pick, answered>>
    BY <2>3 DEF AppStep, AppConnects, AppAttaches, AppLeaves, AppEndsCall
  <2>4. UNCHANGED <<pick, answered>>
    BY <1>7, <2>1, <2>2, <2>3 DEF Next, vars, rest
  <2>5. ~\E a \in Agents, c \in Calls : Answer(a, c)
    BY <1>7 DEF PickupStep
  <2>6. QED BY <1>2, <2>4, <2>5
<1>8. QED BY <1>5, <1>6, <1>7

LEMMA AgentsHold == Spec => []AgentInv
<1>1. Init => AgentInv
  BY DEF Init, AgentInv, StarterHoldsClaim
<1>2. RowInv /\ TodoInv /\ AgentInv /\ [Next]_vars => AgentInv'
  BY StepKeepsAgent
<1>3. QED BY <1>1, <1>2, RowsHold, PTL DEF Spec

(* A call is given to one agent: whoever is answered holds the claim, and  *)
(* the claim of a row that is connected is never another's, whatever       *)
(* claims expire, fail or are retried in between (inbound/service.py).     *)
THEOREM CallHasOneAgent == Spec => []OneAgentPerCall
<1>1. AgentInv => OneAgentPerCall
  <2> SUFFICES ASSUME AgentInv, NEW p \in answered, NEW q \in answered, p[2] = q[2]
               PROVE  p = q
    BY DEF AgentInv, OneAgentPerCall
  <2>1. PICK a \in Agents, c \in Calls : p = <<a, c>>
    BY DEF AgentInv
  <2>2. PICK b \in Agents, d \in Calls : q = <<b, d>>
    BY DEF AgentInv
  <2>3. QED BY <2>1, <2>2 DEF AgentInv
<1>2. QED BY <1>1, AgentsHold, PTL

----------------------------------------------------------------------------
(* The deadlines of the agent's connection                                 *)

Unserved == Preconnected \cup {"absent"}

\* A deadline whose cleanup has started is marked, and the call then has no
\* app; there is one deadline at a time. Only a connected row has deadlines
\* and apps, and an attached app has put an end to the first deadline.
CallDeadlines(c) ==
  /\ c \in closing => appWs[c] = Nobody
  /\ c \in closing <=> initial[c] = "cleaning" \/ grace[c] = "cleaning"
  /\ initial[c] = "off" \/ grace[c] = "off"
  /\ row[c] \in Unserved =>
       /\ initial[c] = "off" /\ grace[c] = "off"
       /\ \A x \in Apps : app[<<x, c>>] \notin {"accepting", "attached"}
  /\ (\E x \in Apps : app[<<x, c>>] = "attached") => initial[c] = "off"

\* The task that clears the mark is that of the deadline being cleaned up.
TaskDeadline(t) ==
  Flagged(todo[t]) =>
    \/ t[1] = "initial" /\ initial[t[2]] = "cleaning"
    \/ t[1] = "grace" /\ grace[t[2]] = "cleaning"

DeadlineInv ==
  /\ DOMAIN initial = Calls /\ DOMAIN grace = Calls /\ DOMAIN appWs = Calls
  /\ DOMAIN app = Apps \X Calls
  /\ \A c \in Calls : CallDeadlines(c)
  /\ \A t \in Task : TaskDeadline(t)

(* Rows that are served stay served.                                       *)
LEMMA ServedStays ==
  ASSUME RowInv, [RowNext]_rowVars, NEW c \in Calls, row'[c] \in Unserved
  PROVE  row[c] \in Unserved
<1>1. row[c] \in DispatchState \cup {"absent"}
  BY DEF RowInv, RowTypeOK
<1>2. row'[c] = row[c] \/ row[c] = "absent" \/ row'[c] \in Allowed[row[c]]
  BY DEF RowNext, RowMove, rowVars
<1>3. QED BY <1>1, <1>2 DEF Allowed, DispatchState, Preconnected, Terminal, Unserved

(* A step that may start cleanups, finish rows, take an app socket away,   *)
(* and whose apps only leave.                                              *)
LEMMA DeadlinesKept ==
  ASSUME RowInv, DeadlineInv, [RowNext]_rowVars, UNCHANGED deadlines,
         \A t \in Task : Flagged(todo'[t]) => Flagged(todo[t]),
         DOMAIN appWs' = Calls, \A c \in Calls : appWs'[c] \in {appWs[c], Nobody},
         DOMAIN app' = Apps \X Calls,
         \A p \in Apps \X Calls : app'[p] = app[p] \/ app'[p] \notin {"accepting", "attached"}
  PROVE  DeadlineInv'
<1>1. ASSUME NEW c \in Calls PROVE CallDeadlines(c)'
  <2>1. CallDeadlines(c)
    BY DEF DeadlineInv
  <2>2. \A x \in Apps : \/ app'[<<x, c>>] = app[<<x, c>>]
                        \/ app'[<<x, c>>] \notin {"accepting", "attached"}
    OBVIOUS
  <2>3. UNCHANGED <<initial, grace, closing>>
    BY DEF deadlines
  <2>4. QED BY <2>1, <2>2, <2>3, ServedStays DEF CallDeadlines
<1>2. ASSUME NEW t \in Task PROVE TaskDeadline(t)'
  BY DEF DeadlineInv, TaskDeadline, deadlines
<1>3. QED BY <1>1, <1>2 DEF DeadlineInv, deadlines

(* A step of the deadlines of one call.                                    *)
LEMMA DeadlineMoves ==
  ASSUME RowInv, DeadlineInv, [RowNext]_rowVars, NEW c \in Calls, CallDeadlines(c)',
         DOMAIN initial' = Calls, DOMAIN grace' = Calls, DOMAIN appWs' = Calls,
         DOMAIN app' = Apps \X Calls,
         \A d \in Calls \ {c} :
           /\ initial'[d] = initial[d] /\ grace'[d] = grace[d] /\ appWs'[d] = appWs[d]
           /\ (d \in closing') <=> (d \in closing)
           /\ \A x \in Apps : app'[<<x, d>>] = app[<<x, d>>],
         \A t \in Task : Flagged(todo'[t]) =>
           \/ Flagged(todo[t]) /\ t[2] # c
           \/ t = <<"initial", c>> /\ initial'[c] = "cleaning"
           \/ t = <<"grace", c>> /\ grace'[c] = "cleaning"
  PROVE  DeadlineInv'
<1>1. ASSUME NEW d \in Calls \ {c} PROVE CallDeadlines(d)'
  <2>1. CallDeadlines(d) /\ (row'[d] \in Unserved => row[d] \in Unserved)
    BY ServedStays DEF DeadlineInv
  <2>2. QED BY <2>1 DEF CallDeadlines
<1>2. ASSUME NEW t \in Task PROVE TaskDeadline(t)'
  <2>1. t[2] \in Calls
    BY DEF Task
  <2>2. CASE Flagged(todo[t]) /\ t[2] # c
    BY <2>1, <2>2 DEF DeadlineInv, TaskDeadline
  <2>3. CASE ~(Flagged(todo[t]) /\ t[2] # c)
    BY <2>3 DEF TaskDeadline
  <2>4. QED BY <2>2, <2>3
<1>3. QED BY <1>1, <1>2 DEF DeadlineInv

(* A task of a deadline that is being cleaned up.                          *)
LEMMA FlaggedTask ==
  ASSUME DeadlineInv, NEW t \in Task, Flagged(todo[t])
  PROVE  /\ t[2] \in Calls /\ t[2] \in closing
         /\ \/ t = <<"initial", t[2]>> /\ initial[t[2]] = "cleaning" /\ grace[t[2]] = "off"
            \/ t = <<"grace", t[2]>> /\ grace[t[2]] = "cleaning" /\ initial[t[2]] = "off"
<1>1. t[2] \in Calls /\ t = <<t[1], t[2]>>
  BY DEF Task
<1>2. CallDeadlines(t[2]) /\ TaskDeadline(t)
  BY <1>1 DEF DeadlineInv
<1>3. QED BY <1>1, <1>2 DEF CallDeadlines, TaskDeadline

LEMMA CleanupKeepsDeadlines ==
  ASSUME RowInv, TodoInv, DeadlineInv, [RowNext]_rowVars, NEW t \in Task, CleanupStep(t)
  PROVE  DeadlineInv'
<1> DEFINE c == Of(t)
<1>1. c \in Calls /\ c = t[2]
  BY DEF Task, Of
<1>2. /\ DOMAIN initial = Calls /\ DOMAIN grace = Calls /\ DOMAIN appWs = Calls
      /\ DOMAIN app = Apps \X Calls /\ CallDeadlines(c)
  BY <1>1 DEF DeadlineInv
<1>3. /\ \A u \in Task : Flagged(todo'[u]) => Flagged(todo[u])
      /\ At(t, "flag") => ~Flagged(todo'[t])
  BY CleanupKeepsTodo DEF RowInv
<1>4. CASE DeadlineOver(t)
  <2>1. At(t, "flag") /\ UNCHANGED <<row, app, appWs>>
    BY <1>4 DEF DeadlineOver, table, rest
  <2>2. Flagged(todo[t])
    BY <2>1, TailIsOrderly DEF TodoInv, At, Flagged
  <2>3. /\ c \in closing
        /\ \/ t = <<"initial", c>> /\ initial[c] = "cleaning" /\ grace[c] = "off"
           \/ t = <<"grace", c>> /\ grace[c] = "cleaning" /\ initial[c] = "off"
    BY <1>1, <2>2, FlaggedTask
  <2>4. closing' = closing \ {c}
    BY <1>4 DEF DeadlineOver
  <2>5. /\ DOMAIN initial' = Calls /\ DOMAIN grace' = Calls
        /\ initial'[c] = "off" /\ grace'[c] = "off"
        /\ \A d \in Calls \ {c} : initial'[d] = initial[d] /\ grace'[d] = grace[d]
    <3>1. CASE t = <<"initial", c>> /\ grace[c] = "off"
      <4>1. initial' = [initial EXCEPT ![c] = "off"] /\ grace' = grace
        BY <1>4, <3>1 DEF DeadlineOver
      <4>2. QED BY <1>1, <1>2, <3>1, <4>1
    <3>2. CASE t = <<"grace", c>> /\ initial[c] = "off"
      <4>1. grace' = [grace EXCEPT ![c] = "off"] /\ initial' = initial
        BY <1>4, <3>2 DEF DeadlineOver
      <4>2. QED BY <1>1, <1>2, <3>2, <4>1
    <3>3. QED BY <2>3, <3>1, <3>2
  <2>6. CallDeadlines(c)'
    BY <1>1, <1>2, <2>1, <2>4, <2>5 DEF CallDeadlines
  <2>7. ASSUME NEW u \in Task, Flagged(todo'[u]) PROVE Flagged(todo[u]) /\ u[2] # c
    <3>1. Flagged(todo[u]) /\ u # t
      BY <1>3, <2>1, <2>7
    <3>2. \/ u = <<"initial", u[2]>> /\ initial[u[2]] = "cleaning" /\ grace[u[2]] = "off"
          \/ u = <<"grace", u[2]>> /\ grace[u[2]] = "cleaning" /\ initial[u[2]] = "off"
      BY <3>1, FlaggedTask
    <3>3. QED BY <2>3, <3>1, <3>2
  <2>8. QED BY <1>1, <1>2, <2>1, <2>4, <2>5, <2>6, <2>7, DeadlineMoves
<1>5. CASE UNCHANGED <<table, rest>> /\ CancelDeadlines(c)
  <2>1. CASE c \in closing
    <3>1. UNCHANGED <<deadlines, app, appWs>>
      BY <1>5, <2>1 DEF CancelDeadlines, rest, deadlines
    <3>2. QED BY <1>2, <1>3, <3>1, DeadlinesKept
  <2>2. CASE c \notin closing
    <3>1. /\ initial' = [initial EXCEPT ![c] = "off"] /\ grace' = [grace EXCEPT ![c] = "off"]
          /\ UNCHANGED <<row, closing, app, appWs>>
      BY <1>5, <2>2 DEF CancelDeadlines, table, rest
    <3>2. CallDeadlines(c)'
      BY <1>1, <1>2, <2>2, <3>1 DEF CallDeadlines
    <3>3. ASSUME NEW u \in Task, Flagged(todo'[u]) PROVE Flagged(todo[u]) /\ u[2] # c
      BY <1>3, <2>2, <3>3, FlaggedTask
    <3>4. QED BY <1>1, <1>2, <3>1, <3>2, <3>3, DeadlineMoves
  <2>3. QED BY <2>1, <2>2
<1>6. CASE ~DeadlineOver(t) /\ ~(UNCHANGED <<table, rest>> /\ CancelDeadlines(c))
  <2>1. UNCHANGED <<deadlines, app>> /\ (UNCHANGED appWs \/ appWs' = [appWs EXCEPT ![c] = Nobody])
    <3>1. CASE NothingToClean(t) \/ FinishStarts(t)
      BY <1>1, <1>6, <3>1 DEF NothingToClean, FinishStarts, rest
    <3>2. QED
      BY <1>6, <3>1 DEF CleanupStep, CloseStream, EnterCleanup, TearDown, Unwound,
                        SlotReturned, FinishReads, FinishWrites, FinishFails, Forget, rest
  <2>2. DOMAIN appWs' = Calls /\ \A d \in Calls : appWs'[d] \in {appWs[d], Nobody}
    BY <1>2, <2>1
  <2>3. QED BY <1>2, <1>3, <2>1, <2>2, DeadlinesKept
<1>7. QED BY <1>4, <1>5, <1>6

LEMMA ExpiryKeepsDeadlines ==
  ASSUME RowInv, DeadlineInv, [RowNext]_rowVars, NEW c \in Calls,
         InitialExpires(c) \/ GraceExpires(c)
  PROVE  DeadlineInv'
<1>1. /\ DOMAIN initial = Calls /\ DOMAIN grace = Calls /\ DOMAIN appWs = Calls
      /\ DOMAIN app = Apps \X Calls /\ CallDeadlines(c)
  BY DEF DeadlineInv
<1>2. UNCHANGED <<row, app, appWs>>
  BY DEF InitialExpires, GraceExpires, table, rest
<1>3. c \notin closing
  BY <1>1 DEF CallDeadlines, InitialExpires, GraceExpires
<1>4. ASSUME NEW u \in Task, Flagged(todo[u]) PROVE u[2] # c
  BY <1>3, <1>4, FlaggedTask
<1>5. CASE InitialExpires(c)
  <2>1. initial[c] = "pending" /\ grace[c] = "off" /\ UNCHANGED grace
    BY <1>1, <1>5 DEF InitialExpires, CallDeadlines
  <2>2. CASE appWs[c] = Nobody
    <3>1. /\ initial' = [initial EXCEPT ![c] = "cleaning"] /\ closing' = closing \cup {c}
          /\ todo' = [todo EXCEPT ![<<"initial", c>>] = CleanUp \o <<"flag">>]
      BY <1>5, <2>2 DEF InitialExpires, Begin
    <3>2. CallDeadlines(c)'
      BY <1>1, <1>2, <2>1, <2>2, <3>1 DEF CallDeadlines
    <3>3. \A u \in Task : u # <<"initial", c>> => todo'[u] = todo[u]
      BY <3>1
    <3>4. QED BY <1>1, <1>2, <1>4, <2>1, <3>1, <3>2, <3>3, DeadlineMoves
  <2>3. CASE appWs[c] # Nobody
    <3>1. /\ initial' = [initial EXCEPT ![c] = "off"] /\ closing' = closing \ {c}
          /\ UNCHANGED todo
      BY <1>5, <2>3 DEF InitialExpires
    <3>2. CallDeadlines(c)'
      BY <1>1, <1>2, <2>1, <2>3, <3>1 DEF CallDeadlines
    <3>3. QED BY <1>1, <1>2, <1>4, <2>1, <3>1, <3>2, DeadlineMoves
  <2>4. QED BY <2>2, <2>3
<1>6. CASE GraceExpires(c)
  <2>1. grace[c] = "pending" /\ initial[c] = "off" /\ UNCHANGED initial
    BY <1>1, <1>6 DEF GraceExpires, CallDeadlines
  <2>2. CASE appWs[c] = Nobody
    <3>1. /\ grace' = [grace EXCEPT ![c] = "cleaning"] /\ closing' = closing \cup {c}
          /\ todo' = [todo EXCEPT ![<<"grace", c>>] = CleanUp \o <<"flag">>]
      BY <1>6, <2>2 DEF GraceExpires, Begin
    <3>2. CallDeadlines(c)'
      BY <1>1, <1>2, <2>1, <2>2, <3>1 DEF CallDeadlines
    <3>3. \A u \in Task : u # <<"grace", c>> => todo'[u] = todo[u]
      BY <3>1
    <3>4. QED BY <1>1, <1>2, <1>4, <2>1, <3>1, <3>2, <3>3, DeadlineMoves
  <2>3. CASE appWs[c] # Nobody
    <3>1. /\ grace' = [grace EXCEPT ![c] = "off"] /\ closing' = closing \ {c}
          /\ UNCHANGED todo
      BY <1>6, <2>3 DEF GraceExpires
    <3>2. CallDeadlines(c)'
      BY <1>1, <1>2, <2>1, <2>3, <3>1 DEF CallDeadlines
    <3>3. QED BY <1>1, <1>2, <1>4, <2>1, <3>1, <3>2, DeadlineMoves
  <2>4. QED BY <2>2, <2>3
<1>7. QED BY <1>5, <1>6

LEMMA AppKeepsDeadlines ==
  ASSUME RowInv, TodoInv, DeadlineInv, [RowNext]_rowVars, NEW x \in Apps, NEW c \in Calls,
         AppStep(x, c)
  PROVE  DeadlineInv'
<1>1. /\ DOMAIN initial = Calls /\ DOMAIN grace = Calls /\ DOMAIN appWs = Calls
      /\ DOMAIN app = Apps \X Calls /\ CallDeadlines(c) /\ <<x, c>> \in Apps \X Calls
  BY DEF DeadlineInv
<1>2. UNCHANGED row
  BY DEF AppStep, AppConnects, AppAttaches, AppLeaves, AppEndsCall, table
<1>3. ASSUME NEW u \in Task, c \notin closing, Flagged(todo[u]) PROVE u[2] # c
  BY <1>3, FlaggedTask
<1>4. ASSUME NEW s, app' = [app EXCEPT ![<<x, c>>] = s]
      PROVE  /\ DOMAIN app' = Apps \X Calls /\ app'[<<x, c>>] = s
             /\ \A y \in Apps, d \in Calls : <<y, d>> # <<x, c>> => app'[<<y, d>>] = app[<<y, d>>]
             /\ \A p \in Apps \X Calls : p # <<x, c>> => app'[p] = app[p]
  BY <1>1, <1>4
<1>5. CASE AppConnects(x, c)
  <2>1. /\ app' = [app EXCEPT ![<<x, c>>] = "accepting"] /\ row[c] = "CONNECTED"
        /\ UNCHANGED <<deadlines, appWs, todo>>
    BY <1>5 DEF AppConnects, tasks
  <2>2. CallDeadlines(c)'
    BY <1>1, <1>2, <1>4, <2>1 DEF CallDeadlines, Unserved, Preconnected, deadlines
  <2>3. \A d \in Calls \ {c} : CallDeadlines(d)'
    BY <1>2, <1>4, <2>1 DEF CallDeadlines, DeadlineInv, deadlines
  <2>4. \A t \in Task : TaskDeadline(t)'
    BY <2>1 DEF TaskDeadline, DeadlineInv, deadlines
  <2>5. QED BY <1>1, <1>4, <2>1, <2>2, <2>3, <2>4 DEF DeadlineInv, deadlines
<1>6. CASE AppAttaches(x, c) /\ appWs[c] = Nobody /\ c \notin closing
  <2>1. /\ appWs' = [appWs EXCEPT ![c] = x] /\ app' = [app EXCEPT ![<<x, c>>] = "attached"]
        /\ initial' = [initial EXCEPT ![c] = "off"] /\ grace' = [grace EXCEPT ![c] = "off"]
        /\ UNCHANGED <<closing, todo>> /\ app[<<x, c>>] = "accepting"
    BY <1>6 DEF AppAttaches, CancelDeadlines, tasks
  <2>2. CallDeadlines(c)'
    BY <1>1, <1>2, <1>4, <1>6, <2>1 DEF CallDeadlines
  <2>3. \A u \in Task : Flagged(todo'[u]) => Flagged(todo[u]) /\ u[2] # c
    BY <1>3, <1>6, <2>1
  <2>4. /\ DOMAIN initial' = Calls /\ DOMAIN grace' = Calls /\ DOMAIN appWs' = Calls
        /\ DOMAIN app' = Apps \X Calls
        /\ \A d \in Calls \ {c} :
             /\ initial'[d] = initial[d] /\ grace'[d] = grace[d] /\ appWs'[d] = appWs[d]
             /\ (d \in closing') <=> (d \in closing)
             /\ \A y \in Apps : app'[<<y, d>>] = app[<<y, d>>]
    BY <1>1, <1>4, <2>1
  <2>5. QED BY <2>2, <2>3, <2>4, DeadlineMoves
<1>7. CASE AppLeaves(x, c) /\ c \notin closing
  <2>1. /\ appWs' \in {appWs, [appWs EXCEPT ![c] = Nobody]}
        /\ app' = [app EXCEPT ![<<x, c>>] = "over"]
        /\ grace' = [grace EXCEPT ![c] = "pending"]
        /\ UNCHANGED <<initial, closing, todo>> /\ app[<<x, c>>] = "attached"
    BY <1>7 DEF AppLeaves, Unregister, ScheduleGrace, tasks
  <2>2. CallDeadlines(c)'
    BY <1>1, <1>2, <1>4, <1>7, <2>1 DEF CallDeadlines
  <2>3. \A u \in Task : Flagged(todo'[u]) => Flagged(todo[u]) /\ u[2] # c
    BY <1>3, <1>7, <2>1
  <2>4. /\ DOMAIN initial' = Calls /\ DOMAIN grace' = Calls /\ DOMAIN appWs' = Calls
        /\ DOMAIN app' = Apps \X Calls
        /\ \A d \in Calls \ {c} :
             /\ initial'[d] = initial[d] /\ grace'[d] = grace[d] /\ appWs'[d] = appWs[d]
             /\ (d \in closing') <=> (d \in closing)
             /\ \A y \in Apps : app'[<<y, d>>] = app[<<y, d>>]
    BY <1>1, <1>4, <2>1
  <2>5. QED BY <2>2, <2>3, <2>4, DeadlineMoves
<1>8. CASE \/ AppAttaches(x, c) /\ ~(appWs[c] = Nobody /\ c \notin closing)
           \/ AppLeaves(x, c) /\ c \in closing
           \/ AppEndsCall(x, c)
  <2>1. /\ app' = [app EXCEPT ![<<x, c>>] = "over"] /\ UNCHANGED deadlines
        /\ \/ UNCHANGED appWs
           \/ appWs' = [appWs EXCEPT ![c] = Nobody]
    BY <1>8 DEF AppAttaches, AppLeaves, AppEndsCall, Unregister, ScheduleGrace, deadlines
  <2>2. \A t \in Task : Flagged(todo'[t]) => Flagged(todo[t])
    <3>1. CASE UNCHANGED todo
      BY <3>1
    <3>2. CASE AppEndsCall(x, c)
      BY <3>2, BeginKeepsTodo DEF AppEndsCall, Task, Unflagged
    <3>3. QED BY <1>8, <3>1, <3>2 DEF AppAttaches, AppLeaves, tasks
  <2>3. DOMAIN appWs' = Calls /\ \A d \in Calls : appWs'[d] \in {appWs[d], Nobody}
    BY <1>1, <2>1
  <2>4. QED BY <1>4, <2>1, <2>2, <2>3, DeadlinesKept
<1>9. QED BY <1>5, <1>6, <1>7, <1>8 DEF AppStep

LEMMA AnswerKeepsDeadlines ==
  ASSUME RowInv, DeadlineInv, [RowNext]_rowVars, NEW a \in Agents, NEW c \in Calls,
         Answer(a, c), row[c] = "SESSION_STARTING", claimant[c] = a
  PROVE  DeadlineInv'
<1>1. /\ DOMAIN initial = Calls /\ DOMAIN grace = Calls /\ DOMAIN appWs = Calls
      /\ DOMAIN app = Apps \X Calls /\ CallDeadlines(c)
  BY DEF DeadlineInv
<1>2. /\ initial[c] = "off" /\ grace[c] = "off" /\ c \notin closing
      /\ \A x \in Apps : app[<<x, c>>] # "attached"
  BY <1>1 DEF CallDeadlines, Unserved, Preconnected
<1>3. /\ initial' = [initial EXCEPT ![c] = "pending"] /\ row'[c] = "CONNECTED"
      /\ UNCHANGED <<grace, closing, app, appWs, todo>>
  BY <1>2 DEF Answer, ScheduleInitial, RowInv, RowTypeOK
<1>4. CallDeadlines(c)'
  BY <1>1, <1>2, <1>3 DEF CallDeadlines, Unserved, Preconnected
<1>5. \A u \in Task : Flagged(todo'[u]) => Flagged(todo[u]) /\ u[2] # c
  BY <1>2, <1>3, FlaggedTask
<1>6. QED BY <1>1, <1>3, <1>4, <1>5, DeadlineMoves

LEMMA StepKeepsDeadlines ==
  ASSUME RowInv, TodoInv, DeadlineInv, [Next]_vars
  PROVE  DeadlineInv'
<1>1. [RowNext]_rowVars
  BY StepMovesRow
<1>2. ASSUME UNCHANGED <<deadlines, app, appWs>>,
             \A t \in Task : Flagged(todo'[t]) => Flagged(todo[t])
      PROVE  DeadlineInv'
  BY <1>1, <1>2, DeadlinesKept DEF DeadlineInv
<1>3. ASSUME UNCHANGED <<deadlines, app, appWs, todo>> PROVE DeadlineInv'
  BY <1>2, <1>3
<1>4. ASSUME NEW t \in Task, UNCHANGED <<deadlines, app, appWs, seen>>,
             NEW s \in Unflagged, Begin(t, s)
      PROVE  DeadlineInv'
  BY <1>2, <1>4, BeginKeepsTodo
<1>5. ASSUME NEW c \in Calls, CallStep(c) PROVE DeadlineInv'
  <2>1. CASE StreamEnds(c) \/ StatusCallback(c) \/ EndCall(c) \/ TimeoutWaiting(c)
    <3>1. \A w \in {"stream", "status", "end", "sweep"} : <<w, c>> \in Task
      BY DEF Task
    <3>2. QED
      BY <1>4, <2>1, <3>1 DEF StreamEnds, StatusCallback, EndCall, TimeoutWaiting, rest,
                              Unflagged
  <2>2. CASE \/ CountQueue(c) \/ InsertRinging(c) \/ StreamConnects(c) \/ StreamStarts(c)
             \/ ReleaseExpiredClaim(c)
    BY <1>3, <2>2 DEF CountQueue, InsertRinging, StreamConnects, StreamStarts,
                      ReleaseExpiredClaim, rest, tasks
  <2>3. QED BY <1>1, <1>5, <2>1, <2>2, ExpiryKeepsDeadlines DEF CallStep
<1>6. ASSUME NEW a \in Agents, NEW c \in Calls, PickupStep(a, c) PROVE DeadlineInv'
  <2>1. <<a, c>> \in Task
    BY DEF Task
  <2>2. CASE Answer(a, c) /\ row[c] = "SESSION_STARTING" /\ claimant[c] = a
    BY <1>1, <2>2, AnswerKeepsDeadlines
  <2>3. CASE Answer(a, c) /\ ~(row[c] = "SESSION_STARTING" /\ claimant[c] = a)
    BY <1>4, <2>1, <2>3 DEF Answer, Unflagged
  <2>4. CASE StartSession(a, c) \/ SessionConnected(a, c) \/ BootstrapFails(a, c)
    BY <1>3, <1>4, <2>1, <2>4 DEF StartSession, SessionConnected, BootstrapFails, Unflagged
  <2>5. CASE Claim(a, c) \/ PickupAgain(a, c) \/ HandedOff(a, c) \/ PickupRaises(a, c)
    BY <1>3, <2>5 DEF Claim, PickupAgain, HandedOff, PickupRaises, tasks
  <2>6. QED BY <1>6, <2>2, <2>3, <2>4, <2>5 DEF PickupStep
<1>7. CASE Restart
  <2>1. /\ appWs' = [c \in Calls |-> Nobody] /\ closing' = {}
        /\ initial' = [c \in Calls |-> "off"] /\ grace' = [c \in Calls |-> "off"]
        /\ app' = [x \in Apps \X Calls |-> IF app[x] = "idle" THEN "idle" ELSE "over"]
        /\ todo' = [t \in Task |-> <<>>]
    BY <1>7 DEF Restart
  <2>2. \A t \in Task : ~Flagged(todo'[t])
    BY <2>1, NothingIsOrderly DEF Flagged
  <2>3. ASSUME NEW x \in Apps, NEW c \in Calls PROVE app'[<<x, c>>] \notin {"accepting", "attached"}
    BY <2>1
  <2>4. QED BY <2>1, <2>2, <2>3 DEF DeadlineInv, CallDeadlines, TaskDeadline
<1>8. CASE UNCHANGED vars
  BY <1>3, <1>8 DEF vars, rest, tasks
<1>9. QED BY <1>1, <1>5, <1>6, <1>7, <1>8, CleanupKeepsDeadlines, AppKeepsDeadlines DEF Next

(* Only calls that were served have deadlines, and marks a task to clear.  *)
LEMMA DeadlinesHold == Spec => []DeadlineInv
<1>1. Init => DeadlineInv
  <2> SUFFICES ASSUME Init PROVE DeadlineInv
    OBVIOUS
  <2>1. \A t \in Task : ~Flagged(todo[t])
    BY NothingIsOrderly DEF Init, Flagged
  <2>2. QED BY <2>1 DEF Init, DeadlineInv, CallDeadlines, TaskDeadline
<1>2. RowInv /\ TodoInv /\ DeadlineInv /\ [Next]_vars => DeadlineInv'
  BY StepKeepsDeadlines
<1>3. QED BY <1>1, <1>2, RowsHold, PTL DEF Spec

(* An agent who connects before a deadline expires is not cut off by it,   *)
(* one who comes after it is not connected, and the two deadlines of a     *)
(* call never run together (service.py, _connection_cleanup_started).      *)
THEOREM DeadlinesDecide == Spec => []DeadlineDecides
<1>1. DeadlineInv => DeadlineDecides
  BY DEF DeadlineInv, CallDeadlines, DeadlineDecides
<1>2. QED BY <1>1, DeadlinesHold, PTL

----------------------------------------------------------------------------
(* What a call holds                                                       *)

\* The states of the memory, beside the rows, the slots and the cleanups.
MemoryOK ==
  /\ counted \in SUBSET Calls /\ known \in SUBSET Calls /\ closed \in SUBSET Calls
  /\ pending \in [Calls -> {"none", "prepared", "attached"}]
  /\ stream \in [Calls -> {"none", "open", "waiting", "over"}]
  /\ pick \in [Agents \X Calls -> {"idle", "claimed", "connecting", "handing", "handed"}]
  /\ answered \in SUBSET (Agents \X Calls)
  /\ session \in [Calls -> {"none", "open", "closed"}]
  /\ media \in [Calls -> {"none", "registered", "unwinding"}]
  /\ appWs \in [Calls -> Apps \cup {Nobody}]
  /\ app \in [Apps \X Calls -> {"idle", "accepting", "attached", "over"}]
  /\ initial \in [Calls -> {"off", "pending", "cleaning"}]
  /\ grace \in [Calls -> {"off", "pending", "cleaning"}]
  /\ closing \in SUBSET Calls
  /\ reported \in SUBSET Calls
  /\ restarts \in 0..MaxRestarts

LEMMA StepKeepsMemory ==
  ASSUME MemoryOK, [Next]_vars
  PROVE  MemoryOK'
<1>1. ASSUME NEW t \in Task, CleanupStep(t) PROVE MemoryOK'
  <2>1. Of(t) \in Calls
    BY DEF Task, Of
  <2>2. CASE CloseStream(t) \/ TearDown(t) \/ Unwound(t)
    BY <2>1, <2>2 DEF MemoryOK, CloseStream, TearDown, Unwound, deadlines, outside
  <2>3. CASE EnterCleanup(t) \/ SlotReturned(t) \/ FinishFails(t)
    BY <2>3 DEF MemoryOK, EnterCleanup, SlotReturned, FinishFails, rest, deadlines, outside
  <2>4. CASE NothingToClean(t) \/ FinishStarts(t) \/ DeadlineOver(t)
    BY <2>1, <2>4 DEF MemoryOK, NothingToClean, FinishStarts, DeadlineOver, CancelDeadlines,
                      rest, deadlines, outside
  <2>5. CASE FinishReads(t) \/ FinishWrites(t) \/ Forget(t)
    BY <2>5 DEF MemoryOK, FinishReads, FinishWrites, Forget, rest, deadlines, outside
  <2>6. QED BY <1>1, <2>2, <2>3, <2>4, <2>5 DEF CleanupStep
<1>2. ASSUME NEW c \in Calls, CallStep(c) PROVE MemoryOK'
  <2>1. CASE CountQueue(c) \/ InsertRinging(c) \/ StreamConnects(c) \/ StreamStarts(c)
    BY <2>1 DEF MemoryOK, CountQueue, InsertRinging, StreamConnects, StreamStarts, deadlines,
                outside
  <2>2. CASE \/ StreamEnds(c) \/ StatusCallback(c) \/ EndCall(c) \/ ReleaseExpiredClaim(c)
             \/ TimeoutWaiting(c)
    BY <2>2 DEF MemoryOK, StreamEnds, StatusCallback, EndCall, ReleaseExpiredClaim,
                TimeoutWaiting, rest, deadlines, outside
  <2>3. CASE InitialExpires(c) \/ GraceExpires(c)
    BY <2>3 DEF MemoryOK, InitialExpires, GraceExpires, rest, deadlines, outside
  <2>4. QED BY <1>2, <2>1, <2>2, <2>3 DEF CallStep
<1>3. ASSUME NEW a \in Agents, NEW c \in Calls, PickupStep(a, c) PROVE MemoryOK'
  <2>1. CASE Claim(a, c) \/ PickupAgain(a, c) \/ StartSession(a, c)
    BY <2>1 DEF MemoryOK, Claim, PickupAgain, StartSession, deadlines, outside
  <2>2. CASE SessionConnected(a, c) \/ BootstrapFails(a, c) \/ HandedOff(a, c)
    BY <2>2 DEF MemoryOK, SessionConnected, BootstrapFails, HandedOff, deadlines, outside
  <2>3. CASE Answer(a, c) \/ PickupRaises(a, c)
    BY <2>3 DEF MemoryOK, Answer, ScheduleInitial, PickupRaises, deadlines, outside
  <2>4. QED BY <1>3, <2>1, <2>2, <2>3 DEF PickupStep
<1>4. ASSUME NEW x \in Apps, NEW c \in Calls, AppStep(x, c) PROVE MemoryOK'
  <2>1. CASE AppConnects(x, c)
    BY <2>1 DEF MemoryOK, AppConnects, deadlines, outside
  <2>2. CASE AppAttaches(x, c)
    <3>1. appWs' \in [Calls -> Apps \cup {Nobody}]
      BY <2>2 DEF MemoryOK, AppAttaches
    <3>2. app' \in [Apps \X Calls -> {"idle", "accepting", "attached", "over"}]
      BY <2>2 DEF MemoryOK, AppAttaches
    <3>3. /\ initial' \in [Calls -> {"off", "pending", "cleaning"}]
          /\ grace' \in [Calls -> {"off", "pending", "cleaning"}]
          /\ closing' \in SUBSET Calls
      BY <2>2 DEF MemoryOK, AppAttaches, CancelDeadlines, deadlines
    <3>4. QED BY <2>2, <3>1, <3>2, <3>3 DEF MemoryOK, AppAttaches, outside
  <2>3. CASE AppLeaves(x, c)
    <3>1. appWs' \in [Calls -> Apps \cup {Nobody}]
      BY <2>3 DEF MemoryOK, AppLeaves, Unregister
    <3>2. QED BY <2>3, <3>1 DEF MemoryOK, AppLeaves, ScheduleGrace, outside
  <2>4. CASE AppEndsCall(x, c)
    <3>1. appWs' \in [Calls -> Apps \cup {Nobody}]
      BY <2>4 DEF MemoryOK, AppEndsCall, Unregister
    <3>2. QED BY <2>4, <3>1 DEF MemoryOK, AppEndsCall, deadlines, outside
  <2>5. QED BY <1>4, <2>1, <2>2, <2>3, <2>4 DEF AppStep
<1>5. CASE Restart
  BY <1>5, InboundAssumption DEF MemoryOK, Restart
<1>6. CASE UNCHANGED vars
  BY <1>6 DEF MemoryOK, vars, rest, deadlines, outside
<1>7. QED BY <1>1, <1>2, <1>3, <1>4, <1>5, <1>6 DEF Next

\* The steps that some cleanup of the call has left to do.
Owed(c) == {x \in Steps : \E t \in Task : Of(t) = c /\ Has(todo[t], x)}

Connecting(c) == \E a \in Agents : pick[<<a, c>>] = "connecting"
Early == {"absent", "RINGING", "WAITING_FOR_AGENT", "CLAIMED"}

\* A session is opened once, by the one pickup that is connecting it; what the
\* call holds from then on is released by a step that some cleanup owes, and
\* whoever connects after the caller's stream has been closed finds it closed.
CallInv(c) ==
  /\ c \in active => media[c] # "none"
  /\ c \in reserved => Connecting(c) \/ "slot" \in Owed(c)
  /\ session[c] = "open" =>
       /\ media[c] = "registered"
       /\ c \in active \/ "call" \in Owed(c) \/ "tear" \in Owed(c)
  /\ media[c] # "none" => session[c] # "none"
  /\ media[c] = "unwinding" => "unwind" \in Owed(c)
  /\ Connecting(c) => session[c] = "none" /\ (pending[c] = "attached" \/ c \in closed)
  /\ row[c] \in Early => session[c] = "none"
  /\ stream[c] = "none" =>
       session[c] = "none" /\ pending[c] # "attached" /\ c \notin closed
  /\ stream[c] = "over" =>
       /\ pending[c] # "none" => "close" \in Owed(c)
       /\ media[c] = "registered" => "call" \in Owed(c) \/ "tear" \in Owed(c)
  /\ c \in counted => stream[c] = "none"
  /\ appWs[c] # Nobody => app[<<appWs[c], c>>] = "attached"
  /\ \A a, b \in Agents :
       pick[<<a, c>>] \in Starters /\ pick[<<b, c>>] \in Starters => a = b

\* Whoever is past the teardown of cleanup_call has closed the session.
TaskInv(t) ==
  /\ Has(todo[t], "tear") => session[Of(t)] # "none"
  /\ Has(todo[t], "unlock") /\ ~Has(todo[t], "tear") => session[Of(t)] = "closed"
  /\ Starts(todo[t], "slot") => session[Of(t)] = "closed"

HoldInv == (\A c \in Calls : CallInv(c)) /\ (\A t \in Task : TaskInv(t))

\* A step that is another call's.
Same(d) ==
  /\ UNCHANGED <<row[d], session[d], media[d], pending[d], stream[d], appWs[d]>>
  /\ (d \in active') <=> (d \in active)
  /\ (d \in reserved') <=> (d \in reserved)
  /\ (d \in closed') <=> (d \in closed)
  /\ (d \in counted') <=> (d \in counted)
  /\ \A a \in Agents : pick'[<<a, d>>] = pick[<<a, d>>]
  /\ \A x \in Apps : app'[<<x, d>>] = app[<<x, d>>]
  /\ \A t \in Task : Of(t) = d => todo'[t] = todo[t]

LEMMA SameKeepsCall ==
  ASSUME MemoryOK, NEW d \in Calls, CallInv(d), Same(d)
  PROVE  CallInv(d)' /\ \A t \in Task : Of(t) = d /\ TaskInv(t) => TaskInv(t)'
<1>1. Owed(d)' = Owed(d)
  BY DEF Owed, Same
<1>2. Connecting(d)' <=> Connecting(d)
  BY DEF Connecting, Same
<1>3. appWs[d] \in Apps \cup {Nobody} /\ UNCHANGED appWs[d]
  BY DEF MemoryOK, Same
<1>4. appWs'[d] # Nobody => app'[<<appWs'[d], d>>] = "attached"
  BY <1>3 DEF CallInv, Same
<1>5. CallInv(d)'
  BY <1>1, <1>2, <1>4 DEF CallInv, Same
<1>6. ASSUME NEW t \in Task, Of(t) = d, TaskInv(t) PROVE TaskInv(t)'
  <2>1. todo'[t] = todo[t] /\ session'[Of(t)] = session[Of(t)]
    BY <1>6 DEF Same
  <2>2. QED BY <1>6, <2>1 DEF TaskInv
<1>7. QED BY <1>5, <1>6

StepOf(c) ==
  \/ \E t \in Task : Of(t) = c /\ CleanupStep(t)
  \/ CallStep(c)
  \/ \E a \in Agents : PickupStep(a, c)
  \/ \E x \in Apps : AppStep(x, c)

LEMMA StepIsLocal ==
  ASSUME RowTypeOK, TodoInv, MemoryOK, NEW c \in Calls, NEW d \in Calls, d # c, StepOf(c)
  PROVE  Same(d)
<1>1. ASSUME NEW t \in Task, Of(t) = c, CleanupStep(t) PROVE Same(d)
  <2>1. \A v \in Task : Of(v) = d => todo'[v] = todo[v]
    BY <1>1, CleanupLeaves
  <2>2. /\ UNCHANGED <<row[d], session[d], media[d], pending[d], stream[d], appWs[d]>>
        /\ (d \in active') <=> (d \in active)
        /\ (d \in reserved') <=> (d \in reserved)
        /\ (d \in closed') <=> (d \in closed)
        /\ UNCHANGED <<counted, pick, app>>
    <3>1. CASE CloseStream(t) \/ TearDown(t) \/ Unwound(t)
      BY <1>1, <3>1 DEF CloseStream, TearDown, Unwound, capVars, table, ReturnSlot, MemoryOK
    <3>2. CASE NothingToClean(t) \/ EnterCleanup(t) \/ SlotReturned(t) \/ FinishFails(t)
      BY <1>1, <3>2 DEF NothingToClean, EnterCleanup, SlotReturned, FinishFails, capVars,
                        table, rest, ReturnSlot
    <3>3. CASE FinishStarts(t) \/ FinishReads(t) \/ FinishWrites(t) \/ DeadlineOver(t) \/ Forget(t)
      BY <1>1, <3>3 DEF FinishStarts, FinishReads, FinishWrites, DeadlineOver, Forget, capVars,
                        table, rest, RowTypeOK
    <3>4. QED BY <1>1, <3>1, <3>2, <3>3 DEF CleanupStep
  <2>3. QED BY <2>1, <2>2 DEF Same
<1>2. ASSUME NEW u \in Task, Of(u) = c, NEW s, Begin(u, s)
      PROVE  \A t \in Task : Of(t) = d => todo'[t] = todo[t]
  BY <1>2 DEF Begin, TodoInv
<1>3. /\ \A x \in {"stream", "status", "sweep", "initial", "grace", "end"} :
           <<x, c>> \in Task /\ Of(<<x, c>>) = c
      /\ \A x \in Agents \cup Apps : <<x, c>> \in Task /\ Of(<<x, c>>) = c
  BY DEF Task, Of
<1>4. CASE CallStep(c)
  <2>1. CASE CountQueue(c) \/ InsertRinging(c) \/ StreamConnects(c) \/ StreamStarts(c)
    BY <2>1 DEF Same, CountQueue, InsertRinging, StreamConnects, StreamStarts, capVars, table,
                tasks, MemoryOK, RowTypeOK
  <2>2. CASE StreamEnds(c) \/ StatusCallback(c) \/ EndCall(c)
    BY <1>2, <1>3, <2>2 DEF Same, StreamEnds, StatusCallback, EndCall, capVars, table, rest,
                            MemoryOK
  <2>3. CASE ReleaseExpiredClaim(c) \/ TimeoutWaiting(c)
    BY <1>2, <1>3, <2>3 DEF Same, ReleaseExpiredClaim, TimeoutWaiting, capVars, rest, tasks,
                            RowTypeOK
  <2>4. CASE InitialExpires(c) \/ GraceExpires(c)
    <3>1. \A t \in Task : Of(t) = d => todo'[t] = todo[t]
      BY <1>2, <1>3, <2>4 DEF InitialExpires, GraceExpires
    <3>2. QED BY <2>4, <3>1 DEF Same, InitialExpires, GraceExpires, capVars, table, rest
  <2>5. QED BY <1>4, <2>1, <2>2, <2>3, <2>4 DEF CallStep
<1>5. ASSUME NEW a \in Agents, PickupStep(a, c) PROVE Same(d)
  <2>1. \A b \in Agents : <<b, d>> # <<a, c>> /\ <<b, d>> \in Agents \X Calls
    OBVIOUS
  <2>2. \A t \in Task : Of(t) = d => todo'[t] = todo[t]
    BY <1>2, <1>3, <1>5 DEF PickupStep, Claim, PickupAgain, StartSession, SessionConnected,
                            BootstrapFails, HandedOff, Answer, PickupRaises, tasks
  <2>3. CASE Claim(a, c) \/ PickupAgain(a, c) \/ HandedOff(a, c) \/ PickupRaises(a, c)
    BY <2>1, <2>2, <2>3 DEF Same, Claim, PickupAgain, HandedOff, PickupRaises, capVars, table,
                            RowTypeOK, MemoryOK
  <2>4. CASE StartSession(a, c)
    BY <2>1, <2>2, <2>4 DEF Same, StartSession, Reserve, capVars, RowTypeOK, MemoryOK
  <2>5. CASE SessionConnected(a, c) \/ BootstrapFails(a, c)
    BY <2>1, <2>2, <2>5 DEF Same, SessionConnected, BootstrapFails, Commit, capVars, table,
                            MemoryOK
  <2>6. CASE Answer(a, c)
    BY <2>1, <2>2, <2>6 DEF Same, Answer, capVars, RowTypeOK, MemoryOK
  <2>7. QED BY <1>5, <2>3, <2>4, <2>5, <2>6 DEF PickupStep
<1>6. ASSUME NEW x \in Apps, AppStep(x, c) PROVE Same(d)
  <2>1. \A y \in Apps : <<y, d>> # <<x, c>> /\ <<y, d>> \in Apps \X Calls
    OBVIOUS
  <2>2. \A t \in Task : Of(t) = d => todo'[t] = todo[t]
    BY <1>2, <1>3, <1>6 DEF AppStep, AppConnects, AppAttaches, AppLeaves, AppEndsCall, tasks
  <2>3. \A y \in Apps : app'[<<y, d>>] = app[<<y, d>>]
    BY <1>6, <2>1 DEF AppStep, AppConnects, AppAttaches, AppLeaves, AppEndsCall, MemoryOK
  <2>4. appWs'[d] = appWs[d]
    BY <1>6 DEF AppStep, AppConnects, AppAttaches, AppLeaves, AppEndsCall, Unregister, MemoryOK
  <2>5. UNCHANGED <<row, session, media, pending, stream, active, reserved, closed, counted,
                    pick>>
    BY <1>6 DEF AppStep, AppConnects, AppAttaches, AppLeaves, AppEndsCall, capVars, table
  <2>6. QED BY <2>2, <2>3, <2>4, <2>5 DEF Same
<1>7. QED BY <1>1, <1>4, <1>5, <1>6 DEF StepOf

(* A cleanup that begins: its steps are owed, and nothing else changes.    *)
Grows(c) ==
  \A t \in Task : Of(t) = c =>
    todo'[t] = todo[t] \/ (todo[t] = <<>> /\ todo'[t] \in Begun)

LEMMA GrowingOwes ==
  ASSUME NEW c \in Calls, Grows(c)
  PROVE  /\ Owed(c) \subseteq Owed(c)'
         /\ \A t \in Task :
              /\ Of(t) = c /\ TaskInv(t)
              /\ session'[c] = session[c] \/ session[c] = "none"
              => TaskInv(t)'
<1>1. ASSUME NEW t \in Task, Of(t) = c, NEW x, Has(todo[t], x) PROVE Has(todo'[t], x)
  BY <1>1, NothingIsOrderly DEF Grows
<1>2. Owed(c) \subseteq Owed(c)'
  BY <1>1 DEF Owed
<1>3. ASSUME NEW t \in Task, Of(t) = c, TaskInv(t),
             session'[c] = session[c] \/ session[c] = "none"
      PROVE  TaskInv(t)'
  <2>1. CASE todo'[t] = todo[t]
    BY <1>3, <2>1 DEF TaskInv
  <2>2. CASE todo'[t] \in Begun
    BY <2>2, CleanupsAreOrderly DEF TaskInv
  <2>3. QED BY <1>3, <2>1, <2>2 DEF Grows
<1>4. QED BY <1>2, <1>3

LEMMA BeginningOwes ==
  ASSUME TodoInv, NEW c \in Calls, NEW u \in Task, Of(u) = c, NEW s \in Begun, Begin(u, s)
  PROVE  /\ Grows(c)
         /\ \A x \in Steps : Has(s, x) => x \in Owed(c)'
<1>1. todo'[u] = s /\ todo[u] = <<>> /\ \A t \in Task \ {u} : todo'[t] = todo[t]
  BY DEF Begin, TodoInv
<1>2. Grows(c)
  BY <1>1 DEF Grows
<1>3. ASSUME NEW x \in Steps, Has(s, x) PROVE x \in Owed(c)'
  BY <1>1, <1>3 DEF Owed
<1>4. QED BY <1>2, <1>3

(* Who begins a cleanup of the call.                                       *)
LEMMA TasksOfCall ==
  ASSUME NEW c \in Calls
  PROVE  /\ \A x \in {"stream", "status", "sweep", "initial", "grace", "end"} :
              <<x, c>> \in Task /\ Of(<<x, c>>) = c
         /\ \A x \in Agents \cup Apps : <<x, c>> \in Task /\ Of(<<x, c>>) = c
BY DEF Task, Of

(* Of one task's steps, what goes with a step is owed when the step is.    *)
LEMMA OwedTogether ==
  ASSUME TodoInv, NEW c \in Calls
  PROVE  /\ "close" \in Owed(c) => "call" \in Owed(c)
         /\ Owed(c) # {} => Cleaning(c)
<1>1. ASSUME NEW t \in Task, Of(t) = c, Has(todo[t], "close") PROVE "call" \in Owed(c)
  <2>1. Orderly(todo[t])
    BY DEF TodoInv
  <2>2. Has(todo[t], "call")
    BY <1>1, <2>1, WhatGoesTogether
  <2>3. QED BY <1>1, <2>2 DEF Owed, Steps
<1>2. ASSUME NEW t \in Task, Of(t) = c, NEW x, Has(todo[t], x) PROVE Cleaning(c)
  BY <1>2, NothingIsOrderly DEF Cleaning
<1>3. QED BY <1>1, <1>2 DEF Owed

(* A step of the callers, of Twilio, the sweeper and the deadlines.        *)
LEMMA CallKeepsHold ==
  ASSUME RowInv, TodoInv, MemoryOK, NEW c \in Calls, CallInv(c), CallStep(c)
  PROVE  CallInv(c)' /\ Grows(c) /\ UNCHANGED session
<1> USE TasksOfCall
<1>1. row[c] \in DispatchState \cup {"absent"}
  BY DEF RowInv, RowTypeOK
<1>2. ASSUME Grows(c), UNCHANGED <<session, media, pick, closed, active, reserved, appWs, app>>,
             UNCHANGED <<pending, stream, counted>>, row'[c] \in Early => row[c] \in Early
      PROVE  CallInv(c)'
  <2>1. Owed(c) \subseteq Owed(c)'
    BY <1>2, GrowingOwes
  <2>2. Connecting(c)' <=> Connecting(c)
    BY <1>2 DEF Connecting
  <2>3. QED BY <1>2, <2>1, <2>2 DEF CallInv
<1>3. CASE CountQueue(c)
  <2>1. UNCHANGED todo /\ Grows(c)
    BY <1>3 DEF CountQueue, tasks, Grows
  <2>2. Owed(c)' = Owed(c) /\ (Connecting(c)' <=> Connecting(c))
    BY <1>3, <2>1 DEF CountQueue, Owed, Connecting
  <2>3. QED BY <1>3, <2>1, <2>2 DEF CountQueue, CallInv, capVars, table
<1>4. CASE InsertRinging(c)
  <2>1. UNCHANGED todo /\ Grows(c)
    BY <1>4 DEF InsertRinging, tasks, Grows
  <2>2. Owed(c)' = Owed(c) /\ (Connecting(c)' <=> Connecting(c))
    BY <1>4, <2>1 DEF InsertRinging, Owed, Connecting
  <2>3. /\ row'[c] \in Early => row[c] \in Early
        /\ pending'[c] = "attached" <=> pending[c] = "attached"
        /\ stream[c] = "none" /\ UNCHANGED stream /\ c \notin counted'
    BY <1>4 DEF InsertRinging, CallInv, MemoryOK, Early
  <2>4. QED BY <1>4, <2>1, <2>2, <2>3 DEF InsertRinging, CallInv, capVars
<1>5. CASE StreamConnects(c)
  <2>1. UNCHANGED todo /\ Grows(c)
    BY <1>5 DEF StreamConnects, tasks, Grows
  <2>2. Owed(c)' = Owed(c) /\ (Connecting(c)' <=> Connecting(c))
    BY <1>5, <2>1 DEF StreamConnects, Owed, Connecting
  <2>3. /\ stream[c] = "none" /\ c \notin counted /\ UNCHANGED <<row, counted>>
        /\ \/ stream'[c] = "open" /\ pending'[c] = "attached"
           \/ stream'[c] = "over" /\ pending'[c] = pending[c] /\ pending[c] = "none"
    <3>1. /\ stream[c] = "none" /\ c \notin counted /\ UNCHANGED <<row, counted>>
          /\ pending[c] \in {"none", "prepared"}
          /\ pending \in [Calls -> {"none", "prepared", "attached"}]
          /\ stream \in [Calls -> {"none", "open", "waiting", "over"}]
      BY <1>5 DEF StreamConnects, CallInv, MemoryOK, table
    <3>2. \/ /\ stream' = [stream EXCEPT ![c] = "open"]
             /\ pending' = [pending EXCEPT ![c] = "attached"]
          \/ stream' = [stream EXCEPT ![c] = "over"] /\ UNCHANGED pending /\ pending[c] # "prepared"
      BY <1>5 DEF StreamConnects
    <3>3. QED BY <3>1, <3>2
  <2>4. QED BY <1>5, <2>1, <2>2, <2>3 DEF StreamConnects, CallInv, capVars
<1>6. CASE StreamStarts(c)
  <2>1. UNCHANGED todo /\ Grows(c)
    BY <1>6 DEF StreamStarts, tasks, Grows
  <2>2. Owed(c)' = Owed(c) /\ (Connecting(c)' <=> Connecting(c))
    BY <1>6, <2>1 DEF StreamStarts, Owed, Connecting
  <2>3. row[c] \in Early /\ stream[c] = "open" /\ stream'[c] = "waiting"
    BY <1>6 DEF StreamStarts, Early, MemoryOK
  <2>4. QED BY <1>6, <2>1, <2>2, <2>3 DEF StreamStarts, CallInv, capVars
<1>7. CASE StreamEnds(c)
  <2>1. Begin(<<"stream", c>>, CleanUp) /\ CleanUp \in Begun
    BY <1>7 DEF StreamEnds, Begun, Unflagged
  <2>2. Grows(c) /\ "close" \in Owed(c)' /\ "call" \in Owed(c)'
    BY <2>1, BeginningOwes, CleanupsAreOrderly DEF Steps
  <2>3. Owed(c) \subseteq Owed(c)'
    BY <2>2, GrowingOwes
  <2>4. Connecting(c)' <=> Connecting(c)
    BY <1>7 DEF StreamEnds, Connecting
  <2>5. stream[c] \in {"open", "waiting"} /\ stream'[c] = "over"
    BY <1>7 DEF StreamEnds, MemoryOK
  <2>6. QED BY <1>7, <2>2, <2>3, <2>4, <2>5 DEF StreamEnds, CallInv, capVars, table
<1>8. CASE StatusCallback(c) \/ EndCall(c)
  <2>1. Grows(c)
    BY <1>8, BeginningOwes DEF StatusCallback, EndCall, Begun, Unflagged
  <2>2. QED BY <1>2, <1>8, <2>1 DEF StatusCallback, EndCall, capVars, table, rest
<1>9. CASE ReleaseExpiredClaim(c)
  <2>1. Grows(c) /\ row[c] \in Early
    BY <1>9 DEF ReleaseExpiredClaim, tasks, Grows, Early
  <2>2. QED BY <1>2, <1>9, <2>1 DEF ReleaseExpiredClaim, capVars, rest
<1>10. CASE TimeoutWaiting(c)
  <2>1. Grows(c) /\ row[c] \in Early
    BY <1>10, BeginningOwes DEF TimeoutWaiting, Begun, Unflagged, Early
  <2>2. QED BY <1>2, <1>10, <2>1 DEF TimeoutWaiting, capVars, rest
<1>11. CASE InitialExpires(c) \/ GraceExpires(c)
  <2>1. Grows(c)
    <3>1. CleanUp \o <<"flag">> \in Begun
      BY DEF Begun
    <3>2. UNCHANGED todo => Grows(c)
      BY DEF Grows
    <3>3. QED BY <1>11, <3>1, <3>2, BeginningOwes DEF InitialExpires, GraceExpires
  <2>2. QED BY <1>2, <1>11, <2>1 DEF InitialExpires, GraceExpires, capVars, table, rest
<1>12. QED BY <1>3, <1>4, <1>5, <1>6, <1>7, <1>8, <1>9, <1>10, <1>11 DEF CallStep

(* A step of a pickup: a session is opened by the agent who holds the      *)
(* claim, and by no other.                                                 *)
LEMMA PickupKeepsHold ==
  ASSUME RowInv, TodoInv, MemoryOK, StarterHoldsClaim, NEW c \in Calls, CallInv(c),
         NEW a \in Agents, PickupStep(a, c)
  PROVE  /\ CallInv(c)' /\ Grows(c)
         /\ session'[c] = session[c] \/ session[c] = "none"
<1> USE TasksOfCall
<1> DEFINE p == <<a, c>>
<1>1. /\ \A b \in Agents : <<b, c>> \in Agents \X Calls /\ (b # a => <<b, c>> # p)
      /\ p \in Agents \X Calls /\ pick \in [Agents \X Calls ->
           {"idle", "claimed", "connecting", "handing", "handed"}]
      /\ row[c] \in DispatchState \cup {"absent"} /\ p \in Task /\ Of(p) = c
  BY DEF RowInv, RowTypeOK, MemoryOK
<1>2. UNCHANGED todo => Grows(c)
  BY DEF Grows
<1>3. ASSUME NEW v \in {"idle", "claimed", "handed"}, pick' = [pick EXCEPT ![p] = v],
             Grows(c), UNCHANGED <<session, media, pending, closed, stream, counted, appWs, app>>,
             UNCHANGED <<reserved, active>>, row'[c] \in Early => row[c] \in Early,
             v = "handed" => pick[p] \in Starters,
             pick[p] = "connecting" => "slot" \in Owed(c)'
      PROVE  CallInv(c)'
  <2>1. Owed(c) \subseteq Owed(c)'
    BY <1>3, GrowingOwes
  <2>2. /\ Connecting(c)' => Connecting(c)
        /\ Connecting(c) => Connecting(c)' \/ pick[p] = "connecting"
    BY <1>1, <1>3 DEF Connecting
  <2>3. \A b \in Agents : pick'[<<b, c>>] \in Starters => pick[<<b, c>>] \in Starters
    BY <1>1, <1>3 DEF Starters
  <2>4. c \in reserved' => Connecting(c)' \/ "slot" \in Owed(c)'
    BY <1>3, <2>1, <2>2 DEF CallInv
  <2>5. \A b, d \in Agents :
          pick'[<<b, c>>] \in Starters /\ pick'[<<d, c>>] \in Starters => b = d
    BY <2>3 DEF CallInv
  <2>6. Connecting(c)' => session'[c] = "none" /\ (pending'[c] = "attached" \/ c \in closed')
    BY <1>3, <2>2 DEF CallInv
  <2>7. QED BY <1>3, <2>1, <2>4, <2>5, <2>6 DEF CallInv
<1>4. /\ FailStart \in Begun /\ <<"call", "slot">> \o FailStart \in Begun
      /\ Has(<<"call", "slot">> \o FailStart, "slot")
      /\ Has(<<"call", "slot">> \o FailStart, "call")
  BY CleanupsAreOrderly DEF Begun, Unflagged
<1>5. CASE Claim(a, c)
  <2>1. row[c] \in Early /\ pick[p] = "idle" /\ Grows(c) /\ pick' = [pick EXCEPT ![p] = "claimed"]
    BY <1>2, <1>5 DEF Claim, PickupFree, Early, tasks
  <2>2. QED BY <1>3, <1>5, <2>1 DEF Claim, capVars
<1>6. CASE PickupAgain(a, c)
  <2>1. UNCHANGED todo /\ Grows(c)
    BY <1>2, <1>6 DEF PickupAgain, tasks
  <2>2. Owed(c)' = Owed(c) /\ (Connecting(c)' <=> Connecting(c))
    BY <1>6, <2>1 DEF PickupAgain, Owed, Connecting
  <2>3. QED BY <1>6, <2>1, <2>2 DEF PickupAgain, CallInv, capVars, table
<1>7. CASE StartSession(a, c)
  <2>1. pick[p] = "claimed"
    BY <1>7 DEF StartSession
  <2>2. CASE row[c] = "CLAIMED" /\ claimant[c] = a /\ pending[c] = "attached" /\ CanReserve(c)
    <3>1. /\ pick' = [pick EXCEPT ![p] = "connecting"] /\ UNCHANGED todo
          /\ row' = [row EXCEPT ![c] = "SESSION_STARTING"]
          /\ reserved' = reserved \cup {c} /\ UNCHANGED active
      BY <1>7, <2>2 DEF StartSession, Reserve
    <3>2. Owed(c)' = Owed(c)
      BY <3>1 DEF Owed
    <3>3. \A b \in Agents : pick[<<b, c>>] \notin Starters
      BY <2>2 DEF StarterHoldsClaim, Starters, Terminal
    <3>4. pick'[p] = "connecting" /\ \A b \in Agents \ {a} : pick'[<<b, c>>] \notin Starters
      BY <1>1, <3>1, <3>3
    <3>5. Connecting(c)'
      BY <3>4 DEF Connecting
    <3>6. row'[c] \notin Early /\ session[c] = "none"
      BY <1>1, <2>2, <3>1 DEF Early, CallInv, RowInv, RowTypeOK
    <3>7. UNCHANGED <<counted, pending, closed, stream, session, media, appWs, app>>
      BY <1>7 DEF StartSession
    <3>8. QED BY <1>2, <2>2, <3>1, <3>2, <3>4, <3>5, <3>6, <3>7 DEF CallInv
  <2>3. CASE ~(row[c] = "CLAIMED" /\ claimant[c] = a /\ pending[c] = "attached" /\ CanReserve(c))
    <3>1. /\ pick' = [pick EXCEPT ![p] = "idle"] /\ UNCHANGED <<reserved, active>>
          /\ UNCHANGED todo \/ Begin(p, FailStart)
          /\ UNCHANGED <<counted, pending, closed, stream, session, media, appWs, app>>
      BY <1>7, <2>3 DEF StartSession, capVars
    <3>2. row'[c] \in Early => row[c] \in Early
      BY <1>7 DEF StartSession, Early
    <3>3. Grows(c)
      BY <1>1, <1>2, <1>4, <3>1, BeginningOwes
    <3>4. QED BY <1>3, <2>1, <3>1, <3>2, <3>3
  <2>4. QED BY <2>2, <2>3
<1>8. CASE SessionConnected(a, c)
  <2>1. /\ pick[p] = "connecting" /\ session'[c] = "open" /\ media'[c] = "registered"
        /\ UNCHANGED <<row, counted, pending, closed, stream, appWs, app>>
    BY <1>8 DEF SessionConnected, MemoryOK, table
  <2>2. Connecting(c)
    BY <2>1 DEF Connecting
  <2>3. /\ session[c] = "none" /\ (pending[c] = "attached" \/ c \in closed)
        /\ stream[c] # "none" /\ row[c] \notin Early
    <3>1. row[c] \in Terminal \cup {"SESSION_STARTING"}
      BY <2>1 DEF StarterHoldsClaim
    <3>2. QED BY <2>2, <3>1 DEF CallInv, Early, Terminal
  <2>4. \A b \in Agents : pick[<<b, c>>] \in Starters => b = a
    BY <2>1 DEF CallInv, Starters
  <2>5. ASSUME NEW v \in {"handing", "idle"}, pick' = [pick EXCEPT ![p] = v]
        PROVE  /\ ~Connecting(c)'
               /\ \A b, d \in Agents :
                    pick'[<<b, c>>] \in Starters /\ pick'[<<d, c>>] \in Starters => b = d
    <3>1. pick'[p] = v /\ \A b \in Agents \ {a} : pick'[<<b, c>>] = pick[<<b, c>>]
      BY <1>1, <2>5
    <3>2. \A b \in Agents : pick'[<<b, c>>] \in Starters => b = a
      BY <2>4, <3>1
    <3>3. ~Connecting(c)'
      BY <2>4, <3>1 DEF Connecting, Starters
    <3>4. QED BY <3>2, <3>3
  <2>6. CASE c \in reserved /\ c \notin closed
    <3>1. /\ pick' = [pick EXCEPT ![p] = "handing"] /\ UNCHANGED todo
          /\ c \notin reserved' /\ c \in active'
      BY <1>8, <2>6 DEF SessionConnected, Commit
    <3>2. Owed(c)' = Owed(c)
      BY <3>1 DEF Owed
    <3>3. stream[c] = "over" => "call" \in Owed(c)
      BY <2>3, <2>6, OwedTogether DEF CallInv
    <3>4. QED BY <1>2, <2>1, <2>3, <2>5, <2>6, <3>1, <3>2, <3>3 DEF CallInv
  <2>7. CASE ~(c \in reserved /\ c \notin closed)
    <3>1. /\ pick' = [pick EXCEPT ![p] = "idle"] /\ Begin(p, <<"call", "slot">> \o FailStart)
          /\ c \notin reserved'
      BY <1>8, <2>7 DEF SessionConnected, Commit, capVars
    <3>2. Grows(c) /\ "call" \in Owed(c)'
      BY <1>1, <1>4, <3>1, BeginningOwes DEF Steps
    <3>3. Owed(c) \subseteq Owed(c)'
      BY <3>2, GrowingOwes
    <3>4. QED BY <2>1, <2>3, <2>5, <3>1, <3>2, <3>3 DEF CallInv
  <2>8. QED BY <2>6, <2>7
<1>9. CASE BootstrapFails(a, c)
  <2>1. Grows(c) /\ "slot" \in Owed(c)'
    BY <1>1, <1>4, <1>9, BeginningOwes DEF BootstrapFails, Steps
  <2>2. QED BY <1>3, <1>9, <2>1 DEF BootstrapFails, capVars, table
<1>10. CASE HandedOff(a, c)
  <2>1. Grows(c) /\ pick[p] = "handing" /\ pick[p] \in Starters
    BY <1>2, <1>10 DEF HandedOff, tasks, Starters
  <2>2. QED BY <1>3, <1>10, <2>1 DEF HandedOff, capVars, table
<1>11. CASE Answer(a, c)
  <2>1. Grows(c)
    BY <1>1, <1>2, <1>4, <1>11, BeginningOwes DEF Answer
  <2>2. row'[c] \in Early => row[c] \in Early
    BY <1>1, <1>11 DEF Answer, Early, RowInv, RowTypeOK
  <2>3. pick[p] = "handed" /\ pick' = [pick EXCEPT ![p] = "idle"] /\ UNCHANGED <<reserved, active>>
    BY <1>11 DEF Answer, capVars
  <2>4. UNCHANGED <<session, media, pending, closed, stream, counted, appWs, app>>
    BY <1>11 DEF Answer
  <2>5. QED BY <1>3, <2>1, <2>2, <2>3, <2>4
<1>12. CASE PickupRaises(a, c)
  <2>1. Grows(c) /\ pick[p] \in {"claimed", "handed"}
    BY <1>2, <1>12 DEF PickupRaises, tasks
  <2>2. QED BY <1>3, <1>12, <2>1 DEF PickupRaises, capVars, table
<1>13. QED BY <1>5, <1>6, <1>7, <1>8, <1>9, <1>10, <1>11, <1>12 DEF PickupStep

(* A step of an agent's app.                                               *)
LEMMA AppKeepsHold ==
  ASSUME RowInv, TodoInv, MemoryOK, NEW c \in Calls, CallInv(c), NEW x \in Apps, AppStep(x, c)
  PROVE  CallInv(c)' /\ Grows(c) /\ UNCHANGED session
<1>1. Grows(c)
  <2>1. UNCHANGED todo => Grows(c)
    BY DEF Grows
  <2>2. QED BY <2>1, BeginningOwes, TasksOfCall
         DEF AppStep, AppConnects, AppAttaches, AppLeaves, AppEndsCall, tasks, Begun, Unflagged
<1>2. Owed(c) \subseteq Owed(c)'
  BY <1>1, GrowingOwes
<1>3. /\ UNCHANGED <<row, counted, pending, closed, stream, pick, session, media>>
      /\ UNCHANGED <<reserved, active>>
  BY DEF AppStep, AppConnects, AppAttaches, AppLeaves, AppEndsCall, capVars, table
<1>4. Connecting(c)' <=> Connecting(c)
  BY <1>3 DEF Connecting
<1>5. /\ <<x, c>> \in Apps \X Calls /\ appWs[c] \in Apps \cup {Nobody}
      /\ appWs \in [Calls -> Apps \cup {Nobody}]
      /\ app \in [Apps \X Calls -> {"idle", "accepting", "attached", "over"}]
      /\ \A y \in Apps : <<y, c>> \in Apps \X Calls /\ (y # x => <<y, c>> # <<x, c>>)
  BY DEF MemoryOK
<1>6. appWs'[c] # Nobody => app'[<<appWs'[c], c>>] = "attached"
  <2>1. appWs[c] # Nobody => app[<<appWs[c], c>>] = "attached"
    BY DEF CallInv
  <2>2. CASE AppConnects(x, c)
    BY <1>5, <2>1, <2>2 DEF AppConnects
  <2>3. CASE AppAttaches(x, c)
    BY <1>5, <2>1, <2>3 DEF AppAttaches
  <2>4. CASE AppLeaves(x, c) \/ AppEndsCall(x, c)
    BY <1>5, <2>1, <2>4 DEF AppLeaves, AppEndsCall, Unregister
  <2>5. QED BY <2>2, <2>3, <2>4 DEF AppStep
<1>7. QED BY <1>1, <1>2, <1>3, <1>4, <1>6 DEF CallInv


(* A step of a cleanup: what the call held is released before the step     *)
(* that owes it is over.                                                   *)
LEMMA CleanupKeepsHold ==
  ASSUME RowInv, TodoInv, MemoryOK, NEW t \in Task, CleanupStep(t), CallInv(Of(t)),
         \A v \in Task : TaskInv(v)
  PROVE  CallInv(Of(t))' /\ \A v \in Task : Of(v) = Of(t) => TaskInv(v)'
<1> DEFINE c == Of(t)
           s == todo[t]
           u == todo'[t]
           Kept(x) == x \in Owed(c) => x \in Owed(c)'
<1>1. /\ c \in Calls /\ s # <<>> /\ Orderly(s) /\ \A v \in Task \ {t} : todo'[v] = todo[v]
  BY CleanupLeaves DEF RowInv, Task, Of
<1>2. ASSUME NEW x \in Steps, Has(s, x) => Has(u, x)
      PROVE  Kept(x)
  BY <1>1, <1>2 DEF Owed
<1>3. /\ Has(s, "tear") => Starts(s, "tear") /\ Has(s, "unwind")
      /\ Has(s, "unwind") => Has(s, "unlock")
      /\ \A x : At(t, x) => Has(s, x)
  BY <1>1, WhatGoesTogether, TailIsOrderly DEF At
<1>4. /\ Has(s, "tear") => session[c] # "none"
      /\ Has(s, "unlock") /\ ~Has(s, "tear") => session[c] = "closed"
      /\ Starts(s, "slot") => session[c] = "closed"
  BY DEF TaskInv
<1>5. /\ ~EnterCleanup(t) => ~Has(u, "tear")
      /\ Has(u, "unlock") => Has(s, "unlock") \/ EnterCleanup(t)
      /\ Starts(u, "slot") => Has(s, "unlock") /\ ~Has(s, "tear")
      /\ EnterCleanup(t) => Has(u, "tear")
  <2>1. /\ \A x : Has(TearSteps, x) <=> x \in {"tear", "unwind", "unlock"}
        /\ \A x : Has(FinishRow, x) <=> x \in {"finish", "read", "update"}
    BY AddedAreOrderly
  <2>2. EnterCleanup(t) => ~NothingToClean(t) /\ ~Unwound(t)
    BY DEF EnterCleanup, NothingToClean, Unwound, At
  <2>3. TearSteps # FinishRow
    BY <2>1
  <2>4. QED BY <2>1, <2>2, <2>3, CleanupLeaves DEF Leaves, RowInv
<1>6. ASSUME NEW x \in {"close", "call", "tear", "unwind", "slot"}, Has(s, x), x # Head(s)
      PROVE  Has(u, x) \/ (NothingToClean(t) /\ x = "slot")
  BY <1>6, CleanupLeaves DEF Leaves, RowInv
<1>7. ASSUME NEW x \in {"close", "call", "tear", "unwind", "slot"}, ~At(t, x),
             NothingToClean(t) => x # "slot"
      PROVE  Kept(x)
  BY <1>1, <1>2, <1>6, <1>7 DEF At, Steps
<1>8. ASSUME NEW v \in Task, Of(v) = c,
             session'[c] = session[c] \/ session'[c] = "closed",
             At(t, "tear") => session'[c] = "closed"
      PROVE  TaskInv(v)'
  <2>1. CASE v = t
    <3>1. Has(u, "tear") => session[c] # "none" /\ session'[c] = session[c]
      <4>1. EnterCleanup(t) => media[c] # "none" /\ UNCHANGED session
        BY DEF EnterCleanup, rest
      <4>2. QED BY <1>5, <4>1 DEF CallInv
    <3>2. Has(u, "unlock") /\ ~Has(u, "tear") => session'[c] = "closed"
      BY <1>1, <1>3, <1>4, <1>5, <1>8 DEF At, Starts
    <3>3. Starts(u, "slot") => session'[c] = "closed"
      BY <1>4, <1>5, <1>8
    <3>4. QED BY <1>8, <2>1, <3>1, <3>2, <3>3 DEF TaskInv
  <2>2. CASE v # t
    <3>1. todo'[v] = todo[v] /\ TaskInv(v)
      BY <1>1, <2>2
    <3>2. QED BY <1>8, <3>1 DEF TaskInv
  <2>3. QED BY <2>1, <2>2
<1> HIDE DEF u, s, Kept
<1>9. UNCHANGED <<counted, pick, app, stream>> /\ (Connecting(c)' <=> Connecting(c))
  BY DEF CleanupStep, CloseStream, NothingToClean, EnterCleanup, TearDown, Unwound,
         SlotReturned, FinishStarts, FinishReads, FinishWrites, FinishFails, DeadlineOver,
         Forget, rest, Connecting
<1> USE DEF Kept
<1>10. CASE CloseStream(t)
  <2>1. Kept("call") /\ Kept("tear") /\ Kept("unwind") /\ Kept("slot")
    BY <1>7, <1>10 DEF CloseStream, NothingToClean, At
  <2>2. /\ pending'[c] = "none" /\ (c \in closed' <=> c \in closed \/ pending[c] = "attached")
        /\ UNCHANGED <<row, session, media, appWs, reserved, active>>
    BY <1>1, <1>10 DEF CloseStream, MemoryOK, capVars, table
  <2>3. CallInv(c)'
    BY <1>9, <2>1, <2>2 DEF CallInv
  <2>4. ~At(t, "tear")
    BY <1>10 DEF CloseStream, At
  <2>5. QED BY <1>8, <2>2, <2>3, <2>4
<1>11. CASE NothingToClean(t)
  <2>1. Kept("close")
    BY <1>7, <1>11 DEF NothingToClean, At
  <2>2. /\ media[c] = "none" /\ c \notin active' /\ c \notin reserved' /\ ~At(t, "tear")
        /\ UNCHANGED <<row, session, media, appWs, pending, closed>>
    BY <1>11 DEF NothingToClean, At, ReturnSlot, rest, table
  <2>3. CallInv(c)'
    BY <1>9, <2>1, <2>2 DEF CallInv
  <2>4. QED BY <1>8, <2>2, <2>3
<1>12. CASE EnterCleanup(t)
  <2>1. Kept("close") /\ Kept("unwind") /\ Kept("slot") /\ ~At(t, "tear")
    BY <1>7, <1>12 DEF EnterCleanup, NothingToClean, At
  <2>2. "tear" \in Owed(c)'
    BY <1>5, <1>12 DEF Owed, Steps, u
  <2>3. UNCHANGED <<row, session, media, appWs, pending, closed, reserved, active>>
    BY <1>12 DEF EnterCleanup, rest, table, capVars
  <2>4. CallInv(c)'
    BY <1>9, <2>1, <2>2, <2>3 DEF CallInv
  <2>5. QED BY <1>8, <2>1, <2>3, <2>4
<1>13. CASE TearDown(t)
  <2>1. Kept("close") /\ Kept("slot") /\ At(t, "tear") /\ ~NothingToClean(t)
    BY <1>7, <1>13 DEF TearDown, NothingToClean, At
  <2>2. "unwind" \in Owed(c)'
    <3>1. Has(s, "unwind") /\ "unwind" # Head(s)
      BY <1>3, <2>1 DEF At, s
    <3>2. Has(u, "unwind")
      BY <1>6, <3>1
    <3>3. QED BY <3>2 DEF Owed, Steps, u
  <2>3. /\ media'[c] = "unwinding" /\ session'[c] = "closed" /\ appWs'[c] = Nobody
        /\ UNCHANGED <<row, pending, closed, reserved, active>>
    BY <1>1, <1>13 DEF TearDown, MemoryOK, capVars, table
  <2>4. session[c] # "none"
    BY <1>3, <1>4, <2>1
  <2>5. CallInv(c)'
    BY <1>9, <2>1, <2>2, <2>3, <2>4 DEF CallInv
  <2>6. QED BY <1>8, <2>3, <2>5
<1>14. CASE Unwound(t)
  <2>1. Kept("close") /\ At(t, "unwind") /\ ~At(t, "tear")
    BY <1>7, <1>14 DEF Unwound, NothingToClean, At
  <2>2. session[c] = "closed"
    BY <1>3, <1>4, <2>1 DEF At, Starts, s
  <2>3. /\ media'[c] = "none" /\ c \notin active' /\ c \notin reserved'
        /\ UNCHANGED <<row, session, appWs, pending, closed>>
    BY <1>1, <1>14 DEF Unwound, MemoryOK, ReturnSlot, table
  <2>4. CallInv(c)'
    BY <1>9, <2>1, <2>2, <2>3 DEF CallInv
  <2>5. QED BY <1>8, <2>1, <2>3, <2>4
<1>15. CASE SlotReturned(t)
  <2>1. /\ Kept("close") /\ Kept("call") /\ Kept("tear") /\ Kept("unwind")
        /\ At(t, "slot") /\ ~At(t, "tear")
    BY <1>7, <1>15 DEF SlotReturned, NothingToClean, At
  <2>2. session[c] = "closed"
    BY <1>4, <2>1 DEF At, Starts, s
  <2>3. /\ c \notin active' /\ c \notin reserved'
        /\ UNCHANGED <<row, session, media, appWs, pending, closed>>
    BY <1>15 DEF SlotReturned, ReturnSlot, rest, table
  <2>4. CallInv(c)'
    BY <1>9, <2>1, <2>2, <2>3 DEF CallInv
  <2>5. QED BY <1>8, <2>1, <2>3, <2>4
<1>16. CASE \/ FinishStarts(t) \/ FinishReads(t) \/ FinishWrites(t) \/ FinishFails(t)
            \/ DeadlineOver(t) \/ Forget(t)
  <2>1. At(t, "finish") \/ At(t, "read") \/ At(t, "update") \/ At(t, "flag") \/ At(t, "forget")
    BY <1>16 DEF FinishStarts, FinishReads, FinishWrites, FinishFails, DeadlineOver, Forget
  <2>2. ~NothingToClean(t) /\ ~At(t, "tear") /\ ~At(t, "close") /\ ~At(t, "call")
        /\ ~At(t, "unwind") /\ ~At(t, "slot")
    BY <2>1 DEF NothingToClean, At
  <2>3. Kept("close") /\ Kept("call") /\ Kept("tear") /\ Kept("unwind") /\ Kept("slot")
    BY <1>7, <2>2
  <2>4. UNCHANGED <<session, media, appWs, pending, closed, reserved, active>>
    BY <1>16 DEF FinishStarts, FinishReads, FinishWrites, FinishFails, DeadlineOver, Forget,
                 rest, capVars
  <2>5. row'[c] \in Early => row[c] \in Early
    BY <1>1, <1>16 DEF FinishStarts, FinishReads, FinishWrites, FinishFails, DeadlineOver, Forget,
                 table, TerminalFor, Early, RowInv, RowTypeOK
  <2>6. CallInv(c)'
    BY <1>9, <2>3, <2>4, <2>5 DEF CallInv
  <2>7. QED BY <1>8, <2>2, <2>4, <2>6
<1>17. QED BY <1>10, <1>11, <1>12, <1>13, <1>14, <1>15, <1>16 DEF CleanupStep

(* The relay dies: what it held in memory is gone.                         *)
LEMMA RestartKeepsHold ==
  ASSUME RowInv, TodoInv, MemoryOK, HoldInv, Restart
  PROVE  HoldInv'
<1>1. /\ reserved' = {} /\ active' = {} /\ counted' = {} /\ closed' = {}
      /\ \A c \in Calls : /\ pending'[c] = "none" /\ media'[c] = "none" /\ appWs'[c] = Nobody
                          /\ stream'[c] = IF stream[c] = "none" THEN "none" ELSE "over"
                          /\ session'[c] = IF session[c] = "none" THEN "none" ELSE "closed"
                          /\ row'[c] = IF Open(c) THEN TerminalFor(row[c]) ELSE row[c]
                          /\ \A a \in Agents : pick'[<<a, c>>] = "idle"
      /\ \A t \in Task : todo'[t] = <<>>
  BY DEF Restart
<1>2. ASSUME NEW c \in Calls PROVE CallInv(c)'
  <2>1. ~Connecting(c)' /\ \A a \in Agents : pick'[<<a, c>>] \notin Starters
    BY <1>1 DEF Connecting, Starters
  <2>2. row'[c] \in Early => row[c] \in Early
    BY <1>1 DEF Early, Open, TerminalFor, Preconnected
  <2>3. CallInv(c)
    BY DEF HoldInv
  <2>4. QED BY <1>1, <2>1, <2>2, <2>3 DEF CallInv
<1>3. ASSUME NEW t \in Task PROVE TaskInv(t)'
  BY <1>1, NothingIsOrderly DEF TaskInv, Starts
<1>4. QED BY <1>2, <1>3 DEF HoldInv

LEMMA StepKeepsHold ==
  ASSUME RowInv, TodoInv, MemoryOK, AgentInv, HoldInv, [Next]_vars
  PROVE  HoldInv'
<1>1. ASSUME NEW c \in Calls, StepOf(c), CallInv(c)',
             \A t \in Task : Of(t) = c => TaskInv(t)'
      PROVE  HoldInv'
  <2>1. ASSUME NEW d \in Calls PROVE CallInv(d)'
    BY <1>1, <2>1, StepIsLocal, SameKeepsCall DEF HoldInv, RowInv
  <2>2. ASSUME NEW t \in Task PROVE TaskInv(t)'
    <3>1. Of(t) \in Calls /\ TaskInv(t) /\ CallInv(Of(t))
      BY DEF HoldInv, Task, Of
    <3>2. QED BY <1>1, <2>2, <3>1, StepIsLocal, SameKeepsCall DEF RowInv
  <2>3. QED BY <2>1, <2>2 DEF HoldInv
<1>2. ASSUME NEW t \in Task, CleanupStep(t) PROVE HoldInv'
  <2>1. Of(t) \in Calls
    BY DEF Task, Of
  <2>2. QED BY <1>1, <1>2, <2>1, CleanupKeepsHold DEF HoldInv, StepOf
<1>3. ASSUME NEW c \in Calls, StepOf(c), CallInv(c)', Grows(c),
             session'[c] = session[c] \/ session[c] = "none"
      PROVE  HoldInv'
  BY <1>1, <1>3, GrowingOwes DEF HoldInv
<1>4. ASSUME NEW c \in Calls, CallStep(c) PROVE HoldInv'
  <2>1. CallInv(c) /\ StepOf(c)
    BY <1>4 DEF HoldInv, StepOf
  <2>2. QED BY <1>3, <1>4, <2>1, CallKeepsHold
<1>5. ASSUME NEW c \in Calls, NEW a \in Agents, PickupStep(a, c) PROVE HoldInv'
  <2>1. CallInv(c) /\ StepOf(c) /\ StarterHoldsClaim
    BY <1>5 DEF HoldInv, StepOf, AgentInv
  <2>2. QED BY <1>3, <1>5, <2>1, PickupKeepsHold
<1>6. ASSUME NEW c \in Calls, NEW x \in Apps, AppStep(x, c) PROVE HoldInv'
  <2>1. CallInv(c) /\ StepOf(c)
    BY <1>6 DEF HoldInv, StepOf
  <2>2. QED BY <1>3, <1>6, <2>1, AppKeepsHold
<1>7. CASE UNCHANGED vars
  <2>1. ASSUME NEW c \in Calls PROVE CallInv(c)'
    <3>1. Owed(c)' = Owed(c) /\ (Connecting(c)' <=> Connecting(c)) /\ CallInv(c)
      BY <1>7 DEF HoldInv, Owed, Connecting, vars, tasks, rest
    <3>2. QED BY <1>7, <3>1 DEF CallInv, vars, capVars, table, rest
  <2>2. ASSUME NEW t \in Task PROVE TaskInv(t)'
    BY <1>7 DEF HoldInv, TaskInv, vars, tasks, rest
  <2>3. QED BY <2>1, <2>2 DEF HoldInv
<1>8. QED BY <1>2, <1>4, <1>5, <1>6, <1>7, RestartKeepsHold DEF Next

(* Each resource of a call has its holder, at every step.                  *)
LEMMA CallsHold == Spec => [](MemoryOK /\ HoldInv)
<1>1. Init => MemoryOK /\ HoldInv
  <2> SUFFICES ASSUME Init PROVE MemoryOK /\ HoldInv
    OBVIOUS
  <2>1. MemoryOK
    BY InboundAssumption DEF Init, MemoryOK
  <2>2. ASSUME NEW c \in Calls PROVE CallInv(c)
    BY DEF Init, CapInit, CallInv, Connecting, Starters
  <2>3. ASSUME NEW t \in Task PROVE TaskInv(t)
    BY NothingIsOrderly DEF Init, TaskInv, Starts
  <2>4. QED BY <2>1, <2>2, <2>3 DEF HoldInv
<1>2. /\ RowInv /\ TodoInv /\ AgentInv /\ MemoryOK /\ HoldInv /\ [Next]_vars
      => (MemoryOK /\ HoldInv)'
  BY StepKeepsMemory, StepKeepsHold
<1>3. QED BY <1>1, <1>2, RowsHold, AgentsHold, PTL DEF Spec

(* A slot and a session of an inbound call always have an owner, a pickup, *)
(* the registered call or a cleanup that is under way, and nothing is left *)
(* of a call at rest: the caller's stream, a pickup, the sweeper, the two  *)
(* deadlines, the status callback and end_call may all be cleaning up, and *)
(* any statement of the database may raise (media.py, call_manager.py).    *)
THEOREM InboundCallsAreLetGo == Spec => []InboundLeavesNothing
<1>1. RowInv /\ TodoInv /\ CapInv /\ MemoryOK /\ HoldInv => InboundLeavesNothing
  <2> SUFFICES ASSUME RowInv, TodoInv, CapInv, MemoryOK, HoldInv
               PROVE  InboundLeavesNothing
    OBVIOUS
  <2>1. DispatchTypeOK
    BY DEF DispatchTypeOK, CapInv, RowInv, TodoInv, MemoryOK
  <2>2. ASSUME NEW c \in Calls PROVE CallInv(c) /\ (Owed(c) # {} => Cleaning(c))
    BY OwedTogether DEF HoldInv
  <2>3. InboundSlotsOwned
    BY <2>2 DEF InboundSlotsOwned, CallInv, Connecting, PickingUp
  <2>4. OpenSessionRegistered
    BY <2>2 DEF OpenSessionRegistered, CallInv
  <2>5. ASSUME NEW c \in Calls, AtRest(c)
        PROVE  /\ session[c] # "open" /\ media[c] = "none" /\ c \notin reserved \cup active
               /\ appWs[c] = Nobody /\ pending[c] = "none"
    <3>1. /\ Owed(c) = {} /\ stream[c] = "over" /\ ~Connecting(c)
          /\ \A x \in Apps : app[<<x, c>>] # "attached"
      BY <2>2, <2>5 DEF AtRest, Connecting, PickingUp
    <3>2. media[c] \in {"none", "registered", "unwinding"} /\ appWs[c] \in Apps \cup {Nobody}
      BY DEF MemoryOK
    <3>3. QED BY <2>2, <3>1, <3>2 DEF CallInv
  <2>6. QED BY <2>1, <2>3, <2>4, <2>5 DEF InboundLeavesNothing, NothingLeftAtRest
<1>2. QED BY <1>1, RowsHold, SlotsHold, CallsHold, PTL

----------------------------------------------------------------------------
(* Who watches over a call                                                 *)

\* The steps that come before what a call holds is let go.
Clears == {"close", "call", "tear", "unwind"}

\* A cleanup that is about to return a slot or to cancel the deadlines, or
\* that closes the stream, goes on to read the row.
Reads(s) ==
  \A k \in 1..Len(s) : s[k] \in {"close", "slot", "finish"} =>
    \E j \in (k + 1)..Len(s) : s[j] = "read"

(* What is read later is read later in the rest too.                       *)
LEMMA TailReads ==
  ASSUME NEW s, Orderly(s), s # <<>>, Reads(s)
  PROVE  /\ Reads(Tail(s))
         /\ Head(s) \in {"close", "slot", "finish"} => Has(Tail(s), "read")
<1> DEFINE u == Tail(s)
           n == Len(s) - 1
<1>1. /\ n \in Nat /\ Len(s) = n + 1 /\ Len(u) = n /\ Head(s) = s[1]
      /\ \A k \in 1..n : u[k] = s[k + 1]
  <2>1. s \in Seq(Steps) /\ Len(s) \in Nat \ {0}
    BY EmptySeq DEF Orderly
  <2>2. u \in Seq(Steps) /\ Len(u) = Len(s) - 1 /\ \A k \in 1..Len(u) : u[k] = s[k + 1]
    BY <2>1, HeadTailProperties, Zenon
  <2>3. Head(s) = s[1]
    BY <2>1
  <2> HIDE DEF u
  <2>4. QED BY <2>1, <2>2, <2>3
<1> HIDE DEF u, n
<1>2. ASSUME NEW k \in 1..(n + 1), s[k] \in {"close", "slot", "finish"}
      PROVE  \E j \in k..n : u[j] = "read"
  <2>1. PICK j \in (k + 1)..(n + 1) : s[j] = "read"
    BY <1>1, <1>2 DEF Reads
  <2>2. j - 1 \in k..n /\ j - 1 \in 1..n /\ (j - 1) + 1 = j
    BY <1>1, <2>1
  <2>3. u[j - 1] = s[j]
    BY <1>1, <2>2
  <2>4. QED BY <2>1, <2>2, <2>3
<1>3. Reads(u)
  <2> SUFFICES ASSUME NEW k \in 1..n, u[k] \in {"close", "slot", "finish"}
               PROVE  \E j \in (k + 1)..n : u[j] = "read"
    BY <1>1 DEF Reads
  <2>1. k + 1 \in 1..(n + 1) /\ s[k + 1] = u[k]
    BY <1>1
  <2>2. QED BY <1>2, <2>1
<1>4. ASSUME s[1] \in {"close", "slot", "finish"} PROVE Has(u, "read")
  <2>1. 1 \in 1..(n + 1)
    BY <1>1
  <2>2. QED BY <1>1, <1>2, <1>4, <2>1 DEF Has
<1>5. QED BY <1>1, <1>3, <1>4 DEF u

LEMMA PastReads ==
  ASSUME NEW e, NEW s, Orderly(s), Reads(s)
  PROVE  Reads(Past(e, s))
BY TailReads DEF Past

(* And in a cleanup that steps are put before.                             *)
LEMMA SpliceReads ==
  ASSUME NEW p \in Seq(Steps), NEW s \in Seq(Steps), Reads(p), Reads(s)
  PROVE  Reads(p \o s)
<1> DEFINE q == p \o s
           m == Len(p)
           n == Len(s)
<1>1. /\ m \in Nat /\ n \in Nat /\ Len(q) = m + n
      /\ \A k \in 1..(m + n) : q[k] = IF k <= m THEN p[k] ELSE s[k - m]
  BY LenProperties, ConcatProperties, Zenon
<1>2. Len(p) = m /\ Len(s) = n
  OBVIOUS
<1> HIDE DEF q, m, n
<1>3. ASSUME NEW k \in 1..(m + n), q[k] \in {"close", "slot", "finish"}
      PROVE  \E j \in (k + 1)..(m + n) : q[j] = "read"
  <2>1. CASE k <= m
    <3>1. k \in 1..m /\ p[k] = q[k]
      BY <1>1, <2>1
    <3>2. PICK j \in (k + 1)..m : p[j] = "read"
      BY <1>2, <1>3, <3>1 DEF Reads
    <3>3. j \in (k + 1)..(m + n) /\ j \in 1..(m + n) /\ j <= m
      BY <1>1, <3>1, <3>2
    <3>4. QED BY <1>1, <3>2, <3>3
  <2>2. CASE ~(k <= m)
    <3>1. k - m \in 1..n /\ s[k - m] = q[k]
      BY <1>1, <2>2
    <3>2. PICK j \in ((k - m) + 1)..n : s[j] = "read"
      BY <1>2, <1>3, <3>1 DEF Reads
    <3>3. /\ m + j \in (k + 1)..(m + n) /\ m + j \in 1..(m + n) /\ ~(m + j <= m)
          /\ (m + j) - m = j
      BY <1>1, <2>2, <3>1, <3>2
    <3>4. q[m + j] = s[j]
      BY <1>1, <3>3
    <3>5. QED BY <3>2, <3>3, <3>4
  <2>3. QED BY <2>1, <2>2
<1>4. QED BY <1>1, <1>3 DEF Reads, q

(* Each cleanup the code starts is such a sequence.                        *)
LEMMA CleanupsRead ==
  /\ \A s \in Begun : /\ Reads(s) /\ ~Has(s, "unwind") /\ Head(s) \in {"close", "call"}
                      /\ s # <<"call">> => Has(s, "read")
  /\ \A s \in {CleanUp, CleanUp \o <<"forget">>, FailStart, CleanUp \o <<"flag">>} :
       s \in Begun /\ Starts(s, "close") /\ Has(s, "read")
  /\ <<"call", "slot">> \o FailStart \in Begun /\ Has(<<"call", "slot">> \o FailStart, "read")
  /\ ~Flagged(<<"call">>)
  /\ Reads(TearSteps) /\ Reads(FinishRow)
<1> DEFINE Good(s) == Reads(s) /\ Has(s, "read")
           Closes(s) == s # <<>> /\ Head(s) = "close"
<1> USE DEF CleanUp, FinishRow, FailStart, Reads, Has
<1>1. Reads(<<"call">>) /\ Head(<<"call">>) = "call" /\ ~Has(<<"call">>, "flag")
  OBVIOUS
<1>2. Good(CleanUp) /\ Closes(CleanUp)
  OBVIOUS
<1>3. Good(CleanUp \o <<"forget">>) /\ Closes(CleanUp \o <<"forget">>)
  OBVIOUS
<1>4. Good(CleanUp \o <<"flag">>) /\ Closes(CleanUp \o <<"flag">>)
  OBVIOUS
<1>5. Good(FailStart) /\ Closes(FailStart)
  OBVIOUS
<1>6. Good(<<"call", "slot">> \o FailStart) /\ Head(<<"call", "slot">> \o FailStart) = "call"
  OBVIOUS
<1>7. Reads(TearSteps) /\ Reads(FinishRow)
  BY DEF TearSteps
<1> HIDE DEF CleanUp, FinishRow, FailStart, Reads, Has
<1>8. \A s \in Begun : ~Has(s, "unwind")
  BY CleanupsAreOrderly, WhatGoesTogether
<1>9. QED
  BY <1>1, <1>2, <1>3, <1>4, <1>5, <1>6, <1>7, <1>8 DEF Begun, Unflagged, Starts, Flagged

(* A registered call is unwound by the first steps of a cleanup.           *)
LEMMA UnwindIsFirst ==
  ASSUME NEW s, Orderly(s), Has(s, "unwind")
  PROVE  Starts(s, "unwind") \/ Starts(s, "tear")
<1> DEFINE n == Len(s)
<1>1. /\ n \in Nat /\ (n > 0 => s # <<>> /\ Head(s) = s[1])
      /\ \A k \in 1..(n - 1) : <<s[k], s[k + 1]>> \in Follows
  BY EmptySeq, LenProperties DEF Orderly
<1>2. n = Len(s)
  OBVIOUS
<1> HIDE DEF n
<1>3. PICK k \in 1..n : s[k] = "unwind"
  BY <1>2 DEF Has
<1>4. CASE k = 1
  BY <1>1, <1>3, <1>4 DEF Starts
<1>5. CASE k # 1
  <2>1. k - 1 \in 1..(n - 1) /\ (k - 1) + 1 = k /\ k - 1 \in 1..n
    BY <1>1, <1>5
  <2>2. <<s[k - 1], "unwind">> \in Follows
    BY <1>1, <1>3, <2>1
  <2>3. Has(s, "tear")
    BY <1>2, <2>1, <2>2 DEF Follows, Has
  <2>4. QED BY <2>3, WhatGoesTogether
<1>6. QED BY <1>4, <1>5

(* A step of a cleanup reads on as its steps say.                          *)
LEMMA CleanupKeepsReads ==
  ASSUME TodoInv, RowTypeOK, ~DbFails, NEW t \in Task, CleanupStep(t), Reads(todo[t])
  PROVE  /\ Reads(todo'[t])
         /\ At(t, "close") \/ At(t, "slot") \/ At(t, "finish") => Has(todo'[t], "read")
         /\ NothingToClean(t) /\ ~UNCHANGED deadlines => Has(todo'[t], "read")
<1> DEFINE s == todo[t]
<1>1. /\ Orderly(s) /\ s # <<>> /\ Orderly(Tail(s)) /\ Reads(Tail(s))
      /\ s \in Seq(Steps) /\ Tail(s) \in Seq(Steps)
      /\ Head(s) \in {"close", "slot", "finish"} => Has(Tail(s), "read")
  BY CleanupLeaves, TailIsOrderly, TailReads DEF Orderly
<1>2. ASSUME NEW x, todo' = [todo EXCEPT ![t] = x] PROVE todo'[t] = x
  BY <1>2 DEF TodoInv
<1>3. CASE Done(t) /\ ~NothingToClean(t)
  <2>1. todo'[t] = After(Tail(s))
    BY <1>2, <1>3 DEF Done
  <2>2. Reads(After(Tail(s))) /\ (Has(Tail(s), "read") => Has(After(Tail(s)), "read"))
    BY <1>1, PastReads, PastIsOrderly DEF After
  <2>3. QED BY <1>1, <1>3, <2>1, <2>2 DEF At
<1>4. CASE FinishReads(t) /\ ~Done(t)
  <2>1. At(t, "read") /\ todo'[t] = After(Tail(Tail(s)))
    BY <1>2, <1>4 DEF FinishReads
  <2>2. Tail(s) # <<>>
    BY <1>1, <2>1, ReadLeaves DEF At, Starts
  <2>3. Reads(After(Tail(Tail(s))))
    BY <1>1, <2>2, TailIsOrderly, TailReads, PastReads DEF After
  <2>4. QED BY <2>1, <2>3 DEF At, NothingToClean
<1>5. CASE NothingToClean(t)
  <2> DEFINE left == Past("slot", Tail(s))
             u == Past("finish", left)
  <2>1. todo'[t] = u /\ (u = left => UNCHANGED deadlines) /\ At(t, "call")
    BY <1>2, <1>5 DEF NothingToClean
  <2>2. Orderly(left) /\ Reads(left) /\ Reads(u)
    BY <1>1, PastReads, PastIsOrderly
  <2>3. u # left => Has(u, "read")
    BY <2>2, TailReads DEF Past
  <2> HIDE DEF left, u
  <2>4. QED BY <2>1, <2>2, <2>3 DEF At
<1>6. ASSUME NEW p \in {TearSteps, FinishRow}, todo' = [todo EXCEPT ![t] = p \o Tail(s)],
             At(t, "call") \/ At(t, "unwind"), ~NothingToClean(t)
      PROVE  /\ Reads(todo'[t])
             /\ At(t, "close") \/ At(t, "slot") \/ At(t, "finish") => Has(todo'[t], "read")
             /\ NothingToClean(t) /\ ~UNCHANGED deadlines => Has(todo'[t], "read")
  <2>1. p \in Seq(Steps) /\ Reads(p)
    BY AddedAreOrderly, CleanupsRead DEF Orderly
  <2>2. Reads(p \o Tail(s)) /\ todo'[t] = p \o Tail(s)
    BY <1>1, <1>2, <1>6, <2>1, SpliceReads
  <2>3. QED BY <1>6, <2>2 DEF At
<1>7. CASE EnterCleanup(t) \/ (Unwound(t) /\ ~Done(t))
  <2>1. ~NothingToClean(t)
    BY <1>7 DEF EnterCleanup, Unwound, NothingToClean, At
  <2>2. QED BY <1>6, <1>7, <2>1 DEF EnterCleanup, Unwound, TearSteps
<1>8. QED
  BY <1>3, <1>4, <1>5, <1>7
     DEF CleanupStep, CloseStream, TearDown, Unwound, SlotReturned, FinishStarts, FinishReads,
         FinishWrites, FinishFails, DeadlineOver, Forget

\* The tasks of a call.
OfCall(c) == {t \in Task : Of(t) = c}
\* A task that will finish the row, or has read it as it still is.
Ends(t) == Has(todo[t], "read") \/ (Starts(todo[t], "update") /\ seen[t] = row[Of(t)])

\* Somebody is finishing the row; a pickup hands the call over, or starts it; no
\* agent's app is on the call; whoever cleans up has yet to close the stream.
Ending(c) == \E t \in OfCall(c) : Ends(t)
Handing(c) == \E a \in Agents : pick[<<a, c>>] \in {"handing", "handed"}
Starting(c) == \E a \in Agents : pick[<<a, c>>] \in Starters
NoApps(c) == \A x \in Apps : app[<<x, c>>] \notin {"accepting", "attached"}
AtClose(c) == \A t \in OfCall(c) : todo[t] # <<>> => Starts(todo[t], "close")

\* Before the stream opens only the webhook has been there: no pickup, no app,
\* no deadline, and a prepared call that is cleaned up has its close ahead.
Fresh(c) ==
  stream[c] = "none" =>
    /\ row[c] \in Terminal \cup {"absent", "RINGING"}
    /\ \A a \in Agents : pick[<<a, c>>] = "idle"
    /\ NoApps(c) /\ ~DeadlineRuns(c)
    /\ c \notin reported => \A t \in OfCall(c) : todo[t] = <<>>
    /\ pending[c] = "prepared" => AtClose(c)

\* A row that is not there has no stream. While a stream is attached, what is
\* cleaning up a row in the queue closes it first, and a claimed call is in the
\* registry.
Waits(c) ==
  /\ row[c] = "absent" => stream[c] = "none"
  /\ c \in counted => c \notin reported
  /\ pending[c] = "attached" =>
       /\ row[c] \in Early \/ Connecting(c) => AtClose(c)
       /\ row[c] = "CLAIMED" \/ Connecting(c) => c \in known

\* From the hand-off on a cleanup past its first steps leaves no media, and a
\* call that has them is in the registry.
Served(c) ==
  Handing(c) \/ row[c] = "CONNECTED" =>
    /\ \A t \in OfCall(c) : todo[t] # <<>> /\ Head(todo[t]) \notin Clears => media[c] = "none"
    /\ media[c] # "none" => c \in known

\* Who sees to the end of a row: of one that rings, its stream, or the pending
\* call while the stream has not opened; of one whose session starts, the
\* pickup, or a cleanup once the caller has left.
Ringing(c) == row[c] = "RINGING" =>
  Ending(c) \/ stream[c] = "open" \/ (stream[c] = "none" /\ pending[c] = "prepared")
Started(c) == row[c] = "SESSION_STARTING" =>
  /\ Ending(c) \/ Starting(c)
  /\ Handing(c) /\ stream[c] = "over" => Ending(c)

\* Of a row CONNECTED: the agent's socket or a deadline, or a cleanup, which
\* past the unwinding of the media handler goes on to the row.
Bridged(c) == row[c] = "CONNECTED" =>
  /\ Ending(c) \/ "unwind" \in Owed(c) \/ appWs[c] # Nobody \/ DeadlineRuns(c)
  /\ stream[c] = "over" => Ending(c) \/ (DeadlineRuns(c) /\ media[c] = "none" /\ NoApps(c))

\* Registered media are the pickup's, the row's, or a cleanup's to tear down.
Registered(c) == media[c] = "registered" =>
  Handing(c) \/ row[c] = "CONNECTED" \/ "call" \in Owed(c) \/ "tear" \in Owed(c)

\* One task at a time holds the call's cleanup lock.
LockedOnce(c) ==
  \A t, u \in OfCall(c) : Has(todo[t], "unlock") /\ Has(todo[u], "unlock") => t = u

\* The parts of the invariant, by call and by task.
CallWatch(c) ==
  /\ Fresh(c) /\ Waits(c) /\ Served(c) /\ Ringing(c) /\ Started(c) /\ Bridged(c) /\ Registered(c)
  /\ LockedOnce(c)

\* Whoever waits for the handler to unwind has media to wait for; a deadline's
\* cleanup whose mark is still set finishes the row, if it is not over.
TaskWatch(t) ==
  /\ Reads(todo[t])
  /\ Has(todo[t], "unwind") => media[Of(t)] # "none"
  /\ Flagged(todo[t]) => row[Of(t)] \in Terminal \/ Ends(t)

WatchInv == (\A c \in Calls : CallWatch(c)) /\ (\A t \in Task : TaskWatch(t))

\* What the proof below knows of the state.
KnownInv == RowInv /\ TodoInv /\ MemoryOK /\ AgentInv /\ DeadlineInv /\ HoldInv

(* A step of a cleanup leaves an open row to whoever will finish it, or    *)
(* finishes it.                                                            *)
LEMMA CleanupKeepsEnds ==
  ASSUME RowInv, TodoInv, ~DbFails, NEW t \in Task, CleanupStep(t), row[Of(t)] \in OpenState
  PROVE  /\ row'[Of(t)] = row[Of(t)] \/ row'[Of(t)] \in Terminal
         /\ row'[Of(t)] = row[Of(t)] => \A v \in OfCall(Of(t)) : Ends(v) => Ends(v)'
<1> DEFINE c == Of(t)
           s == todo[t]
<1>1. /\ Orderly(s) /\ s # <<>> /\ c \in Calls /\ \A v \in Task \ {t} : todo'[v] = todo[v]
      /\ row \in [Calls -> DispatchState \cup {"absent"}]
      /\ seen \in [Task -> DispatchState \cup {"absent"}]
  BY CleanupLeaves DEF RowInv, RowTypeOK, Task, Of, TodoInv
<1>2. /\ \A v \in Task \ {t} : seen'[v] = seen[v]
      /\ ~FinishReads(t) => seen' = seen
  BY <1>1 DEF CleanupStep, CloseStream, NothingToClean, EnterCleanup, TearDown, Unwound,
         SlotReturned, FinishStarts, FinishReads, FinishWrites, FinishFails, DeadlineOver,
         Forget, tasks
<1>3. CASE FinishWrites(t)
  <2>1. /\ At(t, "update") /\ (row[c] # seen[t] => row' = row)
        /\ row[c] = seen[t] => row'[c] = TerminalFor(seen[t])
    BY <1>1, <1>3 DEF FinishWrites
  <2>2. TerminalFor(seen[t]) \in Terminal
    BY DEF TerminalFor, Terminal
  <2>3. row[c] # seen[t] => (Ends(t) => Ends(t)')
    <3>1. Has(s, "read") => Has(todo'[t], "read")
      BY <1>1, <2>1, CleanupLeaves DEF Leaves, At, RowInv, NothingToClean, EnterCleanup, Unwound
    <3>2. QED BY <3>1 DEF Ends
  <2>4. row' = row => \A v \in OfCall(c) \ {t} : Ends(v) => Ends(v)'
    BY <1>1, <1>2 DEF Ends, OfCall
  <2>5. row[c] \notin Terminal
    BY DEF OpenState, Preconnected, Terminal
  <2>6. QED BY <2>1, <2>2, <2>3, <2>4, <2>5
<1>4. CASE ~FinishWrites(t)
  <2>1. row' = row
    BY <1>4 DEF CleanupStep, CloseStream, NothingToClean, EnterCleanup, TearDown, Unwound,
         SlotReturned, FinishStarts, FinishReads, FinishFails, DeadlineOver, Forget, table
  <2>2. ASSUME NEW v \in OfCall(c), v # t, Ends(v) PROVE Ends(v)'
    <3>1. todo'[v] = todo[v] /\ seen'[v] = seen[v]
      BY <1>1, <1>2, <2>2 DEF OfCall
    <3>2. QED BY <2>1, <2>2, <3>1 DEF Ends
  <2>3. ASSUME Ends(t) PROVE Ends(t)'
    <3>1. CASE Head(s) = "update"
      BY <1>4, <1>1, <3>1 DEF CleanupStep, CloseStream, NothingToClean, EnterCleanup, TearDown,
         Unwound, SlotReturned, FinishStarts, FinishReads, FinishFails, DeadlineOver, Forget, At
    <3>2. CASE Head(s) = "read"
      <4>1. FinishReads(t)
        BY <1>4, <1>1, <3>2 DEF CleanupStep, CloseStream, NothingToClean, EnterCleanup, TearDown,
           Unwound, SlotReturned, FinishStarts, FinishFails, DeadlineOver, Forget, At
      <4>2. row[c] \notin Terminal \cup {"absent"}
        BY DEF OpenState, Preconnected, Terminal
      <4>3. Done(t) /\ seen' = [seen EXCEPT ![t] = row[c]]
        BY <4>1, <4>2 DEF FinishReads
      <4>4. Starts(After(Tail(s)), "update")
        BY <1>1, <3>2, ReadLeaves DEF Starts
      <4>5. todo'[t] = After(Tail(s)) /\ seen'[t] = row[c]
        BY <1>1, <4>3 DEF Done, TodoInv
      <4>6. QED BY <2>1, <4>4, <4>5 DEF Ends
    <3>3. CASE Head(s) \notin {"update", "read"}
      <4>1. Has(s, "read")
        BY <2>3, <3>3 DEF Ends, Starts
      <4>2. Has(todo'[t], "read")
        BY <3>3, <4>1, CleanupLeaves DEF Leaves, RowInv
      <4>3. QED BY <4>2 DEF Ends
    <3>4. QED BY <3>1, <3>2, <3>3
  <2>4. QED BY <2>1, <2>2, <2>3
<1>5. QED BY <1>3, <1>4

(* What a step of a cleanup does to its call.                              *)
LEMMA CleanupEffects ==
  ASSUME ~DbFails, KnownInv, WatchInv, NEW t \in Task, CleanupStep(t), NEW c, c = Of(t)
  PROVE  /\ UNCHANGED <<counted, pick, app, stream, reported>>
         /\ pending'[c] = pending[c] \/ (CloseStream(t) /\ pending'[c] = "none")
         /\ appWs'[c] = appWs[c] \/ TearDown(t)
         /\ \/ media'[c] = media[c] /\ ~TearDown(t) /\ ~Unwound(t)
            \/ TearDown(t) /\ media[c] # "none" /\ media'[c] = "unwinding"
            \/ Unwound(t) /\ media[c] # "none" /\ media'[c] = "none"
         /\ c \in known /\ c \notin known' => Head(todo[t]) \notin Clears
         /\ row'[c] = row[c] \/ (At(t, "update") /\ row[c] \in OpenState /\ row'[c] \in Terminal)
         /\ DeadlineRuns(c)' => DeadlineRuns(c)
         /\ DeadlineRuns(c) => DeadlineRuns(c)' \/ DeadlineOver(t) \/ Has(todo'[t], "read")
<1> DEFINE s == todo[t]
<1>1. /\ c \in Calls /\ s # <<>> /\ Orderly(s) /\ Reads(s) /\ RowTypeOK
      /\ Has(s, "unwind") => media[c] # "none"
      /\ pending \in [Calls -> {"none", "prepared", "attached"}]
      /\ media \in [Calls -> {"none", "registered", "unwinding"}]
      /\ appWs \in [Calls -> Apps \cup {Nobody}]
      /\ initial \in [Calls -> {"off", "pending", "cleaning"}]
      /\ grace \in [Calls -> {"off", "pending", "cleaning"}]
      /\ row \in [Calls -> DispatchState \cup {"absent"}]
  BY CleanupLeaves DEF KnownInv, RowInv, RowTypeOK, Task, Of, WatchInv, TaskWatch, MemoryOK
<1>2. UNCHANGED <<counted, pick, app, stream, reported>>
  BY DEF CleanupStep, CloseStream, NothingToClean, EnterCleanup, TearDown, Unwound,
         SlotReturned, FinishStarts, FinishReads, FinishWrites, FinishFails, DeadlineOver,
         Forget, rest, outside
<1>3. pending'[c] = pending[c] \/ (CloseStream(t) /\ pending'[c] = "none")
  BY <1>1 DEF CleanupStep, CloseStream, NothingToClean, EnterCleanup, TearDown, Unwound,
         SlotReturned, FinishStarts, FinishReads, FinishWrites, FinishFails, DeadlineOver,
         Forget, rest
<1>4. appWs'[c] = appWs[c] \/ TearDown(t)
  BY DEF CleanupStep, CloseStream, NothingToClean, EnterCleanup, TearDown, Unwound,
         SlotReturned, FinishStarts, FinishReads, FinishWrites, FinishFails, DeadlineOver,
         Forget, rest
<1>5. \/ media'[c] = media[c] /\ ~TearDown(t) /\ ~Unwound(t)
      \/ TearDown(t) /\ media[c] # "none" /\ media'[c] = "unwinding"
      \/ Unwound(t) /\ media[c] # "none" /\ media'[c] = "none"
  <2>1. CASE TearDown(t) \/ Unwound(t)
    <3>1. Starts(s, "tear") \/ Starts(s, "unwind")
      BY <2>1 DEF TearDown, Unwound, At, Starts
    <3>2. Has(s, "unwind")
      BY <1>1, <3>1, WhatGoesTogether, TailIsOrderly DEF Starts
    <3>3. QED BY <1>1, <2>1, <3>2 DEF TearDown, Unwound
  <2>2. CASE ~(TearDown(t) \/ Unwound(t))
    BY <2>2 DEF CleanupStep, CloseStream, NothingToClean, EnterCleanup,
         SlotReturned, FinishStarts, FinishReads, FinishWrites, FinishFails, DeadlineOver,
         Forget, rest
  <2>3. QED BY <2>1, <2>2
<1>6. c \in known /\ c \notin known' => Head(todo[t]) \notin Clears
  BY DEF CleanupStep, CloseStream, NothingToClean, EnterCleanup, TearDown, Unwound,
         SlotReturned, FinishStarts, FinishReads, FinishWrites, FinishFails, DeadlineOver,
         Forget, rest, At, Clears
<1>7. row'[c] = row[c] \/ (At(t, "update") /\ row[c] \in OpenState /\ row'[c] \in Terminal)
  <2>1. CASE FinishWrites(t) /\ row[c] = seen[t]
    <3>1. seen[t] \in OpenState /\ At(t, "update")
      BY <2>1 DEF FinishWrites, At, Starts, KnownInv, TodoInv
    <3>2. row'[c] = TerminalFor(seen[t])
      BY <1>1, <2>1 DEF FinishWrites
    <3>3. QED BY <2>1, <3>1, <3>2 DEF TerminalFor, Terminal
  <2>2. CASE ~(FinishWrites(t) /\ row[c] = seen[t])
    BY <2>2 DEF CleanupStep, CloseStream, NothingToClean, EnterCleanup, TearDown, Unwound,
         SlotReturned, FinishStarts, FinishReads, FinishWrites, FinishFails, DeadlineOver,
         Forget, table
  <2>3. QED BY <2>1, <2>2
<1>8. /\ DeadlineRuns(c)' => DeadlineRuns(c)
      /\ DeadlineRuns(c) => DeadlineRuns(c)' \/ DeadlineOver(t) \/ Has(todo'[t], "read")
  <2>1. CASE UNCHANGED deadlines
    BY <2>1 DEF deadlines, DeadlineRuns
  <2>2. CASE NothingToClean(t) /\ ~UNCHANGED deadlines
    <3>1. Has(todo'[t], "read")
      BY <1>1, <2>2, CleanupKeepsReads DEF KnownInv
    <3>2. CancelDeadlines(c)
      BY <2>2 DEF NothingToClean
    <3>3. QED BY <1>1, <3>1, <3>2 DEF CancelDeadlines, DeadlineRuns
  <2>3. CASE FinishStarts(t)
    <3>1. Has(todo'[t], "read")
      BY <1>1, <2>3, CleanupKeepsReads DEF KnownInv, FinishStarts
    <3>2. CancelDeadlines(c)
      BY <2>3 DEF FinishStarts
    <3>3. QED BY <1>1, <3>1, <3>2 DEF CancelDeadlines, DeadlineRuns
  <2>4. CASE DeadlineOver(t)
    BY <1>1, <2>4 DEF DeadlineOver, DeadlineRuns
  <2>5. UNCHANGED deadlines \/ NothingToClean(t) \/ FinishStarts(t) \/ DeadlineOver(t)
    BY DEF CleanupStep, CloseStream, EnterCleanup, TearDown, Unwound,
         SlotReturned, FinishReads, FinishWrites, FinishFails, Forget
  <2>6. QED BY <2>1, <2>2, <2>3, <2>4, <2>5
<1>9. QED BY <1>2, <1>3, <1>4, <1>5, <1>6, <1>7, <1>8

(* The row's finishing stays in hand.                                      *)
LEMMA CleanupKeepsEnding ==
  ASSUME ~DbFails, KnownInv, NEW t \in Task, CleanupStep(t), NEW c, c = Of(t), 
         row'[c] \in OpenState
  PROVE  row[c] = row'[c] /\ (Ending(c) => Ending(c)')
<1>1. c \in Calls
  BY DEF Task, Of
<1>2. row[c] \in OpenState
  <2>1. CASE FinishWrites(t) /\ row[c] = seen[t]
    BY <2>1 DEF FinishWrites, At, Starts, KnownInv, TodoInv
  <2>2. CASE ~(FinishWrites(t) /\ row[c] = seen[t])
    BY <2>2 DEF CleanupStep, CloseStream, NothingToClean, EnterCleanup, TearDown, Unwound,
         SlotReturned, FinishStarts, FinishReads, FinishWrites, FinishFails, DeadlineOver,
         Forget, table
  <2>3. QED BY <2>1, <2>2
<1>3. row'[c] \notin Terminal
  BY DEF OpenState, Preconnected, Terminal
<1>4. QED BY <1>2, <1>3, CleanupKeepsEnds DEF KnownInv, Ending, OfCall

(* What comes next before the call is unwound.                             *)
LEMMA NextIsClear ==
  ASSUME TodoInv, RowTypeOK, NEW t \in Task, CleanupStep(t),
         CloseStream(t) \/ EnterCleanup(t) \/ TearDown(t)
  PROVE  todo'[t] # <<>> /\ Head(todo'[t]) \in Clears
<1> DEFINE s == todo[t]
<1>1. /\ Orderly(s) /\ s # <<>> /\ Orderly(Tail(s))
      /\ IF Tail(s) = <<>> THEN Head(s) \in Lasts ELSE <<Head(s), Head(Tail(s))>> \in Follows
  BY CleanupLeaves, TailIsOrderly
<1>2. ASSUME NEW x, todo' = [todo EXCEPT ![t] = x] PROVE todo'[t] = x
  BY <1>2 DEF TodoInv
<1>3. CASE CloseStream(t) \/ TearDown(t)
  <2>1. Tail(s) # <<>> /\ Head(Tail(s)) \in {"call", "unwind"}
    BY <1>1, <1>3 DEF CloseStream, TearDown, At, Lasts, Follows
  <2>2. todo'[t] = Tail(s)
    BY <1>2, <1>3, <2>1 DEF CloseStream, TearDown, Done, After, Past
  <2>3. QED BY <2>1, <2>2 DEF Clears
<1>4. CASE EnterCleanup(t)
  <2>1. todo'[t] = TearSteps \o Tail(s) /\ Head(s) = "call"
    BY <1>2, <1>4 DEF EnterCleanup, TearSteps, At
  <2>2. Tail(s) # <<>> => <<TearSteps[Len(TearSteps)], Head(Tail(s))>> \in Follows
    BY <1>1, <2>1, AddedAreOrderly DEF Follows
  <2>3. todo'[t] # <<>> /\ Head(todo'[t]) = "tear"
    BY <1>1, <2>1, <2>2, AddedAreOrderly, SpliceIsOrderly
  <2>4. QED BY <2>3 DEF Clears
<1>5. QED BY <1>3, <1>4

(* What a step of a cleanup keeps of its call, part by part.               *)
LEMMA CleanupKeepsFresh ==
  ASSUME ~DbFails, KnownInv, WatchInv, NEW t \in Task, CleanupStep(t), NEW c \in Calls, c = Of(t)
  PROVE  Fresh(c)'
<1>1. /\ UNCHANGED <<pick, app, stream, reported>>
      /\ pending'[c] = pending[c] \/ (CloseStream(t) /\ pending'[c] = "none")
      /\ row'[c] = row[c] \/ row'[c] \in Terminal
      /\ DeadlineRuns(c)' => DeadlineRuns(c)
  BY CleanupEffects
<1>2. todo[t] # <<>> /\ \A v \in Task \ {t} : todo'[v] = todo[v]
  BY CleanupLeaves DEF KnownInv, RowInv
<1>3. Fresh(c) /\ t \in OfCall(c)
  BY DEF WatchInv, CallWatch, OfCall
<1>4. NoApps(c)' = NoApps(c)
  BY <1>1 DEF NoApps
<1>5. ASSUME stream'[c] = "none", pending'[c] = "prepared" PROVE AtClose(c)'
  <2>1. AtClose(c) /\ pending[c] = "prepared"
    BY <1>1, <1>3, <1>5 DEF Fresh
  <2>2. At(t, "close")
    BY <1>2, <1>3, <2>1 DEF AtClose, Starts, At
  <2>3. CloseStream(t)
    BY <2>2 DEF CleanupStep, NothingToClean, EnterCleanup, TearDown, Unwound,
         SlotReturned, FinishStarts, FinishReads, FinishWrites, FinishFails, DeadlineOver,
         Forget, At
  <2>4. pending'[c] = "none"
    BY <2>3 DEF CloseStream, KnownInv, MemoryOK
  <2>5. QED BY <1>5, <2>4
<1>6. QED BY <1>1, <1>2, <1>3, <1>4, <1>5 DEF Fresh

LEMMA CleanupKeepsWaits ==
  ASSUME ~DbFails, KnownInv, WatchInv, NEW t \in Task, CleanupStep(t), NEW c \in Calls, c = Of(t)
  PROVE  Waits(c)'
<1>1. /\ UNCHANGED <<counted, pick, app, stream, reported>>
      /\ pending'[c] = pending[c] \/ (CloseStream(t) /\ pending'[c] = "none")
      /\ row'[c] = row[c] \/ row'[c] \in Terminal
      /\ c \in known /\ c \notin known' => Head(todo[t]) \notin Clears
  BY CleanupEffects
<1>2. todo[t] # <<>> /\ t \in OfCall(c)
  BY CleanupLeaves DEF KnownInv, RowInv, OfCall
<1>3. Waits(c) /\ (Connecting(c)' <=> Connecting(c))
  BY <1>1 DEF WatchInv, CallWatch, Connecting
<1>4. ASSUME pending'[c] = "attached", row'[c] \in Early \/ Connecting(c)' PROVE FALSE
  <2>1. pending[c] = "attached" /\ AtClose(c)
    BY <1>1, <1>3, <1>4 DEF Waits, Early, Terminal
  <2>2. At(t, "close")
    BY <1>2, <2>1 DEF AtClose, Starts, At
  <2>3. CloseStream(t)
    BY <2>2 DEF CleanupStep, NothingToClean, EnterCleanup, TearDown, Unwound,
         SlotReturned, FinishStarts, FinishReads, FinishWrites, FinishFails, DeadlineOver,
         Forget, At
  <2>4. pending'[c] = "none"
    BY <2>3 DEF CloseStream, KnownInv, MemoryOK
  <2>5. QED BY <1>4, <2>4
<1>5. QED BY <1>1, <1>3, <1>4 DEF Waits, Early, Terminal

LEMMA CleanupKeepsServed ==
  ASSUME ~DbFails, KnownInv, WatchInv, NEW t \in Task, CleanupStep(t), NEW c \in Calls, c = Of(t)
  PROVE  Served(c)'
<1>1. /\ UNCHANGED pick
      /\ \/ media'[c] = media[c] /\ ~TearDown(t) /\ ~Unwound(t)
         \/ TearDown(t) /\ media[c] # "none" /\ media'[c] = "unwinding"
         \/ Unwound(t) /\ media[c] # "none" /\ media'[c] = "none"
      /\ c \in known /\ c \notin known' => Head(todo[t]) \notin Clears
      /\ row'[c] = row[c] \/ row'[c] \in Terminal
  BY CleanupEffects
<1>2. todo[t] # <<>> /\ t \in OfCall(c) /\ \A v \in Task \ {t} : todo'[v] = todo[v]
  BY CleanupLeaves DEF KnownInv, RowInv, OfCall
<1> SUFFICES ASSUME Handing(c)' \/ row'[c] = "CONNECTED", media'[c] # "none"
             PROVE  /\ \A v \in OfCall(c) : todo'[v] # <<>> => Head(todo'[v]) \in Clears
                    /\ c \in known'
  BY DEF Served, OfCall
<1>3. /\ media[c] # "none" /\ c \in known
      /\ \A v \in OfCall(c) : todo[v] # <<>> => Head(todo[v]) \in Clears
  BY <1>1 DEF WatchInv, CallWatch, Served, Handing, Terminal
<1>4. CloseStream(t) \/ EnterCleanup(t) \/ TearDown(t)
  BY <1>1, <1>2, <1>3 DEF CleanupStep, CloseStream, NothingToClean, EnterCleanup, TearDown, Unwound,
         SlotReturned, FinishStarts, FinishReads, FinishWrites, FinishFails, DeadlineOver,
         Forget, At, Clears
<1>5. Head(todo'[t]) \in Clears
  BY <1>4, NextIsClear DEF KnownInv, RowInv
<1>6. QED BY <1>1, <1>2, <1>3, <1>5 DEF OfCall

LEMMA CleanupKeepsRinging ==
  ASSUME ~DbFails, KnownInv, WatchInv, NEW t \in Task, CleanupStep(t), NEW c \in Calls, c = Of(t)
  PROVE  Ringing(c)' /\ Started(c)'
<1>1. /\ UNCHANGED <<pick, stream>>
      /\ pending'[c] = pending[c] \/ (CloseStream(t) /\ pending'[c] = "none")
  BY CleanupEffects
<1>2. t \in OfCall(c) /\ TaskWatch(t) /\ Ringing(c) /\ Started(c)
  BY DEF OfCall, WatchInv, CallWatch
<1>3. CloseStream(t) => Ending(c)'
  <2> SUFFICES ASSUME CloseStream(t) PROVE Ending(c)'
    OBVIOUS
  <2>1. Has(todo'[t], "read")
    BY <1>2, CleanupKeepsReads DEF KnownInv, RowInv, TaskWatch, CloseStream
  <2>2. QED BY <1>2, <2>1 DEF Ending, Ends, OfCall
<1>4. Ringing(c)'
  <2>1. row'[c] = "RINGING" => row[c] = "RINGING" /\ (Ending(c) => Ending(c)')
    BY CleanupKeepsEnding DEF OpenState, Preconnected
  <2>2. QED BY <1>1, <1>2, <1>3, <2>1 DEF Ringing
<1>5. Started(c)'
  <2>1. row'[c] = "SESSION_STARTING" => row[c] = "SESSION_STARTING" /\ (Ending(c) => Ending(c)')
    BY CleanupKeepsEnding DEF OpenState, Preconnected
  <2>2. (Starting(c)' <=> Starting(c)) /\ (Handing(c)' <=> Handing(c))
    BY <1>1 DEF Starting, Handing
  <2>3. QED BY <1>1, <1>2, <2>1, <2>2 DEF Started
<1>6. QED BY <1>4, <1>5

(* What a cleanup owes of the call, until it comes to it.                  *)
LEMMA CleanupOwes ==
  ASSUME KnownInv, NEW t \in Task, CleanupStep(t), NEW c \in Calls, c = Of(t),
         NEW x \in {"call", "tear", "unwind"}, x \in Owed(c), ~At(t, x)
  PROVE  x \in Owed(c)'
<1>1. /\ todo[t] # <<>> /\ \A v \in Task \ {t} : todo'[v] = todo[v]
      /\ Has(todo[t], x) => x = Head(todo[t]) \/ Has(todo'[t], x)
  BY CleanupLeaves DEF KnownInv, RowInv, Leaves
<1>2. QED BY <1>1 DEF Owed, At

LEMMA CleanupKeepsBridged ==
  ASSUME ~DbFails, KnownInv, WatchInv, NEW t \in Task, CleanupStep(t), NEW c \in Calls, c = Of(t)
  PROVE  Bridged(c)'
<1> SUFFICES ASSUME row'[c] = "CONNECTED"
             PROVE  /\ Ending(c)' \/ "unwind" \in Owed(c)' \/ appWs'[c] # Nobody
                       \/ DeadlineRuns(c)'
                    /\ stream'[c] = "over" =>
                         Ending(c)' \/ (DeadlineRuns(c)' /\ media'[c] = "none" /\ NoApps(c)')
  BY DEF Bridged
<1>1. /\ UNCHANGED <<app, stream>>
      /\ appWs'[c] = appWs[c] \/ TearDown(t)
      /\ \/ media'[c] = media[c] /\ ~TearDown(t) /\ ~Unwound(t)
         \/ TearDown(t) /\ media[c] # "none" /\ media'[c] = "unwinding"
         \/ Unwound(t) /\ media[c] # "none" /\ media'[c] = "none"
      /\ DeadlineRuns(c) => DeadlineRuns(c)' \/ DeadlineOver(t) \/ Has(todo'[t], "read")
  BY CleanupEffects
<1>2. row[c] = "CONNECTED" /\ (Ending(c) => Ending(c)')
  BY CleanupKeepsEnding DEF OpenState
<1>3. /\ t \in OfCall(c) /\ TaskWatch(t) /\ Bridged(c) /\ Served(c) /\ Orderly(todo[t])
      /\ todo[t] # <<>>
  BY CleanupLeaves DEF OfCall, WatchInv, CallWatch, KnownInv, TodoInv, RowInv
<1>4. Has(todo'[t], "read") => Ending(c)'
  BY <1>3 DEF Ending, Ends, OfCall
<1>5. ~DeadlineOver(t)
  <2> SUFFICES ASSUME DeadlineOver(t) PROVE FALSE
    OBVIOUS
  <2>1. Head(todo[t]) = "flag"
    BY DEF DeadlineOver, At
  <2>2. /\ Tail(todo[t]) = <<>> /\ Has(todo[t], "flag")
        /\ \A x : Has(todo[t], x) <=> x = "flag" \/ Has(Tail(todo[t]), x)
    BY <1>3, <2>1, TailIsOrderly DEF Follows
  <2>3. ~Has(todo[t], "read") /\ ~Starts(todo[t], "update")
    BY <2>1, <2>2, NothingIsOrderly DEF Starts
  <2>4. QED BY <1>2, <1>3, <2>2, <2>3 DEF TaskWatch, Flagged, Ends, OfCall, Terminal
<1>6. DeadlineRuns(c) => DeadlineRuns(c)' \/ Ending(c)'
  BY <1>1, <1>4, <1>5
<1>7. Unwound(t) => Ending(c)'
  <2> SUFFICES ASSUME Unwound(t) PROVE Ending(c)'
    OBVIOUS
  <2>1. Of(t) \in known
    BY <1>1, <1>2, <1>3 DEF Served, Unwound, TearDown, At
  <2>2. todo'[t] = FinishRow \o Tail(todo[t])
    BY <2>1 DEF Unwound, KnownInv, TodoInv
  <2>3. Starts(todo[t], "unwind")
    BY <1>3 DEF Unwound, At, Starts
  <2>4. Has(FinishRow, "read") /\ Head(todo[t]) # "read"
    BY <2>3, AddedAreOrderly DEF Starts
  <2>5. Has(todo'[t], "read")
    BY <1>3, <2>2, <2>3, <2>4, AddedLeaves
  <2>6. QED BY <1>4, <2>5
<1>8. TearDown(t) => "unwind" \in Owed(c)'
  <2> SUFFICES ASSUME TearDown(t) PROVE "unwind" \in Owed(c)'
    OBVIOUS
  <2>1. At(t, "tear") /\ Has(todo[t], "tear")
    BY <1>3, TailIsOrderly DEF TearDown, At
  <2>2. Has(todo[t], "unwind")
    BY <1>3, <2>1, WhatGoesTogether
  <2>3. "unwind" \in Owed(c)
    BY <1>3, <2>2 DEF Owed, Steps, OfCall
  <2>4. QED BY <2>1, <2>3, CleanupOwes DEF At
<1>9. "unwind" \in Owed(c) => "unwind" \in Owed(c)' \/ Ending(c)'
  <2>1. CASE At(t, "unwind")
    BY <1>7, <2>1 DEF CleanupStep, CloseStream, NothingToClean, EnterCleanup, TearDown,
         SlotReturned, FinishStarts, FinishReads, FinishWrites, FinishFails, DeadlineOver,
         Forget, At
  <2>2. CASE ~At(t, "unwind")
    BY <2>2, CleanupOwes
  <2>3. QED BY <2>1, <2>2
<1>10. NoApps(c)' <=> NoApps(c)
  BY <1>1 DEF NoApps
<1>11. QED BY <1>1, <1>2, <1>3, <1>6, <1>7, <1>8, <1>9, <1>10 DEF Bridged

LEMMA CleanupKeepsRegistered ==
  ASSUME ~DbFails, KnownInv, WatchInv, NEW t \in Task, CleanupStep(t), NEW c \in Calls, c = Of(t)
  PROVE  Registered(c)'
<1> SUFFICES ASSUME media'[c] = "registered"
             PROVE  \/ Handing(c)' \/ row'[c] = "CONNECTED"
                    \/ "call" \in Owed(c)' \/ "tear" \in Owed(c)'
  BY DEF Registered
<1>1. /\ UNCHANGED pick /\ media[c] = "registered" /\ ~TearDown(t) /\ ~Unwound(t)
      /\ row'[c] = row[c] \/ At(t, "update")
  BY CleanupEffects
<1>2. /\ t \in OfCall(c) /\ Registered(c) /\ Served(c) /\ Orderly(todo[t])
      /\ todo[t] # <<>>
  BY CleanupLeaves DEF OfCall, WatchInv, CallWatch, KnownInv, TodoInv, RowInv
<1>3. row[c] = "CONNECTED" => row'[c] = "CONNECTED"
  BY <1>1, <1>2 DEF Served, At, Clears
<1>4. "tear" \in Owed(c) => "tear" \in Owed(c)'
  <2>1. ~At(t, "tear")
    BY <1>1 DEF CleanupStep, CloseStream, NothingToClean, EnterCleanup, Unwound,
         SlotReturned, FinishStarts, FinishReads, FinishWrites, FinishFails, DeadlineOver,
         Forget, At
  <2>2. QED BY <2>1, CleanupOwes
<1>5. "call" \in Owed(c) => "call" \in Owed(c)' \/ "tear" \in Owed(c)'
  <2>1. CASE At(t, "call")
    <3>1. EnterCleanup(t)
      BY <1>1, <2>1 DEF CleanupStep, CloseStream, NothingToClean, Unwound,
         SlotReturned, FinishStarts, FinishReads, FinishWrites, FinishFails, DeadlineOver,
         Forget, At
    <3>2. todo'[t] = TearSteps \o Tail(todo[t])
      BY <3>1 DEF EnterCleanup, TearSteps, KnownInv, TodoInv
    <3>3. Has(todo'[t], "tear")
      BY <1>2, <2>1, <3>2, AddedLeaves DEF Starts, At
    <3>4. QED BY <1>2, <3>3 DEF Owed, Steps, OfCall
  <2>2. CASE ~At(t, "call")
    BY <2>2, CleanupOwes
  <2>3. QED BY <2>1, <2>2
<1>6. Handing(c)' <=> Handing(c)
  BY <1>1 DEF Handing
<1>7. QED BY <1>1, <1>2, <1>3, <1>4, <1>5, <1>6 DEF Registered

LEMMA CleanupKeepsLocked ==
  ASSUME KnownInv, WatchInv, NEW t \in Task, CleanupStep(t), NEW c \in Calls, c = Of(t)
  PROVE  /\ LockedOnce(c)'
         /\ ~EnterCleanup(t) => (Has(todo'[t], "unlock") => Has(todo[t], "unlock"))
                                /\ (Has(todo'[t], "unwind") => Has(todo[t], "unwind"))
<1>1. /\ todo[t] # <<>> /\ t \in OfCall(c) /\ \A v \in Task \ {t} : todo'[v] = todo[v]
      /\ todo[t] \in Seq(Steps)
  BY CleanupLeaves DEF KnownInv, RowInv, OfCall, Orderly
<1>2. ~EnterCleanup(t) => (Has(todo'[t], "unlock") => Has(todo[t], "unlock"))
                          /\ (Has(todo'[t], "unwind") => Has(todo[t], "unwind"))
  BY CleanupLeaves, AddedAreOrderly DEF KnownInv, RowInv, Leaves
<1>3. EnterCleanup(t) => \A v \in OfCall(c) : ~Has(todo[v], "unlock")
  <2> SUFFICES ASSUME EnterCleanup(t), NEW v \in OfCall(c), Has(todo[v], "unlock") PROVE FALSE
    OBVIOUS
  <2>1. todo[v] \in Seq(Steps) /\ v \in Task /\ Of(v) = c
    BY DEF KnownInv, TodoInv, OfCall
  <2>2. DOMAIN todo[v] = 1..Len(todo[v])
    BY <2>1
  <2>3. QED BY <2>1, <2>2 DEF EnterCleanup, Locked, Has
<1>4. LockedOnce(c)
  BY DEF WatchInv, CallWatch
<1>5. QED BY <1>1, <1>2, <1>3, <1>4 DEF LockedOnce, OfCall

LEMMA CleanupKeepsTasks ==
  ASSUME ~DbFails, KnownInv, WatchInv, NEW t \in Task, CleanupStep(t), NEW c \in Calls, c = Of(t),
         NEW v \in OfCall(c)
  PROVE  TaskWatch(v)'
<1>1. /\ todo[t] # <<>> /\ t \in OfCall(c) /\ \A w \in Task \ {t} : todo'[w] = todo[w]
      /\ Orderly(todo[t]) /\ v \in Task /\ Of(v) = c /\ TaskWatch(v) /\ LockedOnce(c)
      /\ Orderly(todo[v])
  BY CleanupLeaves DEF KnownInv, RowInv, OfCall, WatchInv, TodoInv, CallWatch
<1>2. Reads(todo'[v])
  <2>1. CASE v = t
    BY <1>1, <2>1, CleanupKeepsReads DEF KnownInv, RowInv, TaskWatch
  <2>2. CASE v # t
    BY <1>1, <2>2 DEF TaskWatch
  <2>3. QED BY <2>1, <2>2
<1>3. \/ media'[c] = media[c] /\ ~TearDown(t) /\ ~Unwound(t)
      \/ TearDown(t) /\ media[c] # "none" /\ media'[c] = "unwinding"
      \/ Unwound(t) /\ media[c] # "none" /\ media'[c] = "none"
  BY CleanupEffects
<1>4. Unwound(t) => ~Has(todo'[v], "unwind")
  <2> SUFFICES ASSUME Unwound(t), Has(todo'[v], "unwind") PROVE FALSE
    OBVIOUS
  <2>1. Head(todo[t]) = "unwind" /\ Has(todo[t], "unwind") /\ ~EnterCleanup(t)
    BY <1>1, TailIsOrderly DEF Unwound, EnterCleanup, At
  <2>2. Has(todo[t], "unlock")
    BY <1>1, <2>1, WhatGoesTogether
  <2>3. CASE v # t
    <3>1. Has(todo[v], "unlock")
      BY <1>1, <2>3, WhatGoesTogether
    <3>2. QED BY <1>1, <2>2, <2>3, <3>1 DEF LockedOnce
  <2>4. CASE v = t
    <3> DEFINE r == Tail(todo[t])
    <3>1. Orderly(r) /\ (r # <<>> => Head(r) = "unlock")
      BY <1>1, <2>1, TailIsOrderly DEF Follows
    <3>2. ~Has(r, "unwind")
      BY <3>1, UnwindIsFirst DEF Starts
    <3>3. todo'[t] = FinishRow \o r \/ todo'[t] = After(r)
      BY DEF Unwound, Done, KnownInv, TodoInv
    <3>4. ~Has(After(r), "unwind")
      BY <3>1, <3>2, PastIsOrderly DEF After
    <3>5. ~Has(FinishRow \o r, "unwind")
      <4>1. r # <<>> => <<FinishRow[Len(FinishRow)], Head(r)>> \in Follows
        BY <3>1, AddedAreOrderly DEF Follows
      <4>2. QED BY <3>1, <3>2, <4>1, AddedAreOrderly, SpliceIsOrderly
    <3>6. QED BY <2>4, <3>3, <3>4, <3>5
  <2>5. QED BY <2>3, <2>4
<1>5. Has(todo'[v], "unwind") => media'[c] # "none"
  <2>1. EnterCleanup(t) => media[c] # "none"
    BY DEF EnterCleanup
  <2>2. ~EnterCleanup(t) /\ Has(todo'[v], "unwind") => Has(todo[v], "unwind")
    BY <1>1, CleanupKeepsLocked
  <2>3. QED BY <1>1, <1>3, <1>4, <2>1, <2>2 DEF TaskWatch
<1>6. Flagged(todo'[v]) => row'[c] \in Terminal \/ Ends(v)'
  <2> SUFFICES ASSUME Flagged(todo'[v]), row'[c] \notin Terminal PROVE Ends(v)'
    OBVIOUS
  <2>1. Flagged(todo[v])
    BY <1>1, CleanupKeepsTodo DEF KnownInv, RowInv
  <2>2. row[c] \notin Unserved
    BY <1>1, <2>1, FlaggedTask DEF KnownInv, DeadlineInv, CallDeadlines, Of
  <2>3. row'[c] = row[c]
    BY CleanupEffects
  <2>4. row[c] \in OpenState
    BY <2>2, <2>3 DEF KnownInv, RowInv, RowTypeOK, DispatchState, Unserved, OpenState
  <2>5. Ends(v)
    BY <1>1, <2>1, <2>3 DEF TaskWatch
  <2>6. QED BY <1>1, <2>3, <2>4, <2>5, CleanupKeepsEnds DEF KnownInv
<1>7. QED BY <1>1, <1>2, <1>5, <1>6 DEF TaskWatch

LEMMA CleanupKeepsWatch ==
  ASSUME ~DbFails, KnownInv, WatchInv, NEW t \in Task, CleanupStep(t), NEW c \in Calls, c = Of(t)
  PROVE  CallWatch(c)' /\ \A v \in OfCall(c) : TaskWatch(v)'
BY CleanupKeepsFresh, CleanupKeepsWaits, CleanupKeepsServed, CleanupKeepsRinging,
   CleanupKeepsBridged, CleanupKeepsRegistered, CleanupKeepsLocked, CleanupKeepsTasks
   DEF CallWatch

(* What holds of the tasks of a call when cleanups begin.                  *)
LEMMA GrowingWatches ==
  ASSUME KnownInv, WatchInv, NEW c \in Calls, Grows(c), UNCHANGED seen
  PROVE  /\ row'[c] = row[c] => (Ending(c) => Ending(c)')
         /\ LockedOnce(c)'
         /\ \A v \in OfCall(c) :
              /\ todo'[v] = todo[v] \/ (todo'[v] # <<>> /\ Head(todo'[v]) \in Clears)
              /\ Has(todo[v], "read") => Has(todo'[v], "read")
         /\ /\ media[c] # "none" => media'[c] # "none"
            /\ row'[c] = row[c] \/ row'[c] \in Terminal \/ row[c] \in Unserved
            => \A v \in OfCall(c) : TaskWatch(v)'
<1>1. ASSUME NEW v \in OfCall(c)
      PROVE  /\ v \in Task /\ Of(v) = c /\ seen'[v] = seen[v] /\ TaskWatch(v)
             /\ \/ todo'[v] = todo[v]
                \/ /\ todo[v] = <<>> /\ todo'[v] # <<>> /\ Head(todo'[v]) \in Clears
                   /\ Reads(todo'[v]) /\ ~Has(todo'[v], "unwind") /\ ~Has(todo'[v], "unlock")
                   /\ Flagged(todo'[v]) => Has(todo'[v], "read")
  BY CleanupsRead, CleanupsAreOrderly DEF Grows, OfCall, WatchInv, Clears
<1>2. ASSUME NEW v \in OfCall(c), row'[c] = row[c], Ends(v) PROVE Ends(v)'
  BY <1>1, <1>2, NothingIsOrderly DEF Ends, Starts
<1>3. row'[c] = row[c] => (Ending(c) => Ending(c)')
  BY <1>2 DEF Ending, OfCall
<1>4. LockedOnce(c)'
  BY <1>1 DEF LockedOnce, WatchInv, CallWatch, OfCall
<1>5. ASSUME media[c] # "none" => media'[c] # "none",
             row'[c] = row[c] \/ row'[c] \in Terminal \/ row[c] \in Unserved,
             NEW v \in OfCall(c)
      PROVE  TaskWatch(v)'
  <2>1. CASE todo'[v] = todo[v]
    <3>1. ASSUME Flagged(todo[v]) PROVE row'[c] \in Terminal \/ Ends(v)'
      <4>1. row[c] \notin Unserved
        BY <1>1, <3>1, FlaggedTask DEF KnownInv, DeadlineInv, CallDeadlines, Of
      <4>2. row[c] \in Terminal => row'[c] \in Terminal
        BY <1>5, <4>1
      <4>3. QED BY <1>1, <1>2, <1>5, <3>1, <4>1, <4>2 DEF TaskWatch
    <3>2. QED BY <1>1, <1>5, <2>1, <3>1 DEF TaskWatch
  <2>2. CASE todo'[v] # todo[v]
    BY <1>1, <2>2 DEF TaskWatch, Ends
  <2>3. QED BY <2>1, <2>2
<1>6. QED BY <1>1, <1>3, <1>4, <1>5, NothingIsOrderly

(* A cleanup begins: the row's finishing is in hand.                       *)
LEMMA BeginningEnds ==
  ASSUME TodoInv, NEW c \in Calls, NEW u \in Task, Of(u) = c, NEW s, Begin(u, s)
  PROVE  /\ todo'[u] = s /\ u \in OfCall(c)
         /\ \A v \in Task \ {u} : todo'[v] = todo[v]
         /\ Has(s, "read") => Ending(c)'
         /\ AtClose(c) /\ Starts(s, "close") => AtClose(c)'
<1>1. todo'[u] = s /\ todo[u] = <<>> /\ \A v \in Task \ {u} : todo'[v] = todo[v]
  BY DEF Begin, TodoInv
<1>2. QED BY <1>1 DEF OfCall, Ending, Ends, AtClose

(* A call whose row, stream, pickups and media stay as they are.           *)
LEMMA QuietKeepsWatch ==
  ASSUME KnownInv, WatchInv, NEW c \in Calls, Grows(c), UNCHANGED seen,
         UNCHANGED <<row, stream, pending, media, pick>>, c \in known => c \in known'
  PROVE  /\ Served(c)' /\ Ringing(c)' /\ Started(c)' /\ Registered(c)' /\ LockedOnce(c)'
         /\ \A v \in OfCall(c) : TaskWatch(v)'
         /\ Ending(c) => Ending(c)'
<1>1. /\ Ending(c) => Ending(c)'
      /\ LockedOnce(c)' /\ \A v \in OfCall(c) : TaskWatch(v)'
      /\ \A v \in OfCall(c) :
           todo'[v] = todo[v] \/ (todo'[v] # <<>> /\ Head(todo'[v]) \in Clears)
      /\ Owed(c) \subseteq Owed(c)'
  BY GrowingWatches, GrowingOwes
<1>2. Handing(c)' = Handing(c) /\ Starting(c)' = Starting(c)
  BY DEF Handing, Starting
<1>3. CallWatch(c)
  BY DEF WatchInv
<1>4. Served(c)'
  BY <1>1, <1>2, <1>3 DEF CallWatch, Served, OfCall
<1>5. QED BY <1>1, <1>2, <1>3, <1>4 DEF CallWatch, Ringing, Started, Registered

\* What a step keeps of its call.
KeptFor(c) == CallWatch(c)' /\ \A v \in OfCall(c) : TaskWatch(v)'

(* A cleanup that begins with the stream, beside what the call waits for.  *)
LEMMA CallKeepsWatch ==
  ASSUME KnownInv, WatchInv, NEW c \in Calls, CallStep(c)
  PROVE  KeptFor(c)
<1>1. /\ RowInv /\ RowTypeOK /\ TodoInv /\ MemoryOK /\ StarterHoldsClaim /\ CallInv(c)
      /\ CallDeadlines(c) /\ CallWatch(c) /\ UNCHANGED seen /\ Grows(c)
      /\ row[c] \in DispatchState \cup {"absent"}
      /\ pick \in [Agents \X Calls -> {"idle", "claimed", "connecting", "handing", "handed"}]
  <2>1. UNCHANGED seen
    BY DEF CallStep, CountQueue, InsertRinging, StreamConnects, StreamStarts, StreamEnds,
           StatusCallback, EndCall, ReleaseExpiredClaim, TimeoutWaiting, InitialExpires,
           GraceExpires, tasks
  <2>2. CallInv(c)
    BY DEF KnownInv, HoldInv
  <2>3. Grows(c)
    BY <2>2, CallKeepsHold DEF KnownInv
  <2>4. QED BY <2>1, <2>2, <2>3
       DEF KnownInv, WatchInv, RowInv, RowTypeOK, MemoryOK, AgentInv, DeadlineInv
<1>2. UNCHANGED pick /\ UNCHANGED <<appWs, app>> /\ known \subseteq known' /\ UNCHANGED media
  BY DEF CallStep, CountQueue, InsertRinging, StreamConnects, StreamStarts, StreamEnds,
         StatusCallback, EndCall, ReleaseExpiredClaim, TimeoutWaiting, InitialExpires,
         GraceExpires, rest
<1>3. /\ Handing(c)' = Handing(c) /\ Starting(c)' = Starting(c) /\ Connecting(c)' = Connecting(c)
      /\ NoApps(c)' = NoApps(c)
  BY <1>2 DEF Handing, Starting, Connecting, NoApps
<1>4. /\ Owed(c) \subseteq Owed(c)' /\ LockedOnce(c)'
      /\ row'[c] = row[c] => (Ending(c) => Ending(c)')
      /\ \A v \in OfCall(c) :
           todo'[v] = todo[v] \/ (todo'[v] # <<>> /\ Head(todo'[v]) \in Clears)
      /\ row'[c] = row[c] \/ row'[c] \in Terminal \/ row[c] \in Unserved
           => \A v \in OfCall(c) : TaskWatch(v)'
  BY <1>1, <1>2, GrowingWatches, GrowingOwes
<1>5. ASSUME Served(c), row'[c] # "CONNECTED" \/ row[c] = "CONNECTED" PROVE Served(c)'
  BY <1>2, <1>3, <1>4, <1>5 DEF Served, OfCall
<1>6. ASSUME row'[c] = "CONNECTED" <=> row[c] = "CONNECTED" PROVE Registered(c)'
  BY <1>1, <1>2, <1>3, <1>4, <1>6 DEF CallWatch, Registered
<1>7. ASSUME UNCHANGED <<row, stream, pending>>, Fresh(c)', Waits(c)', Bridged(c)'
      PROVE  KeptFor(c)
  BY <1>1, <1>2, <1>7, QuietKeepsWatch DEF CallWatch, KeptFor
<1>8. ASSUME UNCHANGED <<row, stream, appWs>>, DeadlineRuns(c) => DeadlineRuns(c)'
      PROVE  Bridged(c)'
  BY <1>1, <1>2, <1>3, <1>4, <1>8 DEF CallWatch, Bridged
<1>9. CASE CountQueue(c)
  <2>1. /\ UNCHANGED <<row, stream, pending, todo, initial, grace, reported>>
        /\ c \notin reported
    BY <1>9 DEF CountQueue, table, deadlines, tasks, outside
  <2>2. AtClose(c)' = AtClose(c) /\ DeadlineRuns(c)' = DeadlineRuns(c)
    BY <2>1 DEF AtClose, DeadlineRuns
  <2>3. Fresh(c)' /\ Waits(c)'
    BY <1>1, <1>2, <1>3, <2>1, <2>2 DEF CallWatch, Fresh, Waits
  <2>4. QED BY <1>7, <1>8, <2>1, <2>2, <2>3, <1>2
<1>10. CASE StatusCallback(c)
  <2>1. /\ UNCHANGED <<row, stream, pending, initial, grace, counted>> /\ row[c] # "absent"
        /\ c \notin counted /\ c \in reported' /\ Fresh(c) /\ Waits(c)
        /\ Begin(<<"status", c>>, IF pending[c] # "none" THEN CleanUp ELSE <<"call">>)
    BY <1>1, <1>10 DEF StatusCallback, table, rest, deadlines, CallWatch
  <2>2. pending[c] # "none" => (AtClose(c) => AtClose(c)')
    BY <1>1, <2>1, BeginningEnds, TasksOfCall, CleanupsRead
  <2>3. DeadlineRuns(c)' = DeadlineRuns(c)
    BY <2>1 DEF DeadlineRuns
  <2>4. Fresh(c)' /\ Waits(c)'
    BY <1>2, <1>3, <2>1, <2>2, <2>3 DEF Fresh, Waits
  <2>5. QED BY <1>2, <1>7, <1>8, <2>1, <2>3, <2>4
<1>11. CASE EndCall(c)
  <2>1. /\ UNCHANGED <<row, stream, pending, initial, grace, counted, reported>>
        /\ media[c] # "none" /\ Fresh(c) /\ Waits(c)
    BY <1>1, <1>11 DEF EndCall, table, rest, deadlines, outside, CallWatch
  <2>2. session[c] # "none" /\ stream[c] # "none" /\ row[c] \notin Early /\ ~Connecting(c)
    BY <1>1, <2>1 DEF CallInv
  <2>3. DeadlineRuns(c)' = DeadlineRuns(c)
    BY <2>1 DEF DeadlineRuns
  <2>4. Fresh(c)' /\ Waits(c)'
    BY <1>2, <1>3, <2>1, <2>2, <2>3 DEF Fresh, Waits
  <2>5. QED BY <1>2, <1>7, <1>8, <2>1, <2>3, <2>4
<1>12. CASE InitialExpires(c) \/ GraceExpires(c)
  <2>1. /\ UNCHANGED <<row, stream, pending, counted, reported>> /\ DeadlineRuns(c)
        /\ Fresh(c) /\ Waits(c) /\ Bridged(c) /\ stream[c] # "none"
    BY <1>1, <1>12 DEF InitialExpires, GraceExpires, DeadlineRuns, table, rest, outside, CallWatch,
                       Fresh
  <2>2. AtClose(c) => AtClose(c)'
    BY <1>1, <1>12, BeginningEnds, TasksOfCall, CleanupsRead
         DEF InitialExpires, GraceExpires, AtClose
  <2>3. Fresh(c)' /\ Waits(c)'
    BY <1>2, <1>3, <2>1, <2>2 DEF Fresh, Waits
  <2>4. CASE appWs[c] = Nobody
    <3>1. Ending(c)'
      BY <1>1, <1>12, <2>4, BeginningEnds, TasksOfCall, CleanupsRead
         DEF InitialExpires, GraceExpires
    <3>2. Bridged(c)'
      BY <3>1 DEF Bridged
    <3>3. QED BY <1>7, <2>1, <2>3, <3>2
  <2>5. CASE appWs[c] # Nobody
    <3>1. ~NoApps(c)
      BY <1>1, <2>5 DEF CallInv, MemoryOK, NoApps
    <3>2. Bridged(c)'
      BY <1>2, <1>4, <2>1, <2>5, <3>1 DEF Bridged
    <3>3. QED BY <1>7, <2>1, <2>3, <3>2
  <2>6. QED BY <2>4, <2>5
<1>13. CASE InsertRinging(c)
  <2>1. /\ UNCHANGED <<stream, todo, initial, grace, reported>> /\ c \in counted
        /\ counted' = counted \ {c} /\ stream[c] = "none" /\ c \in known'
        /\ row'[c] = IF row[c] = "absent" THEN "RINGING" ELSE row[c]
        /\ pending'[c] = IF pending[c] = "none" THEN "prepared" ELSE pending[c]
        /\ pending[c] \in {"none", "prepared"}
        /\ Fresh(c) /\ Waits(c)
    BY <1>1, <1>13 DEF InsertRinging, deadlines, tasks, outside, CallInv, MemoryOK, RowTypeOK,
                       CallWatch
  <2>2. /\ AtClose(c)' = AtClose(c) /\ DeadlineRuns(c)' = DeadlineRuns(c) /\ AtClose(c)
        /\ row[c] \in Terminal \cup {"absent", "RINGING"}
    BY <2>1 DEF AtClose, DeadlineRuns, Fresh, Waits, OfCall
  <2>3. Fresh(c)' /\ Waits(c)' /\ Ringing(c)'
    BY <1>2, <1>3, <2>1, <2>2 DEF Fresh, Waits, Ringing
  <2>4. row'[c] \in Terminal \cup {"RINGING"} /\ (row'[c] = row[c] \/ row[c] \in Unserved)
    BY <2>1, <2>2 DEF Unserved
  <2>5. Started(c)' /\ Bridged(c)' /\ Served(c)' /\ Registered(c)'
    BY <1>1, <1>5, <1>6, <2>2, <2>4 DEF CallWatch, Started, Bridged, Terminal
  <2>6. QED BY <1>4, <2>3, <2>4, <2>5 DEF KeptFor, CallWatch
<1>14. CASE StreamConnects(c)
  <2>1. /\ UNCHANGED <<row, todo, initial, grace, reported, counted>>
        /\ stream[c] = "none" /\ c \notin counted /\ row[c] # "absent"
        /\ \/ stream'[c] = "open" /\ pending'[c] = "attached" /\ pending[c] = "prepared"
           \/ stream'[c] = "over" /\ pending'[c] = pending[c] /\ pending[c] = "none"
        /\ Fresh(c) /\ Waits(c) /\ Ringing(c)
    <3>1. pending[c] \in {"none", "prepared"} /\ stream[c] = "none"
      BY <1>1, <1>14 DEF StreamConnects, CallInv, MemoryOK
    <3>2. QED
      BY <1>1, <1>14, <3>1 DEF StreamConnects, table, deadlines, tasks, outside, MemoryOK, CallWatch
  <2>2. /\ AtClose(c)' = AtClose(c) /\ row[c] \in Terminal \cup {"RINGING"} /\ ~Connecting(c)
        /\ pending'[c] = "attached" => AtClose(c)
    BY <2>1 DEF AtClose, Fresh, Connecting
  <2>3. Fresh(c)' /\ Waits(c)'
    BY <1>3, <2>1, <2>2 DEF Fresh, Waits, Terminal
  <2>4. Ringing(c)' /\ Started(c)' /\ Bridged(c)'
    BY <1>4, <2>1, <2>2 DEF Ringing, Started, Bridged, Terminal
  <2>5. Served(c)' /\ Registered(c)'
    BY <1>1, <1>5, <1>6, <2>1 DEF CallWatch
  <2>6. QED BY <1>4, <2>1, <2>3, <2>4, <2>5 DEF KeptFor, CallWatch
<1>15. CASE StreamStarts(c) \/ ReleaseExpiredClaim(c)
  <2>1. /\ UNCHANGED <<pending, todo, counted, reported, initial, grace>>
        /\ stream'[c] # "none" \/ (row[c] = "CLAIMED" /\ stream'[c] = stream[c])
        /\ row[c] \in {"RINGING", "CLAIMED"} /\ row'[c] = "WAITING_FOR_AGENT"
        /\ Fresh(c) /\ Waits(c)
    <3>1. CASE StreamStarts(c)
      BY <1>1, <3>1 DEF StreamStarts, tasks, outside, deadlines, MemoryOK, RowTypeOK, CallWatch
    <3>2. CASE ReleaseExpiredClaim(c)
      BY <1>1, <3>2 DEF ReleaseExpiredClaim, rest, tasks, outside, deadlines, RowTypeOK, CallWatch
    <3>3. QED BY <1>15, <3>1, <3>2
  <2>2. AtClose(c)' = AtClose(c)
    BY <2>1 DEF AtClose
  <2>3. Fresh(c)' /\ Waits(c)'
    BY <1>2, <1>3, <2>1, <2>2 DEF Fresh, Waits, Terminal, Early
  <2>4. Ringing(c)' /\ Started(c)' /\ Bridged(c)' /\ Served(c)' /\ Registered(c)'
    BY <1>1, <1>5, <1>6, <2>1 DEF CallWatch, Ringing, Started, Bridged
  <2>5. row[c] \in Unserved
    BY <2>1 DEF Unserved, Preconnected
  <2>6. QED BY <1>4, <2>3, <2>4, <2>5 DEF KeptFor, CallWatch
<1>16. CASE StreamEnds(c)
  <2>1. /\ UNCHANGED <<row, pending, counted, reported>>
        /\ stream[c] # "none" /\ stream'[c] = "over"
        /\ Begin(<<"stream", c>>, CleanUp) /\ Waits(c)
    BY <1>1, <1>16 DEF StreamEnds, table, outside, MemoryOK, CallWatch
  <2>2. Ending(c)' /\ (AtClose(c) => AtClose(c)')
    BY <1>1, <2>1, BeginningEnds, TasksOfCall, CleanupsRead
  <2>3. Fresh(c)' /\ Waits(c)'
    BY <1>2, <1>3, <2>1, <2>2 DEF Fresh, Waits
  <2>4. Ringing(c)' /\ Started(c)' /\ Bridged(c)'
    BY <2>2 DEF Ringing, Started, Bridged
  <2>5. Served(c)' /\ Registered(c)'
    BY <1>1, <1>5, <1>6, <2>1 DEF CallWatch
  <2>6. QED BY <1>4, <2>1, <2>3, <2>4, <2>5 DEF KeptFor, CallWatch
<1>17. CASE TimeoutWaiting(c)
  <2>1. /\ UNCHANGED <<stream, pending, counted, reported>>
        /\ row[c] = "WAITING_FOR_AGENT" /\ row'[c] = "TIMEOUT"
        /\ Begin(<<"sweep", c>>, CleanUp \o <<"forget">>) /\ Fresh(c) /\ Waits(c)
    BY <1>1, <1>17 DEF TimeoutWaiting, rest, outside, RowTypeOK, CallWatch
  <2>2. AtClose(c) => AtClose(c)'
    BY <1>1, <2>1, BeginningEnds, TasksOfCall, CleanupsRead
  <2>3. Fresh(c)' /\ Waits(c)'
    BY <1>2, <1>3, <2>1, <2>2 DEF Fresh, Waits, Terminal, Early
  <2>4. Ringing(c)' /\ Started(c)' /\ Bridged(c)' /\ Served(c)' /\ Registered(c)'
    BY <1>1, <1>5, <1>6, <2>1 DEF CallWatch, Ringing, Started, Bridged
  <2>5. QED BY <1>4, <2>1, <2>3, <2>4 DEF KeptFor, CallWatch, Terminal
<1>18. QED
  BY <1>9, <1>10, <1>11, <1>12, <1>13, <1>14, <1>15, <1>16, <1>17 DEF CallStep

(* A step of a pickup: from the session's start to the answer the pickup   *)
(* itself watches over the call, and whoever gives up begins a cleanup.    *)
LEMMA PickupKeepsWatch ==
  ASSUME ~DbFails, KnownInv, WatchInv, NEW c \in Calls, NEW a \in Agents, PickupStep(a, c)
  PROVE  KeptFor(c)
<1> DEFINE p == <<a, c>>
<1>1. /\ RowInv /\ RowTypeOK /\ TodoInv /\ MemoryOK /\ StarterHoldsClaim /\ CallInv(c)
      /\ CallDeadlines(c) /\ CallWatch(c) /\ UNCHANGED seen /\ Grows(c)
      /\ row[c] \in DispatchState \cup {"absent"}
      /\ p \in Task /\ Of(p) = c
  <2>1. UNCHANGED seen
    BY DEF PickupStep, Claim, PickupAgain, StartSession, SessionConnected, BootstrapFails,
           HandedOff, Answer, PickupRaises, tasks
  <2>2. CallInv(c) /\ StarterHoldsClaim
    BY DEF KnownInv, HoldInv, AgentInv
  <2>3. Grows(c)
    BY <2>2, PickupKeepsHold DEF KnownInv
  <2>4. QED BY <2>1, <2>2, <2>3, TasksOfCall
       DEF KnownInv, WatchInv, RowInv, RowTypeOK, MemoryOK, DeadlineInv
<1>2. /\ UNCHANGED <<appWs, app, stream, pending, reported, counted, grace>>
      /\ known \subseteq known'
  BY DEF PickupStep, Claim, PickupAgain, StartSession, SessionConnected, BootstrapFails,
         HandedOff, Answer, PickupRaises, ScheduleInitial, deadlines, outside
<1>3. stream[c] # "none" /\ NoApps(c)' = NoApps(c)
  BY <1>1, <1>2 DEF CallWatch, Fresh, NoApps, PickupStep, Claim, PickupAgain, StartSession,
         SessionConnected, BootstrapFails, HandedOff, Answer, PickupRaises, Terminal
<1>4. /\ Owed(c) \subseteq Owed(c)' /\ LockedOnce(c)'
      /\ row'[c] = row[c] => (Ending(c) => Ending(c)')
      /\ \A v \in OfCall(c) :
           /\ todo'[v] = todo[v] \/ (todo'[v] # <<>> /\ Head(todo'[v]) \in Clears)
           /\ Has(todo[v], "read") => Has(todo'[v], "read")
      /\ /\ media[c] # "none" => media'[c] # "none"
         /\ row'[c] = row[c] \/ row'[c] \in Terminal \/ row[c] \in Unserved
         => \A v \in OfCall(c) : TaskWatch(v)'
  BY <1>1, GrowingWatches, GrowingOwes
<1>5. ASSUME NEW v, pick' = [pick EXCEPT ![p] = v]
      PROVE  pick'[p] = v /\ \A b \in Agents \ {a} : pick'[<<b, c>>] = pick[<<b, c>>]
  BY <1>1, <1>5 DEF MemoryOK
<1>6. pick[p] \in Starters =>
        /\ row[c] \in Terminal \cup {"SESSION_STARTING"}
        /\ \A b \in Agents \ {a} : pick[<<b, c>>] \notin Starters
  BY <1>1 DEF StarterHoldsClaim, Starters, CallInv
<1>7. ASSUME Waits(c)', Served(c)', Started(c)', Bridged(c)', Registered(c)',
             row'[c] # "RINGING" \/ row'[c] = row[c],
             media[c] # "none" => media'[c] # "none",
             row'[c] = row[c] \/ row'[c] \in Terminal \/ row[c] \in Unserved
      PROVE  KeptFor(c)
  <2>1. Fresh(c)' /\ Ringing(c)'
    BY <1>1, <1>2, <1>3, <1>4, <1>7 DEF CallWatch, Fresh, Ringing
  <2>2. QED BY <1>4, <1>7, <2>1 DEF KeptFor, CallWatch
<1>8. CASE Claim(a, c)
  <2>1. /\ row[c] = "WAITING_FOR_AGENT" /\ row'[c] = "CLAIMED" /\ c \in known'
        /\ UNCHANGED <<todo, media>> /\ pick' = [pick EXCEPT ![p] = "claimed"]
        /\ pick[p] = "idle" /\ Waits(c)
    BY <1>1, <1>8 DEF Claim, PickupFree, tasks, RowTypeOK, CallWatch
  <2>2. /\ Handing(c)' = Handing(c) /\ Connecting(c)' = Connecting(c)
        /\ AtClose(c)' = AtClose(c)
    BY <1>5, <2>1 DEF Handing, Connecting, AtClose
  <2>3. Waits(c)'
    BY <1>2, <2>1, <2>2 DEF Waits, Early
  <2>4. Served(c)' /\ Started(c)' /\ Bridged(c)' /\ Registered(c)'
    BY <1>1, <1>2, <1>4, <2>1, <2>2 DEF CallWatch, Served, Started, Bridged, Registered
  <2>5. QED BY <1>7, <2>1, <2>3, <2>4 DEF Unserved, Preconnected
<1>9. CASE PickupAgain(a, c)
  <2>1. UNCHANGED <<row, stream, pending, media, pick, initial, grace, todo>>
    BY <1>9 DEF PickupAgain, table, deadlines, tasks
  <2>2. /\ AtClose(c)' = AtClose(c) /\ Connecting(c)' = Connecting(c)
        /\ DeadlineRuns(c)' = DeadlineRuns(c) /\ (Ending(c) => Ending(c)')
    BY <1>4, <2>1 DEF AtClose, Connecting, DeadlineRuns
  <2>3. Waits(c)' /\ Bridged(c)'
    BY <1>1, <1>2, <1>3, <1>4, <2>1, <2>2 DEF CallWatch, Waits, Bridged
  <2>4. Served(c)' /\ Started(c)' /\ Registered(c)'
    BY <1>1, <1>2, <2>1, QuietKeepsWatch
  <2>5. QED BY <1>7, <2>1, <2>3, <2>4
<1>10. CASE HandedOff(a, c)
  <2>1. /\ UNCHANGED <<row, media, initial, todo>> /\ pick[p] = "handing"
        /\ pick' = [pick EXCEPT ![p] = "handed"]
    BY <1>10 DEF HandedOff, table, deadlines, tasks
  <2>2. /\ Handing(c)' = Handing(c) /\ Starting(c)' = Starting(c)
        /\ Connecting(c)' = Connecting(c) /\ AtClose(c)' = AtClose(c)
        /\ DeadlineRuns(c)' = DeadlineRuns(c) /\ (Ending(c) => Ending(c)')
    BY <1>2, <1>4, <1>5, <2>1 DEF Handing, Starting, Starters, Connecting, AtClose, DeadlineRuns
  <2>3. Waits(c)' /\ Bridged(c)'
    BY <1>1, <1>2, <1>3, <1>4, <2>1, <2>2 DEF CallWatch, Waits, Bridged
  <2>4. Served(c)' /\ Started(c)' /\ Registered(c)'
    BY <1>1, <1>2, <1>4, <2>1, <2>2 DEF CallWatch, Served, Started, Registered
  <2>5. QED BY <1>7, <2>1, <2>3, <2>4
<1>11. CASE StartSession(a, c) /\ row[c] = "CLAIMED" /\ claimant[c] = a
  <2>1. /\ row'[c] = "SESSION_STARTING" /\ UNCHANGED media /\ Waits(c) /\ Registered(c)
        /\ \A b \in Agents : pick[<<b, c>>] \notin Starters
    BY <1>1, <1>11 DEF StartSession, RowTypeOK, CallWatch, StarterHoldsClaim, Starters, Terminal
  <2>2. CASE pending[c] = "attached" /\ CanReserve(c)
    <3>1. pick' = [pick EXCEPT ![p] = "connecting"] /\ UNCHANGED todo
      BY <1>11, <2>2 DEF StartSession
    <3>2. Starting(c)' /\ ~Handing(c)' /\ ~Handing(c)
      BY <1>5, <2>1, <3>1 DEF Starting, Handing, Starters
    <3>3. /\ AtClose(c) /\ c \in known /\ AtClose(c)' = AtClose(c)
      BY <1>11, <2>1, <2>2, <3>1 DEF Waits, Early, AtClose
    <3>4. Waits(c)'
      BY <1>2, <2>1, <3>3 DEF Waits, Early
    <3>5. Served(c)' /\ Started(c)' /\ Bridged(c)' /\ Registered(c)'
      BY <1>11, <1>4, <2>1, <3>2 DEF Served, Started, Bridged, Registered
    <3>6. QED BY <1>7, <1>11, <2>1, <3>4, <3>5 DEF Unserved, Preconnected
  <2>3. CASE ~(pending[c] = "attached" /\ CanReserve(c))
    <3>1. pick' = [pick EXCEPT ![p] = "idle"] /\ Begin(p, FailStart)
      BY <1>11, <2>3 DEF StartSession
    <3>2. ~Connecting(c)' /\ ~Handing(c)' /\ ~Handing(c)
      BY <1>5, <2>1, <3>1 DEF Connecting, Handing, Starters
    <3>3. Ending(c)'
      BY <1>1, <3>1, BeginningEnds, CleanupsRead
    <3>4. Waits(c)'
      BY <1>2, <2>1, <3>2 DEF Waits, Early
    <3>5. Served(c)' /\ Started(c)' /\ Bridged(c)' /\ Registered(c)'
      BY <1>11, <1>4, <2>1, <3>2, <3>3 DEF Served, Started, Bridged, Registered
    <3>6. QED BY <1>7, <1>11, <2>1, <3>4, <3>5 DEF Unserved, Preconnected
  <2>4. QED BY <2>2, <2>3
<1>12. CASE StartSession(a, c) /\ ~(row[c] = "CLAIMED" /\ claimant[c] = a)
  <2>1. /\ UNCHANGED <<row, media, initial, todo>> /\ pick[p] = "claimed"
        /\ pick' = [pick EXCEPT ![p] = "idle"]
    BY <1>12 DEF StartSession, deadlines
  <2>2. /\ Handing(c)' = Handing(c) /\ Starting(c)' = Starting(c)
        /\ Connecting(c)' = Connecting(c) /\ AtClose(c)' = AtClose(c)
        /\ DeadlineRuns(c)' = DeadlineRuns(c) /\ (Ending(c) => Ending(c)')
    BY <1>2, <1>4, <1>5, <2>1 DEF Handing, Starting, Starters, Connecting, AtClose, DeadlineRuns
  <2>3. Waits(c)' /\ Bridged(c)'
    BY <1>1, <1>2, <1>3, <1>4, <2>1, <2>2 DEF CallWatch, Waits, Bridged
  <2>4. Served(c)' /\ Started(c)' /\ Registered(c)'
    BY <1>1, <1>2, <1>4, <2>1, <2>2 DEF CallWatch, Served, Started, Registered
  <2>5. QED BY <1>7, <2>1, <2>3, <2>4
\* Whoever gives up.
<1>13. ASSUME pick[p] \in Starters, pick' = [pick EXCEPT ![p] = "idle"], UNCHANGED row,
              media'[c] \in {media[c], "registered"}, 
              \E s \in {FailStart, <<"call", "slot">> \o FailStart} : Begin(p, s)
       PROVE  KeptFor(c)
  <2>1. PICK s \in {FailStart, <<"call", "slot">> \o FailStart} : Begin(p, s)
    BY <1>13
  <2>2. s \in Begun /\ Has(s, "read") /\ Has(s, "call")
    BY CleanupsRead, CleanupsAreOrderly
  <2>3. Ending(c)' /\ "call" \in Owed(c)'
    BY <1>1, <2>1, <2>2, BeginningEnds, BeginningOwes DEF Steps
  <2>4. /\ row[c] \in Terminal \cup {"SESSION_STARTING"}
        /\ ~Connecting(c)' /\ ~Handing(c)'
    BY <1>5, <1>6, <1>13 DEF Connecting, Handing, Starters
  <2>5. Waits(c)' /\ Served(c)' /\ Started(c)' /\ Bridged(c)' /\ Registered(c)'
    BY <1>1, <1>2, <1>13, <2>3, <2>4
       DEF CallWatch, Waits, Served, Started, Bridged, Registered, Early, Terminal
  <2>6. QED BY <1>7, <1>13, <2>5
<1>14. CASE BootstrapFails(a, c)
  BY <1>13, <1>14 DEF BootstrapFails, table, Starters
<1>15. CASE SessionConnected(a, c) /\ ~(c \in reserved /\ c \notin closed)
  BY <1>1, <1>13, <1>15 DEF SessionConnected, table, Starters, MemoryOK
<1>16. CASE SessionConnected(a, c) /\ c \in reserved /\ c \notin closed
  <2>1. /\ UNCHANGED <<row, todo, initial>> /\ pick[p] = "connecting" /\ media'[c] = "registered"
        /\ pick' = [pick EXCEPT ![p] = "handing"]
    BY <1>1, <1>16 DEF SessionConnected, table, MemoryOK, deadlines
  <2>2. /\ Connecting(c) /\ ~Connecting(c)' /\ Handing(c)' /\ Starting(c)'
        /\ row[c] \in Terminal \cup {"SESSION_STARTING"}
    BY <1>5, <1>6, <2>1 DEF Connecting, Handing, Starting, Starters
  <2>3. pending[c] = "attached" /\ AtClose(c) /\ c \in known
    BY <1>1, <1>16, <2>2 DEF CallInv, CallWatch, Waits
  <2>4. Waits(c)'
    BY <1>1, <1>2, <2>1, <2>2 DEF CallWatch, Waits, Early, Terminal
  <2>5. Served(c)'
    BY <1>2, <2>1, <2>3 DEF Served, AtClose, Starts, Clears, OfCall
  <2>6. stream[c] = "over" => Ending(c)'
    <3> SUFFICES ASSUME stream[c] = "over" PROVE Ending(c)'
      OBVIOUS
    <3>1. PICK v \in Task : Of(v) = c /\ Has(todo[v], "close")
      BY <1>1, <2>3 DEF CallInv, Owed
    <3>2. Reads(todo[v]) /\ todo[v] \in Seq(Steps) /\ v \in OfCall(c)
      BY <1>1, <3>1 DEF WatchInv, TaskWatch, TodoInv, OfCall
    <3>3. Has(todo[v], "read")
      <4>1. PICK k \in 1..Len(todo[v]) : todo[v][k] = "close"
        BY <3>1 DEF Has
      <4>2. PICK j \in (k + 1)..Len(todo[v]) : todo[v][j] = "read"
        BY <3>2, <4>1 DEF Reads
      <4>3. j \in 1..Len(todo[v])
        BY <3>2, <4>1, <4>2
      <4>4. QED BY <4>2, <4>3 DEF Has
    <3>4. QED BY <1>4, <3>2, <3>3 DEF Ending, Ends, OfCall
  <2>7. Started(c)' /\ Bridged(c)' /\ Registered(c)'
    BY <1>2, <2>1, <2>2, <2>6 DEF Started, Bridged, Registered, Terminal
  <2>8. QED BY <1>7, <2>1, <2>4, <2>5, <2>7
<1>17. CASE Answer(a, c) /\ ~(row[c] = "SESSION_STARTING" /\ claimant[c] = a)
  BY <1>13, <1>17 DEF Answer, Starters
<1>18. CASE Answer(a, c) /\ row[c] = "SESSION_STARTING" /\ claimant[c] = a
  <2>1. /\ row'[c] = "CONNECTED" /\ UNCHANGED <<media, todo>> /\ pick[p] = "handed"
        /\ pick' = [pick EXCEPT ![p] = "idle"] /\ ScheduleInitial(c)
    BY <1>1, <1>18 DEF Answer, RowTypeOK
  <2>2. /\ initial[c] = "off" /\ grace[c] = "off" /\ c \notin closing /\ NoApps(c)
    BY <1>1, <1>18 DEF CallDeadlines, Unserved, Preconnected, NoApps
  <2>3. DeadlineRuns(c)'
    BY <1>1, <2>1, <2>2 DEF ScheduleInitial, DeadlineRuns, MemoryOK
  <2>4. /\ Handing(c) /\ ~Connecting(c)' /\ ~Handing(c)'
    BY <1>5, <1>6, <2>1 DEF Handing, Connecting, Starters
  <2>5. Served(c) /\ Started(c) /\ Waits(c)
    BY <1>1 DEF CallWatch
  <2>6. Waits(c)'
    BY <1>2, <2>1, <2>4, <2>5 DEF Waits, Early
  <2>7. Served(c)' /\ Registered(c)'
    BY <1>2, <2>1, <2>4, <2>5 DEF Served, Registered
  <2>8. stream[c] = "over" => Ending(c)' \/ media[c] = "none"
    <3> SUFFICES ASSUME stream[c] = "over" PROVE Ending(c)' \/ media[c] = "none"
      OBVIOUS
    <3>1. PICK v \in OfCall(c) : Ends(v)
      BY <1>18, <2>4, <2>5 DEF Started, Ending
    <3>2. CASE Has(todo[v], "read")
      BY <1>4, <3>2 DEF Ending, Ends, OfCall
    <3>3. CASE Starts(todo[v], "update")
      BY <2>4, <2>5, <3>3 DEF Served, Starts, Clears
    <3>4. QED BY <3>1, <3>2, <3>3 DEF Ends
  <2>9. Bridged(c)' /\ Started(c)'
    BY <1>2, <1>3, <2>1, <2>2, <2>3, <2>8 DEF Bridged, Started
  <2>10. QED BY <1>7, <1>18, <2>1, <2>6, <2>7, <2>9 DEF Unserved, Preconnected
<1>19. QED
  BY <1>8, <1>9, <1>10, <1>11, <1>12, <1>14, <1>15, <1>16, <1>17, <1>18
     DEF PickupStep, PickupRaises

(* A step of an agent's app: its socket, its deadline or a cleanup watches.*)
LEMMA AppKeepsWatch ==
  ASSUME KnownInv, WatchInv, NEW c \in Calls, NEW x \in Apps, AppStep(x, c)
  PROVE  KeptFor(c)
<1>1. /\ RowInv /\ TodoInv /\ MemoryOK /\ CallInv(c)
      /\ CallDeadlines(c) /\ CallWatch(c) /\ UNCHANGED seen /\ Grows(c)
  <2>1. CallInv(c)
    BY DEF KnownInv, HoldInv
  <2>2. Grows(c)
    BY <2>1, AppKeepsHold DEF KnownInv
  <2>3. UNCHANGED seen
    BY DEF AppStep, AppConnects, AppAttaches, AppLeaves, AppEndsCall, tasks
  <2>4. QED BY <2>1, <2>2, <2>3 DEF KnownInv, WatchInv, DeadlineInv
<1>2. /\ UNCHANGED <<row, stream, pending, media, pick, counted, reported>>
      /\ (c \in known => c \in known')
  BY DEF AppStep, AppConnects, AppAttaches, AppLeaves, AppEndsCall, table, outside
<1>3. /\ Served(c)' /\ Ringing(c)' /\ Started(c)' /\ Registered(c)' /\ LockedOnce(c)'
      /\ \A v \in OfCall(c) : TaskWatch(v)'
      /\ Ending(c) => Ending(c)'
      /\ Owed(c) \subseteq Owed(c)'
  BY <1>1, <1>2, QuietKeepsWatch, GrowingOwes
<1>4. /\ appWs \in [Calls -> Apps \cup {Nobody}] /\ <<x, c>> \in Apps \X Calls
      /\ app \in [Apps \X Calls -> {"idle", "accepting", "attached", "over"}]
      /\ initial \in [Calls -> {"off", "pending", "cleaning"}]
      /\ grace \in [Calls -> {"off", "pending", "cleaning"}]
      /\ x # Nobody
  BY <1>1, InboundAssumption DEF MemoryOK
<1>5. stream[c] # "none"
  BY <1>1, <1>4 DEF CallWatch, Fresh, NoApps, AppStep, AppConnects, AppAttaches, AppLeaves,
                    AppEndsCall, Terminal
<1>6. AtClose(c) => AtClose(c)'
  <2>1. UNCHANGED todo => (AtClose(c)' <=> AtClose(c))
    BY DEF AtClose
  <2>2. QED BY <1>1, <2>1, BeginningEnds, TasksOfCall, CleanupsRead
         DEF AppStep, AppConnects, AppAttaches, AppLeaves, AppEndsCall, tasks
<1>7. Fresh(c)' /\ Waits(c)'
  <2>1. Connecting(c)' = Connecting(c)
    BY <1>2 DEF Connecting
  <2>2. QED BY <1>1, <1>2, <1>5, <1>6, <2>1 DEF CallWatch, Fresh, Waits
<1>8. Bridged(c)'
  <2> SUFFICES ASSUME row[c] = "CONNECTED" PROVE Bridged(c)'
    BY <1>2 DEF Bridged
  <2>1. Bridged(c)
    BY <1>1 DEF CallWatch
  <2>2. CASE AppConnects(x, c)
    <3>1. media[c] # "none" /\ UNCHANGED <<appWs, initial, grace>>
      BY <2>2 DEF AppConnects, deadlines
    <3>2. DeadlineRuns(c)' = DeadlineRuns(c)
      BY <3>1 DEF DeadlineRuns
    <3>3. QED BY <1>2, <1>3, <2>1, <3>1, <3>2 DEF Bridged
  <2>3. CASE AppAttaches(x, c) /\ appWs[c] = Nobody /\ c \notin closing
    <3>1. appWs'[c] # Nobody /\ ~NoApps(c)
      BY <1>4, <2>3 DEF AppAttaches, NoApps
    <3>2. QED BY <1>2, <1>3, <2>1, <3>1 DEF Bridged
  <2>4. CASE AppAttaches(x, c) /\ ~(appWs[c] = Nobody /\ c \notin closing)
    <3>1. UNCHANGED <<appWs, initial, grace>> /\ ~NoApps(c)
      BY <2>4 DEF AppAttaches, NoApps, deadlines
    <3>2. DeadlineRuns(c)' = DeadlineRuns(c)
      BY <3>1 DEF DeadlineRuns
    <3>3. QED BY <1>2, <1>3, <2>1, <3>1, <3>2 DEF Bridged
  <2>5. CASE AppLeaves(x, c)
    <3>1. ~NoApps(c) /\ ScheduleGrace(c) /\ Unregister(x, c)
      BY <2>5 DEF AppLeaves, NoApps
    <3>2. DeadlineRuns(c) => DeadlineRuns(c)'
      BY <1>4, <3>1 DEF ScheduleGrace, DeadlineRuns
    <3>3. appWs[c] # Nobody => appWs'[c] # Nobody \/ DeadlineRuns(c)'
      BY <1>1, <1>4, <3>1 DEF ScheduleGrace, Unregister, DeadlineRuns, CallDeadlines
    <3>4. QED BY <1>2, <1>3, <2>1, <3>1, <3>2, <3>3 DEF Bridged
  <2>6. CASE AppEndsCall(x, c)
    <3>1. Ending(c)'
      BY <1>1, <2>6, BeginningEnds, TasksOfCall, CleanupsRead DEF AppEndsCall
    <3>2. QED BY <3>1 DEF Bridged
  <2>7. QED BY <2>2, <2>3, <2>4, <2>5, <2>6 DEF AppStep
<1>9. QED BY <1>3, <1>7, <1>8 DEF KeptFor, CallWatch

(* The relay dies: the rows are closed, and nobody watches or needs to.    *)
LEMMA RestartKeepsWatch ==
  ASSUME KnownInv, WatchInv, Restart
  PROVE  WatchInv'
<1>1. /\ counted' = {}
      /\ \A c \in Calls : /\ pending'[c] = "none" /\ media'[c] = "none"
                          /\ initial'[c] = "off" /\ grace'[c] = "off"
                          /\ stream'[c] = IF stream[c] = "none" THEN "none" ELSE "over"
                          /\ row'[c] = IF Open(c) THEN TerminalFor(row[c]) ELSE row[c]
                          /\ \A a \in Agents : pick'[<<a, c>>] = "idle"
                          /\ \A x \in Apps : app'[<<x, c>>] \notin {"accepting", "attached"}
      /\ \A t \in Task : todo'[t] = <<>>
  BY DEF Restart
<1>2. ASSUME NEW t \in Task PROVE TaskWatch(t)'
  BY <1>1, NothingIsOrderly, EmptySeq DEF TaskWatch, Reads, Flagged
<1>3. ASSUME NEW c \in Calls PROVE CallWatch(c)'
  <2>1. row'[c] \in Terminal \cup {"absent"} /\ (row'[c] = "absent" => row[c] = "absent")
    <3>1. row[c] \in DispatchState \cup {"absent"}
      BY DEF KnownInv, RowInv, RowTypeOK
    <3>2. QED BY <1>1, <3>1 DEF Open, TerminalFor, Terminal, DispatchState
  <2>2. Waits(c)
    BY DEF WatchInv, CallWatch
  <2>3. /\ ~Handing(c)' /\ ~Connecting(c)' /\ NoApps(c)' /\ ~DeadlineRuns(c)'
        /\ \A v \in OfCall(c) : todo'[v] = <<>>
    BY <1>1 DEF Handing, Connecting, NoApps, DeadlineRuns, OfCall
  <2>4. LockedOnce(c)'
    BY <2>3, NothingIsOrderly DEF LockedOnce, OfCall
  <2>5. Fresh(c)' /\ Waits(c)'
    BY <1>1, <2>1, <2>2, <2>3 DEF Fresh, Waits
  <2>6. QED BY <1>1, <2>1, <2>3, <2>4, <2>5
         DEF CallWatch, Served, Ringing, Started, Bridged, Registered, Terminal
<1>4. QED BY <1>2, <1>3 DEF WatchInv

\* What else is a call's own.
SameToo(d) ==
  /\ UNCHANGED <<initial[d], grace[d]>>
  /\ (d \in known') <=> (d \in known)
  /\ (d \in reported') <=> (d \in reported)
  /\ \A t \in Task : Of(t) = d => seen'[t] = seen[t]

(* A step of one call leaves the others as they are.                       *)
LEMMA StepIsLocalToo ==
  ASSUME MemoryOK, TodoInv, NEW c \in Calls, NEW d \in Calls, d # c, StepOf(c)
  PROVE  SameToo(d)
<1> USE DEF SameToo, MemoryOK, TodoInv
<1>1. ASSUME NEW t \in Task, Of(t) = c, CleanupStep(t) PROVE SameToo(d)
  <2>1. CASE CloseStream(t) \/ TearDown(t) \/ Unwound(t) \/ EnterCleanup(t) \/ SlotReturned(t)
             \/ FinishFails(t)
    BY <2>1 DEF CloseStream, TearDown, Unwound, EnterCleanup, SlotReturned, FinishFails, rest,
                deadlines, outside
  <2>2. CASE NothingToClean(t) \/ FinishStarts(t) \/ DeadlineOver(t)
    BY <1>1, <2>2 DEF NothingToClean, FinishStarts, DeadlineOver, CancelDeadlines, deadlines, rest,
                      outside
  <2>3. CASE FinishReads(t) \/ FinishWrites(t) \/ Forget(t)
    BY <1>1, <2>3 DEF FinishReads, FinishWrites, Forget, deadlines, outside
  <2>4. QED BY <1>1, <2>1, <2>2, <2>3 DEF CleanupStep
<1>2. CASE CallStep(c)
  BY <1>2 DEF CallStep, CountQueue, InsertRinging, StreamConnects, StreamStarts, StreamEnds,
         StatusCallback, EndCall, ReleaseExpiredClaim, TimeoutWaiting, InitialExpires,
         GraceExpires, rest, deadlines, tasks, outside
<1>3. ASSUME NEW a \in Agents, PickupStep(a, c) PROVE SameToo(d)
  BY <1>3 DEF PickupStep, Claim, PickupAgain, StartSession, SessionConnected, BootstrapFails,
         HandedOff, Answer, ScheduleInitial, PickupRaises, deadlines, tasks, outside
<1>4. ASSUME NEW x \in Apps, AppStep(x, c) PROVE SameToo(d)
  BY <1>4 DEF AppStep, AppConnects, AppAttaches, CancelDeadlines, AppLeaves, ScheduleGrace,
         AppEndsCall, deadlines, tasks, outside
<1>5. QED BY <1>1, <1>2, <1>3, <1>4 DEF StepOf

(* Nothing happened to a call, so it is watched as before.                 *)
LEMMA SameKeepsWatch ==
  ASSUME WatchInv, NEW d \in Calls, Same(d), SameToo(d)
  PROVE  CallWatch(d)' /\ \A v \in OfCall(d) : TaskWatch(v)'
<1>1. /\ UNCHANGED <<row[d], media[d], pending[d], stream[d], appWs[d], initial[d], grace[d]>>
      /\ (d \in counted') <=> (d \in counted)
      /\ (d \in known') <=> (d \in known)
      /\ (d \in reported') <=> (d \in reported)
      /\ \A a \in Agents : pick'[<<a, d>>] = pick[<<a, d>>]
      /\ \A x \in Apps : app'[<<x, d>>] = app[<<x, d>>]
      /\ \A v \in OfCall(d) : todo'[v] = todo[v] /\ seen'[v] = seen[v] /\ Of(v) = d /\ v \in Task
  BY DEF Same, SameToo, OfCall
<1>2. /\ Handing(d)' <=> Handing(d)
      /\ Starting(d)' <=> Starting(d)
      /\ Connecting(d)' <=> Connecting(d)
      /\ NoApps(d)' <=> NoApps(d)
      /\ DeadlineRuns(d)' <=> DeadlineRuns(d)
  BY <1>1 DEF Handing, Starting, Connecting, NoApps, DeadlineRuns
<1>3. /\ Owed(d)' = Owed(d)
      /\ AtClose(d)' <=> AtClose(d)
      /\ \A v \in OfCall(d) : Ends(v)' <=> Ends(v)
  BY <1>1 DEF Owed, AtClose, OfCall, Ends
<1>4. (Ending(d)' <=> Ending(d)) /\ (LockedOnce(d)' <=> LockedOnce(d))
  BY <1>1, <1>3 DEF Ending, OfCall, LockedOnce
<1>5. CallWatch(d)
  BY DEF WatchInv
<1>6. Fresh(d)' /\ Waits(d)' /\ Served(d)'
  BY <1>1, <1>2, <1>3, <1>5 DEF CallWatch, Fresh, Waits, Served, OfCall
<1>7. Ringing(d)' /\ Started(d)' /\ Bridged(d)' /\ Registered(d)'
  BY <1>1, <1>2, <1>3, <1>4, <1>5 DEF CallWatch, Ringing, Started, Bridged, Registered
<1>8. \A v \in OfCall(d) : TaskWatch(v)'
  BY <1>1, <1>3 DEF WatchInv, TaskWatch
<1>9. QED BY <1>4, <1>5, <1>6, <1>7, <1>8 DEF CallWatch

(* The invariant is inductive, if no statement of the database raises.     *)
LEMMA StepKeepsWatch ==
  ASSUME ~DbFails, KnownInv, WatchInv, [Next]_vars
  PROVE  WatchInv'
<1>1. ASSUME NEW c \in Calls, StepOf(c), KeptFor(c) PROVE WatchInv'
  <2>1. ASSUME NEW d \in Calls PROVE CallWatch(d)' /\ \A v \in OfCall(d) : TaskWatch(v)'
    <3>1. CASE d = c
      BY <1>1, <3>1 DEF KeptFor
    <3>2. CASE d # c
      BY <1>1, <3>2, StepIsLocal, StepIsLocalToo, SameKeepsWatch DEF KnownInv, RowInv
    <3>3. QED BY <3>1, <3>2
  <2>2. \A v \in Task : Of(v) \in Calls /\ v \in OfCall(Of(v))
    BY DEF Task, Of, OfCall
  <2>3. QED BY <2>1, <2>2 DEF WatchInv
<1>2. ASSUME NEW t \in Task, CleanupStep(t) PROVE WatchInv'
  <2>1. Of(t) \in Calls /\ StepOf(Of(t))
    BY <1>2 DEF Task, Of, StepOf
  <2>2. QED BY <1>1, <1>2, <2>1, CleanupKeepsWatch DEF KeptFor
<1>3. ASSUME NEW c \in Calls, CallStep(c) PROVE WatchInv'
  BY <1>1, <1>3, CallKeepsWatch DEF StepOf
<1>4. ASSUME NEW c \in Calls, NEW a \in Agents, PickupStep(a, c) PROVE WatchInv'
  BY <1>1, <1>4, PickupKeepsWatch DEF StepOf
<1>5. ASSUME NEW c \in Calls, NEW x \in Apps, AppStep(x, c) PROVE WatchInv'
  BY <1>1, <1>5, AppKeepsWatch DEF StepOf
<1>6. CASE UNCHANGED vars
  <2>1. ASSUME NEW d \in Calls PROVE CallWatch(d)' /\ \A v \in OfCall(d) : TaskWatch(v)'
    <3>1. Same(d) /\ SameToo(d)
      BY <1>6 DEF Same, SameToo, vars, capVars, table, rest, deadlines, tasks, outside
    <3>2. QED BY <3>1, SameKeepsWatch
  <2>2. \A v \in Task : Of(v) \in Calls /\ v \in OfCall(Of(v))
    BY DEF Task, Of, OfCall
  <2>3. QED BY <2>1, <2>2 DEF WatchInv
<1>7. QED BY <1>2, <1>3, <1>4, <1>5, <1>6, RestartKeepsWatch DEF Next

(* At the start there is no call to watch.                                 *)
LEMMA InitWatches == Init => WatchInv
<1> SUFFICES ASSUME Init PROVE WatchInv
  OBVIOUS
<1>1. ASSUME NEW t \in Task PROVE TaskWatch(t)
  BY NothingIsOrderly, EmptySeq DEF Init, TaskWatch, Reads, Flagged
<1>2. ASSUME NEW c \in Calls PROVE CallWatch(c)
  <2>1. \A t \in OfCall(c) : todo[t] = <<>>
    BY DEF Init, OfCall
  <2>2. LockedOnce(c)
    BY <2>1, NothingIsOrderly DEF LockedOnce
  <2>3. QED BY <2>1, <2>2 DEF Init, RowInit, CallWatch, Fresh, Waits, Served, Ringing, Started,
         Bridged, Registered, Handing, Connecting, NoApps, DeadlineRuns
<1>3. QED BY <1>1, <1>2 DEF WatchInv

(* Whoever will finish a row is at work on it.                             *)
LEMMA EndingCleans ==
  ASSUME TodoInv, NEW c \in Calls, Ending(c) \/ Owed(c) # {}
  PROVE  Cleaning(c)
<1>1. CASE Ending(c)
  <2>1. PICK t \in OfCall(c) : Ends(t)
    BY <1>1 DEF Ending
  <2>2. t \in Task /\ Of(t) = c /\ todo[t] # <<>>
    BY <2>1, NothingIsOrderly DEF Ends, Starts, OfCall
  <2>3. QED BY <2>2 DEF Cleaning
<1>2. QED BY <1>1, OwedTogether

(* A call never waits for nobody: while its media are registered or its    *)
(* row says CONNECTED, its agent's socket is on, or a deadline runs, or    *)
(* its pickup or its cleanup is under way; and the row of a caller who has *)
(* left is being finished, or waits where the sweeper finds it (media.py,  *)
(* run_inbound_media_stream; service.py, cleanup_call and the deadlines).  *)
(* It supposes that no statement of the database raises: the one that      *)
(* connects the row after the session was started leaves the call          *)
(* registered without a deadline.                                          *)
THEOREM CallsAreWatched == ASSUME ~DbFails PROVE Spec => []CallIsWatched
<1>1. KnownInv /\ WatchInv /\ [Next]_vars => WatchInv'
  BY StepKeepsWatch
<1>2. KnownInv /\ WatchInv => CallIsWatched
  <2> SUFFICES ASSUME KnownInv, WatchInv, NEW c \in Calls
               PROVE  /\ stream[c] = "over" /\ row[c] \notin Terminal =>
                           \/ Cleaning(c) \/ PickingUp(c) \/ DeadlineRuns(c)
                           \/ row[c] \in {"WAITING_FOR_AGENT", "CLAIMED"}
                      /\ media[c] = "registered" =>
                           appWs[c] # Nobody \/ DeadlineRuns(c) \/ PickingUp(c) \/ Cleaning(c)
                      /\ row[c] = "CONNECTED" =>
                           appWs[c] # Nobody \/ DeadlineRuns(c) \/ Cleaning(c)
    BY DEF CallIsWatched, GoneCallerIsFinished
  <2>1. CallWatch(c) /\ row[c] \in DispatchState \cup {"absent"}
    BY DEF WatchInv, KnownInv, RowInv, RowTypeOK
  <2>2. (Ending(c) \/ Owed(c) # {} => Cleaning(c)) /\ (Handing(c) \/ Starting(c) => PickingUp(c))
    BY EndingCleans DEF KnownInv, Handing, Starting, Starters, PickingUp
  <2>3. row[c] = "CONNECTED" => appWs[c] # Nobody \/ DeadlineRuns(c) \/ Cleaning(c)
    BY <2>1, <2>2 DEF CallWatch, Bridged
  <2>4. media[c] = "registered" =>
          appWs[c] # Nobody \/ DeadlineRuns(c) \/ PickingUp(c) \/ Cleaning(c)
    BY <2>1, <2>2, <2>3 DEF CallWatch, Registered
  <2>5. ASSUME stream[c] = "over", row[c] \notin Terminal
        PROVE  \/ Cleaning(c) \/ PickingUp(c) \/ DeadlineRuns(c)
               \/ row[c] \in {"WAITING_FOR_AGENT", "CLAIMED"}
    <3>1. row[c] = "RINGING" => Cleaning(c)
      BY <2>1, <2>2, <2>5 DEF CallWatch, Ringing
    <3>2. row[c] = "SESSION_STARTING" => Cleaning(c) \/ PickingUp(c)
      BY <2>1, <2>2 DEF CallWatch, Started
    <3>3. row[c] = "CONNECTED" => Cleaning(c) \/ DeadlineRuns(c)
      BY <2>1, <2>2, <2>5 DEF CallWatch, Bridged
    <3>4. row[c] # "absent"
      BY <2>1, <2>5 DEF CallWatch, Waits
    <3>5. QED BY <2>1, <2>5, <3>1, <3>2, <3>3, <3>4 DEF DispatchState, Preconnected
  <2>6. QED BY <2>3, <2>4, <2>5
<1>3. QED BY <1>1, <1>2, InitWatches, RowsHold, AgentsHold, DeadlinesHold, CallsHold, PTL
       DEF Spec, KnownInv

=============================================================================
