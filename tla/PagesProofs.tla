---------------------------- MODULE PagesProofs ----------------------------
(***************************************************************************)
(* The pages.                                                              *)
(***************************************************************************)
EXTENDS Pages, FiniteSetTheorems, SequenceTheorems, Integers, TLAPS

----------------------------------------------------------------------------
(* Induction over the naturals, from the pigeonhole principle: if a set of *)
(* naturals had no least element, the numbers below all of it could be     *)
(* mapped one to one onto fewer of themselves.                             *)
LEMMA LeastElement ==
  ASSUME NEW T, T \subseteq Nat, T # {}
  PROVE  \E m \in T : \A k \in T : m <= k
<1> SUFFICES ASSUME \A m \in T : \E k \in T : k < m PROVE FALSE
  OBVIOUS
<1>1. PICK n \in T : TRUE
  OBVIOUS
<1> DEFINE D == {i \in 0..n : \A k \in T : i < k}
           next == [i \in D |-> i + 1]
<1>2. IsFiniteSet(D)
  <2>1. IsFiniteSet(0..n)
    BY <1>1, FS_Interval
  <2>2. QED BY <2>1, FS_Subset
<1>3. 0 \in D
  <2>1. \A k \in T : 0 < k
    OBVIOUS
  <2>2. QED BY <1>1, <2>1
<1>4. \A i \in D : i + 1 \in D \ {0}
  <2> TAKE i \in D
  <2>1. \A k \in T : i + 1 <= k
    OBVIOUS
  <2>2. i + 1 \notin T
    BY <2>1
  <2>3. \A k \in T : i + 1 < k
    BY <2>1, <2>2
  <2>4. QED BY <1>1, <2>3
<1>5. IsFiniteSet(D \ {0}) /\ Cardinality(D \ {0}) = Cardinality(D) - 1
  BY <1>2, <1>3, FS_RemoveElement
<1>6. Cardinality(D) \in Nat
  BY <1>2, FS_CardinalityType
<1>7. next \in [D -> D \ {0}]
  BY <1>4
<1>8. PICK i \in D, j \in D : i # j /\ next[i] = next[j]
  <2> HIDE DEF D, next
  <2>1. QED BY <1>2, <1>5, <1>6, <1>7, FS_PigeonHole
<1>9. QED BY <1>8

LEMMA SetInduction ==
  ASSUME NEW P, 0 \in P, \A i \in Nat : i \in P => i + 1 \in P
  PROVE  Nat \subseteq P
<1> DEFINE T == Nat \ P
<1> SUFFICES ASSUME T # {} PROVE FALSE
  OBVIOUS
<1>1. PICK m \in T : \A k \in T : m <= k
  <2> HIDE DEF T
  <2>1. T \subseteq Nat
    BY DEF T
  <2>2. QED BY <2>1, LeastElement
<1>2. m - 1 \in Nat /\ m - 1 \in P
  BY <1>1
<1>3. (m - 1) + 1 \in P
  BY <1>2
<1>4. QED BY <1>1, <1>3

----------------------------------------------------------------------------
(* What React runs at a render: the updaters in the queue, one after the   *)
(* other, as a run from the bubbles as they are.                           *)

\* The function FoldLeft chooses: the fold over each set of positions of q.
Folds(c, q, g) ==
  g = [s \in SUBSET DOMAIN q |-> IF s = {} THEN c ELSE Paired(g[s \ {Max(s)}], q[Max(s)])]

LEMMA MaxIs ==
  ASSUME NEW s, NEW m \in s, s \subseteq Int, \A i \in s : i <= m
  PROVE  Max(s) = m
<1>1. \E x \in s : \A y \in s : x >= y
  OBVIOUS
<1>2. Max(s) \in s /\ \A y \in s : Max(s) >= y
  BY <1>1, Zenon DEF Max
<1>3. Max(s) >= m /\ m >= Max(s) /\ Max(s) \in Int /\ m \in Int
  BY <1>2
<1>4. QED BY <1>3

(* A set of naturals below a bound has its Max.                            *)
LEMMA MaxOfNaturals ==
  ASSUME NEW n \in Nat, NEW s \in SUBSET (1..n), s # {}
  PROVE  Max(s) \in s
<1> DEFINE T == {n - i : i \in s}
<1>0. \A i \in s : i \in Int /\ i <= n /\ n - i \in T
  OBVIOUS
<1>1. PICK m \in T : \A k \in T : m <= k
  <2>1. T \subseteq Nat /\ T # {}
    <3>1. \A k \in T : k \in Nat
      OBVIOUS
    <3>2. QED BY <1>0, <3>1
  <2> HIDE DEF T
  <2>2. QED BY <2>1, LeastElement
<1>2. PICK x \in s : m = n - x
  BY <1>1
<1>3. \A i \in s : i <= x
  <2> TAKE i \in s
  <2>1. n - x <= n - i
    BY <1>0, <1>1, <1>2
  <2>2. QED BY <1>0, <2>1
<1>4. Max(s) = x
  <2>1. s \subseteq Int
    OBVIOUS
  <2>2. QED BY <1>3, <2>1, MaxIs
<1>5. QED BY <1>4

LEMMA FoldExists ==
  ASSUME NEW c, NEW q, NEW n \in Nat, DOMAIN q = 1..n
  PROVE  \E g : Folds(c, q, g)
<1> DEFINE D(k) == SUBSET (1..k)
           Upto(k, g) == g = [s \in D(k) |-> IF s = {} THEN c ELSE Paired(g[s \ {Max(s)}], q[Max(s)])]
           P == {k \in Nat : \E g : Upto(k, g)}
<1>1. 0 \in P
  <2>1. 1..0 = {}
    OBVIOUS
  <2>2. D(0) = {{}}
    BY <2>1
  <2>3. Upto(0, [s \in D(0) |-> c])
    BY <2>2
  <2>4. QED BY <2>3
<1>2. ASSUME NEW k \in Nat, k \in P PROVE k + 1 \in P
  <2>1. PICK g : Upto(k, g)
    BY <1>2
  <2> DEFINE h == [s \in D(k + 1) |-> IF k + 1 \in s THEN Paired(g[s \ {k + 1}], q[k + 1]) ELSE g[s]]
  <2>2. ASSUME NEW s \in D(k + 1)
        PROVE  h[s] = IF s = {} THEN c ELSE Paired(h[s \ {Max(s)}], q[Max(s)])
    <3>1. CASE k + 1 \in s
      <4>1. Max(s) = k + 1
        <5>1. s \subseteq Int /\ \A i \in s : i <= k + 1
          OBVIOUS
        <5>2. QED BY <3>1, <5>1, MaxIs
      <4>2. s \ {k + 1} \in D(k + 1) /\ k + 1 \notin s \ {k + 1}
        OBVIOUS
      <4>3. h[s \ {k + 1}] = g[s \ {k + 1}]
        BY <4>2
      <4>4. QED BY <3>1, <4>1, <4>3
    <3>2. CASE k + 1 \notin s
      <4>1. s \in D(k)
        BY <3>2
      <4>2. g[s] = IF s = {} THEN c ELSE Paired(g[s \ {Max(s)}], q[Max(s)])
        BY <2>1, <4>1
      <4>3. s \ {Max(s)} \in D(k + 1) /\ k + 1 \notin s \ {Max(s)}
        BY <3>2
      <4>4. QED BY <3>2, <4>2, <4>3
    <3>3. QED BY <3>1, <3>2
  <2> HIDE DEF D
  <2>3. Upto(k + 1, h)
    <3> DEFINE e(s) == IF s = {} THEN c ELSE Paired(h[s \ {Max(s)}], q[Max(s)])
    <3>1. h = [s \in D(k + 1) |-> h[s]]
      OBVIOUS
    <3>2. \A s \in D(k + 1) : h[s] = e(s)
      BY <2>2
    <3> HIDE DEF h, e
    <3>3. h = [s \in D(k + 1) |-> e(s)]
      BY <3>1, <3>2
    <3>4. QED BY <3>3 DEF e
  <2> HIDE DEF Upto, h
  <2>4. \E f : Upto(k + 1, f)
    BY <2>3
  <2>5. QED BY <2>4
<1>3. n \in P
  <2> HIDE DEF P
  <2>1. Nat \subseteq P
    BY <1>1, <1>2, SetInduction
  <2>2. QED BY <2>1
<1>4. QED BY <1>3 DEF Folds

LEMMA FoldIsRun ==
  ASSUME NEW c, NEW q, NEW n \in Nat, DOMAIN q = 1..n
  PROVE  \E run : /\ run[0] = c
                  /\ \A k \in 0..(n - 1) : run[k + 1] = Paired(run[k], q[k + 1])
                  /\ run[n] = FoldLeft(Paired, c, q)
<1> DEFINE g == CHOOSE h : Folds(c, q, h)
           run == [k \in 0..n |-> g[1..k]]
<1>1. Folds(c, q, g)
  BY FoldExists
<1>2. FoldLeft(Paired, c, q) = g[DOMAIN q]
  BY DEF FoldLeft, MapThenFoldSet, Folds
<1> HIDE DEF g
<1>3. run[0] = c
  BY <1>1 DEF Folds
<1>4. ASSUME NEW k \in 0..(n - 1) PROVE run[k + 1] = Paired(run[k], q[k + 1])
  <2>1. 1..(k + 1) \subseteq DOMAIN q /\ k + 1 \in 1..(k + 1)
    OBVIOUS
  <2>2. Max(1..(k + 1)) = k + 1
    <3>1. 1..(k + 1) \subseteq Int /\ \A i \in 1..(k + 1) : i <= k + 1
      OBVIOUS
    <3>2. QED BY <2>1, <3>1, MaxIs
  <2>3. (1..(k + 1)) \ {k + 1} = 1..k
    <3>1. \A i : i \in (1..(k + 1)) \ {k + 1} <=> i \in 1..k
      OBVIOUS
    <3>2. QED BY <3>1
  <2>4. run[k] = g[1..k] /\ run[k + 1] = g[1..(k + 1)]
    OBVIOUS
  <2> HIDE DEF run
  <2>5. g[1..(k + 1)] = Paired(g[(1..(k + 1)) \ {k + 1}], q[k + 1])
    BY <1>1, <2>1, <2>2 DEF Folds
  <2>6. QED BY <2>3, <2>4, <2>5
<1>5. run[n] = FoldLeft(Paired, c, q)
  BY <1>2
<1> HIDE DEF run
<1>6. QED BY <1>3, <1>4, <1>5

----------------------------------------------------------------------------
(* The bubbles: each piece in one of them at most, and only with its voice *)

PieceRecord == [voice : Voices, turn : Nat, part : Parts, delta : Nat]
Bubble == [voice : Voices, original : SUBSET PieceRecord,
           translation : SUBSET PieceRecord]
CaptionRecord == [bubbles : Seq(Bubble), open : [Voices -> Nat],
                  queue : Seq(PieceRecord), dirty : BOOLEAN]

Inside(b) == b.original \cup b.translation
Told(c)   == UNION {Inside(c.bubbles[i]) : i \in DOMAIN c.bubbles}
Sorted(b) == \A p \in PieceRecord :
               /\ p \in b.original => p.part = "original" /\ p.voice = b.voice
               /\ p \in b.translation => p.part = "translation" /\ p.voice = b.voice
Kept(c) ==
  /\ c \in CaptionRecord
  /\ \A v \in Voices : c.open[v] # 0 =>
       c.open[v] \in DOMAIN c.bubbles /\ c.bubbles[c.open[v]].voice = v
  /\ \A i \in DOMAIN c.bubbles : Sorted(c.bubbles[i])
  /\ \A i, j \in DOMAIN c.bubbles :
       Inside(c.bubbles[i]) \cap Inside(c.bubbles[j]) # {} => i = j

\* The bubble at position i is b, all the others are as in c.
Puts(c, d, i, b) ==
  /\ d \in CaptionRecord /\ b \in Bubble
  /\ i \in DOMAIN d.bubbles /\ d.bubbles[i] = b
  /\ DOMAIN d.bubbles = DOMAIN c.bubbles \cup {i}
  /\ \A j \in DOMAIN c.bubbles \ {i} : d.bubbles[j] = c.bubbles[j]

(* The updater of setCaptions puts one piece in one bubble of its voice.   *)
LEMMA PairingPuts ==
  ASSUME NEW c, Kept(c), NEW p \in PieceRecord, p \notin Told(c)
  PROVE  \E i \in Nat \ {0}, b \in Bubble :
           /\ Puts(c, Paired(c, p), i, b) /\ Sorted(b) /\ b.voice = p.voice
           /\ Inside(b) = {p} \cup (IF i \in DOMAIN c.bubbles THEN Inside(c.bubbles[i]) ELSE {})
           /\ i \in DOMAIN c.bubbles => c.bubbles[i].voice = p.voice
           /\ Paired(c, p).open = IF p.part = "translation" THEN [c.open EXCEPT ![p.voice] = i] ELSE c.open
           /\ Paired(c, p).queue = c.queue /\ Paired(c, p).dirty = c.dirty
<1> DEFINE at == Place(c, p)
           d == Paired(c, p)
<1>1. /\ c \in CaptionRecord /\ c.bubbles \in Seq(Bubble) /\ DOMAIN c.bubbles = 1..Len(c.bubbles)
      /\ Len(c.bubbles) \in Nat
      /\ p.voice \in Voices /\ p.part \in {"original", "translation"}
  BY DEF Kept, CaptionRecord, PieceRecord, Parts
<1>2. /\ at \in 1..(Len(c.bubbles) + 1)
      /\ at <= Len(c.bubbles) => c.bubbles[at].voice = p.voice
      /\ at <= Len(c.bubbles) /\ ~Joins(c, p) => c.bubbles[at][p.part] = {}
  <2>1. CASE Joins(c, p)
    BY <1>1, <2>1 DEF Kept, Joins, Place
  <2>2. CASE ~Joins(c, p) /\ Lacking(c, p) # {}
    <3>1. Lacking(c, p) \subseteq 1..Len(c.bubbles)
      BY <1>1 DEF Lacking
    <3>2. Max(Lacking(c, p)) \in Lacking(c, p)
      BY <1>1, <2>2, <3>1, MaxOfNaturals
    <3>3. at = Max(Lacking(c, p))
      BY <2>2 DEF Place
    <3>4. at \in Lacking(c, p)
      BY <3>2, <3>3
    <3> HIDE DEF at
    <3>5. QED BY <1>1, <3>1, <3>4 DEF Lacking
  <2>3. CASE ~Joins(c, p) /\ Lacking(c, p) = {}
    BY <1>1, <2>3 DEF Place
  <2>4. QED BY <2>1, <2>2, <2>3
<1> HIDE DEF at
<1> DEFINE bubbles == IF at > Len(c.bubbles) THEN Append(c.bubbles, NewBubble(p))
             ELSE [c.bubbles EXCEPT ![at] = Filled(c.bubbles[at], p, Joins(c, p))]
<1> DEFINE open == [c.open EXCEPT ![p.voice] = IF p.part = "translation" THEN at ELSE c.open[p.voice]]
<1>3. d = [c EXCEPT !.bubbles = bubbles, !.open = open]
  BY DEF Paired, at
<1> HIDE DEF bubbles, open, d
<1>3a. /\ d.bubbles = bubbles /\ d.queue = c.queue /\ d.dirty = c.dirty /\ d.open = open
      /\ d = [bubbles |-> d.bubbles, open |-> d.open, queue |-> d.queue, dirty |-> d.dirty]
  BY <1>1, <1>3 DEF CaptionRecord
<1>3b. open = IF p.part = "translation" THEN [c.open EXCEPT ![p.voice] = at] ELSE c.open
  BY <1>1 DEF open, CaptionRecord
<1>4. CASE at > Len(c.bubbles)
  <2> DEFINE b == NewBubble(p)
  <2>1. /\ b \in Bubble /\ Sorted(b) /\ b.voice = p.voice /\ Inside(b) = {p}
    BY <1>1 DEF NewBubble, Bubble, Sorted, Inside, PieceRecord
  <2>2. at \notin DOMAIN c.bubbles /\ at = Len(c.bubbles) + 1
    BY <1>1, <1>2, <1>4
  <2>3. bubbles = Append(c.bubbles, b)
    BY <1>4 DEF bubbles
  <2> HIDE DEF b
  <2>4. /\ bubbles \in Seq(Bubble) /\ DOMAIN bubbles = 1..(Len(c.bubbles) + 1) /\ bubbles[at] = b
        /\ \A j \in 1..Len(c.bubbles) : bubbles[j] = c.bubbles[j]
    BY <1>1, <2>1, <2>2, <2>3
  <2>5. d \in CaptionRecord
    BY <1>1, <1>2, <1>3a, <1>3b, <2>4 DEF CaptionRecord
  <2>6. Puts(c, d, at, b)
    <3>1. DOMAIN d.bubbles = DOMAIN c.bubbles \cup {at}
      BY <1>1, <1>2, <1>3a, <2>1, <2>2, <2>4
    <3>2. \A j \in DOMAIN c.bubbles \ {at} : d.bubbles[j] = c.bubbles[j]
      BY <1>1, <1>3a, <2>4
    <3>3. at \in DOMAIN d.bubbles /\ d.bubbles[at] = b
      BY <1>3a, <2>4, <3>1
    <3>4. QED BY <2>1, <2>2, <2>5, <3>1, <3>2, <3>3 DEF Puts
  <2>7. /\ Puts(c, d, at, b) /\ Sorted(b) /\ b.voice = p.voice
        /\ Inside(b) = {p} \cup (IF at \in DOMAIN c.bubbles THEN Inside(c.bubbles[at]) ELSE {})
        /\ at \in DOMAIN c.bubbles => c.bubbles[at].voice = p.voice
        /\ d.open = IF p.part = "translation" THEN [c.open EXCEPT ![p.voice] = at] ELSE c.open
        /\ d.queue = c.queue /\ d.dirty = c.dirty
    BY <1>2, <1>3a, <1>3b, <2>1, <2>2, <2>6
  <2>8. at \in Nat \ {0} /\ b \in Bubble
    BY <1>1, <1>2, <2>1, <2>2
  <2>9. QED BY <2>7, <2>8 DEF d
<1>5. CASE at <= Len(c.bubbles)
  <2> DEFINE b == Filled(c.bubbles[at], p, Joins(c, p))
  <2>1. at \in DOMAIN c.bubbles /\ c.bubbles[at] \in Bubble /\ Sorted(c.bubbles[at])
    BY <1>1, <1>2, <1>5 DEF Kept
  <2>2. /\ b \in Bubble /\ Sorted(b) /\ b.voice = p.voice
        /\ Inside(b) = {p} \cup Inside(c.bubbles[at])
    <3>1. c.bubbles[at].voice = p.voice
      BY <1>2, <1>5
    <3>2. CASE p.part = "original"
      <4>1. b = [c.bubbles[at] EXCEPT !.original = {p}] /\ c.bubbles[at].original = {}
        BY <1>2, <1>5, <2>1, <3>2 DEF Filled, Joins, Bubble
      <4> HIDE DEF b
      <4>2. QED BY <2>1, <3>1, <3>2, <4>1 DEF Bubble, Sorted, Inside
    <3>3. CASE p.part = "translation"
      <4>1. /\ b = [c.bubbles[at] EXCEPT !.translation = IF Joins(c, p) THEN @ \cup {p} ELSE {p}]
            /\ ~Joins(c, p) => c.bubbles[at].translation = {}
        BY <1>2, <1>5, <2>1, <3>3 DEF Filled, Bubble
      <4> HIDE DEF b
      <4>2. QED BY <2>1, <3>1, <3>3, <4>1 DEF Bubble, Sorted, Inside
    <3>4. QED BY <1>1, <3>2, <3>3
  <2>3. bubbles = [c.bubbles EXCEPT ![at] = b]
    BY <1>1, <1>2, <1>5 DEF bubbles
  <2> HIDE DEF b
  <2>4. /\ bubbles \in Seq(Bubble) /\ DOMAIN bubbles = DOMAIN c.bubbles /\ bubbles[at] = b
        /\ \A j \in 1..Len(c.bubbles) : j # at => bubbles[j] = c.bubbles[j]
    BY <1>1, <2>1, <2>2, <2>3
  <2>5. d \in CaptionRecord
    BY <1>1, <1>2, <1>3a, <1>3b, <2>4 DEF CaptionRecord
  <2>6. Puts(c, d, at, b)
    <3>1. DOMAIN d.bubbles = DOMAIN c.bubbles \cup {at}
      BY <1>1, <1>2, <1>3a, <2>1, <2>2, <2>4
    <3>2. \A j \in DOMAIN c.bubbles \ {at} : d.bubbles[j] = c.bubbles[j]
      BY <1>1, <1>3a, <2>4
    <3>3. at \in DOMAIN d.bubbles /\ d.bubbles[at] = b
      BY <1>3a, <2>4, <3>1
    <3>4. QED BY <2>1, <2>2, <2>5, <3>1, <3>2, <3>3 DEF Puts
  <2>7. /\ Puts(c, d, at, b) /\ Sorted(b) /\ b.voice = p.voice
        /\ Inside(b) = {p} \cup (IF at \in DOMAIN c.bubbles THEN Inside(c.bubbles[at]) ELSE {})
        /\ at \in DOMAIN c.bubbles => c.bubbles[at].voice = p.voice
        /\ d.open = IF p.part = "translation" THEN [c.open EXCEPT ![p.voice] = at] ELSE c.open
        /\ d.queue = c.queue /\ d.dirty = c.dirty
    BY <1>2, <1>3a, <1>3b, <1>5, <2>1, <2>2, <2>6
  <2>8. at \in Nat \ {0} /\ b \in Bubble
    BY <1>1, <1>2, <2>1, <2>2
  <2>9. QED BY <2>7, <2>8 DEF d
<1>6. at > Len(c.bubbles) \/ at <= Len(c.bubbles)
  BY <1>1, <1>2
<1>7. QED BY <1>4, <1>5, <1>6

(* Putting the piece keeps the bubbles sorted and the piece once.          *)
LEMMA PairingKeeps ==
  ASSUME NEW c, Kept(c), NEW p \in PieceRecord, p \notin Told(c)
  PROVE  /\ Kept(Paired(c, p)) /\ Told(Paired(c, p)) = Told(c) \cup {p}
         /\ Paired(c, p).queue = c.queue /\ Paired(c, p).dirty = c.dirty
<1> DEFINE d == Paired(c, p)
<1>1. PICK i \in Nat \ {0}, b \in Bubble :
        /\ Puts(c, d, i, b) /\ Sorted(b) /\ b.voice = p.voice
        /\ Inside(b) = {p} \cup (IF i \in DOMAIN c.bubbles THEN Inside(c.bubbles[i]) ELSE {})
        /\ i \in DOMAIN c.bubbles => c.bubbles[i].voice = p.voice
        /\ d.open = IF p.part = "translation" THEN [c.open EXCEPT ![p.voice] = i] ELSE c.open
        /\ d.queue = c.queue /\ d.dirty = c.dirty
  BY PairingPuts
<1> HIDE DEF d
<1>2. c \in CaptionRecord /\ c.open \in [Voices -> Nat] /\ p.voice \in Voices
  BY DEF Kept, CaptionRecord, PieceRecord
<1>3. \A j \in DOMAIN c.bubbles : p \notin Inside(c.bubbles[j])
  BY DEF Told
<1>4. \A j \in DOMAIN d.bubbles :
        \/ j = i /\ d.bubbles[j] = b
        \/ j # i /\ j \in DOMAIN c.bubbles /\ d.bubbles[j] = c.bubbles[j]
  BY <1>1 DEF Puts
<1>5. /\ DOMAIN d.bubbles = DOMAIN c.bubbles \cup {i} /\ d.bubbles[i] = b
      /\ \A j \in DOMAIN c.bubbles : d.bubbles[j].voice = c.bubbles[j].voice
  BY <1>1 DEF Puts
<1>6. \A j, k \in DOMAIN d.bubbles :
        Inside(d.bubbles[j]) \cap Inside(d.bubbles[k]) # {} => j = k
  <2> SUFFICES ASSUME NEW j \in DOMAIN d.bubbles, NEW k \in DOMAIN d.bubbles,
                      NEW q \in Inside(d.bubbles[j]), q \in Inside(d.bubbles[k]), j # k
               PROVE  FALSE
    OBVIOUS
  <2>1. \A j1, k1 \in DOMAIN c.bubbles : q \in Inside(c.bubbles[j1]) /\ q \in Inside(c.bubbles[k1]) => j1 = k1
    BY DEF Kept
  <2>2. CASE j = i
    BY <1>1, <1>3, <1>4, <2>1, <2>2
  <2>3. CASE k = i
    BY <1>1, <1>3, <1>4, <2>1, <2>3
  <2>4. CASE j # i /\ k # i
    BY <1>4, <2>1, <2>4
  <2>5. QED BY <2>2, <2>3, <2>4
<1>7. Told(d) = Told(c) \cup {p}
  <2>1. ASSUME NEW q \in Told(d) PROVE q \in Told(c) \cup {p}
    <3>1. PICK j \in DOMAIN d.bubbles : q \in Inside(d.bubbles[j])
      BY DEF Told
    <3>2. QED BY <1>1, <1>4, <3>1 DEF Told
  <2>2. p \in Told(d)
    BY <1>1, <1>5 DEF Told
  <2>3. ASSUME NEW q \in Told(c) PROVE q \in Told(d)
    <3>1. PICK j \in DOMAIN c.bubbles : q \in Inside(c.bubbles[j])
      BY DEF Told
    <3>2. q \in Inside(d.bubbles[j]) /\ j \in DOMAIN d.bubbles
      BY <1>1, <1>4, <1>5, <3>1
    <3>3. QED BY <3>2 DEF Told
  <2>4. QED BY <2>1, <2>2, <2>3
<1>8. \A v \in Voices :
        \/ d.open[v] = c.open[v]
        \/ p.voice = v /\ p.part = "translation" /\ d.open[v] = i
  <2>1. CASE p.part = "translation"
    <3>1. d.open = [c.open EXCEPT ![p.voice] = i]
      BY <1>1, <2>1
    <3>2. QED BY <1>2, <2>1, <3>1
  <2>2. CASE p.part # "translation"
    BY <1>1, <2>2
  <2>3. QED BY <2>1, <2>2
<1>9. Kept(d)
  <2>1. \A v \in Voices : d.open[v] # 0 => d.open[v] \in DOMAIN d.bubbles /\ d.bubbles[d.open[v]].voice = v
    BY <1>1, <1>5, <1>8 DEF Kept
  <2>2. \A j \in DOMAIN d.bubbles : Sorted(d.bubbles[j])
    BY <1>1, <1>4 DEF Kept
  <2>3. d \in CaptionRecord
    BY <1>1 DEF Puts
  <2>4. QED BY <1>6, <2>1, <2>2, <2>3 DEF Kept
<1>10. QED BY <1>1, <1>7, <1>9 DEF d

\* What the observer has of the pieces that were heard: each is told once,
\* or waits once.
InQueue(c) == {c.queue[j] : j \in DOMAIN c.queue}
Distinct(c) == \A i, j \in DOMAIN c.queue : c.queue[i] = c.queue[j] => i = j
CaptionInv(c, heard) ==
  /\ Kept(c) /\ Distinct(c)
  /\ Told(c) \cap InQueue(c) = {}
  /\ heard = Told(c) \cup InQueue(c)

(* A render runs every updater in the queue, each on a piece not yet told. *)
LEMMA RenderKeeps ==
  ASSUME NEW c, NEW heard, CaptionInv(c, heard)
  PROVE  CaptionInv(Rendered(c), heard)
<1> DEFINE q == c.queue
           n == Len(q)
           r == FoldLeft(Paired, c, q)
<1>1. /\ c \in CaptionRecord /\ q \in Seq(PieceRecord) /\ n \in Nat /\ DOMAIN q = 1..n
      /\ Kept(c) /\ Distinct(c)
      /\ Told(c) \cap InQueue(c) = {} /\ heard = Told(c) \cup InQueue(c)
  BY DEF CaptionInv, Kept, CaptionRecord
<1>2. PICK run : /\ run[0] = c
                 /\ \A k \in 0..(n - 1) : run[k + 1] = Paired(run[k], q[k + 1])
                 /\ run[n] = FoldLeft(Paired, c, q)
  <2> HIDE DEF n, q
  <2>1. QED BY <1>1, FoldIsRun
<1> DEFINE J(k) ==
      /\ Kept(run[k]) /\ run[k].queue = q
      /\ Told(run[k]) = Told(c) \cup {q[j] : j \in 1..k}
           P == {k \in Nat : k <= n => J(k)}
<1>3. 0 \in P
  BY <1>1, <1>2
<1>4. ASSUME NEW k \in Nat, k \in P PROVE k + 1 \in P
  <2> SUFFICES ASSUME k + 1 <= n PROVE J(k + 1)
    OBVIOUS
  <2> DEFINE a == run[k]
             p == q[k + 1]
  <2>1. J(k) /\ k \in 0..(n - 1) /\ k + 1 \in 1..n
    BY <1>1, <1>4
  <2>2. run[k + 1] = Paired(a, p)
    BY <1>2, <2>1
  <2>3. p \in PieceRecord /\ p \in InQueue(c)
    BY <1>1, <2>1 DEF InQueue
  <2>4. p \notin Told(a)
    <3>1. p \notin Told(c)
      BY <1>1, <2>3
    <3>2. \A j \in 1..k : q[j] # p
      BY <1>1, <2>1 DEF Distinct
    <3>3. QED BY <2>1, <3>1, <3>2
  <2> HIDE DEF a, p
  <2>5. /\ Kept(Paired(a, p)) /\ Told(Paired(a, p)) = Told(a) \cup {p}
        /\ Paired(a, p).queue = a.queue
    BY <2>1, <2>3, <2>4, PairingKeeps DEF a
  <2>6. Told(run[k + 1]) = Told(c) \cup {q[j] : j \in 1..(k + 1)}
    <3>1. {q[j] : j \in 1..(k + 1)} = {q[j] : j \in 1..k} \cup {p}
      <4>1. \A j : j \in 1..(k + 1) <=> j \in 1..k \/ j = k + 1
        OBVIOUS
      <4>2. QED BY <4>1 DEF p
    <3>2. QED BY <2>1, <2>2, <2>5, <3>1 DEF a
  <2>7. QED BY <2>1, <2>2, <2>5, <2>6 DEF a
<1>5. J(n)
  <2> HIDE DEF P, J, n
  <2>1. Nat \subseteq P
    BY <1>3, <1>4, SetInduction
  <2>2. QED BY <1>1, <2>1 DEF P
<1>6. Kept(r) /\ Told(r) = Told(c) \cup InQueue(c)
  BY <1>1, <1>2, <1>5 DEF InQueue
<1> HIDE DEF r
<1> DEFINE d == Rendered(c)
<1>7. d = [r EXCEPT !.queue = <<>>, !.dirty = FALSE]
  BY DEF Rendered, r
<1>8. d \in CaptionRecord /\ d.bubbles = r.bubbles /\ d.open = r.open /\ d.queue = <<>>
  <2>1. r \in CaptionRecord
    BY <1>6 DEF Kept
  <2>2. <<>> \in Seq(PieceRecord)
    OBVIOUS
  <2>3. QED BY <1>7, <2>1, <2>2 DEF CaptionRecord
<1> HIDE DEF d
<1>9. Kept(d) /\ Told(d) = Told(r) /\ InQueue(d) = {} /\ Distinct(d)
  <2>1. DOMAIN d.queue = {}
    BY <1>8
  <2>2. InQueue(d) = {} /\ Distinct(d)
    BY <2>1 DEF InQueue, Distinct
  <2>3. Kept(d)
    BY <1>6, <1>8 DEF Kept
  <2>4. Told(d) = Told(r)
    BY <1>8 DEF Told
  <2>5. QED BY <2>2, <2>3, <2>4
<1>10. CaptionInv(d, heard)
  BY <1>1, <1>6, <1>9 DEF CaptionInv
<1>11. QED BY <1>10 DEF d

(* A piece that was not heard before is put in a bubble, or in the queue.  *)
LEMMA PieceKeeps ==
  ASSUME NEW c, NEW heard, CaptionInv(c, heard), NEW p \in PieceRecord, p \notin heard,
         NEW d \in Captioned(c, p)
  PROVE  CaptionInv(d, heard \cup {p})
<1>1. /\ c \in CaptionRecord /\ c.queue \in Seq(PieceRecord) /\ Len(c.queue) \in Nat
      /\ DOMAIN c.queue = 1..Len(c.queue) /\ Kept(c) /\ Distinct(c)
      /\ Told(c) \cap InQueue(c) = {} /\ heard = Told(c) \cup InQueue(c)
  BY DEF CaptionInv, Kept, CaptionRecord
<1>2. p \notin Told(c) /\ p \notin InQueue(c)
  BY <1>1
<1>3. CASE d = [c EXCEPT !.queue = Append(@, p), !.dirty = TRUE]
  <2> DEFINE q == Append(c.queue, p)
  <2>1. d \in CaptionRecord /\ d.bubbles = c.bubbles /\ d.open = c.open /\ d.queue = q
    <3>1. q \in Seq(PieceRecord)
      BY <1>1
    <3>2. d = [c EXCEPT !.queue = q, !.dirty = TRUE]
      BY <1>3
    <3> HIDE DEF q
    <3>3. QED BY <1>1, <3>1, <3>2 DEF CaptionRecord
  <2>2. /\ DOMAIN q = 1..(Len(c.queue) + 1) /\ q[Len(c.queue) + 1] = p
        /\ \A j \in 1..Len(c.queue) : q[j] = c.queue[j]
    BY <1>1
  <2> HIDE DEF q
  <2>3. Kept(d) /\ Told(d) = Told(c)
    <3>1. Kept(d)
      BY <1>1, <2>1 DEF Kept
    <3>2. Told(d) = Told(c)
      BY <2>1 DEF Told
    <3>3. QED BY <3>1, <3>2
  <2>4. \A j \in DOMAIN q :
          \/ j = Len(c.queue) + 1 /\ q[j] = p
          \/ j \in DOMAIN c.queue /\ q[j] = c.queue[j]
    BY <1>1, <2>2
  <2>5. InQueue(d) = InQueue(c) \cup {p}
    <3>1. ASSUME NEW x \in InQueue(d) PROVE x \in InQueue(c) \cup {p}
      BY <2>1, <2>4 DEF InQueue
    <3>2. p \in InQueue(d)
      BY <1>1, <2>1, <2>2 DEF InQueue
    <3>3. ASSUME NEW x \in InQueue(c) PROVE x \in InQueue(d)
      <4>1. PICK j \in DOMAIN c.queue : x = c.queue[j]
        BY DEF InQueue
      <4>2. j \in DOMAIN d.queue /\ d.queue[j] = x
        BY <1>1, <2>1, <2>2, <4>1
      <4>3. QED BY <4>2 DEF InQueue
    <3>4. QED BY <3>1, <3>2, <3>3
  <2>6. Distinct(d)
    <3>1. \A j \in DOMAIN c.queue : c.queue[j] # p
      BY <1>2 DEF InQueue
    <3>2. QED BY <1>1, <2>1, <2>4, <3>1 DEF Distinct
  <2>7. QED BY <1>1, <1>2, <2>3, <2>5, <2>6 DEF CaptionInv
<1>4. CASE d = [Paired(c, p) EXCEPT !.dirty = TRUE]
  <2> DEFINE r == Paired(c, p)
  <2>1. Kept(r) /\ Told(r) = Told(c) \cup {p} /\ r.queue = c.queue
    BY <1>1, <1>2, PairingKeeps
  <2> HIDE DEF r
  <2>2. r \in CaptionRecord
    BY <2>1 DEF Kept
  <2>3. d \in CaptionRecord /\ d.bubbles = r.bubbles /\ d.open = r.open /\ d.queue = c.queue
    BY <1>4, <2>1, <2>2 DEF r, CaptionRecord
  <2>4. Kept(d) /\ Told(d) = Told(r) /\ InQueue(d) = InQueue(c) /\ Distinct(d)
    <3>1. Kept(d)
      BY <2>1, <2>3 DEF Kept
    <3>2. Told(d) = Told(r)
      BY <2>3 DEF Told
    <3>3. InQueue(d) = InQueue(c) /\ Distinct(d)
      BY <1>1, <2>3 DEF InQueue, Distinct
    <3>4. QED BY <3>1, <3>2, <3>3
  <2>5. QED BY <1>1, <1>2, <2>1, <2>4 DEF CaptionInv
<1>5. QED BY <1>3, <1>4 DEF Captioned

(* A turn ends: the voice's bubble is open no more.                        *)
LEMMA ClosingKeeps ==
  ASSUME NEW c, NEW heard, CaptionInv(c, heard), NEW v \in Voices,
         NEW d, d = [c EXCEPT !.open[v] = 0]
  PROVE  CaptionInv(d, heard)
<1>1. c \in CaptionRecord /\ Kept(c)
  BY DEF CaptionInv, Kept
<1>2. /\ d \in CaptionRecord /\ d.bubbles = c.bubbles /\ d.queue = c.queue
      /\ \A w \in Voices : d.open[w] = IF w = v THEN 0 ELSE c.open[w]
  BY <1>1 DEF CaptionRecord
<1>3. Kept(d) /\ Told(d) = Told(c) /\ InQueue(d) = InQueue(c)
  BY <1>1, <1>2 DEF Kept, Told, InQueue
<1>4. QED BY <1>2, <1>3 DEF CaptionInv, Distinct

----------------------------------------------------------------------------
(* The observer's screen                                                   *)

Heard == [voice : Voices, turn : 0..MaxTurns, part : Parts, delta : 1..MaxDeltas]
TalkRecord == [turn : [Voices -> Nat], heard : SUBSET Heard, messages : Nat,
               noise : Nat]
WatchRecord == [page : {"none", "loading", "live", "replay", "error"},
                status : {"connecting", "waiting", "connected", "ended"}, error : BOOLEAN,
                captions : CaptionRecord, bye : BOOLEAN, blocked : Nat]

Left == watch.status = "ended" \/ watch.error => watch.bye \/ link \in {"down", "failed"}
WatchInv ==
  /\ watch \in WatchRecord /\ talk \in TalkRecord
  /\ watch.page = "live" => CaptionInv(watch.captions, talk.heard) /\ Left
  /\ watch.page # "live" => talk = Silence /\ ~watch.captions.dirty
  /\ watch.page \in {"none", "loading"} => watch = [NoWatch EXCEPT !.page = watch.page]

LEMMA NothingHeard ==
  /\ NoBubbles \in CaptionRecord /\ Silence \in TalkRecord
  /\ NoWatch \in WatchRecord
  /\ CaptionInv(NoBubbles, {})
<1> USE DEF NoBubbles
<1>1. NoBubbles \in CaptionRecord
  BY DEF CaptionRecord
<1>2. Silence \in TalkRecord
  BY DEF Silence, TalkRecord
<1>3. NoWatch \in WatchRecord
  BY <1>1 DEF NoWatch, WatchRecord
<1>4. DOMAIN NoBubbles.bubbles = {} /\ DOMAIN NoBubbles.queue = {}
  OBVIOUS
<1>5. CaptionInv(NoBubbles, {})
  BY <1>1, <1>4 DEF CaptionInv, Kept, Distinct, Told, InQueue
<1>6. QED BY <1>1, <1>2, <1>3, <1>5

(* What is counted changes within its type.                                *)
LEMMA TalkChanges ==
  ASSUME NEW t \in TalkRecord, NEW h \in SUBSET Heard, NEW m \in Nat, NEW n \in Nat
  PROVE  /\ [t EXCEPT !.heard = h, !.messages = m] \in TalkRecord
         /\ [t EXCEPT !.messages = m, !.noise = n] \in TalkRecord
         /\ \A v \in Voices : [t EXCEPT !.turn[v] = m] \in TalkRecord
BY DEF TalkRecord

(* A new page is mounted.                                                  *)
LEMMA EnteringKeepsWatch ==
  ASSUME NEW page, NEW stray, MonitorEntered(page, stray)
  PROVE  WatchInv'
<1>1. watch' = [NoWatch EXCEPT !.page = watch'.page] /\ watch'.page \in {"none", "loading"}
  BY DEF MonitorEntered, WatchMounted, NoWatch
<1>2. talk' = Silence
  BY DEF MonitorEntered
<1>3. watch' \in WatchRecord /\ ~watch'.captions.dirty
  <2>1. watch' \in WatchRecord
    BY <1>1, NothingHeard DEF WatchRecord
  <2>2. watch'.captions = NoBubbles
    BY <1>1 DEF NoWatch
  <2>3. QED BY <2>1, <2>2 DEF NoBubbles
<1>4. QED BY <1>1, <1>2, <1>3, NothingHeard DEF WatchInv

(* The call is loaded: a live screen begins with nothing heard.            *)
LEMMA LoadingKeepsWatch ==
  ASSUME WatchInv, CallLoaded
  PROVE  WatchInv'
<1>1. /\ watch = [NoWatch EXCEPT !.page = "loading"] /\ talk = Silence /\ talk' = talk
      /\ talk \in TalkRecord
  BY DEF WatchInv, CallLoaded
<1>2. CASE watch' = [watch EXCEPT !.page = "live"]
  <2>1. /\ watch' = [NoWatch EXCEPT !.page = "live"] /\ watch'.captions = NoBubbles
        /\ watch'.status = "connecting" /\ ~watch'.error
    BY <1>1, <1>2 DEF NoWatch
  <2>2. watch' \in WatchRecord
    BY <2>1, NothingHeard DEF NoWatch, WatchRecord
  <2>3. talk'.heard = {}
    BY <1>1 DEF Silence
  <2>4. QED BY <1>1, <2>1, <2>2, <2>3, NothingHeard DEF WatchInv, Left
<1>3. CASE MonitorReplay
  <2>1. PICK saved \in transcriptToCaptions :
          watch' = [watch EXCEPT !.page = "replay", !.status = "ended", !.captions.bubbles = saved]
    BY <1>3 DEF MonitorReplay
  <2>2. saved \in Seq(Bubble)
    <3> DEFINE o == SavedPiece("caller", 1, "original")
               s == SavedPiece("caller", 1, "translation")
               b == [voice |-> "caller", original |-> {o}, translation |-> {s}]
    <3>1. o \in PieceRecord /\ s \in PieceRecord
      BY DEF SavedPiece, Piece, PieceRecord, Voices, Parts
    <3>2. saved = <<>> \/ saved = <<b>>
      BY DEF transcriptToCaptions
    <3> HIDE DEF o, s
    <3>3. b \in Bubble
      BY <3>1 DEF Bubble, Voices
    <3> HIDE DEF b
    <3>4. <<>> \in Seq(Bubble) /\ <<b>> \in Seq(Bubble)
      BY <3>3
    <3>5. QED BY <3>2, <3>4
  <2>3. watch' = [NoWatch EXCEPT !.page = "replay", !.status = "ended",
                                 !.captions = [NoBubbles EXCEPT !.bubbles = saved]]
    BY <1>1, <2>1 DEF NoWatch
  <2>4. [NoBubbles EXCEPT !.bubbles = saved] \in CaptionRecord
    BY <2>2, NothingHeard DEF NoBubbles, CaptionRecord
  <2>5. watch' \in WatchRecord /\ watch'.page = "replay" /\ ~watch'.captions.dirty
    BY <2>3, <2>4, NothingHeard DEF NoWatch, WatchRecord, NoBubbles
  <2>6. QED BY <1>1, <2>5 DEF WatchInv
<1>4. CASE watch' = [watch EXCEPT !.page = "error"]
  <2>1. watch' \in WatchRecord /\ watch'.page = "error" /\ ~watch'.captions.dirty
    BY <1>1, <1>4, NothingHeard DEF NoWatch, WatchRecord, NoBubbles
  <2>2. QED BY <1>1, <2>1 DEF WatchInv
<1>5. QED BY <1>2, <1>3, <1>4 DEF CallLoaded

(* What the relay says to a live screen.                                   *)
LEMMA SpeakingKeepsWatch ==
  ASSUME WatchInv, NEW p \in Heard, CaptionSaid(p)
  PROVE  WatchInv'
<1> DEFINE c == watch.captions
           e == CallerInterrupted(c, p)
           d == watch'.captions
<1>1. /\ watch \in WatchRecord /\ talk \in TalkRecord /\ watch.page = "live"
      /\ CaptionInv(c, talk.heard) /\ Left /\ p \in Sayable
      /\ UNCHANGED <<link, tries>>
  BY DEF WatchInv, CaptionSaid, Listening, HearsOnly, linkVars
<1>1a. p \notin talk.heard
  <2>1. CASE p.part = "original"
    BY <1>1, <2>1 DEF Sayable
  <2>2. CASE p.part = "translation"
    <3>1. \A q \in talk.heard :
            q.voice = p.voice /\ q.turn = p.turn /\ q.part = p.part => q.delta < p.delta
      BY <1>1, <2>2 DEF Sayable
    <3>2. p.delta \in Int /\ ~(p.delta < p.delta)
      BY MonitorAssumption DEF Heard
    <3>3. QED BY <3>1, <3>2
  <2>3. QED BY <2>1, <2>2 DEF Heard, Parts
<1>2. /\ d \in Captioned(e, p) /\ watch' = [watch EXCEPT !.captions = d]
  BY <1>1 DEF CaptionSaid, WatchRecord
<1>3. talk' = [talk EXCEPT !.heard = talk.heard \cup {p}, !.messages = talk.messages + 1]
  BY <1>1 DEF CaptionSaid, Says, TalkRecord
<1> HIDE DEF d
<1>4. CaptionInv(e, talk.heard)
  <2>1. CASE p.voice = "callee"
    <3>1. e = [c EXCEPT !.open["caller"] = 0]
      BY <2>1 DEF CallerInterrupted
    <3>2. "caller" \in Voices
      BY DEF Voices
    <3> HIDE DEF e, c
    <3>3. QED BY <1>1, <3>1, <3>2, ClosingKeeps
  <2>2. CASE p.voice # "callee"
    BY <1>1, <2>2 DEF CallerInterrupted
  <2>3. QED BY <2>1, <2>2
<1>5. p \in PieceRecord
  BY MonitorAssumption DEF Heard, PieceRecord
<1>6. CaptionInv(d, talk.heard \cup {p})
  <2> HIDE DEF e, c
  <2>1. QED BY <1>1, <1>1a, <1>2, <1>4, <1>5, PieceKeeps
<1>7. d \in CaptionRecord
  BY <1>6 DEF CaptionInv, Kept
<1>8. /\ watch' \in WatchRecord /\ talk' \in TalkRecord
      /\ talk'.heard = talk.heard \cup {p}
  <2>1. watch' \in WatchRecord
    BY <1>1, <1>2, <1>7 DEF WatchRecord
  <2>2. talk.heard \cup {p} \in SUBSET Heard
    BY <1>1 DEF TalkRecord
  <2> DEFINE h == talk.heard \cup {p}
  <2>3. talk' = [talk EXCEPT !.heard = h, !.messages = talk.messages + 1] /\ h \in SUBSET Heard
    BY <1>3, <2>2
  <2> HIDE DEF h
  <2>4. talk' \in TalkRecord /\ talk'.heard = h
    <3>1. talk \in TalkRecord /\ talk.messages + 1 \in Nat
      BY <1>1 DEF TalkRecord
    <3>2. talk' \in TalkRecord
      BY <2>3, <3>1, TalkChanges
    <3>3. talk'.heard = h
      BY <2>3, <3>1 DEF TalkRecord
    <3>4. QED BY <3>2, <3>3
  <2>5. QED BY <2>1, <2>4 DEF h
<1>9. /\ watch'.page = "live" /\ watch'.status = watch.status /\ watch'.error = watch.error
      /\ watch'.bye = watch.bye
  BY <1>1, <1>2 DEF WatchRecord
<1>10. Left'
  BY <1>1, <1>9 DEF Left
<1>11. QED BY <1>6, <1>8, <1>9, <1>10 DEF WatchInv, d

LEMMA RenderingKeepsWatch ==
  ASSUME WatchInv, Renders
  PROVE  WatchInv'
<1> DEFINE c == watch.captions
           d == Rendered(c)
<1>1. /\ watch \in WatchRecord /\ talk \in TalkRecord /\ watch.page = "live"
      /\ CaptionInv(c, talk.heard) /\ Left
      /\ UNCHANGED <<link, tries, talk>> /\ watch' = [watch EXCEPT !.captions = d]
  BY DEF WatchInv, Renders, HearsOnly, linkVars
<1>2. CaptionInv(d, talk.heard)
  BY <1>1, RenderKeeps
<1> HIDE DEF d
<1>3. d \in CaptionRecord
  BY <1>2 DEF CaptionInv, Kept
<1>4. /\ watch' \in WatchRecord /\ watch'.page = "live" /\ watch'.captions = d
      /\ watch'.status = watch.status /\ watch'.error = watch.error /\ watch'.bye = watch.bye
  BY <1>1, <1>3 DEF WatchRecord
<1>5. QED BY <1>1, <1>2, <1>4 DEF WatchInv, Left

(* A turn ends, heard or not.                                              *)
LEMMA TurnsKeepWatch ==
  ASSUME WatchInv, NEW v \in Voices, TurnDone(v)
  PROVE  WatchInv'
<1> DEFINE c == watch.captions
           d == Closed(v)
<1>1. /\ watch \in WatchRecord /\ talk \in TalkRecord /\ watch.page = "live"
      /\ CaptionInv(c, talk.heard) /\ Left
      /\ UNCHANGED <<link, tries>>
  BY DEF WatchInv, TurnDone, HearsOnly, linkVars
<1>2. talk' = [talk EXCEPT !.turn[v] = @ + 1]
  BY DEF TurnDone
<1>3. talk' \in TalkRecord /\ talk'.heard = talk.heard
  BY <1>1, <1>2 DEF TalkRecord
<1>4. CASE Listening
  <2>1. watch' = [watch EXCEPT !.captions = d]
    BY <1>4 DEF TurnDone
  <2>2. CaptionInv(d, talk.heard)
    BY <1>1, ClosingKeeps DEF Closed
  <2> HIDE DEF d
  <2>3. d \in CaptionRecord
    BY <2>2 DEF CaptionInv, Kept
  <2>4. /\ watch' \in WatchRecord /\ watch'.page = "live" /\ watch'.captions = d
        /\ watch'.status = watch.status /\ watch'.error = watch.error /\ watch'.bye = watch.bye
    BY <1>1, <2>1, <2>3 DEF WatchRecord
  <2>5. QED BY <1>1, <1>3, <2>2, <2>4 DEF WatchInv, Left
<1>5. CASE ~Listening
  <2>1. watch' = watch
    BY <1>5 DEF TurnDone
  <2>2. QED BY <1>1, <1>3, <2>1 DEF WatchInv, Left
<1>6. QED BY <1>4, <1>5

(* Everything else the relay says leaves the bubbles as they are.          *)
LEMMA OthersKeepWatch ==
  ASSUME WatchInv, watch.page = "live", watch' \in WatchRecord, talk' \in TalkRecord,
         watch'.page = "live", talk'.heard = talk.heard, Left',
         \/ watch'.captions = watch.captions
         \/ watch'.captions = [watch.captions EXCEPT !.dirty = TRUE]
  PROVE  WatchInv'
<1> DEFINE c == watch.captions
           d == watch'.captions
<1>1. c \in CaptionRecord /\ d \in CaptionRecord /\ CaptionInv(c, talk.heard)
  BY DEF WatchInv, WatchRecord
<1>2. d.bubbles = c.bubbles /\ d.open = c.open /\ d.queue = c.queue
  BY <1>1 DEF CaptionRecord
<1> HIDE DEF c, d
<1>3. CaptionInv(d, talk.heard)
  <2>1. Told(d) = Told(c) /\ InQueue(d) = InQueue(c) /\ Distinct(d)
    BY <1>1, <1>2 DEF Told, InQueue, Distinct, CaptionInv
  <2>2. Kept(d)
    BY <1>1, <1>2 DEF Kept, CaptionInv
  <2>3. QED BY <1>1, <2>1, <2>2 DEF CaptionInv
<1>4. QED BY <1>3 DEF WatchInv, d

LEMMA WatchStepKeepsWatch ==
  ASSUME WatchInv, WatchStep
  PROVE  WatchInv'
<1> USE DEF HearsOnly, linkVars
<1>1. watch \in WatchRecord /\ talk \in TalkRecord /\ (watch.page = "live" => Left)
  BY DEF WatchInv
<1>2. CASE CallLoaded
  BY <1>2, LoadingKeepsWatch
<1>3. CASE BackToList
  BY <1>3 DEF BackToList, WatchInv, CaptionInv, Left
<1>4. CASE LinkMoves
  <2>1. Left'
    BY <1>1, <1>4 DEF LinkMoves, Left, Connect, Settle, Retry, GiveUp
  <2>2. QED BY <1>1, <1>4, <2>1, OthersKeepWatch DEF LinkMoves
<1>5. CASE Leaves
  <2>1. /\ watch' = [watch EXCEPT !.bye = FALSE] /\ link' = "down" /\ talk' = talk
        /\ watch.page \notin {"none", "loading"}
    BY <1>1, <1>5 DEF Leaves, Hangup, WatchInv, NoWatch
  <2>2. watch' \in WatchRecord /\ watch'.page = watch.page /\ watch'.captions = watch.captions
    BY <1>1, <2>1 DEF WatchRecord
  <2>3. Left'
    BY <2>1 DEF Left
  <2>4. CASE watch.page = "live"
    BY <1>1, <2>1, <2>2, <2>3, <2>4, OthersKeepWatch
  <2>5. CASE watch.page # "live"
    BY <1>1, <2>1, <2>2, <2>5 DEF WatchInv
  <2>6. QED BY <2>4, <2>5
<1>6. CASE Renders
  BY <1>6, RenderingKeepsWatch
<1>7. CASE \E v \in Voices : TurnDone(v)
  BY <1>7, TurnsKeepWatch
<1>8. CASE \E v \in Voices, t \in 0..MaxTurns, part \in Parts, i \in 1..MaxDeltas :
            CaptionSaid(Piece(v, t, part, i))
  <2>1. PICK v \in Voices, t \in 0..MaxTurns, part \in Parts, i \in 1..MaxDeltas :
          CaptionSaid(Piece(v, t, part, i))
    BY <1>8
  <2>2. Piece(v, t, part, i) \in Heard
    BY DEF Piece, Heard
  <2>3. QED BY <2>1, <2>2, SpeakingKeepsWatch
<1>9. ASSUME NEW s \in {"waiting", "connected", "ended"}, StatusSaid(s) PROVE WatchInv'
  <2> DEFINE c == [watch.captions EXCEPT !.dirty = TRUE]
  <2>1. /\ watch.page = "live" /\ link' = link /\ talk' = [talk EXCEPT !.messages = @ + 1]
        /\ watch' = [watch EXCEPT !.status = s, !.captions = c, !.bye = watch.bye \/ s = "ended"]
    BY <1>1, <1>9 DEF StatusSaid, Says, Listening, WatchRecord, CaptionRecord
  <2>2. c \in CaptionRecord
    BY <1>1 DEF WatchRecord, CaptionRecord
  <2> HIDE DEF c
  <2>3. /\ watch' \in WatchRecord /\ watch'.page = "live" /\ watch'.captions = c
        /\ watch'.error = watch.error /\ watch'.status = s
        /\ watch'.bye = (watch.bye \/ s = "ended")
    BY <1>1, <2>1, <2>2 DEF WatchRecord
  <2>4. talk' \in TalkRecord /\ talk'.heard = talk.heard
    BY <1>1, <2>1 DEF TalkRecord
  <2>5. Left'
    BY <1>1, <2>1, <2>3 DEF Left
  <2>6. QED BY <2>1, <2>3, <2>4, <2>5, OthersKeepWatch DEF c
<1>10. CASE ErrorSaid
  <2> DEFINE c == [watch.captions EXCEPT !.dirty = TRUE]
  <2>1. /\ watch.page = "live" /\ link' = link /\ talk' = [talk EXCEPT !.messages = @ + 1]
        /\ watch' = [watch EXCEPT !.error = TRUE, !.captions = c, !.bye = TRUE]
    BY <1>1, <1>10 DEF ErrorSaid, ErrorShown, Says, Listening, WatchRecord, CaptionRecord
  <2>2. c \in CaptionRecord
    BY <1>1 DEF WatchRecord, CaptionRecord
  <2> HIDE DEF c
  <2>3. watch' \in WatchRecord /\ watch'.page = "live" /\ watch'.captions = c /\ watch'.bye
    BY <1>1, <2>1, <2>2 DEF WatchRecord
  <2>4. talk' \in TalkRecord /\ talk'.heard = talk.heard
    BY <1>1, <2>1 DEF TalkRecord
  <2>5. Left'
    BY <2>3 DEF Left
  <2>6. QED BY <2>1, <2>3, <2>4, <2>5, OthersKeepWatch DEF c
<1>11. CASE Translating \/ NoiseSaid \/ MetricsSaid
  <2>1. /\ watch.page = "live" /\ link' = link
        /\ talk' = [talk EXCEPT !.messages = talk.messages + 1, !.noise = talk.noise + 1]
        /\ \/ watch' = watch
           \/ \E n \in watch.blocked..(watch.blocked + 2) : watch' = [watch EXCEPT !.blocked = n]
    BY <1>1, <1>11 DEF Translating, NoiseSaid, MetricsSaid, SaysNoise, Says, Listening, TalkRecord
  <2>2. talk' \in TalkRecord /\ talk'.heard = talk.heard
    <3>1. talk.messages + 1 \in Nat /\ talk.noise + 1 \in Nat
      BY <1>1 DEF TalkRecord
    <3>2. talk' \in TalkRecord
      BY <1>1, <2>1, <3>1, TalkChanges
    <3>3. QED BY <1>1, <2>1, <3>2 DEF TalkRecord
  <2>3. /\ watch' \in WatchRecord /\ watch'.page = "live" /\ watch'.captions = watch.captions
        /\ watch'.error = watch.error /\ watch'.status = watch.status /\ watch'.bye = watch.bye
    BY <1>1, <2>1 DEF WatchRecord
  <2>4. Left'
    BY <1>1, <2>1, <2>3 DEF Left
  <2>5. QED BY <2>1, <2>2, <2>3, <2>4, OthersKeepWatch
<1>12. QED BY <1>2, <1>3, <1>4, <1>5, <1>6, <1>7, <1>8, <1>9, <1>10, <1>11 DEF WatchStep

(* A piece that was heard is in one bubble or once in the queue.           *)
LEMMA HeardIsShown ==
  ASSUME WatchInv
  PROVE  NoCaptionIsLost
<1> SUFFICES ASSUME watch.page = "live", NEW p \in talk.heard
             PROVE  /\ Hidden(p) => p.voice = "caller" /\ Places(p) = {}
                    /\ Hidden(p) \/ Cardinality(Places(p)) + Cardinality(Queued(p)) = 1
  BY DEF NoCaptionIsLost
<1> DEFINE c == watch.captions
           B == c.bubbles
<1>1. /\ CaptionInv(c, talk.heard) /\ Kept(c) /\ p \in Told(c) \cup InQueue(c)
      /\ B \in Seq(Bubble) /\ p \in Heard
  BY DEF WatchInv, CaptionInv, TalkRecord, Kept, CaptionRecord
<1>2. \A i \in DOMAIN B : Spoken(B[i]) \cup Subtitle(B[i]) = Inside(B[i])
  BY DEF Spoken, Subtitle, Inside
<1>3. /\ Hidden(p) <=> \E i \in DOMAIN B : IsSystemBoilerplate(B[i]) /\ p \in Inside(B[i])
      /\ \A i : i \in Places(p) <=> i \in DOMAIN B /\ ~IsSystemBoilerplate(B[i]) /\ p \in Inside(B[i])
      /\ \A j : j \in Queued(p) <=> j \in DOMAIN c.queue /\ c.queue[j] = p
  BY <1>2 DEF Hidden, Places, Queued, Transcript, Range
<1>4. CASE p \in Told(c)
  <2>1. PICK i \in DOMAIN B : p \in Inside(B[i])
    BY <1>4 DEF Told
  <2>2. \A j \in DOMAIN B : p \in Inside(B[j]) => j = i
    BY <1>1, <2>1 DEF Kept
  <2>3. Queued(p) = {}
    BY <1>1, <1>3, <1>4 DEF CaptionInv, InQueue
  <2>4. CASE IsSystemBoilerplate(B[i])
    <3>1. PICK a \in B[i].translation : a.voice = "caller"
      BY <2>4 DEF IsSystemBoilerplate
    <3>2. B[i] \in Bubble /\ Sorted(B[i]) /\ a \in PieceRecord /\ p \in PieceRecord
      <4>1. B[i] \in Bubble
        BY <1>1, <2>1
      <4>2. Sorted(B[i])
        BY <1>1, <2>1 DEF Kept
      <4>3. a \in PieceRecord
        BY <3>1, <4>1 DEF Bubble
      <4>4. p \in PieceRecord
        BY <1>1, MonitorAssumption DEF Heard, PieceRecord
      <4>5. QED BY <4>1, <4>2, <4>3, <4>4
    <3>3. p.voice = "caller"
      BY <2>1, <3>1, <3>2 DEF Sorted, Inside
    <3>4. Places(p) = {} /\ Hidden(p)
      BY <1>3, <2>1, <2>2, <2>4
    <3>5. QED BY <3>3, <3>4
  <2>5. CASE ~IsSystemBoilerplate(B[i])
    <3>1. Places(p) = {i} /\ ~Hidden(p)
      BY <1>3, <2>1, <2>2, <2>5
    <3>2. Cardinality({i}) = 1 /\ Cardinality(Queued(p)) = 0
      BY <2>3, FS_Singleton, FS_EmptySet
    <3>3. QED BY <3>1, <3>2
  <2>6. QED BY <2>4, <2>5
<1>5. CASE p \in InQueue(c) /\ p \notin Told(c)
  <2>1. Places(p) = {} /\ ~Hidden(p)
    BY <1>3, <1>5 DEF Told
  <2>2. PICK j \in DOMAIN c.queue : c.queue[j] = p
    BY <1>5 DEF InQueue
  <2>3. Queued(p) = {j}
    BY <1>1, <1>3, <2>2 DEF CaptionInv, Distinct
  <2>4. QED BY <2>1, <2>3, FS_Singleton, FS_EmptySet
<1>6. QED BY <1>1, <1>4, <1>5

LEMMA GoneIsLeft ==
  ASSUME WatchInv
  PROVE  GoneCallIsLeft
BY DEF WatchInv, GoneCallIsLeft, Left

LEMMA StillKeepsWatch ==
  ASSUME WatchInv, UNCHANGED <<watch, talk, link>>
  PROVE  WatchInv'
BY DEF WatchInv, Left

(* No page does anything to the screen of the observer but mount it anew.  *)
LEMMA WatchInvariant == PagesSpec => []WatchInv
<1>1. PagesInit => WatchInv
  <2> SUFFICES ASSUME PagesInit PROVE WatchInv
    OBVIOUS
  <2>1. watch = NoWatch /\ talk = Silence
    BY DEF PagesInit, MonitorInit
  <2>2. watch \in WatchRecord /\ talk \in TalkRecord
    BY <2>1, NothingHeard
  <2>3. watch.page = "none" /\ ~watch.captions.dirty /\ watch = [NoWatch EXCEPT !.page = watch.page]
    BY <2>1 DEF NoWatch, NoBubbles
  <2>4. QED BY <2>1, <2>2, <2>3 DEF WatchInv
<1>2. WatchInv /\ [PagesNext]_pagesVars => WatchInv'
  <2> SUFFICES ASSUME WatchInv, [PagesNext]_pagesVars PROVE WatchInv'
    OBVIOUS
  <2> USE DEF monitorVars, linkVars
  <2>1. CASE \/ RouterStep /\ UNCHANGED <<monitorVars, recordsVars, deskVars, linkVars>>
             \/ RecordsStep /\ UNCHANGED <<monitorVars, deskVars, linkVars>>
             \/ DeskStep /\ UNCHANGED <<monitorVars, recordsVars, linkVars>>
             \/ ListStep \/ UNCHANGED pagesVars
    <3>1. UNCHANGED <<watch, talk, link>>
      BY <2>1 DEF ListStep, pagesVars
    <3>2. QED BY <3>1, StillKeepsWatch
  <2>2. CASE WatchStep
    BY <2>2, WatchStepKeepsWatch
  <2>3. ASSUME NEW page, NEW stray, NEW lateResult, NEW open, Entered(page, stray, lateResult, open)
        PROVE  WatchInv'
    BY <2>3, EnteringKeepsWatch DEF Entered
  <2>4. CASE Navigates
    <3>1. CASE Admitted(goto) = route
      <4>1. UNCHANGED <<watch, talk, link>>
        BY <2>4, <3>1 DEF Navigates
      <4>2. QED BY <4>1, StillKeepsWatch
    <3>2. CASE Admitted(goto) # route
      BY <2>3, <2>4, <3>2 DEF Navigates
    <3>3. QED BY <3>1, <3>2
  <2>5. CASE handleMenuClick
    BY <2>3, <2>5 DEF handleMenuClick
  <2>6. CASE \E page \in Addresses : Visits(page)
    BY <2>3, <2>6 DEF Visits
  <2>7. QED BY <2>1, <2>2, <2>4, <2>5, <2>6 DEF PagesNext, MonitorStep
<1>3. QED BY <1>1, <1>2, PTL DEF PagesSpec

(* hooks/useRelayMonitor.ts, CAPTION: every piece that was heard is shown  *)
(* once, or waits once, in whatever order React runs the updaters.         *)
THEOREM CaptionsAreKept == PagesSpec => []NoCaptionIsLost
BY WatchInvariant, HeardIsShown, PTL

(* hooks/useRelayMonitor.ts: an ended or failed call is left, whatever     *)
(* reconnect was under way.                                                *)
THEOREM EndedCallsAreLeft == PagesSpec => []GoneCallIsLeft
BY WatchInvariant, GoneIsLeft, PTL

----------------------------------------------------------------------------
(* What the other pages wait for. A spinner may be left alone by a request *)
(* that was refused for want of a session: then the page has to be left    *)
(* for the sign-in, the only one where a session begins.                   *)

FormRecord == [busy : {None, "login", "signup"}, error : BOOLEAN, success : BOOLEAN,
               toast : BOOLEAN, oauth : BOOLEAN]
FetchRecord == [conv : Convs, stage : {"sent", "body", "calls", "callsBody"}, live : BOOLEAN]
PanelRecord == [list : {"none", "loading", "rows", "error"}, asked : BOOLEAN,
                convs : SUBSET Convs, selects : Nat, sel : Convs \cup {None},
                detail : Convs \cup {None}, loading : BOOLEAN, error : Convs \cup {None},
                result : Convs \cup {None}, fetches : SUBSET FetchRecord]
RecordRecord == [asked : BOOLEAN, loading : BOOLEAN, error : BOOLEAN, tries : Nat,
                 calls : SUBSET CallStates]
ListRecord == [asked : BOOLEAN, timer : BOOLEAN, stray : BOOLEAN, loading : BOOLEAN,
               error : BOOLEAN, calls : SUBSET {"live", "over"}]
PollRecord == [stage : {"none", "sent", "answered"}, quiet : BOOLEAN, seen : SUBSET Callers,
               ok : BOOLEAN, retry : BOOLEAN]
PickupRecord == [call : Callers, answer : {None, "ok", "claimed", "error"}, live : BOOLEAN]
DeskRecord == [loading : BOOLEAN, refreshing : BOOLEAN, claiming : Callers \cup {None},
               error : {None, "load", "lost", "claimed", "error"}, shown : SUBSET Callers]

Stuck == session = "none" /\ route # "login"
RouterInv ==
  /\ route \in Screens /\ goto \in Screens \cup {None} /\ session \in {"none", "valid"}
  /\ form \in FormRecord
  /\ form.busy = "login" \/ form.oauth => route = "login"
  /\ goto = "calling" => route = "history"
PanelInv ==
  /\ panel \in PanelRecord
  /\ route # "panel" => panel = NoPanel
  /\ \A f \in panel.fetches : f.live => f.conv = panel.sel
  /\ ErrorIsOfSelection
  /\ panel.list = "loading" => panel.asked \/ Stuck
  /\ panel.loading => AwaitsDetail \/ Stuck
RecordInv ==
  /\ record \in RecordRecord /\ late \in BOOLEAN
  /\ route \in {"history", "result"} /\ record.loading => record.asked \/ Stuck
  /\ route = "calling" /\ record.calls \cap Terminal # {} => late \/ goto # None
ListInv == list \in ListRecord /\ OnePollLoop
DeskInv ==
  /\ desk \in DeskRecord /\ polls \in [PollIds -> PollRecord]
  /\ pickups \in SUBSET PickupRecord
  /\ desk.loading \/ desk.refreshing => AwaitsPoll
  /\ desk.claiming # None => AwaitsPickup
WaitInv == RouterInv /\ PanelInv /\ RecordInv /\ ListInv /\ DeskInv

LEMMA WaitInvSuffices ==
  ASSUME WaitInv
  PROVE  ErrorIsOfSelection /\ NoEndlessSpinner
<1>1. ErrorIsOfSelection /\ OnePollLoop
  BY DEF WaitInv, PanelInv, ListInv
<1>2. ASSUME session = "valid"
      PROVE  /\ panel.list = "loading" => panel.asked
             /\ Body = "loading" => AwaitsDetail
             /\ route \in {"history", "result"} /\ record.loading => record.asked
  BY <1>2 DEF WaitInv, PanelInv, RecordInv, Stuck, Body
<1>3. route = "calling" /\ CallingStatus = "ended" => late \/ goto # None
  BY DEF WaitInv, RecordInv, CallingStatus, Terminal
<1>4. /\ desk.loading \/ desk.refreshing => AwaitsPoll
      /\ desk.claiming # None => AwaitsPickup
  BY DEF WaitInv, DeskInv
<1>5. QED BY <1>1, <1>2, <1>3, <1>4 DEF NoEndlessSpinner

(* Each part of the invariant only reads what its page reads.              *)
LEMMA StillKeepsWaiting ==
  /\ PanelInv /\ UNCHANGED <<panel, route>> /\ (Stuck => Stuck') => PanelInv'
  /\ RecordInv /\ UNCHANGED <<record, route>> /\ (Stuck => Stuck')
       /\ late' \in BOOLEAN /\ (late \/ goto # None => late' \/ goto' # None) => RecordInv'
  /\ ListInv /\ UNCHANGED <<list, route>> => ListInv'
  /\ DeskInv /\ UNCHANGED <<desk, polls, pickups>> => DeskInv'
BY DEF PanelInv, RecordInv, ListInv, DeskInv, ErrorIsOfSelection, AwaitsDetail, OnePollLoop,
       AwaitsPoll, AwaitsPickup

(* A page that is mounted asks for what it shows.                          *)
LEMMA EnteringKeepsWaiting ==
  ASSUME WaitInv, NEW page \in Screens, NEW stray \in BOOLEAN, NEW lateResult \in BOOLEAN,
         NEW open \in SUBSET PickupRecord, Entered(page, stray, lateResult, open)
  PROVE  WaitInv'
<1>1. /\ route' = page /\ goto' = None /\ form' = NoForm /\ session' = session
      /\ late' = lateResult /\ pickups' = open
      /\ list' = ListMounted(page, stray) /\ panel' = PanelMounted(page)
      /\ record' = RecordMounted(page) /\ DeskEntered(page)
  BY DEF Entered, MonitorEntered, RecordsEntered
<1>2. None \notin Screens /\ PollIds # {} /\ None \notin Callers
  BY RouterAssumption, DeskAssumption
<1>3. RouterInv'
  BY <1>1, <1>2 DEF WaitInv, RouterInv, NoForm, FormRecord, Screens, AuthPages
<1>4. PanelInv'
  BY <1>1 DEF PanelInv, PanelMounted, NoPanel, PanelRecord, ErrorIsOfSelection, AwaitsDetail
<1>5. RecordInv'
  <2> DEFINE there == page \in {"history", "calling", "result"}
  <2>1. record' = [NoRecord EXCEPT !.asked = there, !.loading = there] /\ there \in BOOLEAN
    BY <1>1 DEF RecordMounted
  <2> HIDE DEF there
  <2>2. /\ record' \in RecordRecord /\ record'.calls = {}
        /\ record'.loading = there /\ record'.asked = there
    BY <2>1 DEF NoRecord, RecordRecord
  <2>3. QED BY <1>1, <2>2 DEF RecordInv
<1>6. ListInv'
  <2> DEFINE there == page \in Lists
  <2>1. /\ list' = [NoList EXCEPT !.asked = there, !.loading = there, !.stray = stray]
        /\ there \in BOOLEAN /\ (route' \in Lists <=> there)
    BY <1>1 DEF ListMounted
  <2> HIDE DEF there
  <2>2. list' \in ListRecord /\ list'.asked = there /\ ~list'.timer
    BY <2>1 DEF NoList, ListRecord
  <2>3. QED BY <2>1, <2>2 DEF ListInv, OnePollLoop
<1>7. DeskInv'
  <2>1. CASE page = "inbound"
    <3> DEFINE first == CHOOSE i \in PollIds : TRUE
    <3>1. first \in PollIds
      BY <1>2
    <3>2. /\ desk' = [NoDesk EXCEPT !.loading = TRUE]
          /\ polls' = [i \in PollIds |-> IF i = first THEN [NoPoll EXCEPT !.stage = "sent"] ELSE NoPoll]
      BY <1>1, <2>1 DEF DeskEntered
    <3> HIDE DEF first
    <3>3. polls' \in [PollIds -> PollRecord] /\ polls'[first].stage = "sent"
      BY <3>1, <3>2 DEF NoPoll, PollRecord
    <3>4. desk' \in DeskRecord /\ desk'.claiming = None
      BY <3>2 DEF NoDesk, DeskRecord
    <3>5. AwaitsPoll'
      BY <3>1, <3>3 DEF AwaitsPoll
    <3>6. QED BY <1>1, <3>3, <3>4, <3>5 DEF DeskInv
  <2>2. CASE page # "inbound"
    <3>1. desk' = NoDesk /\ polls' = [i \in PollIds |-> NoPoll]
      BY <1>1, <2>2 DEF DeskEntered
    <3>2. polls' \in [PollIds -> PollRecord]
      BY <3>1 DEF NoPoll, PollRecord
    <3>3. desk' \in DeskRecord /\ desk'.claiming = None /\ ~desk'.loading /\ ~desk'.refreshing
      BY <3>1 DEF NoDesk, DeskRecord
    <3>4. QED BY <1>1, <3>2, <3>3 DEF DeskInv
  <2>3. QED BY <2>1, <2>2
<1>8. QED BY <1>3, <1>4, <1>5, <1>6, <1>7 DEF WaitInv

(* A session begins on the sign-in page only, whoever ends it.             *)
LEMMA RouterKeepsWaiting ==
  ASSUME WaitInv, RouterStep, UNCHANGED <<panel, record, late, list, desk, polls, pickups>>
  PROVE  WaitInv'
<1> USE DEF RouterInv
<1>1. RouterInv /\ None \notin Screens
  BY RouterAssumption DEF WaitInv
<1>2. RouterInv' /\ (Stuck => Stuck') /\ route' = route /\ (goto # None => goto' # None)
  <2> USE DEF Stuck, Screens, AuthPages, FormRecord
  <2>1. CASE LoginSubmit
    BY <1>1, <2>1 DEF LoginSubmit
  <2>2. CASE SignupSubmit
    BY <1>1, <2>2 DEF SignupSubmit
  <2>3. CASE LoginAnswered
    BY <1>1, <2>3 DEF LoginAnswered
  <2>4. CASE SignupAnswered
    BY <1>1, <2>4 DEF SignupAnswered
  <2>5. CASE handleGoogleLogin
    BY <1>1, <2>5 DEF handleGoogleLogin
  <2>6. CASE showToast \/ ToastEnds
    BY <1>1, <2>6 DEF showToast, ToastEnds
  <2>7. CASE Callback
    BY <1>1, <2>7 DEF Callback
  <2>8. CASE handleSignOut \/ SessionEnds \/ AccountRevoked
    BY <1>1, <2>8 DEF handleSignOut, SessionEnds, AccountRevoked
  <2>9. QED BY <2>1, <2>2, <2>3, <2>4, <2>5, <2>6, <2>7, <2>8 DEF RouterStep
<1>3. QED BY <1>2, StillKeepsWaiting DEF WaitInv, RecordInv

(* A page that only says where to go next.                                 *)
LEMMA GoingKeepsWaiting ==
  ASSUME WaitInv, goto' \in Screens \cup {goto}, goto' = "calling" => route = "history" \/ goto' = goto,
         UNCHANGED <<route, session, form>>
  PROVE  /\ RouterInv' /\ (Stuck => Stuck')
         /\ UNCHANGED panel => PanelInv'
         /\ UNCHANGED <<record, late>> => RecordInv'
         /\ UNCHANGED list => ListInv'
         /\ UNCHANGED <<desk, polls, pickups>> => DeskInv'
<1>1. RouterInv' /\ (Stuck => Stuck') /\ (goto # None => goto' # None)
  BY RouterAssumption DEF WaitInv, RouterInv, Stuck
<1>2. QED BY <1>1, StillKeepsWaiting DEF WaitInv, RecordInv

LEMMA MonitorKeepsWaiting ==
  ASSUME WaitInv, MonitorStep, UNCHANGED <<recordsVars, deskVars>>
  PROVE  WaitInv'
<1> USE DEF recordsVars, deskVars
<1>1. /\ goto' \in Screens \cup {goto} /\ (goto' = "calling" => goto' = goto)
      /\ UNCHANGED <<route, session, form>>
  <2> USE DEF Screens, AuthPages, Lists, Watches
  <2>1. CASE ListStep
    BY <2>1 DEF ListStep, Poll, PollAnswered, StrayAnswered, Picks
  <2>2. CASE WatchStep
    <3>1. CASE CallLoaded
      BY <2>2, <3>1 DEF WatchStep, CallLoaded
    <3>2. CASE BackToList
      BY <2>2, <3>2 DEF WatchStep, BackToList
    <3>3. CASE ~CallLoaded /\ ~BackToList
      <4>1. UNCHANGED goto
        BY <2>2, <3>3 DEF WatchStep, LinkMoves, Leaves, Renders, Translating, TurnDone, CaptionSaid,
             StatusSaid, ErrorSaid, NoiseSaid, MetricsSaid, HearsOnly
      <4>2. QED BY <2>2, <4>1 DEF WatchStep
    <3>4. QED BY <3>1, <3>2, <3>3
  <2>3. QED BY <2>1, <2>2 DEF MonitorStep
<1>2. ListInv'
  <2>1. CASE UNCHANGED list
    BY <1>1, <2>1, GoingKeepsWaiting
  <2>2. ASSUME NEW hidden \in BOOLEAN, Poll(hidden) PROVE ListInv'
    BY <1>1, <2>2 DEF WaitInv, ListInv, ListRecord, OnePollLoop, Poll
  <2>3. CASE PollAnswered
    BY <1>1, <2>3 DEF WaitInv, ListInv, ListRecord, OnePollLoop, PollAnswered
  <2>4. CASE StrayAnswered
    BY <1>1, <2>4 DEF WaitInv, ListInv, ListRecord, OnePollLoop, StrayAnswered
  <2>5. QED BY <2>1, <2>2, <2>3, <2>4 DEF MonitorStep, ListStep, WatchStep, Picks
<1>3. QED BY <1>1, <1>2, GoingKeepsWaiting DEF WaitInv

LEMMA AnswersAre ==
  ASSUME RouterInv, NEW work, NEW a \in Answers(work)
  PROVE  /\ a = "unauthorized" /\ a \notin work => session = "none"
         /\ a \in work \cup {"unauthorized", "forbidden"}
BY DEF Answers, RouterInv

(* The panel: the fetch of the selection alone is live, and a spinner is   *)
(* its.                                                                    *)
LEMMA FetchesKeepWaiting ==
  ASSUME WaitInv, NEW f \in panel.fetches, NEW stage \in {"sent", "body", "calls", "callsBody"},
         UNCHANGED <<route, session>>
  PROVE  /\ panel' = [panel EXCEPT !.fetches = Gone(f)] /\ (~f.live \/ f.stage \notin {"sent", "body"} \/ Stuck)
              => PanelInv'
         /\ panel' = Failed(f) => PanelInv'
         /\ panel' = [panel EXCEPT !.fetches = Moved(f, stage)] /\ (f.stage = "sent" => stage = "body")
              /\ f.stage # "body" => PanelInv'
<1>1. /\ panel \in PanelRecord /\ route = "panel" /\ f \in FetchRecord
      /\ \A g \in panel.fetches : g.live => g.conv = panel.sel
      /\ (panel.error # None => panel.error = panel.sel)
      /\ (panel.list = "loading" => panel.asked \/ Stuck)
      /\ (panel.loading => AwaitsDetail \/ Stuck)
  BY DEF WaitInv, PanelInv, PanelRecord, NoPanel, ErrorIsOfSelection
<1>2. Stuck' = Stuck /\ route' = "panel"
  BY <1>1 DEF Stuck
<1>3. /\ Gone(f) \in SUBSET FetchRecord /\ \A g \in Gone(f) : g \in panel.fetches
      /\ Moved(f, stage) \in SUBSET FetchRecord
      /\ \A g \in Moved(f, stage) : g.live => g.conv = panel.sel
  <2>1. [f EXCEPT !.stage = stage] \in FetchRecord
    BY <1>1 DEF FetchRecord
  <2>2. [f EXCEPT !.stage = stage].live = f.live /\ [f EXCEPT !.stage = stage].conv = f.conv
    BY <1>1 DEF FetchRecord
  <2>3. QED BY <1>1, <2>1, <2>2 DEF Gone, Moved, PanelRecord
<1>4. ASSUME panel' = [panel EXCEPT !.fetches = Gone(f)],
             ~f.live \/ f.stage \notin {"sent", "body"} \/ Stuck
      PROVE  PanelInv'
  <2>1. panel' \in PanelRecord /\ panel'.fetches = Gone(f)
    BY <1>1, <1>3, <1>4 DEF PanelRecord
  <2>2. AwaitsDetail /\ ~Stuck => AwaitsDetail'
    BY <1>4, <2>1 DEF AwaitsDetail, Gone
  <2>3. /\ panel'.sel = panel.sel /\ panel'.error = panel.error /\ panel'.list = panel.list
        /\ panel'.asked = panel.asked /\ panel'.loading = panel.loading
    BY <1>1, <1>4 DEF PanelRecord
  <2>4. QED BY <1>1, <1>2, <1>3, <2>1, <2>2, <2>3 DEF PanelInv, ErrorIsOfSelection
<1>5. ASSUME panel' = Failed(f) PROVE PanelInv'
  <2>1. CASE f.live
    <3>1. panel' = [panel EXCEPT !.fetches = Gone(f), !.error = f.conv, !.loading = FALSE]
      BY <1>5, <2>1 DEF Failed
    <3>2. /\ panel' \in PanelRecord /\ panel'.fetches = Gone(f) /\ panel'.sel = panel.sel
          /\ panel'.error = f.conv /\ panel'.list = panel.list /\ panel'.asked = panel.asked
          /\ ~panel'.loading
      BY <1>1, <1>3, <3>1 DEF PanelRecord, FetchRecord
    <3>3. QED BY <1>1, <1>2, <1>3, <2>1, <3>2 DEF PanelInv, ErrorIsOfSelection
  <2>2. CASE ~f.live
    BY <1>4, <1>5, <2>2 DEF Failed
  <2>3. QED BY <2>1, <2>2
<1>6. ASSUME panel' = [panel EXCEPT !.fetches = Moved(f, stage)],
             f.stage = "sent" => stage = "body", f.stage # "body"
      PROVE  PanelInv'
  <2>1. panel' \in PanelRecord /\ panel'.fetches = Moved(f, stage)
    BY <1>1, <1>3, <1>6 DEF PanelRecord
  <2>2. AwaitsDetail => AwaitsDetail'
    <3> SUFFICES ASSUME NEW g \in panel.fetches, g.live, g.stage \in {"sent", "body"}
                 PROVE  AwaitsDetail'
      BY DEF AwaitsDetail
    <3>1. CASE g = f
      <4> DEFINE h == [f EXCEPT !.stage = stage]
      <4>1. h.live /\ h.stage = "body" /\ h \in panel'.fetches
        BY <1>1, <1>6, <2>1, <3>1 DEF FetchRecord, Moved
      <4> HIDE DEF h
      <4>2. QED BY <4>1 DEF AwaitsDetail
    <3>2. CASE g # f
      BY <2>1, <3>2 DEF AwaitsDetail, Moved
    <3>3. QED BY <3>1, <3>2
  <2>3. /\ panel'.sel = panel.sel /\ panel'.error = panel.error /\ panel'.list = panel.list
        /\ panel'.asked = panel.asked /\ panel'.loading = panel.loading
    BY <1>1, <1>6 DEF PanelRecord
  <2>4. QED BY <1>1, <1>2, <1>3, <2>1, <2>2, <2>3 DEF PanelInv, ErrorIsOfSelection
<1>7. QED BY <1>4, <1>5, <1>6

LEMMA PanelKeepsWaiting ==
  ASSUME WaitInv, PanelStep, UNCHANGED <<route, session, form, ended>>
  PROVE  PanelInv' /\ goto' \in {goto, "login"} /\ UNCHANGED <<record, late>>
<1>1. /\ RouterInv /\ panel \in PanelRecord /\ (route # "panel" => panel = NoPanel)
      /\ \A g \in panel.fetches : g.live => g.conv = panel.sel
      /\ (panel.error # None => panel.error = panel.sel)
      /\ (panel.list = "loading" => panel.asked \/ Stuck)
      /\ (panel.loading => AwaitsDetail \/ Stuck)
  BY DEF WaitInv, PanelInv, ErrorIsOfSelection
<1>2. goto' \in {goto, "login"} /\ UNCHANGED <<record, late>>
  BY DEF PanelStep, fetchConversations, handleRefresh, handleSelect, DetailAnswered, DetailRead,
         CallsAnswered, CallsRead, Redirected
<1>3. CASE fetchConversations
  <2>1. PICK a \in Answers({"ok", "error"}) :
          panel' = [panel EXCEPT !.asked = FALSE,
            !.list = IF a = "unauthorized" THEN @ ELSE IF a = "ok" THEN "rows" ELSE "error",
            !.convs = IF a = "ok" THEN Convs ELSE @]
    BY <1>3 DEF fetchConversations
  <2>2. a = "unauthorized" => session = "none"
    BY <1>1, AnswersAre
  <2>3. route = "panel" /\ Stuck' = Stuck /\ (a = "unauthorized" => Stuck)
    BY <1>1, <1>3, <2>2 DEF fetchConversations, NoPanel, Stuck
  <2>4. /\ panel' \in PanelRecord /\ panel'.fetches = panel.fetches /\ panel'.sel = panel.sel
        /\ panel'.error = panel.error /\ panel'.loading = panel.loading
        /\ (panel'.list = "loading" => a = "unauthorized")
    BY <1>1, <2>1 DEF PanelRecord
  <2>5. AwaitsDetail' = AwaitsDetail
    BY <2>4 DEF AwaitsDetail
  <2>6. QED BY <1>1, <1>2, <2>3, <2>4, <2>5 DEF PanelInv, ErrorIsOfSelection
<1>4. CASE handleRefresh
  <2>1. route = "panel" /\ Stuck' = Stuck
    BY <1>1, <1>4 DEF handleRefresh, NoPanel, Stuck
  <2>2. /\ panel' \in PanelRecord /\ panel'.fetches = panel.fetches /\ panel'.sel = panel.sel
        /\ panel'.error = panel.error /\ panel'.loading = panel.loading /\ panel'.asked
    BY <1>1, <1>4 DEF PanelRecord, handleRefresh
  <2>3. AwaitsDetail' = AwaitsDetail
    BY <2>2 DEF AwaitsDetail
  <2>4. QED BY <1>1, <1>2, <2>1, <2>2, <2>3 DEF PanelInv, ErrorIsOfSelection
<1>5. ASSUME NEW c \in Convs, handleSelect(c) PROVE PanelInv'
  <2> DEFINE h == Fetch(c, "sent")
             F == Cancelled \cup {h}
  <2>1. route = "panel"
    BY <1>1, <1>5 DEF handleSelect, NoPanel
  <2>2. panel' = [panel EXCEPT !.selects = @ + 1, !.sel = c, !.loading = TRUE, !.error = None,
                               !.result = None, !.fetches = F]
    BY <1>5 DEF handleSelect
  <2>3. h \in FetchRecord /\ h.live /\ h.conv = c /\ h.stage = "sent"
    BY DEF Fetch, FetchRecord
  <2>4. \A g \in Cancelled : g \in FetchRecord /\ ~g.live
    BY <1>1 DEF Cancelled, PanelRecord, FetchRecord
  <2>5. F \in SUBSET FetchRecord /\ h \in F /\ \A g \in F : g.live => g.conv = c
    BY <2>3, <2>4
  <2> HIDE DEF F, h
  <2>6. /\ panel' \in PanelRecord /\ panel'.fetches = F /\ panel'.sel = c /\ panel'.error = None
        /\ panel'.list = panel.list /\ panel'.asked = panel.asked
    <3> DEFINE n == panel.selects + 1
    <3>1. n \in Nat
      BY <1>1 DEF PanelRecord
    <3>2. panel' = [panel EXCEPT !.selects = n, !.sel = c, !.loading = TRUE, !.error = None,
                                 !.result = None, !.fetches = F]
      BY <2>2
    <3> HIDE DEF n
    <3>3. /\ panel'.fetches = F /\ panel'.sel = c /\ panel'.error = None
          /\ panel'.list = panel.list /\ panel'.asked = panel.asked
      BY <1>1, <3>2 DEF PanelRecord
    <3>4. panel' \in PanelRecord
      BY <1>1, <2>5, <3>1, <3>2 DEF PanelRecord
    <3>5. QED BY <3>3, <3>4
  <2>7. AwaitsDetail'
    BY <2>3, <2>5, <2>6 DEF AwaitsDetail
  <2>8. QED BY <1>1, <1>2, <2>1, <2>5, <2>6, <2>7 DEF PanelInv, ErrorIsOfSelection, Stuck
<1>6. ASSUME NEW f \in panel.fetches, DetailAnswered(f) PROVE PanelInv'
  <2>1. PICK a \in Answers({"ok", "error"}) :
          panel' = CASE a = "ok" -> [panel EXCEPT !.fetches = Moved(f, "body")]
                     [] a = "unauthorized" -> [panel EXCEPT !.fetches = Gone(f)]
                     [] OTHER -> Failed(f)
    BY <1>6 DEF DetailAnswered
  <2>2. route = "panel" /\ (a = "unauthorized" => Stuck)
    BY <1>1, AnswersAre DEF NoPanel, Stuck
  <2>3. f.stage = "sent"
    BY <1>6 DEF DetailAnswered
  <2>4. CASE a = "ok"
    BY <2>1, <2>3, <2>4, FetchesKeepWaiting
  <2>5. CASE a = "unauthorized"
    BY <2>1, <2>2, <2>3, <2>5, FetchesKeepWaiting
  <2>6. CASE a \notin {"ok", "unauthorized"}
    BY <2>1, <2>3, <2>6, FetchesKeepWaiting
  <2>7. QED BY <2>4, <2>5, <2>6
<1>7. ASSUME NEW f \in panel.fetches, DetailRead(f) PROVE PanelInv'
  <2>1. CASE panel' = Failed(f)
    BY <1>7, <2>1, FetchesKeepWaiting DEF DetailRead
  <2>2. CASE panel' = [panel EXCEPT !.detail = f.conv, !.loading = FALSE,
                    !.fetches = IF f.live THEN Moved(f, "calls") ELSE Gone(f)]
    <3> DEFINE F == IF f.live THEN Moved(f, "calls") ELSE Gone(f)
    <3>1. f \in FetchRecord /\ route = "panel"
      BY <1>1 DEF PanelRecord, NoPanel
    <3>2. /\ [f EXCEPT !.stage = "calls"] \in FetchRecord /\ [f EXCEPT !.stage = "calls"].live = f.live
          /\ [f EXCEPT !.stage = "calls"].conv = f.conv
      BY <3>1 DEF FetchRecord
    <3>3. F \in SUBSET FetchRecord /\ \A g \in F : g.live => g.conv = panel.sel
      BY <1>1, <3>1, <3>2 DEF Moved, Gone, PanelRecord
    <3>4. panel' = [panel EXCEPT !.detail = f.conv, !.loading = FALSE, !.fetches = F]
      BY <2>2
    <3> HIDE DEF F
    <3>5. /\ panel' \in PanelRecord /\ panel'.fetches = F /\ panel'.sel = panel.sel
          /\ panel'.error = panel.error /\ ~panel'.loading
          /\ panel'.list = panel.list /\ panel'.asked = panel.asked
      BY <1>1, <3>1, <3>3, <3>4 DEF PanelRecord, FetchRecord
    <3>6. QED BY <1>1, <1>2, <3>1, <3>3, <3>5 DEF PanelInv, ErrorIsOfSelection, Stuck
  <2>3. QED BY <1>7, <2>1, <2>2 DEF DetailRead
<1>8. ASSUME NEW f \in panel.fetches, CallsAnswered(f) PROVE PanelInv'
  <2>1. /\ f.stage = "calls"
        /\ \/ panel' = [panel EXCEPT !.fetches = Moved(f, "callsBody")]
           \/ panel' = [panel EXCEPT !.fetches = Gone(f)]
    BY <1>8 DEF CallsAnswered
  <2>2. QED BY <2>1, FetchesKeepWaiting
<1>9. ASSUME NEW f \in panel.fetches, CallsRead(f) PROVE PanelInv'
  <2>1. PICK r \in {None, f.conv} : panel' = [panel EXCEPT !.result = r, !.fetches = Gone(f)]
    BY <1>9 DEF CallsRead
  <2>2. f \in FetchRecord /\ f.stage = "callsBody" /\ route = "panel"
    BY <1>1, <1>9 DEF PanelRecord, CallsRead, NoPanel
  <2>3. Gone(f) \in SUBSET FetchRecord /\ \A g \in Gone(f) : g.live => g.conv = panel.sel
    BY <1>1 DEF Gone, PanelRecord
  <2>4. /\ panel' \in PanelRecord /\ panel'.fetches = Gone(f) /\ panel'.sel = panel.sel
        /\ panel'.error = panel.error /\ panel'.loading = panel.loading
        /\ panel'.list = panel.list /\ panel'.asked = panel.asked
    BY <1>1, <2>1, <2>2, <2>3 DEF PanelRecord, FetchRecord
  <2>5. AwaitsDetail => AwaitsDetail'
    BY <2>2, <2>4 DEF AwaitsDetail, Gone
  <2>6. QED BY <1>1, <1>2, <2>2, <2>3, <2>4, <2>5 DEF PanelInv, ErrorIsOfSelection, Stuck
<1>10. QED BY <1>2, <1>3, <1>4, <1>5, <1>6, <1>7, <1>8, <1>9 DEF PanelStep

(* An answer ends the loading of the page and fills it or shows the error. *)
LEMMA AnsweredIs ==
  ASSUME record \in RecordRecord, NEW a, NEW seen \in SUBSET CallStates, Answered(a, seen)
  PROVE  record' \in RecordRecord /\ ~record'.loading /\ (a = "ok" => record'.calls = seen)
<1> DEFINE e == a # "ok"
<1> DEFINE s == IF a = "ok" THEN seen ELSE {}
<1>1. e \in BOOLEAN /\ s \in SUBSET CallStates /\ (a = "ok" => s = seen)
  OBVIOUS
<1>2. record' = [record EXCEPT !.asked = FALSE, !.loading = FALSE, !.error = e, !.calls = s]
  BY DEF Answered
<1> HIDE DEF e, s
<1>3. QED BY <1>1, <1>2 DEF RecordRecord

(* The pages of calls.                                                     *)
LEMMA RecordsKeepWaiting ==
  ASSUME WaitInv, RecordsStep, UNCHANGED <<monitorVars, deskVars, linkVars>>
  PROVE  WaitInv'
<1>1. /\ RouterInv /\ record \in RecordRecord /\ late \in BOOLEAN
      /\ (route \in {"history", "result"} /\ record.loading => record.asked \/ Stuck)
      /\ (route = "calling" /\ record.calls \cap Terminal # {} => late \/ goto # None)
      /\ UNCHANGED <<list, desk, polls, pickups, route, session, form, ended>>
      /\ None \notin Screens
  BY RouterAssumption DEF WaitInv, RecordInv, RecordsStep, monitorVars, deskVars
<1>2. Stuck' = Stuck
  BY <1>1 DEF Stuck
<1> DEFINE Goes == goto' \in Screens \cup {goto} /\ (goto' = "calling" => route = "history" \/ goto' = goto)
<1>3. CASE PanelStep
  <2>1. PanelInv' /\ goto' \in {goto, "login"} /\ UNCHANGED <<record, late>>
    BY <1>1, <1>3, PanelKeepsWaiting
  <2>2. Goes
    BY <2>1 DEF Screens, AuthPages
  <2>3. QED BY <1>1, <2>1, <2>2, GoingKeepsWaiting DEF WaitInv
<1>4. ASSUME Goes, UNCHANGED panel, RecordInv' PROVE WaitInv'
  BY <1>1, <1>4, GoingKeepsWaiting DEF WaitInv
<1>5. CASE HistoryAnswered
  <2>1. Goes /\ UNCHANGED <<panel, late>>
    BY <1>5 DEF HistoryAnswered, Redirected, Screens, AuthPages
  <2>2. PICK a \in Answers({"ok", "error"}) :
          IF a = "unauthorized" THEN record' = [record EXCEPT !.asked = FALSE]
          ELSE \E seen \in {{}, CallStates} : Answered(a, seen)
    BY <1>5 DEF HistoryAnswered
  <2>3. route = "history" /\ (a = "unauthorized" => Stuck)
    BY <1>1, <1>5, AnswersAre DEF HistoryAnswered, Stuck
  <2>4. record' \in RecordRecord /\ (a # "unauthorized" => ~record'.loading)
    BY <1>1, <2>2 DEF Answered, RecordRecord
  <2>5. RecordInv'
    BY <1>1, <1>2, <2>1, <2>3, <2>4 DEF RecordInv
  <2>6. QED BY <1>4, <2>1, <2>5
<1>6. CASE ResultAnswered
  <2>1. Goes /\ UNCHANGED <<panel, late>>
    BY <1>6 DEF ResultAnswered, Redirected, Screens, AuthPages
  <2>2. PICK a \in Answers({"ok", "missing", "error"}) :
          IF a = "unauthorized" THEN record' = [record EXCEPT !.asked = FALSE]
          ELSE \E s \in CallStates : Answered(a, {s})
    BY <1>6 DEF ResultAnswered
  <2>3. route = "result" /\ (a = "unauthorized" => Stuck)
    BY <1>1, <1>6, AnswersAre DEF ResultAnswered, Stuck
  <2>4. record' \in RecordRecord /\ (a # "unauthorized" => ~record'.loading)
    <3>1. CASE a = "unauthorized"
      BY <1>1, <2>2, <3>1 DEF RecordRecord
    <3>2. CASE a # "unauthorized"
      <4>1. PICK s \in CallStates : Answered(a, {s})
        BY <2>2, <3>2
      <4>2. {s} \in SUBSET CallStates
        OBVIOUS
      <4>3. QED BY <1>1, <4>1, <4>2, AnsweredIs
    <3>3. QED BY <3>1, <3>2
  <2>5. RecordInv'
    BY <1>1, <1>2, <2>1, <2>3, <2>4 DEF RecordInv
  <2>6. QED BY <1>4, <2>1, <2>5
<1>7. CASE CallingAnswered
  <2>1. PICK a \in Answers(CallStates \cup {"missing", "error"}) :
          /\ goto' = CASE a = "unauthorized" -> "login" [] a = "missing" -> "home" [] OTHER -> goto
          /\ CASE a \in CallStates -> Answered("ok", {a})
               [] a \in {"error", "forbidden"} ->
                    record' = [record EXCEPT !.asked = FALSE, !.tries = @ + 1]
               [] OTHER -> record' = [record EXCEPT !.asked = FALSE]
          /\ late' = (late \/ a \in Terminal)
    BY <1>7 DEF CallingAnswered
  <2>2. Goes /\ UNCHANGED panel /\ route = "calling"
    BY <1>7, <2>1 DEF CallingAnswered, Screens, AuthPages
  <2>3. goto # None => goto' # None
    BY <1>1, <2>1 DEF Screens, AuthPages
  <2>4. late' \in BOOLEAN /\ (late => late')
    BY <1>1, <2>1
  <2>5. CASE a \in CallStates
    <3> DEFINE asked == Answered("ok", {a})
    <3>0. a \notin {"error", "forbidden"}
      BY <2>5 DEF CallStates
    <3> DEFINE tried == record' = [record EXCEPT !.asked = FALSE, !.tries = @ + 1]
               idle  == record' = [record EXCEPT !.asked = FALSE]
    <3>1. Answered("ok", {a}) /\ {a} \in SUBSET CallStates
      <4>1. (CASE a \in CallStates -> asked [] a \in {"error", "forbidden"} -> tried [] OTHER -> idle)
        BY <2>1
      <4> HIDE DEF asked, tried, idle
      <4>2. asked
        BY <2>5, <3>0, <4>1
      <4>3. QED BY <2>5, <4>2 DEF asked
    <3>2. record' \in RecordRecord /\ record'.calls = {a}
      BY <1>1, <3>1, AnsweredIs
    <3>3. record'.calls \cap Terminal # {} => late'
      BY <2>1, <3>2
    <3>4. QED BY <1>1, <1>4, <2>2, <2>4, <3>2, <3>3 DEF RecordInv
  <2>6. CASE a \notin CallStates
    <3>1. \/ record' = [record EXCEPT !.asked = FALSE, !.tries = @ + 1]
          \/ record' = [record EXCEPT !.asked = FALSE]
      BY <2>1, <2>6
    <3> DEFINE n == record.tries + 1
    <3>2. n \in Nat
      BY <1>1 DEF RecordRecord
    <3>3. \/ record' = [record EXCEPT !.asked = FALSE, !.tries = n]
          \/ record' = [record EXCEPT !.asked = FALSE]
      BY <3>1
    <3> HIDE DEF n
    <3>4. record' \in RecordRecord /\ record'.calls = record.calls
      BY <1>1, <3>2, <3>3 DEF RecordRecord
    <3>5. RecordInv'
      BY <1>1, <2>2, <2>3, <2>4, <3>4 DEF RecordInv
    <3>6. QED BY <1>4, <2>2, <3>5
  <2>7. QED BY <2>5, <2>6
<1>8. CASE LateResult
  <2>1. Goes /\ UNCHANGED <<panel, record>> /\ goto' # None /\ late' \in BOOLEAN
    BY <1>1, <1>8 DEF LateResult, Screens, AuthPages
  <2>2. RecordInv'
    BY <1>1, <1>2, <2>1 DEF RecordInv
  <2>3. QED BY <1>4, <2>1, <2>2
<1>9. CASE LeavesRecord
  <2>1. Goes /\ UNCHANGED <<panel, record, late>> /\ goto' # None
    BY <1>1, <1>9 DEF LeavesRecord, getNavigationTarget, recordsVars, Screens, AuthPages
  <2>2. RecordInv'
    BY <1>1, <1>2, <2>1 DEF RecordInv
  <2>3. QED BY <1>4, <2>1, <2>2
<1>10. QED BY <1>3, <1>5, <1>6, <1>7, <1>8, <1>9 DEF RecordsStep

(* The desk: polls overlap, a pickup that failed loads the queue again.    *)
LEMMA SentKeepsPolls ==
  ASSUME DeskInv, NEW i \in FreePolls, NEW quiet \in BOOLEAN, NEW retry \in BOOLEAN,
         Sent(i, quiet, retry)
  PROVE  /\ polls' \in [PollIds -> PollRecord] /\ AwaitsPoll'
         /\ retry => polls'[i].stage # "none" /\ polls'[i].retry
         /\ \A j \in PollIds : polls[j].stage # "none" => polls'[j] = polls[j]
<1> DEFINE q == [NoPoll EXCEPT !.stage = "sent", !.quiet = quiet, !.retry = retry]
<1>1. q \in PollRecord /\ q.stage = "sent" /\ q.retry = retry
  BY DEF NoPoll, PollRecord
<1>2. /\ i \in PollIds /\ polls[i].stage = "none" /\ polls \in [PollIds -> PollRecord]
      /\ polls' = [polls EXCEPT ![i] = q]
  BY DEF DeskInv, FreePolls, Sent
<1> HIDE DEF q
<1>3. polls'[i] = q /\ \A j \in PollIds \ {i} : polls'[j] = polls[j]
  BY <1>2
<1>4. QED BY <1>1, <1>2, <1>3 DEF AwaitsPoll

LEMMA DeskKeepsDesk ==
  ASSUME WaitInv, DeskStep
  PROVE  DeskInv'
<1> USE DEF DeskRecord
<1>1. /\ DeskInv /\ desk \in DeskRecord /\ polls \in [PollIds -> PollRecord]
      /\ pickups \in SUBSET PickupRecord
      /\ (desk.loading \/ desk.refreshing => AwaitsPoll)
      /\ (desk.claiming # None => AwaitsPickup)
  BY DEF WaitInv, DeskInv
<1>2. CASE QuietPoll
  <2>1. PICK i \in FreePolls : Sent(i, TRUE, FALSE)
    BY <1>2 DEF QuietPoll
  <2>2. /\ polls' \in [PollIds -> PollRecord] /\ AwaitsPoll'
        /\ \A j \in PollIds : polls[j].stage # "none" => polls'[j] = polls[j]
    BY <1>1, <2>1, SentKeepsPolls
  <2>3. UNCHANGED <<desk, pickups>>
    BY <1>2 DEF QuietPoll
  <2>4. AwaitsPickup => AwaitsPickup'
    BY <2>2, <2>3 DEF AwaitsPickup
  <2>5. QED BY <1>1, <2>2, <2>3, <2>4 DEF DeskInv
<1>3. CASE Refresh
  <2>1. PICK i \in FreePolls : Sent(i, FALSE, FALSE)
    BY <1>3 DEF Refresh
  <2>2. /\ polls' \in [PollIds -> PollRecord] /\ AwaitsPoll'
        /\ \A j \in PollIds : polls[j].stage # "none" => polls'[j] = polls[j]
    BY <1>1, <2>1, SentKeepsPolls
  <2>3. desk' = [desk EXCEPT !.refreshing = TRUE] /\ UNCHANGED pickups
    BY <1>3 DEF Refresh
  <2>4. desk' \in DeskRecord /\ desk'.claiming = desk.claiming
    BY <1>1, <2>3
  <2>5. AwaitsPickup => AwaitsPickup'
    BY <2>2, <2>3 DEF AwaitsPickup
  <2>6. QED BY <1>1, <2>2, <2>3, <2>4, <2>5 DEF DeskInv
<1>4. CASE QueueMoves \/ DeskLeft
  <2>1. UNCHANGED <<desk, polls, pickups>>
    BY <1>4 DEF QueueMoves, DeskLeft, deskVars
  <2>2. QED BY <1>1, <2>1, StillKeepsWaiting
<1>5. ASSUME NEW i \in PollIds, QueueServed(i) PROVE DeskInv'
  <2>1. /\ UNCHANGED <<desk, pickups>> /\ polls[i].stage = "sent"
        /\ \E ok \in BOOLEAN :
             polls' = [polls EXCEPT ![i] = [polls[i] EXCEPT !.stage = "answered", !.seen = Waiting, !.ok = ok]]
    BY <1>1, <1>5 DEF QueueServed
  <2>2. Waiting \in SUBSET Callers
    BY DEF Waiting
  <2>3. /\ polls' \in [PollIds -> PollRecord]
        /\ \A j \in PollIds : /\ polls'[j].stage = "none" <=> polls[j].stage = "none"
                              /\ polls'[j].retry = polls[j].retry
    <3>1. PICK ok \in BOOLEAN :
            polls' = [polls EXCEPT ![i] = [polls[i] EXCEPT !.stage = "answered", !.seen = Waiting, !.ok = ok]]
      BY <2>1
    <3> DEFINE q == [polls[i] EXCEPT !.stage = "answered", !.seen = Waiting, !.ok = ok]
    <3>2. polls[i] \in PollRecord
      BY <1>1
    <3>3. q \in PollRecord /\ q.stage = "answered" /\ q.retry = polls[i].retry
      BY <2>2, <3>2 DEF PollRecord
    <3>4. polls' = [polls EXCEPT ![i] = q]
      BY <3>1
    <3> HIDE DEF q
    <3>5. QED BY <1>1, <2>1, <3>3, <3>4
  <2>4. (AwaitsPoll => AwaitsPoll') /\ (AwaitsPickup => AwaitsPickup')
    BY <2>1, <2>3 DEF AwaitsPoll, AwaitsPickup
  <2>5. QED BY <1>1, <2>1, <2>3, <2>4 DEF DeskInv
<1>6. ASSUME NEW i \in PollIds, QueueLoaded(i) PROVE DeskInv'
  <2>1. desk' = Loaded(i) /\ polls' = [polls EXCEPT ![i] = NoPoll] /\ UNCHANGED pickups
    BY <1>6 DEF QueueLoaded
  <2>2. /\ polls' \in [PollIds -> PollRecord]
        /\ \A j \in PollIds \ {i} : polls'[j] = polls[j]
    BY <1>1, <2>1 DEF NoPoll, PollRecord
  <2>3. /\ desk' \in DeskRecord /\ ~desk'.loading /\ ~desk'.refreshing
        /\ desk'.claiming = IF polls[i].retry THEN None ELSE desk.claiming
    BY <1>1, <2>1 DEF Loaded, PollRecord
  <2>4. AwaitsPickup /\ ~polls[i].retry => AwaitsPickup'
    BY <2>1, <2>2 DEF AwaitsPickup
  <2>5. QED BY <1>1, <2>1, <2>2, <2>3, <2>4 DEF DeskInv
<1>7. ASSUME NEW c \in Callers, pickup(c) PROVE DeskInv'
  <2> DEFINE p == [call |-> c, answer |-> None, live |-> TRUE]
  <2>1. /\ desk' = [desk EXCEPT !.claiming = c, !.error = None]
        /\ pickups' = pickups \cup {p} /\ UNCHANGED polls
    BY <1>7 DEF pickup
  <2>2. p \in PickupRecord /\ p.live
    BY DEF PickupRecord
  <2> HIDE DEF p
  <2>3. AwaitsPickup' /\ (AwaitsPoll => AwaitsPoll')
    BY <2>1, <2>2 DEF AwaitsPickup, AwaitsPoll
  <2>4. /\ desk' \in DeskRecord /\ desk'.loading = desk.loading
        /\ desk'.refreshing = desk.refreshing
    BY <1>1, <2>1
  <2>5. QED BY <1>1, <2>1, <2>2, <2>3, <2>4 DEF DeskInv
<1>8. ASSUME NEW p \in pickups, PickupServed(p) PROVE DeskInv'
  <2>1. PICK said \in {"ok", "claimed", "error"} :
          pickups' = (pickups \ {p}) \cup {[p EXCEPT !.answer = said]}
    BY <1>8 DEF PickupServed
  <2>2. UNCHANGED <<desk, polls>>
    BY <1>8 DEF PickupServed
  <2>3. p \in PickupRecord
    BY <1>1
  <2> DEFINE q == [p EXCEPT !.answer = said]
  <2>4. q \in PickupRecord /\ q.live = p.live
    BY <2>3 DEF PickupRecord
  <2> HIDE DEF q
  <2>5. (AwaitsPickup => AwaitsPickup') /\ (AwaitsPoll => AwaitsPoll')
    BY <2>1, <2>2, <2>4 DEF AwaitsPickup, AwaitsPoll, q
  <2>6. QED BY <1>1, <2>1, <2>2, <2>4, <2>5 DEF DeskInv, q
<1>9. ASSUME NEW p \in pickups, PickupAnswered(p) PROVE DeskInv'
  <2>1. /\ p \in PickupRecord /\ p.answer \in {"ok", "claimed", "error"}
        /\ pickups' = pickups \ {p}
    BY <1>1, <1>9 DEF PickupAnswered, PickupRecord
  <2>2. CASE /\ desk' = IF p.live THEN [desk EXCEPT !.claiming = None] ELSE desk
             /\ UNCHANGED polls
    <3>1. /\ desk' \in DeskRecord /\ desk'.loading = desk.loading
          /\ desk'.refreshing = desk.refreshing
          /\ desk'.claiming = IF p.live THEN None ELSE desk.claiming
      BY <1>1, <2>2
    <3>2. /\ ~p.live /\ AwaitsPickup => AwaitsPickup'
          /\ AwaitsPoll => AwaitsPoll'
      BY <2>1, <2>2 DEF AwaitsPickup, AwaitsPoll
    <3>3. QED BY <1>1, <2>1, <2>2, <3>1, <3>2 DEF DeskInv
  <2>3. CASE /\ \E i \in FreePolls : Sent(i, TRUE, TRUE)
             /\ desk' = [desk EXCEPT !.error = IF p.answer = "ok" THEN "lost" ELSE p.answer]
    <3>1. PICK i \in FreePolls : Sent(i, TRUE, TRUE)
      BY <2>3
    <3>2. /\ polls' \in [PollIds -> PollRecord] /\ AwaitsPoll' /\ i \in PollIds
          /\ polls'[i].stage # "none" /\ polls'[i].retry
      BY <1>1, <3>1, SentKeepsPolls DEF FreePolls
    <3>3. AwaitsPickup'
      BY <3>2 DEF AwaitsPickup
    <3>4. desk' \in DeskRecord
      BY <1>1, <2>1, <2>3
    <3>5. QED BY <1>1, <2>1, <3>2, <3>3, <3>4 DEF DeskInv
  <2>4. CASE ~p.live /\ UNCHANGED <<desk, polls>>
    <3>1. (AwaitsPickup => AwaitsPickup') /\ (AwaitsPoll => AwaitsPoll')
      BY <2>1, <2>4 DEF AwaitsPickup, AwaitsPoll
    <3>2. QED BY <1>1, <2>1, <2>4, <3>1 DEF DeskInv
  <2>5. QED BY <1>9, <2>2, <2>3, <2>4 DEF PickupAnswered
<1>10. QED BY <1>2, <1>3, <1>4, <1>5, <1>6, <1>7, <1>8, <1>9 DEF DeskStep

LEMMA DeskKeepsWaiting ==
  ASSUME WaitInv, DeskStep, UNCHANGED <<monitorVars, recordsVars, linkVars>>
  PROVE  WaitInv'
<1>1. UNCHANGED <<list, panel, record, late, route, session, form>>
  BY DEF DeskStep, monitorVars, recordsVars
<1>2. goto' \in Screens \cup {goto} /\ (goto' = "calling" => goto' = goto)
  BY DEF DeskStep, QuietPoll, Refresh, QueueMoves, DeskLeft, PickupServed, PickupAnswered,
         QueueServed, QueueLoaded, pickup, Screens, AuthPages
<1>3. QED BY <1>1, <1>2, DeskKeepsDesk, GoingKeepsWaiting DEF WaitInv

LEMMA WaitInvariant == PagesSpec => []WaitInv
<1>1. PagesInit => WaitInv
  <2> SUFFICES ASSUME PagesInit PROVE WaitInv
    OBVIOUS
  <2>1. RouterInv /\ None \notin Screens /\ route = "login"
    BY RouterAssumption
       DEF PagesInit, RouterInit, RouterInv, NoForm, FormRecord, Screens, AuthPages
  <2>2. PanelInv
    BY <2>1 DEF PagesInit, RecordsInit, PanelInv, NoPanel, PanelRecord, ErrorIsOfSelection
  <2>3. RecordInv
    BY <2>1 DEF PagesInit, RecordsInit, RecordInv, NoRecord, RecordRecord
  <2>4. ListInv
    BY <2>1 DEF PagesInit, MonitorInit, ListInv, NoList, ListRecord, OnePollLoop, Lists
  <2>5. DeskInv
    BY DEF PagesInit, DeskInit, DeskInv, NoDesk, DeskRecord, NoPoll, PollRecord
  <2>6. QED BY <2>1, <2>2, <2>3, <2>4, <2>5 DEF WaitInv
<1>2. WaitInv /\ [PagesNext]_pagesVars => WaitInv'
  <2> SUFFICES ASSUME WaitInv, [PagesNext]_pagesVars PROVE WaitInv'
    OBVIOUS
  <2>1. CASE RouterStep /\ UNCHANGED <<monitorVars, recordsVars, deskVars, linkVars>>
    BY <2>1, RouterKeepsWaiting DEF monitorVars, recordsVars, deskVars
  <2>2. CASE MonitorStep /\ UNCHANGED <<recordsVars, deskVars>>
    BY <2>2, MonitorKeepsWaiting
  <2>3. CASE RecordsStep /\ UNCHANGED <<monitorVars, deskVars, linkVars>>
    BY <2>3, RecordsKeepWaiting
  <2>4. CASE DeskStep /\ UNCHANGED <<monitorVars, recordsVars, linkVars>>
    BY <2>4, DeskKeepsWaiting
  <2>5. /\ (list.asked \/ list.stray) \in BOOLEAN /\ list.stray \in BOOLEAN /\ late \in BOOLEAN
        /\ Abandoned \in SUBSET PickupRecord /\ {} \in SUBSET PickupRecord
        /\ route \in Screens /\ goto \in Screens \cup {None}
    <3>1. list.stray \in BOOLEAN /\ late \in BOOLEAN
      BY DEF WaitInv, ListInv, ListRecord, RecordInv
    <3>2. (list.asked \/ list.stray) \in BOOLEAN
      OBVIOUS
    <3>3. Abandoned \in SUBSET PickupRecord
      <4> SUFFICES ASSUME NEW p \in pickups PROVE [p EXCEPT !.live = FALSE] \in PickupRecord
        BY DEF Abandoned
      <4>1. p \in PickupRecord
        BY DEF WaitInv, DeskInv
      <4>2. QED BY <4>1 DEF PickupRecord
    <3>4. route \in Screens /\ goto \in Screens \cup {None}
      BY DEF WaitInv, RouterInv
    <3>5. QED BY <3>1, <3>2, <3>3, <3>4
  <2>6. \A page \in Screens : Admitted(page) \in Screens
    BY DEF Admitted, Screens, AuthPages
  <2>7. CASE Navigates
    <3>1. CASE Admitted(goto) = route
      <4>1. goto' = None /\ UNCHANGED <<list, panel, record, late, desk, polls, pickups, route, session, form>>
        BY <2>7, <3>1 DEF Navigates, monitorVars, recordsVars, deskVars
      <4>2. route # "calling"
        BY <2>7, <3>1, RouterAssumption DEF Navigates, Admitted, WaitInv, RouterInv
      <4>3. RouterInv' /\ Stuck' = Stuck
        BY <4>1, RouterAssumption DEF WaitInv, RouterInv, Stuck, Screens, AuthPages
      <4>4. RecordInv'
        BY <4>1, <4>2, <4>3 DEF WaitInv, RecordInv
      <4>5. QED BY <4>1, <4>3, <4>4, StillKeepsWaiting DEF WaitInv
    <3>2. CASE Admitted(goto) # route
      BY <2>5, <2>6, <2>7, <3>2, EnteringKeepsWaiting DEF Navigates
    <3>3. QED BY <3>1, <3>2
  <2>8. CASE handleMenuClick
    <3>1. "home" \in Screens /\ "panel" \in Screens
      BY DEF Screens
    <3>2. QED BY <2>5, <2>8, <3>1, EnteringKeepsWaiting DEF handleMenuClick
  <2>9. ASSUME NEW page \in Addresses, Visits(page) PROVE WaitInv'
    BY <2>5, <2>6, <2>9, EnteringKeepsWaiting DEF Visits, Addresses
  <2>10. CASE UNCHANGED pagesVars
    <3>1. UNCHANGED <<list, panel, record, late, desk, polls, pickups, route, goto, session, form>>
      BY <2>10 DEF pagesVars, monitorVars, recordsVars, deskVars, routerVars
    <3>2. QED BY <3>1, GoingKeepsWaiting DEF WaitInv, RouterInv
  <2>11. QED BY <2>1, <2>2, <2>3, <2>4, <2>7, <2>8, <2>9, <2>10 DEF PagesNext
<1>3. QED BY <1>1, <1>2, PTL DEF PagesSpec

(* ConversationHistoryPanel.tsx, the cancelled flag: what a fetch of an    *)
(* earlier selection runs into is not shown under a later one.             *)
THEOREM ErrorsAreOfSelection == PagesSpec => []ErrorIsOfSelection
BY WaitInvariant, WaitInvSuffices, PTL

(* The loading flags of the history panel and page, the result page, the   *)
(* list of live calls and the inbound desk: while the session lasts, what  *)
(* shows a spinner or disables a button of theirs has a request under way  *)
(* that ends it, and a waiting page that says "ended" is left. Not the     *)
(* spinner of the waiting page itself, which a server error leaves for     *)
(* ever (useCallPolling.ts:73), nor the "loading" of a watched call.       *)
THEOREM SpinnersEnd == PagesSpec => []NoEndlessSpinner
BY WaitInvariant, WaitInvSuffices, PTL
=============================================================================
