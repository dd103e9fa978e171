--------------------------- MODULE TypingLineProofs ---------------------------
(***************************************************************************)
(* Proofs about TypingLine: what a reader believes of the text box was     *)
(* said to it last, or is taken back by a word that is already on its way. *)
(***************************************************************************)
EXTENDS TypingLine, TLAPS

\* A reader p with the queue q will not believe in entered text once it has
\* read its queue; S is the set of the readers that do now.
Settled(q, p, S) ==
    /\ p \in S => \E j \in 1..Len(q) : q[j] = "end"
    /\ \A i \in 1..Len(q) : q[i] = "entered" => \E j \in 1..Len(q) : j > i /\ q[j] = "end"

TypingInv ==
    /\ TypeOK /\ ToldIsWatched /\ LineHasReason
    /\ typing \subseteq widget /\ entered \subseteq widget
    /\ \A p \in Peers \ up : transit[p] = <<>> /\ p \notin entered
    /\ \A p \in Peers \ told : Settled(transit[p], p, entered)

-------------------------------------------------------------------------------
\* Adding to a queue, for the provers.
LEMMA Appended ==
    ASSUME NEW q \in Seq(Alerts), NEW k \in Alerts
    PROVE  /\ Append(q, k) \in Seq(Alerts) /\ Len(Append(q, k)) = Len(q) + 1
           /\ Len(q) \in Nat /\ Append(q, k)[Len(q) + 1] = k
           /\ \A i \in 1..Len(q) : Append(q, k)[i] = q[i]
OBVIOUS

\* The set of the believers matters only at the reader itself.
LEMMA SettledSame ==
    ASSUME NEW q, NEW p, NEW S, NEW T, p \in T => p \in S, Settled(q, p, S)
    PROVE  Settled(q, p, T)
BY DEF Settled

\* With nothing on its way a reader that does not believe is settled.
LEMMA SettledEmpty ==
    ASSUME NEW p, NEW S, p \notin S
    PROVE  Settled(<<>>, p, S)
<1>1. Len(<<>>) = 0 /\ 1..0 = {}
  OBVIOUS
<1> QED BY <1>1 DEF Settled

\* "typing" is no word about entered text, and "end" is the last one.
LEMMA SettledAppend ==
    ASSUME NEW q \in Seq(Alerts), NEW p, NEW S
    PROVE  /\ Settled(q, p, S) => Settled(Append(q, "typing"), p, S)
           /\ Settled(Append(q, "end"), p, S)
<1>1. "typing" \in Alerts /\ "end" \in Alerts
  BY DEF Alerts
<1>2. ASSUME Settled(q, p, S) PROVE Settled(Append(q, "typing"), p, S)
  <2> DEFINE r == Append(q, "typing")
  <2>1. /\ Len(r) = Len(q) + 1 /\ Len(q) \in Nat /\ r[Len(q) + 1] = "typing"
        /\ \A i \in 1..Len(q) : r[i] = q[i]
    BY <1>1, Appended
  <2> HIDE DEF r
  <2>2. p \in S => \E j \in 1..Len(r) : r[j] = "end"
    <3> SUFFICES ASSUME p \in S PROVE \E j \in 1..Len(r) : r[j] = "end"
      OBVIOUS
    <3>1. PICK j \in 1..Len(q) : q[j] = "end"
      BY <1>2 DEF Settled
    <3> QED BY <2>1, <3>1
  <2>3. ASSUME NEW i \in 1..Len(r), r[i] = "entered"
        PROVE  \E j \in 1..Len(r) : j > i /\ r[j] = "end"
    <3>1. i \in 1..Len(q) /\ q[i] = "entered"
      BY <2>1, <2>3
    <3>2. PICK j \in 1..Len(q) : j > i /\ q[j] = "end"
      BY <1>2, <3>1 DEF Settled
    <3> QED BY <2>1, <3>2
  <2>4. Settled(r, p, S)
    BY <2>2, <2>3 DEF Settled
  <2> QED BY <2>4 DEF r
<1>3. Settled(Append(q, "end"), p, S)
  <2> DEFINE r == Append(q, "end")
  <2>1. Len(r) = Len(q) + 1 /\ Len(q) \in Nat /\ r[Len(q) + 1] = "end"
    BY <1>1, Appended
  <2> HIDE DEF r
  <2>2. \A i \in 1..Len(r) : r[i] = "entered" => Len(r) > i
    BY <2>1
  <2>3. Len(r) \in 1..Len(r) /\ r[Len(r)] = "end"
    BY <2>1
  <2>4. Settled(r, p, S)
    BY <2>2, <2>3 DEF Settled
  <2> QED BY <2>4 DEF r
<1> QED BY <1>2, <1>3

\* Reading the first word of the queue.
LEMMA SettledTail ==
    ASSUME NEW q \in Seq(Alerts), NEW p, NEW S, q # <<>>, Settled(q, p, S)
    PROVE  /\ Head(q) = "typing" => Settled(Tail(q), p, S)
           /\ Head(q) = "entered" => Settled(Tail(q), p, S \cup {p})
           /\ Head(q) = "end" => Settled(Tail(q), p, S \ {p})
<1> DEFINE r == Tail(q)
<1>1. /\ Len(q) \in Nat /\ Len(q) >= 1 /\ Len(r) = Len(q) - 1 /\ Head(q) = q[1]
      /\ \A i \in 1..Len(r) : r[i] = q[i + 1]
  OBVIOUS
<1> HIDE DEF r
<1>2. ASSUME NEW i \in 1..Len(r), r[i] = "entered"
      PROVE  \E j \in 1..Len(r) : j > i /\ r[j] = "end"
  <2>1. i + 1 \in 1..Len(q) /\ q[i + 1] = "entered"
    BY <1>1, <1>2
  <2>2. PICK j \in 1..Len(q) : j > i + 1 /\ q[j] = "end"
    BY <2>1 DEF Settled
  <2>3. j - 1 \in 1..Len(r) /\ j - 1 > i /\ r[j - 1] = "end"
    BY <1>1, <2>2
  <2> QED BY <2>3
<1>3. ASSUME NEW j \in 1..Len(q), q[j] = "end", j > 1
      PROVE  \E n \in 1..Len(r) : r[n] = "end"
  <2>1. j - 1 \in 1..Len(r) /\ r[j - 1] = "end"
    BY <1>1, <1>3
  <2> QED BY <2>1
<1>4. Head(q) = "entered" => \E n \in 1..Len(r) : r[n] = "end"
  <2> SUFFICES ASSUME Head(q) = "entered" PROVE \E n \in 1..Len(r) : r[n] = "end"
    OBVIOUS
  <2>1. PICK j \in 1..Len(q) : j > 1 /\ q[j] = "end"
    BY <1>1 DEF Settled
  <2> QED BY <1>3, <2>1
<1>5. Head(q) = "typing" /\ p \in S => \E n \in 1..Len(r) : r[n] = "end"
  <2> SUFFICES ASSUME Head(q) = "typing", p \in S PROVE \E n \in 1..Len(r) : r[n] = "end"
    OBVIOUS
  <2>1. PICK j \in 1..Len(q) : q[j] = "end"
    BY DEF Settled
  <2>2. j > 1
    BY <1>1, <2>1
  <2> QED BY <1>3, <2>1, <2>2
<1> QED BY <1>2, <1>4, <1>5 DEF Settled, r

-------------------------------------------------------------------------------
\* Posting to i leaves the other queues alone.
LEMMA Posted ==
    ASSUME NEW t \in [Peers -> Seq(Alerts)], NEW i, NEW k \in Alerts
    PROVE  /\ Post(t, i, k) \in [Peers -> Seq(Alerts)]
           /\ \A p \in Peers : p # i => Post(t, i, k)[p] = t[p]
           /\ \A p \in Peers : p \notin up => Post(t, i, k)[p] = t[p]
           /\ \A p \in Peers : p = i /\ p \in up => Post(t, i, k)[p] = Append(t[p], k)
<1>1. \A p \in Peers : Append(t[p], k) \in Seq(Alerts)
  BY Appended
<1> QED BY <1>1 DEF Post

\* So does the worker's throttled "typing".
LEMMA TypingPosted ==
    ASSUME NEW t \in [Peers -> Seq(Alerts)], NEW i
    PROVE  /\ Typing(t, i) \in [Peers -> Seq(Alerts)]
           /\ \A p \in Peers : p # i => Typing(t, i)[p] = t[p]
           /\ \A p \in Peers : p \notin up => Typing(t, i)[p] = t[p]
           /\ \A p \in Peers : Settled(t[p], p, entered) => Settled(Typing(t, i)[p], p, entered)
<1>1. "typing" \in Alerts
  BY DEF Alerts
<1>2. \A p \in Peers : Settled(t[p], p, entered) => Settled(Append(t[p], "typing"), p, entered)
  BY SettledAppend
<1>3. CASE i \in due /\ i \in up
  <2>1. Typing(t, i) = Post(t, i, "typing")
    BY <1>3 DEF Typing
  <2>2. /\ Post(t, i, "typing") \in [Peers -> Seq(Alerts)]
        /\ \A p \in Peers : p # i => Post(t, i, "typing")[p] = t[p]
        /\ \A p \in Peers : p = i => Post(t, i, "typing")[p] = Append(t[p], "typing")
    BY <1>1, <1>3, Posted
  <2>3. \A p \in Peers : p \notin up => Post(t, i, "typing")[p] = t[p]
    BY <1>3, <2>2
  <2>4. ASSUME NEW p \in Peers, Settled(t[p], p, entered)
        PROVE  Settled(Post(t, i, "typing")[p], p, entered)
    <3>1. CASE p = i
      BY <1>2, <2>2, <2>4, <3>1
    <3>2. CASE p # i
      BY <2>2, <2>4, <3>2
    <3> QED BY <3>1, <3>2
  <2> QED BY <2>1, <2>2, <2>3, <2>4
<1>4. CASE ~(i \in due /\ i \in up)
  <2>1. Typing(t, i) = t
    BY <1>4 DEF Typing, Post
  <2> QED BY <2>1
<1> QED BY <1>3, <1>4

\* What typingHandler sends: unless it says "entered" the reader stays settled.
LEMMA ChangedPosted ==
    ASSUME NEW t \in [Peers -> Seq(Alerts)], NEW i
    PROVE  /\ Changed(t, i) \in [Peers -> Seq(Alerts)]
           /\ \A p \in Peers : p # i => Changed(t, i)[p] = t[p]
           /\ \A p \in Peers : p \notin up => Changed(t, i)[p] = t[p]
           /\ ticking => \A p \in Peers :
                Settled(t[p], p, entered) => Settled(Changed(t, i)[p], p, entered)
<1>1. "entered" \in Alerts
  BY DEF Alerts
<1> QED BY <1>1, TypingPosted, Posted DEF Changed

\* A peer that is told "end" is settled, if there is a connection to it or
\* nothing it could believe in.
LEMMA EndPosted ==
    ASSUME TypingInv, NEW i
    PROVE  /\ Post(transit, i, "end") \in [Peers -> Seq(Alerts)]
           /\ \A p \in Peers : p # i => Post(transit, i, "end")[p] = transit[p]
           /\ \A p \in Peers : p \notin up => Post(transit, i, "end")[p] = transit[p]
           /\ \A p \in Peers : p = i => Settled(Post(transit, i, "end")[p], p, entered)
<1>1. "end" \in Alerts /\ transit \in [Peers -> Seq(Alerts)]
  BY DEF Alerts, TypingInv, TypeOK
<1>2. ASSUME NEW p \in Peers, p = i PROVE Settled(Post(transit, i, "end")[p], p, entered)
  <2>1. CASE p \in up
    BY <1>1, <1>2, <2>1, Posted, SettledAppend
  <2>2. CASE p \notin up
    <3>1. transit[p] = <<>> /\ p \notin entered
      BY <2>2 DEF TypingInv
    <3>2. Settled(<<>>, p, entered)
      BY <3>1, SettledEmpty
    <3> QED BY <1>1, <2>2, <3>1, <3>2, Posted
  <2> QED BY <2>1, <2>2
<1> QED BY <1>1, <1>2, Posted

-------------------------------------------------------------------------------
\* The invariant holds in every behaviour.
THEOREM TypingInvariant == Spec => []TypingInv
<1>1. Init => TypingInv
  <2> SUFFICES ASSUME Init PROVE TypingInv
    OBVIOUS
  <2>1. ASSUME NEW p \in Peers PROVE Settled(transit[p], p, entered)
    <3>1. transit[p] = <<>> /\ p \notin entered
      BY DEF Init
    <3> QED BY <3>1, SettledEmpty
  <2>2. transit \in [Peers -> Seq(Alerts)]
    BY DEF Init
  <2> QED BY <2>1, <2>2 DEF Init, TypingInv, TypeOK, ToldIsWatched, LineHasReason
<1>2. TypingInv /\ [Next]_vars => TypingInv'
  <2> SUFFICES ASSUME TypingInv, [Next]_vars PROVE TypingInv'
    OBVIOUS
  <2> USE DEF TypingInv, TypeOK, ToldIsWatched, LineHasReason
  <2>a. ASSUME UNCHANGED <<up, readerVars>>,
               current' \in Peers \cup {Global, NoItem}, box' \in BOOLEAN, ticking' \in BOOLEAN,
               due' \subseteq Peers, told' \subseteq Peers, ToldIsWatched',
               transit' \in [Peers -> Seq(Alerts)],
               \A p \in Peers \ up : transit'[p] = transit[p],
               \A p \in Peers \ told' : Settled(transit'[p], p, entered)
        PROVE  TypingInv'
    BY <2>a DEF readerVars
  <2>1. CASE Type
    <3>1. /\ transit' = Changed(transit, current) /\ current' = current
          /\ ticking' = Watched(ticking) /\ box' \in BOOLEAN /\ due' = due \ {current}
          /\ told' = IF ticking THEN told ELSE Announced(current)
          /\ UNCHANGED <<up, readerVars>>
      BY <2>1 DEF Type
    <3>2. told' \subseteq Peers /\ ToldIsWatched' /\ ticking' \in BOOLEAN
      BY <3>1, ItemsAssumption DEF Announced, Watched
    <3>3. /\ transit' \in [Peers -> Seq(Alerts)]
          /\ \A p \in Peers \ up : transit'[p] = transit[p]
      BY <3>1, ChangedPosted
    <3>4. ASSUME NEW p \in Peers \ told' PROVE Settled(transit'[p], p, entered)
      <4>1. p \notin told
        BY <3>1, <3>4 DEF Announced
      <4>2. CASE ticking
        BY <3>1, <4>1, <4>2, ChangedPosted
      <4>3. CASE ~ticking
        <5>1. p # current
          BY <3>1, <3>4, <4>3 DEF Announced
        <5> QED BY <3>1, <4>1, <5>1, ChangedPosted
      <4> QED BY <4>2, <4>3
    <3> QED BY <2>a, <3>1, <3>2, <3>3, <3>4
  <2>2. CASE SendButtonClicked
    <3> DEFINE t == Post(transit, current, "end")
    <3>1. /\ transit' = Changed(t, current) /\ current' = current /\ current # NoItem
          /\ ticking' = Watched(ticking) /\ box' = FALSE /\ due' = due \ {current}
          /\ told' = IF ticking THEN told \ {current} ELSE Announced(current)
          /\ UNCHANGED <<up, readerVars>>
      BY <2>2 DEF SendButtonClicked
    <3>2. told' \subseteq Peers /\ ToldIsWatched' /\ ticking' \in BOOLEAN
      BY <3>1, ItemsAssumption DEF Announced, Watched
    <3>3. /\ t \in [Peers -> Seq(Alerts)]
          /\ \A p \in Peers : p # current => t[p] = transit[p]
          /\ \A p \in Peers : p \notin up => t[p] = transit[p]
          /\ \A p \in Peers : p = current => Settled(t[p], p, entered)
      BY EndPosted
    <3> HIDE DEF t
    <3>4. /\ transit' \in [Peers -> Seq(Alerts)]
          /\ \A p \in Peers \ up : transit'[p] = transit[p]
      BY <3>1, <3>3, ChangedPosted
    <3>5. ASSUME NEW p \in Peers \ told' PROVE Settled(transit'[p], p, entered)
      <4>1. CASE ticking
        <5>1. Settled(t[p], p, entered)
          BY <3>1, <3>3, <3>5, <4>1
        <5> QED BY <3>1, <3>3, <4>1, <5>1, ChangedPosted
      <4>2. CASE ~ticking
        <5>1. p # current /\ p \notin told
          BY <3>1, <3>5, <4>2 DEF Announced
        <5> QED BY <3>1, <3>3, <5>1, ChangedPosted
      <4> QED BY <4>1, <4>2
    <3> QED BY <2>a, <3>1, <3>2, <3>4, <3>5
  <2>3. ASSUME NEW i \in Peers \cup {Global}, CurrentItemChanged(i) PROVE TypingInv'
    <3> DEFINE t == Post(transit, current, "end")
    <3>1. /\ current' = i /\ i # current /\ UNCHANGED <<box, ticking, up, readerVars>>
          /\ due' \subseteq Peers /\ told' \subseteq Peers /\ told \ {current} \subseteq told'
      BY <2>3 DEF CurrentItemChanged, Announced
    <3>2. /\ t \in [Peers -> Seq(Alerts)]
          /\ \A p \in Peers : p # current => t[p] = transit[p]
          /\ \A p \in Peers : p \notin up => t[p] = transit[p]
          /\ \A p \in Peers : p = current => Settled(t[p], p, entered)
      BY EndPosted
    <3>3. ToldIsWatched'
      BY <2>3, <3>1 DEF CurrentItemChanged, Announced
    <3>4. \A p \in Peers \ told' : Settled(t[p], p, entered)
      BY <3>1, <3>2
    <3> HIDE DEF t
    <3>5. CASE box
      <4>1. transit' = Post(Typing(t, i), i, "entered") /\ told' = Announced(i) \ {current}
        BY <2>3, <3>5 DEF CurrentItemChanged, Leaving, t
      <4>2. "entered" \in Alerts
        BY DEF Alerts
      <4>3. /\ Typing(t, i) \in [Peers -> Seq(Alerts)]
            /\ \A p \in Peers : p # i => Typing(t, i)[p] = t[p]
            /\ \A p \in Peers : p \notin up => Typing(t, i)[p] = t[p]
        <5>1. t \in [Peers -> Seq(Alerts)]
          BY <3>2
        <5> HIDE DEF TypingInv, TypeOK, ToldIsWatched, LineHasReason
        <5> QED BY <5>1, TypingPosted
      <4>4. /\ transit' \in [Peers -> Seq(Alerts)]
            /\ \A p \in Peers : p # i => transit'[p] = t[p]
            /\ \A p \in Peers : p \notin up => transit'[p] = t[p]
        <5> DEFINE u == Typing(t, i)
        <5>1. /\ u \in [Peers -> Seq(Alerts)]
              /\ \A p \in Peers : p # i => u[p] = t[p]
              /\ \A p \in Peers : p \notin up => u[p] = t[p]
          BY <4>3
        <5>2. transit' = Post(u, i, "entered")
          BY <4>1
        <5> HIDE DEF u, TypingInv, TypeOK, ToldIsWatched, LineHasReason
        <5>3. /\ Post(u, i, "entered") \in [Peers -> Seq(Alerts)]
              /\ \A p \in Peers : p # i => Post(u, i, "entered")[p] = u[p]
              /\ \A p \in Peers : p \notin up => Post(u, i, "entered")[p] = u[p]
          BY <4>2, <5>1, Posted
        <5> QED BY <5>1, <5>2, <5>3
      <4>5. \A p \in Peers \ told' : p # i
        BY <3>1, <4>1 DEF Announced
      <4> QED BY <2>a, <3>1, <3>2, <3>3, <3>4, <4>4, <4>5
    <3>6. CASE ~box
      <4>1. transit' = t
        BY <2>3, <3>6 DEF CurrentItemChanged, Leaving, t
      <4> QED BY <2>a, <3>1, <3>2, <3>3, <3>4, <4>1
    <3> QED BY <3>5, <3>6
  <2>4. CASE TextEnteredCallback
    <3>1. /\ transit' = Post(transit, current, "end") /\ told' = told \ {current}
          /\ ticking' = FALSE /\ UNCHANGED <<current, box, due, up, readerVars>>
      BY <2>4 DEF TextEnteredCallback
    <3>2. ToldIsWatched'
      BY <3>1
    <3>3. \A p \in Peers \ told' : Settled(transit'[p], p, entered)
      BY <3>1, EndPosted
    <3> QED BY <2>a, <3>1, <3>2, <3>3, EndPosted
  <2>5. ASSUME NEW p \in Peers, HalfSecondPasses(p) PROVE TypingInv'
    BY <2>5 DEF HalfSecondPasses, readerVars
  <2>6. ASSUME NEW p \in Peers, Alert(p) PROVE TypingInv'
    <3> DEFINE q == transit[p]
               k == Head(q)
               rest == Tail(q)
    <3>1. /\ q \in Seq(Alerts) /\ q # <<>> /\ rest \in Seq(Alerts) /\ p \in up
          /\ transit' = [transit EXCEPT ![p] = rest]
          /\ UNCHANGED <<writerVars, up, widget>>
      BY <2>6 DEF Alert
    <3>2. p \notin told =>
             /\ k = "typing" => Settled(rest, p, entered)
             /\ k = "entered" => Settled(rest, p, entered \cup {p})
             /\ k = "end" => Settled(rest, p, entered \ {p})
      BY <3>1, SettledTail
    <3>3. k \in Alerts
      BY <3>1
    <3> HIDE DEF q, k, rest
    <3>4. p \notin told => p \in entered \/ Settled(rest, p, entered)
      <4> SUFFICES ASSUME p \notin told, p \notin entered PROVE Settled(rest, p, entered)
        OBVIOUS
      <4>1. k # "entered" => Settled(rest, p, entered)
        BY <3>2, <3>3 DEF Alerts
      <4>2. k = "entered" => Settled(rest, p, entered)
        BY <3>2, SettledSame
      <4> QED BY <4>1, <4>2
    <3>a. ASSUME entered' \ {p} = entered \ {p}, entered' \subseteq widget,
                 typing' \subseteq widget, fresh' \subseteq Peers, visible' \subseteq Peers,
                 line' \in [Peers -> {"none", "typing", "entered"}], LineHasReason',
                 p \notin told => Settled(rest, p, entered')
          PROVE  TypingInv'
      <4>1. transit' \in [Peers -> Seq(Alerts)] /\ transit'[p] = rest
        BY <3>1
      <4>2. \A r \in Peers : r # p => transit'[r] = transit[r]
        BY <3>1
      <4>3. \A r \in Peers : r # p => (r \in entered' <=> r \in entered)
        BY <3>a
      <4>4. ASSUME NEW r \in Peers, r \notin told PROVE Settled(transit'[r], r, entered')
        <5>1. CASE r = p
          BY <3>a, <4>1, <4>4, <5>1
        <5>2. CASE r # p
          <6>1. transit'[r] = transit[r] /\ Settled(transit[r], r, entered)
            BY <4>2, <4>4, <5>2
          <6>2. r \in entered' => r \in entered
            BY <4>3, <5>2
          <6> QED BY <6>1, <6>2, SettledSame
        <5> QED BY <5>1, <5>2
      <4>5. \A r \in Peers \ up : transit'[r] = <<>> /\ r \notin entered'
        BY <3>1, <4>2, <4>3
      <4>6. entered' \subseteq Peers /\ typing' \subseteq Peers
        BY <3>a
      <4> QED BY <3>1, <3>a, <4>1, <4>4, <4>5, <4>6 DEF writerVars
    <3>5. CASE p \notin widget
      <4>1. UNCHANGED <<typing, entered, fresh, line, visible, widget>>
        BY <2>6, <3>1, <3>5 DEF Alert
      <4> QED BY <3>4, <3>5, <3>a, <4>1
    <3>6. CASE p \in widget /\ k = "typing" /\ ShowTyping(p)
      <4>1. p \notin told => Settled(rest, p, entered')
        BY <3>2, <3>6 DEF ShowTyping
      <4>2. LineHasReason' /\ line' \in [Peers -> {"none", "typing", "entered"}]
        BY <3>1, <3>6 DEF ShowTyping
      <4> QED BY <3>6, <3>a, <4>1, <4>2 DEF ShowTyping
    <3>7. CASE p \in widget /\ k = "entered" /\ ShowEntered(p)
      <4>1. entered' = entered \cup {p} /\ UNCHANGED <<typing, fresh>>
        BY <3>7 DEF ShowEntered
      <4>2. p \notin told => Settled(rest, p, entered')
        BY <3>2, <3>7, <4>1
      <4>3. LineHasReason' /\ line' \in [Peers -> {"none", "typing", "entered"}]
            /\ visible' \subseteq Peers
        BY <3>1, <3>7 DEF ShowEntered
      <4> QED BY <3>7, <3>a, <4>1, <4>2, <4>3
    <3>8. CASE p \in widget /\ k = "end" /\ ClearInfoLine(p)
      <4>1. p \notin told => Settled(rest, p, entered')
        BY <3>2, <3>8 DEF ClearInfoLine
      <4>2. LineHasReason' /\ line' \in [Peers -> {"none", "typing", "entered"}]
        BY <3>1, <3>8 DEF ClearInfoLine
      <4> QED BY <3>8, <3>a, <4>1, <4>2 DEF ClearInfoLine
    <3> QED BY <2>6, <3>5, <3>6, <3>7, <3>8 DEF Alert, k, rest, q
  <2>b. ASSUME UNCHANGED <<writerVars, transit>>, up \subseteq up', up' \subseteq Peers,
               widget' \subseteq Peers, fresh' \subseteq Peers, entered' \subseteq entered,
               typing' \subseteq typing, typing' \subseteq widget', entered' \subseteq widget',
               visible' \subseteq Peers, line' \in [Peers -> {"none", "typing", "entered"}],
               LineHasReason'
        PROVE  TypingInv'
    <3>1. \A r \in Peers \ told' : Settled(transit'[r], r, entered')
      BY <2>b DEF writerVars, Settled
    <3> QED BY <2>b, <3>1 DEF writerVars
  <2>7. ASSUME NEW p \in Peers, TimerCallback(p) PROVE TypingInv'
    <3>1. /\ UNCHANGED <<writerVars, up, transit, widget>> /\ p \in widget
          /\ typing' = typing \ {p} /\ fresh' = fresh
      BY <2>7 DEF TimerCallback, ClearInfoLine
    <3>2. CASE p \in entered
      <4>1. /\ entered' = entered /\ line' = AfterTyping(p)
            /\ visible' = IF line[p] = "typing" THEN visible \cup {p} ELSE visible
        BY <2>7, <3>2 DEF TimerCallback
      <4>2. LineHasReason' /\ line' \in [Peers -> {"none", "typing", "entered"}]
        BY <3>1, <3>2, <4>1 DEF AfterTyping
      <4> QED BY <2>b, <3>1, <4>1, <4>2
    <3>3. CASE ClearInfoLine(p)
      BY <2>b, <3>1, <3>3 DEF ClearInfoLine
    <3> QED BY <2>7, <3>2, <3>3 DEF TimerCallback
  <2>8. ASSUME NEW p \in Peers, GrowsStale(p) PROVE TypingInv'
    BY <2>b, <2>8 DEF GrowsStale
  <2>9. ASSUME NEW p \in Peers, RemoveLastWidget(p) PROVE TypingInv'
    BY <2>b, <2>9 DEF RemoveLastWidget
  <2>10. ASSUME NEW p \in Peers, SwitchToUuid(p) PROVE TypingInv'
    BY <2>b, <2>10 DEF SwitchToUuid
  <2>11. ASSUME NEW p \in Peers, Disconnected(p) PROVE TypingInv'
    <3>1. /\ up' = up \ {p} /\ transit' = [transit EXCEPT ![p] = <<>>]
          /\ UNCHANGED <<writerVars, widget>> /\ <<>> \in Seq(Alerts)
      BY <2>11 DEF Disconnected
    <3>2. p \notin entered' /\ entered' \subseteq entered /\ LineHasReason'
      BY <2>11 DEF Disconnected, ClearInfoLine
    <3>3. Settled(<<>>, p, entered')
      BY <3>2, SettledEmpty
    <3>4. \A r \in Peers : r # p /\ r \notin told => Settled(transit'[r], r, entered')
      BY <3>1, <3>2 DEF Settled
    <3>5. /\ typing' \subseteq typing /\ line' = line /\ visible' \subseteq visible /\ fresh' = fresh
      BY <2>11 DEF Disconnected, ClearInfoLine
    <3> QED BY <3>1, <3>2, <3>3, <3>4, <3>5 DEF writerVars
  <2>12. ASSUME NEW p \in Peers, Reconnected(p) PROVE TypingInv'
    BY <2>b, <2>12 DEF Reconnected, readerVars
  <2>13. CASE UNCHANGED vars
    BY <2>13 DEF vars, writerVars, readerVars
  <2> QED BY <2>1, <2>2, <2>3, <2>4, <2>5, <2>6, <2>7, <2>8, <2>9, <2>10, <2>11, <2>12, <2>13
          DEF Next, Writer, Reader
<1> QED BY <1>1, <1>2, PTL DEF Spec

-------------------------------------------------------------------------------
\* Only the peer of the current conversation was told of entered text, and
\* there is something that will take the word back.
THEOREM AnnouncementsAreWatched == Spec => []ToldIsWatched
<1>1. TypingInv => ToldIsWatched
  BY DEF TypingInv
<1> QED BY <1>1, TypingInvariant, PTL

\* A reader's belief in entered text is what it was told last, or is taken
\* back by what is on its way.
THEOREM BeliefsAreRecent == Spec => []BeliefIsRecent
<1>1. TypingInv => BeliefIsRecent
  <2> SUFFICES ASSUME TypingInv, NEW p \in Peers \ told
               PROVE  LET ends == {i \in DOMAIN transit[p] : transit[p][i] = "end"} IN
                        /\ p \in entered => ends # {}
                        /\ \A i \in DOMAIN transit[p] :
                             transit[p][i] = "entered" => \E j \in ends : j > i
    BY DEF BeliefIsRecent
  <2>1. Settled(transit[p], p, entered) /\ DOMAIN transit[p] = 1..Len(transit[p])
    BY DEF TypingInv, TypeOK
  <2> QED BY <2>1 DEF Settled
<1> QED BY <1>1, TypingInvariant, PTL

\* A line that is shown has the flag that gets it taken down.
THEOREM LinesHaveReasons == Spec => []LineHasReason
<1>1. TypingInv => LineHasReason
  BY DEF TypingInv
<1> QED BY <1>1, TypingInvariant, PTL

\* The variables have their types, and only the peer of the current
\* conversation was told of entered text that nothing will take back.
THEOREM TypingIsSound == Spec => []TypingSound
<1>1. TypingInv => TypingSound
  BY DEF TypingInv, TypingSound
<1> QED BY <1>1, TypingInvariant, PTL
===============================================================================
