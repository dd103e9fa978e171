--------------------------- MODULE DiscoveryProofs ---------------------------
(***************************************************************************)
(* How processes find each other: by datagrams, and by the lists of peers  *)
(* they ask each other for.                                                *)
(*                                                                         *)
(* What discovery promises for all processes, however many datagrams are   *)
(* lost and however often processes start: a process that asks no more has *)
(* somebody in its table, and none dials itself.                           *)
(*                                                                         *)
(* What asking for lists promises rests on an order: the entries of a peer *)
(* in syncablePeers are in the order they were made, and the requests it   *)
(* has yet to answer are the youngest of them.  So the first entry, by     *)
(* which a list is judged, is never younger than the request the list      *)
(* answers.                                                                *)
(***************************************************************************)
EXTENDS Discovery, PeerSync, QueueLemmas

\* The types of what a process knows; the steps on them do not depend on the
\* datagrams.
Types ==
    /\ phase \in [Nodes -> {"off", "up", "failing", "failed"}]
    /\ table \in [Nodes -> SUBSET Nodes] /\ dialing \in [Nodes -> SUBSET Nodes]
    /\ single \in [Nodes -> BOOLEAN] /\ repeat \in [Nodes -> BOOLEAN]

DInv == Types /\ NoSelfDial /\ QuietKnows

-------------------------------------------------------------------------------
\* attemptConnection keeps what is said of tables and dials, for the worker
\* dials no process that is its own.
LEMMA Attempt ==
    ASSUME NEW n \in Nodes, NEW ms \in SUBSET Nodes, DInv, AttemptConnections(n, ms)
    PROVE  /\ table' \in [Nodes -> SUBSET Nodes] /\ dialing' \in [Nodes -> SUBSET Nodes]
           /\ \A k \in Nodes : k \notin dialing'[k] /\ k \notin table'[k]
           /\ \A k \in Nodes : table[k] \subseteq table'[k]
<1> DEFINE new == {m \in ms : Dialable(n, m)}
<1>1. new \subseteq Nodes /\ n \notin new
  BY DEF Dialable
<1>2. table' = [table EXCEPT ![n] = @ \cup new] /\ dialing' = [dialing EXCEPT ![n] = @ \cup new]
  BY DEF AttemptConnections
<1> HIDE DEF new
<1>3. QED
  BY <1>1, <1>2 DEF DInv, Types, NoSelfDial

\* Only a start makes a process run; whoever keeps its timers and loses no
\* entry stays as good as it was.
LEMMA KeepsQuiet ==
    ASSUME DInv, phase' = phase, single' = single, repeat' = repeat,
           \A k \in Nodes : table[k] \subseteq table'[k]
    PROVE  QuietKnows'
<1> SUFFICES ASSUME NEW k \in Nodes, phase[k] = "up", ~single[k], ~repeat[k]
             PROVE  table'[k] # {}
  BY DEF QuietKnows
<1> QED
  BY DEF DInv, QuietKnows

-------------------------------------------------------------------------------
\* Before anybody starts, nobody knows anybody and nobody dials.
LEMMA InitDInv == Init => DInv
  BY DEF Init, DInv, Types, NoSelfDial, QuietKnows

\* Starts, datagrams, timers, dials and lists keep it: none takes an entry out
\* of the table of a process that runs.
LEMMA NextDInv == DInv /\ [Next]_vars => DInv'
<1> SUFFICES ASSUME DInv, [Next]_vars PROVE DInv'
  OBVIOUS
<1> USE DEF peers, timers
<1>1. ASSUME UNCHANGED vars PROVE DInv'
  BY <1>1 DEF vars, DInv, Types, NoSelfDial, QuietKnows
<1>2. ASSUME NEW n \in Nodes, Start(n) PROVE DInv'
  BY <1>2 DEF Start, Send, DInv, Types, NoSelfDial, QuietKnows
<1>3. ASSUME NEW n \in Nodes, StartFails(n) PROVE DInv'
  BY <1>3 DEF StartFails, DInv, Types, NoSelfDial, QuietKnows
<1>4. ASSUME NEW n \in Nodes, ServerSetupFailure(n) PROVE DInv'
  BY <1>4 DEF ServerSetupFailure, Stopped, DInv, Types, NoSelfDial, QuietKnows
<1>5. ASSUME NEW n \in Nodes, DiscoveryTimerSingleShot(n) PROVE DInv'
  BY <1>5 DEF DiscoveryTimerSingleShot, Alone, Send, DInv, Types, NoSelfDial, QuietKnows
<1>6. ASSUME NEW n \in Nodes, DiscoveryTimerPersistent(n) PROVE DInv'
  BY <1>6 DEF DiscoveryTimerPersistent, Alone, Send, DInv, Types, NoSelfDial, QuietKnows
<1>7. ASSUME NEW n \in Nodes, Bloom(n) PROVE DInv'
  BY <1>7 DEF Bloom, Send, DInv, Types, NoSelfDial, QuietKnows
<1>8. ASSUME NEW n \in Nodes, Quit(n) PROVE DInv'
  BY <1>8 DEF Quit, Stopped, DInv, Types, NoSelfDial, QuietKnows
<1>9. ASSUME NEW n \in Nodes, NEW m \in Nodes, HearDiscover(n, m) PROVE DInv'
  BY <1>9 DEF HearDiscover, Send, DInv, Types, NoSelfDial, QuietKnows
<1>10. ASSUME NEW n \in Nodes, NEW m \in Nodes, HearName(n, m) PROVE DInv'
  <2>1. AttemptConnections(n, {m}) /\ phase' = phase /\ single' = single /\ repeat' = repeat
    BY <1>10 DEF HearName
  <2>2. QuietKnows'
    BY <2>1, Attempt, KeepsQuiet
  <2>3. QED
    BY <2>1, <2>2, Attempt DEF DInv, Types, NoSelfDial
<1>11. ASSUME NEW n \in Nodes, NEW m \in Nodes, Sync(n, m) PROVE DInv'
  <2>1. AttemptConnections(n, Linked(m)) /\ phase' = phase /\ single' = single /\ repeat' = repeat
    BY <1>11 DEF Sync
  <2>2. Linked(m) \in SUBSET Nodes
    BY DEF Linked
  <2>3. QuietKnows'
    BY <2>1, <2>2, Attempt, KeepsQuiet
  <2>4. QED
    BY <2>1, <2>2, <2>3, Attempt DEF DInv, Types, NoSelfDial
<1>12. ASSUME NEW n \in Nodes, NEW m \in Nodes, DialSucceeds(n, m) PROVE DInv'
  <2>1. m # n
    BY <1>12 DEF DialSucceeds, DInv, NoSelfDial
  <2>2. QED
    BY <1>12, <2>1 DEF DialSucceeds, DInv, Types, NoSelfDial, QuietKnows
<1>13. ASSUME NEW n \in Nodes, NEW m \in Nodes, DialFails(n, m) PROVE DInv'
  BY <1>13 DEF DialFails, DInv, Types, NoSelfDial, QuietKnows
<1>14. ASSUME NEW n \in Nodes, NEW m \in Nodes, LosesPeer(n, m) PROVE DInv'
  BY <1>14 DEF LosesPeer, DInv, Types, NoSelfDial, QuietKnows
<1>15. QED
  BY <1>1, <1>2, <1>3, <1>4, <1>5, <1>6, <1>7, <1>8, <1>9, <1>10, <1>11, <1>12, <1>13, <1>14 DEF Next

-------------------------------------------------------------------------------
\* The tables, dials and timers of processes are sound in every behaviour.
THEOREM DiscoveryInvariant == Spec => []DInv
  BY InitDInv, NextDInv, PTL DEF Spec

-------------------------------------------------------------------------------
(***************************************************************************)
(* The sockets, the datagrams and the connections.                         *)
(***************************************************************************)
\* What the steps of the sockets and connections add to the types above.
Wire ==
    /\ bound \in Seq(Nodes) /\ IsInjective(bound) /\ Bound = {n \in Nodes : phase[n] = "up"}
    /\ udp \subseteq Packets
    /\ \A n \in Nodes : dialing[n] # {} => phase[n] = "up"
    /\ linked \subseteq {n \in Nodes : phase[n] = "up"} \X Nodes
    /\ starts \in 0..MaxStarts

\* The two halves make up the type invariant.
LEMMA TypesAndWire == Types /\ Wire <=> TypeOK
  BY DEF Types, Wire, TypeOK

\* What is sent is a set of datagrams between processes.
LEMMA Sent ==
    ASSUME Wire, NEW n \in Nodes, NEW m \in Nodes
    PROVE  /\ Bound \subseteq Nodes /\ Discover(n) \subseteq Packets /\ Name(n, m) \subseteq Packets
           /\ \A k \in Nodes : [kind |-> "discover", from |-> n, to |-> k] \in Packets
<1>1. Bound \subseteq Nodes
  BY DEF Wire
<1>2. Answerers(Host[m]) \subseteq Bound
  BY DEF Answerers, Bound, ToSet
<1>3. QED
  BY <1>1, <1>2 DEF Discover, Name, Packets

\* Datagrams that are lost, kept or doubled are still datagrams.
LEMMA SendType ==
    ASSUME NEW left \in SUBSET Packets, NEW sent \in SUBSET Packets, Send(left, sent)
    PROVE  udp' \subseteq Packets
  BY DEF Send

\* Binding one more socket, and closing one of them.
LEMMA Binds ==
    ASSUME Wire, NEW n \in Nodes, n \notin Bound, bound' = Append(bound, n)
    PROVE  bound' \in Seq(Nodes) /\ IsInjective(bound') /\ Bound' = Bound \cup {n}
<1>1. /\ bound \in Seq(Nodes) /\ \A i, j \in 1..Len(bound) : bound[i] = bound[j] => i = j
      /\ \A i \in 1..Len(bound) : bound[i] # n
  BY DEF Wire, IsInjective, Bound, ToSet
<1>2. /\ DOMAIN bound' = 1..(Len(bound) + 1)
      /\ \A i \in 1..Len(bound) : bound'[i] = bound[i]
      /\ bound'[Len(bound) + 1] = n
  BY <1>1
<1>3. IsInjective(bound')
  BY <1>1, <1>2 DEF IsInjective
<1>4. QED
  BY <1>1, <1>3, AppendSet DEF Bound

\* Closing a socket takes just its process out of the group.
LEMMA Closes ==
    ASSUME Wire, NEW i \in DOMAIN bound, bound' = RemoveAt(bound, i)
    PROVE  bound' \in Seq(Nodes) /\ IsInjective(bound') /\ Bound' = Bound \ {bound[i]}
  BY RemoveAtSet DEF Wire, Bound

\* Only who is running dials what it has heard of.
LEMMA AttemptWire ==
    ASSUME NEW n \in Nodes, NEW ms, phase[n] = "up", Types, Wire,
           AttemptConnections(n, ms), phase' = phase
    PROVE  \A k \in Nodes : dialing'[k] # {} => phase'[k] = "up"
  BY DEF AttemptConnections, Types, Wire

\* Every step keeps the sockets, datagrams, dials and connections typed.
LEMMA NextWire == DInv /\ Wire /\ [Next]_vars => Wire'
<1> SUFFICES ASSUME Types, NoSelfDial, Wire, [Next]_vars PROVE Wire'
  BY DEF DInv
<1> USE DEF peers, timers
<1>1. ASSUME UNCHANGED <<bound, phase, linked, dialing, starts>>, udp' \subseteq Packets PROVE Wire'
  <2>1. Bound' = Bound
    BY <1>1 DEF Bound
  <2>2. QED
    BY <1>1, <2>1 DEF Wire
<1>2. ASSUME NEW n \in Nodes, Start(n) PROVE Wire'
  <2>1. n \notin Bound /\ bound' = Append(bound, n) /\ starts < MaxStarts
    BY <1>2 DEF Start, Wire
  <2>2. bound' \in Seq(Nodes) /\ IsInjective(bound') /\ Bound' = Bound \cup {n}
    BY <2>1, Binds
  <2>3. {[kind |-> "discover", from |-> n, to |-> m] : m \in Bound \cup {n}} \subseteq Packets
    BY Sent
  <2>4. udp' \subseteq Packets
    BY <1>2, <2>3, SendType DEF Start, Wire
  <2>5. Bound' = {k \in Nodes : phase'[k] = "up"}
    BY <1>2, <2>2 DEF Start, Wire, Types
  <2>6. starts' \in 0..MaxStarts
    BY <1>2, BoundsAssumption DEF Start, Wire
  <2>7. QED
    BY <1>2, <2>2, <2>4, <2>5, <2>6 DEF Start, Wire, Types
<1>3. ASSUME NEW n \in Nodes, StartFails(n) PROVE Wire'
  <2>1. Bound' = Bound
    BY <1>3 DEF StartFails, Bound
  <2>2. starts' \in 0..MaxStarts
    BY <1>3, BoundsAssumption DEF StartFails, Wire
  <2>3. QED
    BY <1>3, <2>1, <2>2 DEF StartFails, Wire, Types
<1>4. ASSUME NEW n \in Nodes, ServerSetupFailure(n) PROVE Wire'
  <2>1. Bound' = Bound
    BY <1>4 DEF ServerSetupFailure, Bound
  <2>2. QED
    BY <1>4, <2>1 DEF ServerSetupFailure, Wire, Types
<1>5. ASSUME NEW n \in Nodes, DiscoveryTimerSingleShot(n) \/ DiscoveryTimerPersistent(n) \/ Bloom(n)
      PROVE  Wire'
  <2>1. udp' \subseteq Packets
    BY <1>5, Sent, SendType DEF DiscoveryTimerSingleShot, DiscoveryTimerPersistent, Bloom, Wire
  <2>2. QED
    BY <1>1, <1>5, <2>1 DEF DiscoveryTimerSingleShot, DiscoveryTimerPersistent, Bloom
<1>6. ASSUME NEW n \in Nodes, NEW m \in Nodes, HearDiscover(n, m) PROVE Wire'
  <2>1. PICK left \in SUBSET udp : Send(left, Name(n, m))
    BY <1>6 DEF HearDiscover, Read
  <2>2. udp' \subseteq Packets
    BY <2>1, Sent, SendType DEF Wire
  <2>3. QED
    BY <1>1, <1>6, <2>2 DEF HearDiscover
<1>7. ASSUME NEW n \in Nodes, NEW m \in Nodes, HearName(n, m) PROVE Wire'
  <2>1. AttemptConnections(n, {m}) /\ phase[n] = "up" /\ phase' = phase
    BY <1>7 DEF HearName
  <2>2. udp' \subseteq Packets /\ Bound' = Bound
    BY <1>7 DEF HearName, Read, Wire, Bound
  <2>3. QED
    BY <1>7, <2>1, <2>2, AttemptWire DEF HearName, Wire
<1>8. ASSUME NEW n \in Nodes, NEW m \in Nodes, Sync(n, m) PROVE Wire'
  <2>1. <<n, m>> \in linked
    BY <1>8 DEF Sync, Linked
  <2>2. phase[n] = "up" /\ AttemptConnections(n, Linked(m)) /\ phase' = phase
    BY <1>8, <2>1 DEF Sync, Wire
  <2>3. Bound' = Bound
    BY <1>8 DEF Sync, Bound
  <2>4. QED
    BY <1>8, <2>2, <2>3, AttemptWire DEF Sync, Wire
<1>9. ASSUME NEW n \in Nodes, NEW m \in Nodes, DialSucceeds(n, m) PROVE Wire'
  <2>1. n # m /\ n \in Bound /\ m \in Bound /\ Bound' = Bound
    BY <1>9 DEF DialSucceeds, NoSelfDial, Wire, Bound
  <2>2. linked' \subseteq {k \in Nodes : phase'[k] = "up"} \X Nodes
    BY <1>9, <2>1 DEF DialSucceeds, Wire
  <2>3. \A k \in Nodes : dialing'[k] # {} => phase'[k] = "up"
    BY <1>9 DEF DialSucceeds, Wire, Types
  <2>4. QED
    BY <1>9, <2>1, <2>2, <2>3 DEF DialSucceeds, Wire
<1>10. ASSUME NEW n \in Nodes, NEW m \in Nodes, DialFails(n, m) PROVE Wire'
  <2>1. Bound' = Bound
    BY <1>10 DEF DialFails, Bound
  <2>2. \A k \in Nodes : dialing'[k] # {} => phase'[k] = "up"
    BY <1>10 DEF DialFails, Wire, Types
  <2>3. QED
    BY <1>10, <2>1, <2>2 DEF DialFails, Wire
<1>11. ASSUME NEW n \in Nodes, Quit(n) PROVE Wire'
  <2>1. bound' \in Seq(Nodes) /\ IsInjective(bound') /\ Bound' = Bound \ {n}
    <3>1. CASE n \notin Bound /\ UNCHANGED bound
      BY <3>1 DEF Wire, Bound
    <3>2. CASE \E i \in DOMAIN bound : bound[i] = n /\ bound' = RemoveAt(bound, i)
      BY <3>2, Closes
    <3>3. QED
      BY <1>11, <3>1, <3>2 DEF Quit
  <2>2. Bound' = {k \in Nodes : phase'[k] = "up"}
    BY <1>11, <2>1 DEF Quit, Wire, Types
  <2>3. \A k \in Nodes : dialing'[k] # {} => phase'[k] = "up"
    BY <1>11 DEF Quit, Wire, Types
  <2>4. linked' \subseteq {k \in Nodes : phase'[k] = "up"} \X Nodes
    BY <1>11 DEF Quit, Wire, Types
  <2>5. QED
    BY <1>11, <2>1, <2>2, <2>3, <2>4 DEF Quit, Wire
<1>12. ASSUME UNCHANGED vars PROVE Wire'
  BY <1>1, <1>12 DEF vars, Wire
<1>13. ASSUME NEW n \in Nodes, NEW m \in Nodes, LosesPeer(n, m) PROVE Wire'
  <2>1. Bound' = Bound
    BY <1>13 DEF LosesPeer, Bound
  <2>2. QED
    BY <1>13, <2>1 DEF LosesPeer, Wire
<1>14. QED
  BY <1>2, <1>3, <1>4, <1>5, <1>6, <1>7, <1>8, <1>9, <1>10, <1>11, <1>12, <1>13 DEF Next

-------------------------------------------------------------------------------
\* The variables have their types, discoveryTimerSingleShot and
\* discoveryTimerPersistent stop asking only when an entry says whom to ask for
\* more, and a process hears its own question and its own answer, and never
\* dials itself.
THEOREM DiscoveryIsSound == Spec => []DiscoverySound
<1>1. Init => Wire
  <2>1. SUFFICES ASSUME Init PROVE Wire
    OBVIOUS
  <2>2. bound = <<>> /\ Bound = {} /\ IsInjective(bound)
    BY <2>1 DEF Init, Bound, IsInjective, ToSet
  <2>3. QED
    BY <2>1, <2>2, BoundsAssumption DEF Init, Wire
<1>2. DInv /\ Wire /\ [Next]_vars => Wire'
  BY NextWire
<1>3. DInv /\ Wire => DiscoverySound
  BY TypesAndWire DEF DInv, DiscoverySound
<1>4. QED
  BY <1>1, <1>2, <1>3, DiscoveryInvariant, PTL DEF Spec

-------------------------------------------------------------------------------
(***************************************************************************)
(* Asking for lists of peers.                                              *)
(***************************************************************************)
\* The requests w are the youngest of the entries s, which are in order.
Fit(s, w) ==
    /\ s \in Seq(Ages) /\ w \in Seq(Ages)
    /\ Len(w) <= Len(s)
    /\ \A i \in 1..Len(w) : w[i] = s[(Len(s) - Len(w)) + i]
    /\ \A i, j \in 1..Len(s) : i < j => s[i] >= s[j]

SyncInv ==
    /\ RoundTypeOK /\ RoundHasTimer /\ LateListsRefused
    /\ \A p \in Peers : Fit(syncable[p], waiting[p])
    /\ \A p \in Peers \ authed : waiting[p] = <<>>

-------------------------------------------------------------------------------
\* Zero is an age, and ages are natural numbers of at most Life.
LEMMA AgesAreNat == /\ 0 \in Ages /\ Life \in Nat
                    /\ \A a \in Ages : a \in Nat /\ a <= Life
BY LifeAssumption DEF Ages

\* Asking a peer that gets the request.
LEMMA FitAsked ==
    ASSUME NEW s, NEW w, Fit(s, w) PROVE Fit(Added(s), Append(w, 0))
<1> DEFINE t == Append(s, 0)
           v == Append(w, 0)
<1>1. s \in Seq(Ages) /\ w \in Seq(Ages) /\ Len(s) \in Nat /\ Len(w) \in Nat /\ 0 \in Ages
  BY AgesAreNat DEF Fit
<1>2. /\ t \in Seq(Ages) /\ Len(t) = Len(s) + 1 /\ t[Len(s) + 1] = 0
      /\ \A i \in 1..Len(s) : t[i] = s[i]
  BY <1>1
<1>3. /\ v \in Seq(Ages) /\ Len(v) = Len(w) + 1 /\ v[Len(w) + 1] = 0
      /\ \A i \in 1..Len(w) : v[i] = w[i]
  BY <1>1
<1>4. \A i \in 1..Len(s) : s[i] \in Nat
  BY <1>1, AgesAreNat
<1> HIDE DEF t, v
<1>5. \A i \in 1..Len(v) : v[i] = t[(Len(t) - Len(v)) + i]
  <2> SUFFICES ASSUME NEW i \in 1..Len(v) PROVE v[i] = t[(Len(t) - Len(v)) + i]
    OBVIOUS
  <2>1. CASE i = Len(w) + 1
    BY <1>1, <1>2, <1>3, <2>1
  <2>2. CASE i \in 1..Len(w)
    <3>1. (Len(t) - Len(v)) + i = (Len(s) - Len(w)) + i /\ (Len(s) - Len(w)) + i \in 1..Len(s)
      BY <1>1, <1>2, <1>3, <2>2 DEF Fit
    <3> QED BY <1>2, <1>3, <2>2, <3>1 DEF Fit
  <2> QED BY <1>1, <1>3, <2>1, <2>2
<1>6. \A i, j \in 1..Len(t) : i < j => t[i] >= t[j]
  <2> SUFFICES ASSUME NEW i \in 1..Len(t), NEW j \in 1..Len(t), i < j PROVE t[i] >= t[j]
    OBVIOUS
  <2>1. i \in 1..Len(s)
    BY <1>1, <1>2
  <2>2. CASE j \in 1..Len(s)
    BY <1>2, <2>1, <2>2 DEF Fit
  <2>3. CASE j = Len(s) + 1
    BY <1>2, <1>4, <2>1, <2>3
  <2> QED BY <1>1, <1>2, <2>2, <2>3
<1>7. Len(v) <= Len(t)
  BY <1>1, <1>2, <1>3 DEF Fit
<1>8. Fit(t, v)
  BY <1>2, <1>3, <1>5, <1>6, <1>7 DEF Fit
<1> QED BY <1>8 DEF Added, t, v

\* Asking a peer that has nothing else to answer, whether it gets the request
\* or not.
LEMMA FitAlone ==
    ASSUME NEW s, NEW w, Fit(s, w)
    PROVE  Fit(Added(s), <<0>>) /\ Fit(Added(s), <<>>) /\ Fit(s, <<>>)
<1>1. Fit(s, <<>>)
  BY DEF Fit
<1>2. Fit(Added(s), Append(<<>>, 0))
  BY <1>1, FitAsked
<1>3. Append(<<>>, 0) = <<0>>
  OBVIOUS
<1>4. Fit(Added(s), <<>>)
  BY <1>2 DEF Fit
<1> QED BY <1>1, <1>2, <1>3, <1>4

\* An answer takes the oldest request and the oldest entry away; and if that
\* entry counts, the request is no older.
LEMMA FitAnswered ==
    ASSUME NEW s, NEW w, Fit(s, w), w # <<>>
    PROVE  /\ s # <<>> /\ Fit(Tail(s), Tail(w)) /\ Fit(s, Tail(w))
           /\ Head(s) < Life => Head(w) < Life
           /\ Head(w) \in Ages
<1>1. /\ s \in Seq(Ages) /\ w \in Seq(Ages) /\ Len(s) \in Nat /\ Len(w) \in Nat
      /\ Len(w) >= 1 /\ Len(s) >= Len(w)
  BY DEF Fit
<1>2. s # <<>>
  BY <1>1
<1>3. /\ Tail(s) \in Seq(Ages) /\ Len(Tail(s)) = Len(s) - 1
      /\ \A i \in 1..(Len(s) - 1) : Tail(s)[i] = s[i + 1]
  BY <1>1, <1>2
<1>4. /\ Tail(w) \in Seq(Ages) /\ Len(Tail(w)) = Len(w) - 1
      /\ \A i \in 1..(Len(w) - 1) : Tail(w)[i] = w[i + 1]
  BY <1>1
<1>5. ASSUME NEW i \in 1..(Len(w) - 1)
      PROVE  /\ Tail(w)[i] = s[((Len(s) - Len(w)) + i) + 1]
             /\ (Len(s) - Len(w)) + i \in 1..(Len(s) - 1)
  <2>1. i + 1 \in 1..Len(w) /\ (Len(s) - Len(w)) + (i + 1) = ((Len(s) - Len(w)) + i) + 1
    BY <1>1
  <2>2. w[i + 1] = s[(Len(s) - Len(w)) + (i + 1)]
    BY <2>1 DEF Fit
  <2> QED BY <1>1, <1>4, <2>1, <2>2
<1>6. Fit(Tail(s), Tail(w))
  <2>1. \A i \in 1..Len(Tail(w)) : Tail(w)[i] = Tail(s)[(Len(Tail(s)) - Len(Tail(w))) + i]
    BY <1>1, <1>3, <1>4, <1>5
  <2>2. \A i, j \in 1..Len(Tail(s)) : i < j => Tail(s)[i] >= Tail(s)[j]
    BY <1>1, <1>3 DEF Fit
  <2> QED BY <1>1, <1>3, <1>4, <2>1, <2>2 DEF Fit
<1>7. Fit(s, Tail(w))
  <2>1. \A i \in 1..Len(Tail(w)) : Tail(w)[i] = s[(Len(s) - Len(Tail(w))) + i]
    BY <1>1, <1>4, <1>5
  <2> QED BY <1>1, <1>4, <2>1 DEF Fit
<1>8. Head(s) < Life => Head(w) < Life
  <2>1. w[1] = s[(Len(s) - Len(w)) + 1] /\ (Len(s) - Len(w)) + 1 \in 1..Len(s) /\ 1 \in 1..Len(s)
    BY <1>1 DEF Fit
  <2>2. s[1] \in Nat /\ w[1] \in Nat /\ Life \in Nat
    BY <1>1, <2>1, AgesAreNat
  <2>3. s[1] >= w[1]
    BY <1>1, <2>1, <2>2 DEF Fit
  <2> QED BY <1>1, <1>2, <2>2, <2>3
<1>9. Head(w) \in Ages
  BY <1>1
<1> QED BY <1>2, <1>6, <1>7, <1>8, <1>9

\* Time makes all of them older alike.
LEMMA FitAged ==
    ASSUME NEW s, NEW w, Fit(s, w)
    PROVE  Fit([i \in DOMAIN s |-> Aged(s[i])], [i \in DOMAIN w |-> Aged(w[i])])
<1> DEFINE t == [i \in DOMAIN s |-> Aged(s[i])]
           v == [i \in DOMAIN w |-> Aged(w[i])]
<1>1. /\ s \in Seq(Ages) /\ w \in Seq(Ages) /\ Len(s) \in Nat /\ Len(w) \in Nat
      /\ DOMAIN s = 1..Len(s) /\ DOMAIN w = 1..Len(w) /\ Len(w) <= Len(s)
  BY DEF Fit
<1>2. \A a \in Ages : Aged(a) \in Ages
  BY LifeAssumption DEF Ages, Aged
<1>3. \A a, b \in Ages : a >= b => Aged(a) >= Aged(b)
  BY LifeAssumption DEF Ages, Aged
<1>4. t \in Seq(Ages) /\ Len(t) = Len(s) /\ \A i \in 1..Len(s) : t[i] = Aged(s[i])
  BY <1>1, <1>2
<1>5. v \in Seq(Ages) /\ Len(v) = Len(w) /\ \A i \in 1..Len(w) : v[i] = Aged(w[i])
  BY <1>1, <1>2
<1> HIDE DEF t, v
<1>6. \A i \in 1..Len(v) : v[i] = t[(Len(t) - Len(v)) + i]
  <2> SUFFICES ASSUME NEW i \in 1..Len(w) PROVE v[i] = t[(Len(s) - Len(w)) + i]
    BY <1>4, <1>5
  <2>1. (Len(s) - Len(w)) + i \in 1..Len(s)
    BY <1>1
  <2>2. w[i] = s[(Len(s) - Len(w)) + i]
    BY DEF Fit
  <2> QED BY <1>4, <1>5, <2>1, <2>2
<1>7. \A i, j \in 1..Len(t) : i < j => t[i] >= t[j]
  <2> SUFFICES ASSUME NEW i \in 1..Len(s), NEW j \in 1..Len(s), i < j PROVE t[i] >= t[j]
    BY <1>4
  <2>1. s[i] \in Ages /\ s[j] \in Ages /\ s[i] >= s[j]
    BY <1>1 DEF Fit
  <2> QED BY <1>3, <1>4, <2>1
<1> QED BY <1>1, <1>4, <1>5, <1>6, <1>7 DEF Fit, t, v

-------------------------------------------------------------------------------
\* What a request to p does to the entries and the requests of all peers.
LEMMA RequestKeeps ==
    ASSUME NEW p \in Peers, NEW E \in [Peers -> Seq(Ages)], NEW W \in [Peers -> Seq(Ages)],
           \A q \in Peers : Fit(E[q], W[q]),
           \A q \in Peers \ authed : W[q] = <<>>,
           RequestSyncPacket(p, E, W)
    PROVE  /\ syncable' \in [Peers -> Seq(Ages)] /\ waiting' \in [Peers -> Seq(Ages)]
           /\ \A q \in Peers : Fit(syncable'[q], waiting'[q])
           /\ \A q \in Peers \ authed : waiting'[q] = <<>>
<1>1. /\ syncable' = [E EXCEPT ![p] = Added(E[p])]
      /\ waiting' = [W EXCEPT ![p] = IF p \in authed THEN Append(W[p], 0) ELSE W[p]]
  BY DEF RequestSyncPacket
<1>2. Fit(Added(E[p]), Append(W[p], 0)) /\ Fit(Added(E[p]), <<>>)
  BY FitAsked, FitAlone
<1>3. p \notin authed => W[p] = <<>>
  OBVIOUS
<1>4. /\ Added(E[p]) \in Seq(Ages) /\ Append(W[p], 0) \in Seq(Ages)
  BY <1>2 DEF Fit
<1> QED BY <1>1, <1>2, <1>3, <1>4

\* syncNext keeps the invariant, whichever handler calls it.
LEMMA SyncNextKeeps ==
    ASSUME NEW A \in SUBSET Peers, NEW E \in [Peers -> Seq(Ages)], NEW W \in [Peers -> Seq(Ages)],
           NEW d \in {Restarted, StoppedTimer},
           \A q \in Peers : Fit(E[q], W[q]),
           \A q \in Peers \ authed : W[q] = <<>>,
           SyncNext(A, E, W, d)
    PROVE  /\ syncing' \in BOOLEAN /\ todo' \subseteq Peers /\ timer' \in 0..Off
           /\ syncing' => timer' # Off
           /\ syncable' \in [Peers -> Seq(Ages)] /\ waiting' \in [Peers -> Seq(Ages)]
           /\ \A q \in Peers : Fit(syncable'[q], waiting'[q])
           /\ \A q \in Peers \ authed : waiting'[q] = <<>>
<1>1. Restarted \in 0..Off /\ StoppedTimer \in 0..Off /\ Restarted # Off
  BY IntervalAssumption DEF Restarted, StoppedTimer, Off
<1>2. CASE /\ syncing' = FALSE /\ todo' = {} /\ timer' = d
           /\ syncable' = E /\ waiting' = W
  BY <1>1, <1>2
<1>3. CASE \E p \in A : /\ todo' = Behind(A, p) /\ timer' = Restarted
                        /\ RequestSyncPacket(p, E, W) /\ syncing' = TRUE
  <2>1. PICK p \in A : /\ todo' = Behind(A, p) /\ timer' = Restarted
                       /\ RequestSyncPacket(p, E, W) /\ syncing' = TRUE
    BY <1>3
  <2>2. todo' \subseteq Peers
    BY <2>1 DEF Behind
  <2> QED BY <1>1, <2>1, <2>2, RequestKeeps
<1> QED BY <1>2, <1>3 DEF SyncNext

\* The invariant holds in every behaviour.
THEOREM SyncInvariant == RoundSpec => []SyncInv
<1>1. RoundInit => SyncInv
  <2> SUFFICES ASSUME RoundInit PROVE SyncInv
    OBVIOUS
  <2>1. Fit(<<>>, <<>>)
    BY DEF Fit
  <2>2. <<>> \in Seq(Ages) /\ Off \in 0..Off /\ Life \in Ages
    BY IntervalAssumption, LifeAssumption DEF Off, Ages
  <2> QED BY <2>1, <2>2 DEF RoundInit, SyncInv, RoundTypeOK, RoundHasTimer, LateListsRefused
<1>2. SyncInv /\ [RoundNext]_syncVars => SyncInv'
  <2> SUFFICES ASSUME SyncInv, [RoundNext]_syncVars PROVE SyncInv'
    OBVIOUS
  <2> USE DEF SyncInv, RoundTypeOK, RoundHasTimer, LateListsRefused
  <2>1. CASE BeginPeerSync
    <3>1. SyncNext(authed, syncable, waiting, Restarted) /\ UNCHANGED <<authed, last>>
      BY <2>1 DEF BeginPeerSync
    <3> QED BY <3>1, SyncNextKeeps
  <2>2. CASE NextSyncTimeout
    <3>1. SyncNext(todo, syncable, waiting, StoppedTimer) /\ UNCHANGED <<authed, last>>
      BY <2>2 DEF NextSyncTimeout
    <3> QED BY <3>1, SyncNextKeeps
  <2>3. ASSUME NEW p \in Peers, SyncHandler(p) PROVE SyncInv'
    <3> DEFINE W == [waiting EXCEPT ![p] = Tail(waiting[p])]
               E == [syncable EXCEPT ![p] = IF syncable[p] = <<>> THEN syncable[p]
                                            ELSE Tail(syncable[p])]
    <3>1. /\ Fit(syncable[p], waiting[p]) /\ waiting[p] # <<>>
      BY <2>3 DEF SyncHandler
    <3>2. /\ syncable[p] # <<>> /\ Fit(Tail(syncable[p]), Tail(waiting[p]))
          /\ Head(syncable[p]) < Life => Head(waiting[p]) < Life
          /\ Head(waiting[p]) \in Ages
      BY <3>1, FitAnswered
    <3>3. p \in authed
      BY <3>1
    <3>4. Tail(syncable[p]) \in Seq(Ages) /\ Tail(waiting[p]) \in Seq(Ages)
      BY <3>2 DEF Fit
    <3>5. /\ E \in [Peers -> Seq(Ages)] /\ W \in [Peers -> Seq(Ages)]
          /\ \A q \in Peers : Fit(E[q], W[q])
          /\ \A q \in Peers \ authed : W[q] = <<>>
      BY <3>2, <3>3, <3>4
    <3>6. last' = [age |-> Head(waiting[p]), believed |-> Counts(p)] /\ authed' = authed
      BY <2>3 DEF SyncHandler
    <3>7. last' \in [age : Ages, believed : BOOLEAN] /\ LateListsRefused'
      BY <3>2, <3>6 DEF Counts, Young
    <3>8. CASE SyncNext(todo, E, W, StoppedTimer)
      <4> HIDE DEF E, W
      <4> QED BY <3>5, <3>6, <3>7, <3>8, SyncNextKeeps
    <3>9. CASE syncable' = E /\ waiting' = W /\ UNCHANGED roundVars
      BY <3>5, <3>6, <3>7, <3>9 DEF roundVars
    <3> QED BY <2>3, <3>8, <3>9 DEF SyncHandler
  <2>4. ASSUME NEW p \in Peers, Ignore(p) PROVE SyncInv'
    <3>1. waiting[p] # <<>> /\ waiting' = [waiting EXCEPT ![p] = Tail(waiting[p])]
          /\ UNCHANGED <<authed, roundVars, syncable, last>>
      BY <2>4 DEF Ignore
    <3>2. Fit(syncable[p], Tail(waiting[p])) /\ p \in authed
      BY <3>1, FitAnswered
    <3>3. Tail(waiting[p]) \in Seq(Ages)
      BY <3>2 DEF Fit
    <3> QED BY <3>1, <3>2, <3>3 DEF roundVars
  <2>5. ASSUME NEW p \in Peers, AuthHandler(p) PROVE SyncInv'
    <3>1. /\ authed' = authed \cup {p}
          /\ syncable' = [syncable EXCEPT ![p] = Added(syncable[p])]
          /\ waiting' = [waiting EXCEPT ![p] = <<0>>]
          /\ UNCHANGED <<roundVars, last>>
      BY <2>5 DEF AuthHandler
    <3>2. Fit(Added(syncable[p]), <<0>>)
      BY FitAlone
    <3>3. Added(syncable[p]) \in Seq(Ages) /\ <<0>> \in Seq(Ages)
      BY <3>2 DEF Fit
    <3> QED BY <3>1, <3>2, <3>3 DEF roundVars
  <2>6. ASSUME NEW p \in Peers, PeerQuit(p) PROVE SyncInv'
    <3>1. /\ authed' = authed \ {p} /\ waiting' = [waiting EXCEPT ![p] = <<>>]
          /\ UNCHANGED <<roundVars, syncable, last>>
      BY <2>6 DEF PeerQuit
    <3>2. Fit(syncable[p], <<>>)
      BY FitAlone
    <3> QED BY <3>1, <3>2 DEF roundVars
  <2>7. CASE Tick
    <3>1. timer' \in 0..Off /\ (timer # Off => timer' # Off)
      BY <2>7, IntervalAssumption DEF Tick, Off
    <3>2. ASSUME NEW p \in Peers PROVE Fit(syncable'[p], waiting'[p])
      BY <2>7, FitAged DEF Tick
    <3>3. syncable' \in [Peers -> Seq(Ages)] /\ waiting' \in [Peers -> Seq(Ages)]
      <4>1. \A p \in Peers : syncable'[p] \in Seq(Ages) /\ waiting'[p] \in Seq(Ages)
        BY <3>2 DEF Fit
      <4> QED BY <2>7, <4>1 DEF Tick
    <3>4. \A p \in Peers \ authed : waiting'[p] = <<>>
      BY <2>7 DEF Tick
    <3> QED BY <2>7, <3>1, <3>2, <3>3, <3>4 DEF Tick
  <2>8. CASE UNCHANGED syncVars
    BY <2>8 DEF syncVars, roundVars
  <2> QED BY <2>1, <2>2, <2>3, <2>4, <2>5, <2>6, <2>7, <2>8 DEF RoundNext
<1> QED BY <1>1, <1>2, PTL DEF RoundSpec

-------------------------------------------------------------------------------
\* While areWeSyncing is set the timer runs: no round is stuck for want of an
\* answer.
THEOREM RoundsHaveTimers == RoundSpec => []RoundHasTimer
<1>1. SyncInv => RoundHasTimer
  BY DEF SyncInv
<1> QED BY <1>1, SyncInvariant, PTL

\* No list that comes too late for its request is believed.
THEOREM LateListsAreRefused == RoundSpec => []LateListsRefused
<1>1. SyncInv => LateListsRefused
  BY DEF SyncInv
<1> QED BY <1>1, SyncInvariant, PTL

\* Every request still to be answered has its entry.
THEOREM EntriesForRequests == RoundSpec => []RequestsHaveEntries
<1>1. SyncInv => RequestsHaveEntries
  <2> SUFFICES ASSUME SyncInv, NEW p \in Peers
               PROVE  /\ Len(waiting[p]) <= Len(syncable[p])
                      /\ \A i \in DOMAIN waiting[p] :
                           waiting[p][i] = syncable[p][(Len(syncable[p]) - Len(waiting[p])) + i]
    BY DEF RequestsHaveEntries
  <2>1. Fit(syncable[p], waiting[p])
    BY DEF SyncInv
  <2>2. DOMAIN waiting[p] = 1..Len(waiting[p])
    BY <2>1 DEF Fit
  <2> QED BY <2>1, <2>2 DEF Fit
<1> QED BY <1>1, SyncInvariant, PTL

\* The three together: rounds have timers and requests have entries, whatever
\* the peers answer and whenever.
THEOREM SyncIsSound == RoundSpec => []SyncSound
<1>1. SyncInv /\ RoundHasTimer /\ RequestsHaveEntries => SyncSound
  BY DEF SyncInv, SyncSound
<1> QED BY <1>1, SyncInvariant, RoundsHaveTimers, EntriesForRequests, PTL
===============================================================================
