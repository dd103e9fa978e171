--------------------------- MODULE PeerWorkerProofs ---------------------------
(***************************************************************************)
(* Theorems about PeerWorker, for any set of peers and of connections and  *)
(* any bounds.  The first part holds however the connections of a peer     *)
(* overlap: types, entries, wrappers, nothing written to another peer than *)
(* the one it is for, no packet without an entry.  The second part, from   *)
(* the definition of Calm on, is about a network in which they do not:     *)
(* there is one invariant of the stages a connection goes through, and     *)
(* from it follow who owns a bufferevent, what a session is, what may end  *)
(* it, and that nobody is out of reach.                                    *)
(***************************************************************************)
EXTENDS PeerWorker, QueueLemmas, FiniteSetTheorems

(***************************************************************************)
(* A bufferevent a signal or an internal message is about has been created *)
(* and, if it was dialled, has heard the result of the dial.  It therefore *)
(* has a peer at the other end, which is what makes the table well typed.  *)
(***************************************************************************)
Settled(b) == phase[b] \notin {"unused", "dialling"}

Reached ==
    /\ \A b \in Bevs : phase[b] # "unused" => remote[b] \in Peers
    /\ \A e \in ToSet(inbox) : e.kind \in BevEvents => Settled(e.bev)
    /\ \A m \in ToSet(wire) : m.kind = "addDefault" => Settled(m.bev)

TypeInv == TypeOK /\ Reached

-------------------------------------------------------------------------------
\* The kinds of events are told apart, and so are the records of each kind.
LEMMA EventShapes ==
    /\ "attempt" \notin BevEvents /\ "send" \notin BevEvents
    /\ \A e \in Events :
         /\ e.kind \in BevEvents => e.bev \in Bevs /\ e = BevEvent(e.kind, e.bev)
         /\ e.kind = "attempt" => e.peer \in Peers
         /\ e.kind = "send" => e.wrapper \in Wrappers
         /\ e.kind \in BevEvents \cup {"attempt", "send"}
    /\ \A w \in Wrappers : Send(w) \in Events
    /\ \A u \in Peers : Attempt(u) \in Events
    /\ \A k \in BevEvents, b \in Bevs : BevEvent(k, b) \in Events
<1>1. "attempt" \notin BevEvents /\ "send" \notin BevEvents
  BY KindsAssumption DEF BevEvents
<1> QED BY <1>1 DEF Events, BevEvent, Attempt, Send

\* The walk that skips keeps a part of the sequence.
LEMMA EveryOtherSet ==
    ASSUME NEW S, NEW s \in Seq(S)
    PROVE  /\ EveryOther(s) \in Seq(S)
           /\ ToSet(EveryOther(s)) \subseteq ToSet(s)
           /\ IsInjective(s) => IsInjective(EveryOther(s))
<1> DEFINE n == Len(s) \div 2
           r == [i \in 1..n |-> s[2 * i]]
<1>1. Len(s) \in Nat /\ n \in Nat /\ DOMAIN s = 1..Len(s)
  BY LenProperties
<1>2. \A j \in 1..n : 2 * j \in DOMAIN s
  BY <1>1
<1>3. r \in Seq(S)
  BY <1>1, <1>2, ElementOfSeq, IsASeq
<1>4. ToSet(r) \subseteq ToSet(s)
  BY <1>2 DEF ToSet
<1>5. IsInjective(s) => IsInjective(r)
  BY <1>1, <1>2 DEF IsInjective
<1>6. EveryOther(s) = r
  BY DEF EveryOther
<1> QED BY <1>3, <1>4, <1>5, <1>6

\* Whatever a handler leaves to Settle, the variables Settle sets are well
\* typed and the wrapper of a peer entry keeps what the handler put into it.
LEMMA SettleFacts ==
    ASSUME TypeOK,
           NEW q \in Seq(Events), NEW ws \in [Peers -> Wrappers], NEW ex \in Seq(Bevs),
           NEW hs \in [Wrappers -> Bevs \cup {NoBev}], NEW gone \in SUBSET Bevs,
           Settle(q, ws, ex, hs, gone)
    PROVE  /\ inbox' = q /\ bw' = ws /\ extra' = ex
           /\ held' \in [Wrappers -> Bevs \cup {NoBev}]
           /\ freed' \in SUBSET Bevs
           /\ fault' \in {"none", "useAfterFree", "doubleFree"}
           /\ \A u \in Peers : held'[ws[u]] = hs[ws[u]]
<1> DEFINE dead == Doomed(q, ws, ex, hs)
<1>1. /\ inbox' = q /\ bw' = ws /\ extra' = ex
      /\ held' = [w \in Wrappers |-> IF w \in dead THEN NoBev ELSE hs[w]]
      /\ freed' = freed \cup gone \cup {hs[w] : w \in dead}
      /\ fault' \in {"doubleFree", fault}
  BY DEF Settle
<1>2. dead \subseteq {w \in Wrappers : hs[w] # NoBev}
  BY DEF Doomed
<1>3. \A u \in Peers : ws[u] \in Wrappers /\ ws[u] \notin dead
  BY DEF Doomed, Referenced
<1> HIDE DEF dead
<1>4. {hs[w] : w \in dead} \subseteq Bevs
  BY <1>2
<1> QED BY <1>1, <1>3, <1>4 DEF TypeOK

\* A handler takes the head of the queue and posts at most one send.
LEMMA HandlerQueue ==
    ASSUME TypeOK, inbox # <<>>, NEW w \in Wrappers, NEW q \in {Rest, Append(Rest, Send(w))}
    PROVE  /\ q \in Seq(Events)
           /\ Head(inbox) \in Events /\ Head(inbox) \in ToSet(inbox)
           /\ ToSet(q) \subseteq ToSet(inbox) \cup {Send(w)}
           /\ ToSet(inbox) \subseteq ToSet(q) \cup {Head(inbox)}
<1>1. inbox \in Seq(Events)
  BY DEF TypeOK
<1>2. /\ Rest \in Seq(Events) /\ Head(inbox) \in Events /\ Head(inbox) \in ToSet(inbox)
      /\ ToSet(Rest) \subseteq ToSet(inbox)
      /\ ToSet(inbox) \subseteq {Head(inbox)} \cup ToSet(Rest)
  BY <1>1, TailSet DEF Rest
<1>3. Send(w) \in Events
  BY EventShapes
<1>4. /\ Append(Rest, Send(w)) \in Seq(Events)
      /\ ToSet(Append(Rest, Send(w))) = ToSet(Rest) \cup {Send(w)}
  BY <1>2, <1>3, AppendSet
<1> QED BY <1>2, <1>4

\* What is common to all handlers of a signal about a bufferevent.
LEMMA HeadBev ==
    ASSUME TypeInv, NEW k \in BevEvents, Handling(k)
    PROVE  /\ inbox # <<>>
           /\ Head(inbox).bev \in Bevs
           /\ Head(inbox) = BevEvent(k, Head(inbox).bev)
           /\ Settled(Head(inbox).bev)
           /\ remote[Head(inbox).bev] \in Peers
<1>1. inbox # <<>> /\ Head(inbox).kind = k
  BY DEF Handling
<1>2. Head(inbox) \in Events /\ Head(inbox) \in ToSet(inbox)
  BY <1>1, TailSet DEF TypeInv, TypeOK
<1>3. Head(inbox).bev \in Bevs /\ Head(inbox) = BevEvent(k, Head(inbox).bev)
  BY <1>1, <1>2, EventShapes
<1>4. Settled(Head(inbox).bev)
  BY <1>1, <1>2 DEF TypeInv, Reached
<1> QED BY <1>1, <1>3, <1>4 DEF Settled, TypeInv, Reached

\* The connections already reached stay reached when no phase changes back and
\* the queue of the worker gains sends only.
LEMMA ReachedByWorker ==
    ASSUME TypeInv, inbox # <<>>, NEW w \in Wrappers,
           inbox' \in {Rest, Append(Rest, Send(w))},
           UNCHANGED <<phase, remote>>,
           \/ wire' = wire
           \/ \E m \in Messages : /\ wire' = Append(wire, m)
                                  /\ m.kind = "addDefault" => Settled(m.bev)
    PROVE  Reached' /\ wire' \in Seq(Messages) /\ inbox' \in Seq(Events)
<1>1. /\ inbox' \in Seq(Events)
      /\ ToSet(inbox') \subseteq ToSet(inbox) \cup {Send(w)}
  BY HandlerQueue DEF TypeInv
<1>2. Send(w).kind \notin BevEvents
  BY EventShapes DEF Send
<1>3. wire' \in Seq(Messages) /\ \A m \in ToSet(wire') : m.kind = "addDefault" => Settled(m.bev)
  <2>1. CASE wire' = wire
    BY <2>1 DEF TypeInv, TypeOK, Reached
  <2>2. CASE \E m \in Messages : /\ wire' = Append(wire, m)
                                 /\ m.kind = "addDefault" => Settled(m.bev)
    <3>1. PICK m \in Messages : /\ wire' = Append(wire, m)
                                /\ m.kind = "addDefault" => Settled(m.bev)
      BY <2>2
    <3>2. wire' \in Seq(Messages) /\ ToSet(wire') = ToSet(wire) \cup {m}
      BY <3>1, AppendSet DEF TypeInv, TypeOK
    <3> QED BY <3>1, <3>2 DEF TypeInv, Reached
  <2> QED BY <2>1, <2>2
<1>4. \A e \in ToSet(inbox') : e.kind \in BevEvents => Settled(e.bev)
  BY <1>1, <1>2 DEF TypeInv, Reached
<1> QED BY <1>1, <1>3, <1>4 DEF TypeInv, Reached, Settled

\* Closing a descriptor keeps the descriptor table well typed.
LEMMA ClosedType ==
    ASSUME TypeOK, NEW s \in Bevs \cup {NoBev}
    PROVE  Closed(s) \in [Bevs -> {"none", "open", "closed", "reclosed"}]
BY BevsAssumption DEF Closed, TypeOK

\* The types of what Settle sets, after a handler that may have posted a send.
Outcome ==
    /\ \E w \in Wrappers : inbox' \in {Rest, Append(Rest, Send(w))}
    /\ bw' \in [Peers -> Wrappers] /\ extra' \in Seq(Bevs)
    /\ held' \in [Wrappers -> Bevs \cup {NoBev}] /\ freed' \in SUBSET Bevs
    /\ fault' \in {"none", "useAfterFree", "doubleFree"}

\* The types of the other variables a handler may set.
TableOutcome ==
    /\ known' \subseteq Peers /\ warned' \subseteq Peers
    /\ connectTo' \in [Peers -> BOOLEAN] /\ isAuthed' \in [Peers -> BOOLEAN]
    /\ sock' \in [Peers -> Bevs \cup {NoBev}]
    /\ fd' \in [Bevs -> {"none", "open", "closed", "reclosed"}]
    /\ shown' \in [Peers -> {"none", "up", "down"}]

WireOutcome ==
    \/ wire' = wire
    \/ \E m \in Messages : /\ wire' = Append(wire, m)
                           /\ m.kind = "addDefault" => Settled(m.bev)

\* A handler that ends in Settle has a well typed outcome.
LEMMA SettleOutcome ==
    ASSUME TypeOK, inbox # <<>>, NEW w \in Wrappers, NEW q \in {Rest, Append(Rest, Send(w))},
           NEW ws \in [Peers -> Wrappers], NEW ex \in Seq(Bevs),
           NEW hs \in [Wrappers -> Bevs \cup {NoBev}], NEW gone \in SUBSET Bevs,
           Settle(q, ws, ex, hs, gone)
    PROVE  Outcome
<1>1. q \in Seq(Events)
  BY HandlerQueue
<1> QED BY <1>1, SettleFacts DEF Outcome

\* What all handlers have in common.
HandlerStep ==
    inbox # <<>> /\ Outcome /\ WireOutcome /\ UNCHANGED <<phase, remote, dialled>>

\* A handler whose outcome is well typed preserves the type invariant.
LEMMA HandlerType ==
    ASSUME TypeInv, inbox # <<>>, Outcome, TableOutcome, WireOutcome,
           UNCHANGED <<phase, remote, dialled>>
    PROVE  TypeInv' /\ HandlerStep
<1>1. Reached' /\ wire' \in Seq(Messages) /\ inbox' \in Seq(Events)
  BY ReachedByWorker DEF Outcome, WireOutcome
<1> QED BY <1>1 DEF TypeInv, TypeOK, Outcome, TableOutcome, HandlerStep

-------------------------------------------------------------------------------
(***************************************************************************)
(* The handlers preserve the type invariant.                               *)
(***************************************************************************)
\* newAcceptedConnection.
LEMMA NewAcceptedConnectionType ==
    ASSUME TypeInv, NewAcceptedConnection PROVE TypeInv' /\ HandlerStep
<1> DEFINE b == Head(inbox).bev
<1>1. inbox # <<>> /\ b \in Bevs
  BY HeadBev DEF NewAcceptedConnection, BevEvents
<1>2. /\ TypeOK /\ bw \in [Peers -> Wrappers] /\ Append(extra, b) \in Seq(Bevs)
      /\ [held EXCEPT ![b] = b] \in [Wrappers -> Bevs \cup {NoBev}] /\ b \in Wrappers
      /\ {} \in SUBSET Bevs
  BY <1>1, AppendSet DEF TypeInv, TypeOK, Wrappers
<1>3. Settle(Append(Rest, Send(b)), bw, Append(extra, b), [held EXCEPT ![b] = b], {})
  BY DEF NewAcceptedConnection
<1> HIDE DEF b
<1>4. Outcome
  BY <1>1, <1>2, <1>3, SettleOutcome
<1>5. /\ TableOutcome /\ WireOutcome /\ UNCHANGED <<phase, remote, dialled>>
  BY DEF NewAcceptedConnection, netVars, TypeInv, TypeOK, TableOutcome, WireOutcome
<1> QED BY <1>1, <1>4, <1>5, HandlerType

\* The common tail of authHandler.
LEMMA AuthenticateOutcome ==
    ASSUME TypeOK, NEW u \in Peers, NEW v \in Peers, NEW b \in Bevs, Authenticate(u, v, b),
           fd' \in [Bevs -> {"none", "open", "closed", "reclosed"}]
    PROVE  TableOutcome /\ WireOutcome /\ UNCHANGED <<phase, remote, dialled>>
BY DEF Authenticate, Redialable, Deauthed, NoSocket, ToldGone, TypeOK, TableOutcome, WireOutcome

\* authHandler, when the entry holds another connection.
LEMMA AuthReplacingType ==
    ASSUME TypeInv, AuthReplacing PROVE TypeInv' /\ HandlerStep
<1> DEFINE b   == Head(inbox).bev
           u   == remote[b]
           old == held[bw[u]]
<1>1. inbox # <<>> /\ b \in Bevs /\ u \in Peers
  BY HeadBev DEF AuthReplacing, BevEvents
<1>2. PICK v \in Holders(old) :
        /\ Authenticate(u, v, b)
        /\ fd' = Closed(sock[v])
        /\ Settle(Append(Rest, Send(bw[u])), bw, extra,
                  [Emptied(held, bw[v]) EXCEPT ![bw[u]] = b], {old})
  BY DEF AuthReplacing
<1>3. /\ TypeOK /\ bw \in [Peers -> Wrappers] /\ extra \in Seq(Bevs)
      /\ {old} \in SUBSET Bevs /\ bw[u] \in Wrappers /\ v \in Peers
      /\ sock[v] \in Bevs \cup {NoBev}
      /\ [Emptied(held, bw[v]) EXCEPT ![bw[u]] = b] \in [Wrappers -> Bevs \cup {NoBev}]
  BY <1>1 DEF AuthReplacing, TypeInv, TypeOK, Holders, Emptied
<1> HIDE DEF b, u, old
<1>4. Outcome
  BY <1>1, <1>2, <1>3, SettleOutcome
<1>5. fd' \in [Bevs -> {"none", "open", "closed", "reclosed"}]
  BY <1>2, <1>3, ClosedType
<1> QED BY <1>1, <1>2, <1>3, <1>4, <1>5, AuthenticateOutcome, HandlerType

\* authHandler, when it does not.
LEMMA AuthAdoptingType ==
    ASSUME TypeInv, AuthAdopting PROVE TypeInv' /\ HandlerStep
<1> DEFINE b == Head(inbox).bev
           u == remote[b]
<1>1. inbox # <<>> /\ b \in Bevs /\ u \in Peers
  BY HeadBev DEF AuthAdopting, BevEvents
<1>2. /\ Authenticate(u, u, b) /\ fd' = fd
      /\ \/ \E i \in Adoptable(b) :
              Settle(Append(Rest, Send(extra[i])), [bw EXCEPT ![u] = extra[i]],
                     ExtraWithout(i), held, {})
         \/ Settle(Append(Rest, Send(bw[u])), bw, extra, [held EXCEPT ![bw[u]] = b], {})
  BY DEF AuthAdopting
<1>3. /\ TypeOK /\ bw \in [Peers -> Wrappers] /\ extra \in Seq(Bevs)
      /\ held \in [Wrappers -> Bevs \cup {NoBev}] /\ {} \in SUBSET Bevs
      /\ fd' \in [Bevs -> {"none", "open", "closed", "reclosed"}]
  BY <1>2 DEF TypeInv, TypeOK
<1> HIDE DEF b, u
<1>4. ASSUME NEW i \in Adoptable(b),
             Settle(Append(Rest, Send(extra[i])), [bw EXCEPT ![u] = extra[i]],
                    ExtraWithout(i), held, {})
      PROVE  Outcome
  <2>1. i \in DOMAIN extra /\ extra[i] \in Wrappers
    BY <1>3, ElementOfSeq, LenProperties DEF Adoptable, Wrappers
  <2>2. ExtraWithout(i) \in Seq(Bevs)
    BY <1>3, <2>1, RemoveAtSet DEF ExtraWithout
  <2>3. [bw EXCEPT ![u] = extra[i]] \in [Peers -> Wrappers]
    BY <1>3, <2>1
  <2> QED BY <1>1, <1>3, <1>4, <2>1, <2>2, <2>3, SettleOutcome
<1>5. ASSUME Settle(Append(Rest, Send(bw[u])), bw, extra, [held EXCEPT ![bw[u]] = b], {})
      PROVE  Outcome
  <2>1. bw[u] \in Wrappers /\ [held EXCEPT ![bw[u]] = b] \in [Wrappers -> Bevs \cup {NoBev}]
    BY <1>1, <1>3
  <2> QED BY <1>1, <1>3, <1>5, <2>1, SettleOutcome
<1> QED BY <1>1, <1>2, <1>3, <1>4, <1>5, AuthenticateOutcome, HandlerType

\* peerQuit, for a connection of an entry and for any other.
LEMMA PeerQuitType ==
    ASSUME TypeInv, PeerQuit PROVE TypeInv' /\ HandlerStep
<1> DEFINE b == Head(inbox).bev
<1>1. inbox # <<>> /\ b \in Bevs
  BY HeadBev DEF PeerQuit, BevEvents
<1>2. /\ TypeOK /\ bw \in [Peers -> Wrappers] /\ extra \in Seq(Bevs)
      /\ held \in [Wrappers -> Bevs \cup {NoBev}] /\ {} \in SUBSET Bevs
      /\ {b} \in SUBSET Bevs
  BY <1>1 DEF TypeInv, TypeOK
<1>3. WireOutcome /\ UNCHANGED <<phase, remote, dialled>> /\ known' \subseteq Peers
      /\ warned' \subseteq Peers
  BY DEF PeerQuit, WireOutcome, TypeInv, TypeOK
<1>4. ASSUME NEW v \in Holders(b),
             connectTo' = Redialable(connectTo, v), isAuthed' = Deauthed(isAuthed, v),
             sock' = NoSocket(sock, v), shown' = ToldGone(v), fd' = Closed(sock[v]),
             Settle(Rest, bw, extra, Emptied(held, bw[v]), {b})
      PROVE  Outcome /\ TableOutcome
  <2>1. /\ v \in Peers /\ bw[v] \in Wrappers /\ sock[v] \in Bevs \cup {NoBev}
        /\ Emptied(held, bw[v]) \in [Wrappers -> Bevs \cup {NoBev}]
    BY <1>2 DEF TypeOK, Holders, Emptied
  <2>2. Outcome
    BY <1>1, <1>2, <1>4, <2>1, SettleOutcome
  <2>3. fd' \in [Bevs -> {"none", "open", "closed", "reclosed"}]
    BY <1>2, <1>4, <2>1, ClosedType
  <2> QED BY <1>2, <1>3, <1>4, <2>1, <2>2, <2>3
          DEF TableOutcome, Redialable, Deauthed, NoSocket, ToldGone, TypeOK
<1>5. ASSUME fd' = Closed(b), Settle(Rest, bw, EveryOther(extra), held, {}),
             UNCHANGED <<connectTo, isAuthed, sock, shown>>
      PROVE  Outcome /\ TableOutcome
  <2>1. PICK w : w \in Wrappers
    BY <1>1 DEF Wrappers
  <2>2. EveryOther(extra) \in Seq(Bevs)
    BY <1>2, EveryOtherSet
  <2>3. Outcome
    BY <1>1, <1>2, <1>5, <2>1, <2>2, SettleOutcome
  <2>4. fd' \in [Bevs -> {"none", "open", "closed", "reclosed"}]
    BY <1>1, <1>2, <1>5, ClosedType
  <2> QED BY <1>2, <1>3, <1>5, <2>3, <2>4 DEF TableOutcome, TypeOK
<1>6. Outcome /\ TableOutcome
  BY <1>4, <1>5 DEF PeerQuit
<1> QED BY <1>1, <1>3, <1>6, HandlerType

\* attemptConnection.
LEMMA AttemptConnectionType ==
    ASSUME TypeInv, AttemptConnection PROVE TypeInv' /\ HandlerStep
<1> DEFINE u == Head(inbox).peer
<1>1. inbox # <<>> /\ u \in Peers
  BY EventShapes, TailSet DEF AttemptConnection, Handling, TypeInv, TypeOK
<1>2. /\ TypeOK /\ bw \in [Peers -> Wrappers] /\ extra \in Seq(Bevs)
      /\ held \in [Wrappers -> Bevs \cup {NoBev}] /\ {} \in SUBSET Bevs /\ u \in Wrappers
      /\ Settle(Rest, bw, extra, held, {}) /\ UNCHANGED <<phase, remote, dialled>>
  BY <1>1 DEF TypeInv, TypeOK, Wrappers, AttemptConnection, netVars
<1>3. Outcome
  BY <1>1, <1>2, SettleOutcome
<1>4. TableOutcome
  BY <1>1 DEF AttemptConnection, netVars, TableOutcome, TypeInv, TypeOK
<1>5. WireOutcome
  BY <1>1 DEF AttemptConnection, WireOutcome, Messages
<1> QED BY <1>1, <1>2, <1>3, <1>4, <1>5, HandlerType

\* resultOfConnectionAttempt, with a connection.
LEMMA ConnectionSucceededType ==
    ASSUME TypeInv, ConnectionSucceeded PROVE TypeInv' /\ HandlerStep
<1> DEFINE b   == Head(inbox).bev
           u   == remote[b]
           old == held[bw[u]]
           m   == [kind |-> "addDefault", bev |-> b]
<1>1. inbox # <<>> /\ b \in Bevs /\ u \in Peers /\ Settled(b)
  BY HeadBev DEF ConnectionSucceeded, BevEvents
<1>2. /\ TypeOK /\ bw \in [Peers -> Wrappers] /\ extra \in Seq(Bevs) /\ bw[u] \in Wrappers
      /\ [held EXCEPT ![bw[u]] = b] \in [Wrappers -> Bevs \cup {NoBev}]
      /\ ({old} \ {NoBev, b}) \in SUBSET Bevs
  BY <1>1 DEF TypeInv, TypeOK
<1>3. /\ wire' = Append(wire, m)
      /\ Settle(Append(Rest, Send(bw[u])), bw, extra, [held EXCEPT ![bw[u]] = b],
                {old} \ {NoBev, b})
      /\ UNCHANGED <<phase, remote, dialled>>
  BY DEF ConnectionSucceeded, netVars
<1>4. m \in Messages /\ m.bev = b
  BY <1>1 DEF Messages
<1>5. TableOutcome
  BY DEF ConnectionSucceeded, netVars, TableOutcome, TypeInv, TypeOK
<1> HIDE DEF b, u, old, m
<1>6. Outcome
  BY <1>1, <1>2, <1>3, SettleOutcome
<1>7. WireOutcome
  BY <1>1, <1>3, <1>4 DEF WireOutcome
<1> QED BY <1>1, <1>3, <1>5, <1>6, <1>7, HandlerType

\* resultOfConnectionAttempt, without one.
LEMMA ConnectionFailedType ==
    ASSUME TypeInv, ConnectionFailed PROVE TypeInv' /\ HandlerStep
<1> DEFINE b == Head(inbox).bev
           u == remote[b]
<1>1. inbox # <<>> /\ b \in Bevs /\ u \in Peers
  BY HeadBev DEF ConnectionFailed, BevEvents
<1>2. /\ TypeOK /\ bw \in [Peers -> Wrappers] /\ extra \in Seq(Bevs) /\ bw[u] \in Wrappers
      /\ Emptied(held, bw[u]) \in [Wrappers -> Bevs \cup {NoBev}] /\ {b} \in SUBSET Bevs
  BY <1>1 DEF TypeInv, TypeOK, Emptied
<1>3. /\ Settle(Rest, bw, extra, Emptied(held, bw[u]), {b}) /\ fd' = Closed(b)
      /\ UNCHANGED <<phase, remote, dialled, wire>>
  BY DEF ConnectionFailed
<1>4. Outcome
  BY <1>1, <1>2, <1>3, SettleOutcome
<1>5. fd' \in [Bevs -> {"none", "open", "closed", "reclosed"}]
  BY <1>1, <1>2, <1>3, ClosedType
<1>6. TableOutcome /\ WireOutcome
  BY <1>1, <1>3, <1>5 DEF ConnectionFailed, TableOutcome, WireOutcome, Redialable, Deauthed,
                         NoSocket, TypeInv, TypeOK
<1> QED BY <1>1, <1>3, <1>4, <1>6, HandlerType

\* PXMClient::sendMsg.
LEMMA SendMsgType ==
    ASSUME TypeInv, SendMsg PROVE TypeInv' /\ HandlerStep
<1> DEFINE w == Head(inbox).wrapper
<1>1. inbox # <<>> /\ w \in Wrappers
  BY EventShapes, TailSet DEF SendMsg, Handling, TypeInv, TypeOK
<1>2. /\ TypeOK /\ bw \in [Peers -> Wrappers] /\ extra \in Seq(Bevs)
      /\ held \in [Wrappers -> Bevs \cup {NoBev}] /\ {} \in SUBSET Bevs
  BY DEF TypeInv, TypeOK
<1>3. \/ /\ fault' = "useAfterFree" /\ inbox' = Rest
         /\ UNCHANGED <<bw, extra, held, freed>>
      \/ Settle(Rest, bw, extra, held, {})
  BY DEF SendMsg
<1>4. TableOutcome /\ WireOutcome /\ UNCHANGED <<phase, remote, dialled>>
  BY DEF SendMsg, netVars, TableOutcome, WireOutcome, TypeInv, TypeOK
<1> HIDE DEF w
<1>5. CASE Settle(Rest, bw, extra, held, {})
  <2>1. Outcome
    BY <1>1, <1>2, <1>5, SettleOutcome
  <2> QED BY <1>1, <1>4, <2>1, HandlerType
<1>6. CASE /\ fault' = "useAfterFree" /\ inbox' = Rest
           /\ UNCHANGED <<bw, extra, held, freed>>
  <2>1. Outcome
    BY <1>1, <1>6 DEF Outcome, TypeInv, TypeOK
  <2> QED BY <1>1, <1>4, <2>1, HandlerType
<1> QED BY <1>3, <1>5, <1>6

\* The packets of an authenticated connection change neither the table's
\* connections nor the network.
LEMMA PacketType ==
    ASSUME TypeInv, MsgHandler \/ NameHandler \/ SyncRequestHandler
    PROVE  TypeInv' /\ HandlerStep
<1> DEFINE b == Head(inbox).bev
           u == remote[b]
<1>1. inbox # <<>> /\ b \in Bevs /\ u \in Peers
  <2>1. CASE Head(inbox).kind \in BevEvents
    BY <2>1, HeadBev DEF Handling, MsgHandler, NameHandler, SyncRequestHandler
  <2>2. CASE Head(inbox).kind \in {"text", "name", "syncRequest"}
    <3>1. inbox # <<>> /\ Head(inbox) \in Events
      BY TailSet DEF MsgHandler, NameHandler, SyncRequestHandler, Handling, TypeInv, TypeOK
    <3> QED BY <2>1, <2>2, <3>1, EventShapes
  <2> QED BY <2>1, <2>2 DEF MsgHandler, NameHandler, SyncRequestHandler, Handling
<1>2. /\ TypeOK /\ bw \in [Peers -> Wrappers] /\ extra \in Seq(Bevs) /\ bw[u] \in Wrappers
      /\ held \in [Wrappers -> Bevs \cup {NoBev}] /\ {} \in SUBSET Bevs
  BY <1>1 DEF TypeInv, TypeOK
<1>3. \E q \in {Rest, Append(Rest, Send(bw[u]))} : Settle(q, bw, extra, held, {})
  BY DEF MsgHandler, NameHandler, SyncRequestHandler
<1>4. UNCHANGED <<phase, remote, dialled, wire>>
  BY DEF MsgHandler, NameHandler, SyncRequestHandler, netVars
<1>5. TableOutcome
  <2>1. Accused(u, b) \subseteq Peers
    BY <1>1 DEF Accused, Holders, TypeInv, TypeOK
  <2>2. known' \subseteq Peers /\ warned' \subseteq Peers
    BY <1>1, <2>1 DEF MsgHandler, NameHandler, SyncRequestHandler, TypeInv, TypeOK
  <2>3. shown' \in [Peers -> {"none", "up", "down"}]
    BY <1>1 DEF MsgHandler, NameHandler, SyncRequestHandler, TypeInv, TypeOK
  <2> QED BY <2>2, <2>3 DEF MsgHandler, NameHandler, SyncRequestHandler, netVars,
                            TableOutcome, TypeInv, TypeOK
<1> HIDE DEF b, u
<1>6. Outcome
  BY <1>1, <1>2, <1>3, SettleOutcome
<1> QED BY <1>1, <1>4, <1>5, <1>6, HandlerType DEF WireOutcome

-------------------------------------------------------------------------------
(***************************************************************************)
(* So do the server thread and the outside world.                          *)
(***************************************************************************)
\* An event that arrives, about a bufferevent that has been reached.
LEMMA ArrivalType ==
    ASSUME TypeInv, NEW e \in Events, inbox' = Append(inbox, e),
           e.kind \in BevEvents => Settled(e.bev)',
           \A b \in Bevs : Settled(b) => Settled(b)',
           \A b \in Bevs : phase'[b] # "unused" => remote'[b] \in Peers,
           wire' = wire
    PROVE  Reached' /\ inbox' \in Seq(Events)
<1>1. inbox' \in Seq(Events) /\ ToSet(inbox') = ToSet(inbox) \cup {e}
  BY AppendSet DEF TypeInv, TypeOK
<1>2. \A f \in ToSet(inbox) : f \in Events
  BY ElementOfSeq, LenProperties DEF ToSet, TypeInv, TypeOK
<1>3. \A m \in ToSet(wire) : m \in Messages
  BY ElementOfSeq, LenProperties DEF ToSet, TypeInv, TypeOK
<1>4. \A f \in ToSet(inbox') : f.kind \in BevEvents => Settled(f.bev)'
  BY <1>1, <1>2, EventShapes DEF TypeInv, Reached
<1>5. \A m \in ToSet(wire') : m.kind = "addDefault" => Settled(m.bev)'
  <2> SUFFICES ASSUME NEW m \in ToSet(wire), m.kind = "addDefault" PROVE Settled(m.bev)'
    OBVIOUS
  <2>1. m.bev \in Bevs
    BY <1>3 DEF Messages
  <2> QED BY <2>1 DEF TypeInv, Reached
<1> QED BY <1>1, <1>4, <1>5 DEF Reached

\* A libevent callback about a bufferevent in use.
LEMMA CallbackType ==
    ASSUME TypeInv, NEW b \in Bevs, NEW p \in {"up", "auth", "read", "off"}, NEW k \in BevEvents,
           phase[b] # "unused", Callback(b, p, k)
    PROVE  TypeInv'
<1>1. /\ inbox' = Append(inbox, BevEvent(k, b)) /\ phase' = [phase EXCEPT ![b] = p]
      /\ UNCHANGED <<tableVars, fd, remote, dialled, freed, wire, fault>>
  BY DEF Callback
<1>2. BevEvent(k, b) \in Events /\ BevEvent(k, b).bev = b
  BY EventShapes DEF BevEvent
<1>3. phase' \in [Bevs -> Phases]
  BY <1>1 DEF TypeInv, TypeOK, Phases
<1>4. \A c \in Bevs : Settled(c) \/ c = b => Settled(c)'
  BY <1>1 DEF Settled, TypeInv, TypeOK
<1>5. \A c \in Bevs : phase'[c] # "unused" => remote'[c] \in Peers
  BY <1>1 DEF TypeInv, TypeOK, Reached
<1>6. Reached' /\ inbox' \in Seq(Events)
  BY <1>1, <1>2, <1>4, <1>5, ArrivalType
<1> QED BY <1>1, <1>3, <1>6 DEF TypeInv, TypeOK, tableVars

\* The callbacks connectCB, tcpAuth, tcpErr and tcpRead.
LEMMA ServerType ==
    ASSUME TypeInv, NEW b \in Bevs, ConnectCB(b) \/ TcpAuth(b) \/ TcpErr(b) \/ TcpRead(b)
    PROVE  TypeInv'
<1>1. \E p \in {"up", "auth", "read", "off"}, k \in BevEvents :
        phase[b] # "unused" /\ Callback(b, p, k)
  BY DEF ConnectCB, TcpAuth, TcpErr, TcpRead, Readable, BevEvents
<1> QED BY <1>1, CallbackType

\* internalCommsRead, CONNECT_TO_ADDR.
LEMMA ConnectToAddrType ==
    ASSUME TypeInv, ConnectToAddr PROVE TypeInv'
<1> DEFINE u == Head(wire).peer
<1>1. PICK b \in Unused :
        /\ phase' = [phase EXCEPT ![b] = "dialling"]
        /\ fd' = [fd EXCEPT ![b] = "open"]
        /\ remote' = [remote EXCEPT ![b] = u]
        /\ dialled' = dialled \cup {b}
  BY DEF ConnectToAddr
<1>2. /\ wire # <<>> /\ Head(wire).kind = "connectTo" /\ wire' = Tail(wire)
      /\ UNCHANGED <<tableVars, freed, inbox, fault>>
  BY DEF ConnectToAddr
<1>3. /\ wire' \in Seq(Messages) /\ ToSet(wire') \subseteq ToSet(wire)
      /\ Head(wire) \in Messages
  BY <1>2, TailSet DEF TypeInv, TypeOK
<1>4. u \in Peers
  BY <1>2, <1>3 DEF Messages
<1>5. b \in Bevs /\ phase[b] = "unused"
  BY DEF Unused
<1>6. /\ \A c \in Bevs : Settled(c) => Settled(c)'
      /\ \A c \in Bevs : phase'[c] # "unused" => remote'[c] \in Peers
  BY <1>1, <1>4, <1>5 DEF Settled, TypeInv, TypeOK, Reached
<1>7. \A e \in ToSet(inbox) : e.kind \in BevEvents => e.bev \in Bevs
  BY ElementOfSeq, LenProperties, EventShapes DEF ToSet, TypeInv, TypeOK
<1>8. \A m \in ToSet(wire) : m.kind = "addDefault" => m.bev \in Bevs
  BY ElementOfSeq, LenProperties DEF ToSet, TypeInv, TypeOK, Messages
<1>9. Reached'
  BY <1>2, <1>3, <1>6, <1>7, <1>8 DEF Reached, TypeInv
<1>10. /\ phase' \in [Bevs -> Phases] /\ dialled' \subseteq Bevs
       /\ remote' \in [Bevs -> Peers \cup {NoPeer}]
       /\ fd' \in [Bevs -> {"none", "open", "closed", "reclosed"}]
  BY <1>1, <1>4, <1>5 DEF TypeInv, TypeOK, Phases
<1> QED BY <1>2, <1>3, <1>9, <1>10 DEF TypeInv, TypeOK, tableVars

\* internalCommsRead, ADD_DEFAULT_BEV.
LEMMA AddDefaultBevType ==
    ASSUME TypeInv, AddDefaultBev PROVE TypeInv'
<1> DEFINE b == Head(wire).bev
<1>1. /\ wire # <<>> /\ Head(wire).kind = "addDefault" /\ wire' = Tail(wire)
      /\ UNCHANGED <<tableVars, fd, remote, dialled, freed, inbox>>
      /\ \/ fault' = "useAfterFree" /\ phase' = phase
         \/ phase' = [phase EXCEPT ![b] = "auth"] /\ fault' = fault
  BY DEF AddDefaultBev
<1>2. /\ wire' \in Seq(Messages) /\ ToSet(wire') \subseteq ToSet(wire)
      /\ Head(wire) \in Messages /\ Head(wire) \in ToSet(wire)
  BY <1>1, TailSet DEF TypeInv, TypeOK
<1>3. b \in Bevs /\ phase[b] # "unused"
  BY <1>1, <1>2 DEF Messages, TypeInv, Reached, Settled
<1>4. /\ \A c \in Bevs : Settled(c) => Settled(c)'
      /\ \A c \in Bevs : phase'[c] # "unused" => remote'[c] \in Peers
      /\ phase' \in [Bevs -> Phases]
      /\ fault' \in {"none", "useAfterFree", "doubleFree"}
  BY <1>1, <1>3 DEF Settled, TypeInv, TypeOK, Reached, Phases
<1>5. \A e \in ToSet(inbox) : e.kind \in BevEvents => e.bev \in Bevs
  BY ElementOfSeq, LenProperties, EventShapes DEF ToSet, TypeInv, TypeOK
<1>6. \A m \in ToSet(wire) : m.kind = "addDefault" => m.bev \in Bevs
  BY ElementOfSeq, LenProperties DEF ToSet, TypeInv, TypeOK, Messages
<1>7. Reached'
  BY <1>1, <1>2, <1>4, <1>5, <1>6 DEF Reached, TypeInv
<1> QED BY <1>1, <1>2, <1>4, <1>7 DEF TypeInv, TypeOK, tableVars

\* accept_new.
LEMMA AcceptNewType ==
    ASSUME TypeInv, NEW u \in Peers, NEW b \in Bevs, AcceptNew(u, b)
    PROVE  TypeInv'
<1>1. /\ inbox' = Append(inbox, BevEvent("newConnection", b))
      /\ phase[b] = "unused" /\ phase' = [phase EXCEPT ![b] = "auth"]
      /\ fd' = [fd EXCEPT ![b] = "open"] /\ remote' = [remote EXCEPT ![b] = u]
      /\ UNCHANGED <<tableVars, dialled, freed, wire, fault>>
  BY DEF AcceptNew
<1>2. BevEvent("newConnection", b) \in Events /\ BevEvent("newConnection", b).bev = b
  BY EventShapes DEF BevEvent, BevEvents
<1>3. /\ \A c \in Bevs : Settled(c) \/ c = b => Settled(c)'
      /\ \A c \in Bevs : phase'[c] # "unused" => remote'[c] \in Peers
  BY <1>1 DEF Settled, TypeInv, TypeOK, Reached
<1>4. Reached' /\ inbox' \in Seq(Events)
  BY <1>1, <1>2, <1>3, ArrivalType
<1>5. /\ phase' \in [Bevs -> Phases] /\ remote' \in [Bevs -> Peers \cup {NoPeer}]
      /\ fd' \in [Bevs -> {"none", "open", "closed", "reclosed"}]
  BY <1>1 DEF TypeInv, TypeOK, Phases
<1> QED BY <1>1, <1>4, <1>5 DEF TypeInv, TypeOK, tableVars

\* A peer makes itself known; the user writes.
LEMMA RequestType ==
    ASSUME TypeInv, NEW u \in Peers, UdpReceive(u) \/ SendMsgAccessor(u)
    PROVE  TypeInv'
<1>1. \E e \in Events : inbox' = Append(inbox, e) /\ e.kind \notin BevEvents
  BY EventShapes DEF UdpReceive, SendMsgAccessor, Attempt, Send, TypeInv, TypeOK
<1>2. UNCHANGED <<tableVars, netVars, freed, wire, fault>>
  BY DEF UdpReceive, SendMsgAccessor
<1>3. Reached' /\ inbox' \in Seq(Events)
  BY <1>1, <1>2, ArrivalType DEF netVars, Settled, TypeInv, Reached
<1> QED BY <1>2, <1>3 DEF TypeInv, TypeOK, tableVars, netVars

-------------------------------------------------------------------------------
\* All handlers together.
LEMMA WorkerType ==
    ASSUME TypeInv, Worker PROVE TypeInv' /\ HandlerStep
BY NewAcceptedConnectionType, AuthReplacingType, AuthAdoptingType, PeerQuitType,
   AttemptConnectionType, ConnectionSucceededType, ConnectionFailedType, SendMsgType, PacketType
   DEF Worker, AuthHandler, ResultOfConnectionAttempt

\* The connections the worker is told about have been reached.
THEOREM TypeInvariant == Spec => []TypeInv
<1>1. Init => TypeInv
  <2> SUFFICES ASSUME Init PROVE TypeInv
    OBVIOUS
  <2>1. ToSet(inbox) = {} /\ ToSet(wire) = {}
    BY DEF Init, ToSet
  <2>2. TypeOK
    BY DEF Init, TypeOK, Wrappers, Phases
  <2>3. Reached
    BY <2>1 DEF Init, Reached
  <2> QED BY <2>2, <2>3 DEF TypeInv
<1>2. TypeInv /\ [Next]_vars => TypeInv'
  <2> SUFFICES ASSUME TypeInv, [Next]_vars PROVE TypeInv'
    OBVIOUS
  <2>1. CASE Worker
    BY <2>1, WorkerType
  <2>2. CASE Server
    BY <2>2, ServerType, ConnectToAddrType, AddDefaultBevType DEF Server, InternalComms
  <2>3. CASE World
    BY <2>3, ServerType, AcceptNewType, RequestType DEF World
  <2>4. CASE UNCHANGED vars
    BY <2>4 DEF vars, tableVars, netVars, TypeInv, TypeOK, Reached, Settled
  <2> QED BY <2>1, <2>2, <2>3, <2>4 DEF Next
<1> QED BY <1>1, <1>2, PTL DEF Spec

\* Every variable keeps its type in every behaviour, for every network.
THEOREM TypeCorrect == Spec => []TypeOK
<1>1. TypeInv => TypeOK
  BY DEF TypeInv
<1> QED BY <1>1, TypeInvariant, PTL

-------------------------------------------------------------------------------
(***************************************************************************)
(* The flags of an entry and its descriptor.                               *)
(***************************************************************************)
\* An authenticated entry is not to be dialled, and exactly the authenticated
\* entries have a descriptor recorded.
THEOREM AuthedEntriesHaveSockets == Spec => []AuthedHasSocket
<1>1. Init => AuthedHasSocket
  BY DEF Init, AuthedHasSocket
<1>2. TypeInv /\ AuthedHasSocket /\ [Next]_vars => AuthedHasSocket'
  <2> SUFFICES ASSUME TypeInv, AuthedHasSocket, [Next]_vars PROVE AuthedHasSocket'
    OBVIOUS
  <2> USE DEF AuthedHasSocket
  <2>1. ASSUME NEW u \in Peers, NEW v \in Peers, NEW b \in Bevs, Authenticate(u, v, b)
        PROVE  AuthedHasSocket'
    BY <2>1, BevsAssumption
       DEF Authenticate, Redialable, Deauthed, NoSocket, TypeInv, TypeOK
  <2>2. CASE AuthHandler
    <3>1. Handling("auth") /\ "auth" \in BevEvents
      BY <2>2 DEF AuthHandler, AuthReplacing, AuthAdopting, BevEvents
    <3>2. Head(inbox).bev \in Bevs /\ remote[Head(inbox).bev] \in Peers
      BY <3>1, HeadBev
    <3>3. CASE AuthReplacing
      <4>1. \A b \in Bevs : Holders(b) \subseteq Peers
        BY DEF Holders, TypeInv, TypeOK
      <4>2. held[bw[remote[Head(inbox).bev]]] \in Bevs
        BY <3>2, <3>3 DEF AuthReplacing, TypeInv, TypeOK
      <4> QED BY <2>1, <3>2, <3>3, <4>1, <4>2 DEF AuthReplacing
    <3>4. CASE AuthAdopting
      BY <2>1, <3>2, <3>4 DEF AuthAdopting
    <3> QED BY <2>2, <3>3, <3>4 DEF AuthHandler
  <2>3. CASE PeerQuit
    BY <2>3 DEF PeerQuit, Redialable, Deauthed, NoSocket, TypeInv, TypeOK
  <2>4. CASE ResultOfConnectionAttempt
    BY <2>4 DEF ResultOfConnectionAttempt, ConnectionSucceeded, ConnectionFailed,
                Redialable, Deauthed, NoSocket, TypeInv, TypeOK
  <2>5. CASE AttemptConnection
    BY <2>5 DEF AttemptConnection, TypeInv, TypeOK
  <2>6. CASE UNCHANGED <<connectTo, isAuthed, sock>>
    BY <2>6
  <2>7. CASE NewAcceptedConnection \/ SendMsg \/ MsgHandler \/ NameHandler \/ SyncRequestHandler
    BY <2>6, <2>7 DEF NewAcceptedConnection, SendMsg, MsgHandler, NameHandler, SyncRequestHandler
  <2>8. CASE Server \/ World \/ UNCHANGED vars
    BY <2>6, <2>8 DEF Server, World, InternalComms, ConnectToAddr, AddDefaultBev, ConnectCB,
       TcpAuth, TcpErr, TcpRead, Callback, AcceptNew, UdpReceive, SendMsgAccessor, vars, tableVars
  <2> QED BY <2>2, <2>3, <2>4, <2>5, <2>7, <2>8 DEF Next, Worker
<1> QED BY <1>1, <1>2, TypeInvariant, PTL DEF Spec

-------------------------------------------------------------------------------
(***************************************************************************)
(* Who refers to a wrapper.  A wrapper made for an accepted connection is  *)
(* pushed on extraBevs once, when the newTCPConnection signal is handled,  *)
(* and later moves to one entry: the invariant follows it from the signal  *)
(* to the entry.                                                           *)
(***************************************************************************)
NewEvents == {BevEvent("newConnection", b) : b \in Bevs}

InUse(b) == b \in ToSet(extra) \/ \E u \in Peers : bw[u] = b

NewOnce ==
    /\ OnceIn(inbox, NewEvents)
    /\ \A b \in Bevs : Queued(BevEvent("newConnection", b)) => ~InUse(b)
    /\ \A b \in Bevs : InUse(b) => Settled(b) \/ phase[b] = "dialling"

WrapperInv == NewOnce /\ NoSharedWrapper

\* A handler that moves no wrapper, and at most loses some of extraBevs.
LEMMA QueueOnce ==
    ASSUME TypeInv, OnceIn(inbox, NewEvents), HandlerStep
    PROVE  /\ OnceIn(inbox', NewEvents)
           /\ \A b \in Bevs : Queued(BevEvent("newConnection", b))' =>
                 /\ Queued(BevEvent("newConnection", b))
                 /\ BevEvent("newConnection", b) # Head(inbox)
<1>1. PICK w \in Wrappers : inbox' \in {Rest, Append(Rest, Send(w))}
  BY DEF HandlerStep, Outcome
<1>2. inbox \in Seq(Events) /\ inbox # <<>>
  BY DEF TypeInv, TypeOK, HandlerStep
<1>3. /\ Rest \in Seq(Events) /\ ToSet(Rest) \subseteq ToSet(inbox)
      /\ OnceIn(Rest, NewEvents)
      /\ Head(inbox) \in NewEvents => Head(inbox) \notin ToSet(Rest)
  BY <1>2, TailSet, OnceTail DEF Rest
<1>4. Send(w) \in Events /\ Send(w) \notin NewEvents
  BY EventShapes DEF Send, NewEvents, BevEvent
<1>5. /\ OnceIn(Append(Rest, Send(w)), NewEvents)
      /\ ToSet(Append(Rest, Send(w))) = ToSet(Rest) \cup {Send(w)}
  BY <1>3, <1>4, OnceAppend, AppendSet
<1>6. OnceIn(inbox', NewEvents) /\ ToSet(inbox') \subseteq ToSet(Rest) \cup {Send(w)}
  BY <1>1, <1>3, <1>5
<1>7. ASSUME NEW b \in Bevs, BevEvent("newConnection", b) \in ToSet(inbox')
      PROVE  BevEvent("newConnection", b) \in ToSet(inbox) /\ BevEvent("newConnection", b) # Head(inbox)
  <2>1. BevEvent("newConnection", b) \in NewEvents
    BY DEF NewEvents
  <2> QED BY <2>1, <1>3, <1>4, <1>6, <1>7
<1> QED BY <1>6, <1>7 DEF Queued

\* A handler that neither moves nor makes a wrapper keeps the invariant.
LEMMA WrappersStay ==
    ASSUME TypeInv, WrapperInv, HandlerStep,
           bw' = bw, ToSet(extra') \subseteq ToSet(extra), IsInjective(extra')
    PROVE  WrapperInv'
BY QueueOnce DEF WrapperInv, NewOnce, NoSharedWrapper, InUse, HandlerStep, Settled

\* newAcceptedConnection pushes a wrapper nothing refers to yet.
LEMMA NewAcceptedConnectionWrappers ==
    ASSUME TypeInv, WrapperInv, NewAcceptedConnection PROVE WrapperInv'
<1> DEFINE b == Head(inbox).bev
<1>1. /\ b \in Bevs /\ Head(inbox) = BevEvent("newConnection", b) /\ Settled(b)
      /\ inbox # <<>> /\ HandlerStep
  BY HeadBev, NewAcceptedConnectionType DEF NewAcceptedConnection, BevEvents
<1>2. bw' = bw /\ extra' = Append(extra, b) /\ phase' = phase
  BY DEF NewAcceptedConnection, Settle, netVars
<1>3. Queued(Head(inbox))
  BY <1>1, TailSet DEF Queued, TypeInv, TypeOK
<1>4. ~InUse(b)
  BY <1>1, <1>3 DEF WrapperInv, NewOnce
<1> HIDE DEF b
<1>5. /\ ToSet(extra') = ToSet(extra) \cup {b} /\ IsInjective(extra')
  <2>1. extra \in Seq(Bevs)
    BY DEF TypeInv, TypeOK
  <2>2. OnceIn(extra, Bevs) /\ b \notin ToSet(extra)
    BY <1>4 DEF OnceIn, WrapperInv, NoSharedWrapper, IsInjective, InUse
  <2>3. OnceIn(extra', Bevs) /\ extra' \in Seq(Bevs) /\ ToSet(extra') = ToSet(extra) \cup {b}
    BY <1>1, <1>2, <2>1, <2>2, OnceAppend, AppendSet
  <2>4. IsInjective(extra')
    BY <2>3, ElementOfSeq, LenProperties DEF OnceIn, IsInjective
  <2> QED BY <2>3, <2>4
<1>6. NoSharedWrapper'
  BY <1>2, <1>4, <1>5 DEF WrapperInv, NoSharedWrapper, InUse
<1>7. NewOnce'
  BY <1>1, <1>2, <1>5, QueueOnce DEF WrapperInv, NewOnce, InUse, Settled
<1> QED BY <1>6, <1>7 DEF WrapperInv

\* authHandler moves a wrapper from extraBevs to the entry, or moves none.
LEMMA AuthAdoptingWrappers ==
    ASSUME TypeInv, WrapperInv, AuthAdopting PROVE WrapperInv'
<1> DEFINE b == Head(inbox).bev
           u == remote[b]
<1>1. HandlerStep /\ u \in Peers
  BY HeadBev, AuthAdoptingType DEF AuthAdopting, BevEvents
<1>2. \/ \E i \in Adoptable(b) : bw' = [bw EXCEPT ![u] = extra[i]] /\ extra' = ExtraWithout(i)
      \/ bw' = bw /\ extra' = extra
  BY DEF AuthAdopting, Settle
<1> HIDE DEF b, u
<1>3. CASE bw' = bw /\ extra' = extra
  BY <1>1, <1>3, WrappersStay DEF WrapperInv, NoSharedWrapper
<1>4. ASSUME NEW i \in Adoptable(b), bw' = [bw EXCEPT ![u] = extra[i]], extra' = ExtraWithout(i)
      PROVE  WrapperInv'
  <2>1. i \in DOMAIN extra /\ extra \in Seq(Bevs) /\ extra[i] \in ToSet(extra)
    BY DEF Adoptable, TypeInv, TypeOK, ToSet
  <2>2. /\ ToSet(extra') \subseteq ToSet(extra) /\ IsInjective(extra')
        /\ extra[i] \notin ToSet(extra')
    BY <1>4, <2>1, RemoveAtSet DEF ExtraWithout, WrapperInv, NoSharedWrapper
  <2>3. bw \in [Peers -> Wrappers]
    BY DEF TypeInv, TypeOK
  <2>4. NoSharedWrapper'
    BY <1>1, <1>4, <2>1, <2>2, <2>3 DEF WrapperInv, NoSharedWrapper
  <2>5. \A c \in Bevs : InUse(c)' => InUse(c)
    BY <1>1, <1>4, <2>1, <2>2, <2>3 DEF InUse
  <2>6. NewOnce'
    BY <1>1, <2>5, QueueOnce DEF WrapperInv, NewOnce, HandlerStep, Settled
  <2> QED BY <2>4, <2>6 DEF WrapperInv
<1> QED BY <1>2, <1>3, <1>4

\* The other handlers move none.
LEMMA WorkerWrappers ==
    ASSUME TypeInv, WrapperInv, Worker PROVE WrapperInv'
<1>1. HandlerStep
  BY WorkerType
<1>2. ASSUME \/ AuthReplacing \/ AttemptConnection \/ ConnectionSucceeded \/ ConnectionFailed
             \/ SendMsg \/ MsgHandler \/ NameHandler \/ SyncRequestHandler
      PROVE  bw' = bw /\ extra' = extra
  BY <1>2 DEF AuthReplacing, AttemptConnection, ConnectionSucceeded, ConnectionFailed, SendMsg,
              MsgHandler, NameHandler, SyncRequestHandler, Settle
<1>3. ASSUME PeerQuit
      PROVE  bw' = bw /\ (extra' = extra \/ extra' = EveryOther(extra))
  BY <1>3 DEF PeerQuit, Settle
<1>4. IsInjective(extra)
  BY DEF WrapperInv, NoSharedWrapper
<1>5. ToSet(EveryOther(extra)) \subseteq ToSet(extra) /\ IsInjective(EveryOther(extra))
  BY <1>4, EveryOtherSet DEF TypeInv, TypeOK
<1>6. CASE NewAcceptedConnection
  BY <1>6, NewAcceptedConnectionWrappers
<1>7. CASE AuthAdopting
  BY <1>7, AuthAdoptingWrappers
<1>8. CASE PeerQuit
  BY <1>1, <1>3, <1>4, <1>5, <1>8, WrappersStay
<1>9. CASE \/ AuthReplacing \/ AttemptConnection \/ ConnectionSucceeded \/ ConnectionFailed
           \/ SendMsg \/ MsgHandler \/ NameHandler \/ SyncRequestHandler
  BY <1>1, <1>2, <1>4, <1>9, WrappersStay
<1> QED BY <1>6, <1>7, <1>8, <1>9 DEF Worker, AuthHandler, ResultOfConnectionAttempt

\* What arrives does not make a second newTCPConnection signal of a connection.
LEMMA ArrivalWrappers ==
    ASSUME TypeInv, WrapperInv, NEW e \in Events, inbox' = Append(inbox, e),
           UNCHANGED <<bw, extra>>,
           \A b \in Bevs : phase'[b] = "unused" => phase[b] = "unused",
           \/ e \notin NewEvents
           \/ \E b \in Bevs : phase[b] = "unused" /\ e = BevEvent("newConnection", b)
    PROVE  WrapperInv'
<1>1. /\ inbox' \in Seq(Events) /\ ToSet(inbox') = ToSet(inbox) \cup {e}
      /\ inbox \in Seq(Events)
  BY AppendSet DEF TypeInv, TypeOK
<1>2. \A b \in Bevs : phase[b] = "unused" =>
         ~InUse(b) /\ ~Queued(BevEvent("newConnection", b))
  <2> SUFFICES ASSUME NEW b \in Bevs, phase[b] = "unused", Queued(BevEvent("newConnection", b))
               PROVE  FALSE
    BY DEF WrapperInv, NewOnce, Settled
  <2>1. /\ BevEvent("newConnection", b).kind \in BevEvents
        /\ BevEvent("newConnection", b).bev = b
    BY DEF BevEvent, BevEvents
  <2>2. Settled(b)
    BY <2>1 DEF TypeInv, Reached, Queued
  <2> QED BY <2>2 DEF Settled
<1>3. e \notin NewEvents \/ e \notin ToSet(inbox)
  BY <1>2 DEF Queued
<1>4. OnceIn(inbox', NewEvents)
  BY <1>1, <1>3, OnceAppend DEF WrapperInv, NewOnce
<1>5. \A b \in Bevs : InUse(b)' <=> InUse(b)
  BY DEF InUse
<1>6. \A b \in Bevs : Queued(BevEvent("newConnection", b))' => ~InUse(b)'
  <2> SUFFICES ASSUME NEW b \in Bevs, BevEvent("newConnection", b) = e PROVE ~InUse(b)
    BY <1>1, <1>5 DEF WrapperInv, NewOnce, Queued
  <2>1. phase[b] = "unused"
    BY DEF NewEvents, BevEvent
  <2> QED BY <1>2, <2>1
<1>7. \A b \in Bevs : InUse(b)' => phase'[b] # "unused"
  BY <1>5 DEF WrapperInv, NewOnce, Settled
<1> QED BY <1>4, <1>6, <1>7 DEF WrapperInv, NewOnce, NoSharedWrapper, Settled

\* Where a wrapper is, from the signal of its connection to the entry.
THEOREM WrapperInvariant == Spec => []WrapperInv
<1>1. Init => WrapperInv
  BY BevsAssumption DEF Init, WrapperInv, NewOnce, NoSharedWrapper, OnceIn, InUse, Queued, ToSet,
                        IsInjective
<1>2. TypeInv /\ WrapperInv /\ [Next]_vars => WrapperInv'
  <2> SUFFICES ASSUME TypeInv, WrapperInv, [Next]_vars PROVE WrapperInv'
    OBVIOUS
  <2>1. CASE Worker
    BY <2>1, WorkerWrappers
  <2>2. ASSUME NEW b \in Bevs, NEW p \in {"up", "auth", "read", "off"},
               NEW k \in BevEvents \ {"newConnection"}, Callback(b, p, k)
        PROVE  WrapperInv'
    <3>1. BevEvent(k, b) \in Events /\ BevEvent(k, b) \notin NewEvents
      BY EventShapes DEF NewEvents, BevEvent
    <3>2. \A c \in Bevs : phase'[c] = "unused" => phase[c] = "unused"
      BY <2>2 DEF Callback, TypeInv, TypeOK
    <3> QED BY <2>2, <3>1, <3>2, ArrivalWrappers DEF Callback, tableVars
  <2>3. CASE Server
    <3>1. CASE InternalComms
      <4>1. /\ UNCHANGED <<bw, extra, inbox>>
            /\ \A c \in Bevs : phase'[c] = "unused" => phase[c] = "unused"
        BY <3>1 DEF InternalComms, ConnectToAddr, AddDefaultBev, Unused, tableVars, TypeInv, TypeOK
      <4> QED BY <4>1 DEF WrapperInv, NewOnce, NoSharedWrapper, InUse, Queued, Settled
    <3>2. CASE \E b \in Bevs : ConnectCB(b) \/ TcpAuth(b) \/ TcpErr(b)
      BY <2>2, <3>2, KindsAssumption DEF ConnectCB, TcpAuth, TcpErr, BevEvents
    <3> QED BY <2>3, <3>1, <3>2 DEF Server
  <2>4. CASE World
    <3>1. CASE \E b \in Bevs : TcpRead(b)
      BY <2>2, <3>1, KindsAssumption DEF TcpRead, BevEvents
    <3>2. ASSUME NEW u \in Peers, NEW b \in Bevs, AcceptNew(u, b) PROVE WrapperInv'
      <4>1. BevEvent("newConnection", b) \in Events
        BY EventShapes DEF BevEvents
      <4>2. \A c \in Bevs : phase'[c] = "unused" => phase[c] = "unused"
        BY <3>2 DEF AcceptNew, TypeInv, TypeOK
      <4> QED BY <3>2, <4>1, <4>2, ArrivalWrappers DEF AcceptNew, tableVars
    <3>3. ASSUME NEW u \in Peers, UdpReceive(u) \/ SendMsgAccessor(u) PROVE WrapperInv'
      <4>1. \E e \in Events \ NewEvents : inbox' = Append(inbox, e)
        BY <3>3, EventShapes
           DEF UdpReceive, SendMsgAccessor, Attempt, Send, NewEvents, BevEvent, TypeInv, TypeOK
      <4> QED BY <3>3, <4>1, ArrivalWrappers DEF UdpReceive, SendMsgAccessor, tableVars, netVars
    <3> QED BY <2>4, <3>1, <3>2, <3>3 DEF World
  <2>5. CASE UNCHANGED vars
    BY <2>5 DEF vars, tableVars, netVars, WrapperInv, NewOnce, NoSharedWrapper, InUse, Queued, Settled
  <2> QED BY <2>1, <2>3, <2>4, <2>5 DEF Next
<1> QED BY <1>1, <1>2, TypeInvariant, PTL DEF Spec

\* Two peer entries never refer to the same wrapper, and none refers to a
\* wrapper that is still in extraBevs.
THEOREM WrappersNotShared == Spec => []NoSharedWrapper
<1>1. WrapperInv => NoSharedWrapper
  BY DEF WrapperInv
<1> QED BY <1>1, WrapperInvariant, PTL

\* The three together: types, flags and wrappers of the table are sound in
\* every behaviour, with overlapping connections and for every network.
THEOREM TableIsSound == Spec => []TableSound
<1>1. TypeOK /\ AuthedHasSocket /\ NoSharedWrapper => TableSound
  BY DEF TableSound
<1> QED BY <1>1, TypeCorrect, AuthedEntriesHaveSockets, WrappersNotShared, PTL

-------------------------------------------------------------------------------
(***************************************************************************)
(* Each wrapper keeps to the process it was made for.                      *)
(***************************************************************************)
\* What SentToItsPeer says, of connections that exist.
PeersKept ==
    /\ SentToItsPeer
    /\ \A w \in Wrappers : held[w] # NoBev =>
          phase[held[w]] # "unused" /\ (w \in Bevs => phase[w] # "unused")
    /\ \A u \in Peers : sock[u] # NoBev => phase[sock[u]] # "unused"

\* A wrapper made for an accepted connection is in use only once that exists.
LEMMA EntryWrapper ==
    ASSUME WrapperInv, NEW u \in Peers
    PROVE  bw[u] \in Bevs => phase[bw[u]] # "unused"
BY DEF WrapperInv, NewOnce, InUse, Settled

\* Settle keeps to the processes when the new contents and references do.
LEMMA SettleKeepsPeers ==
    ASSUME TypeInv, PeersKept, HandlerStep,
           NEW q, NEW ex, NEW gone,
           NEW ws \in [Peers -> Wrappers], NEW hs \in [Wrappers -> Bevs \cup {NoBev}],
           Settle(q, ws, ex, hs, gone),
           \A w \in Wrappers :
              \/ hs[w] \in {NoBev, held[w]}
              \/ /\ remote[hs[w]] = Owner(w) /\ phase[hs[w]] # "unused"
                 /\ w \in Bevs => phase[w] # "unused",
           \A u \in Peers : ws[u] = bw[u] \/ Owner(ws[u]) = u,
           \A u \in Peers :
              \/ sock'[u] \in {NoBev, sock[u]}
              \/ remote[sock'[u]] = u /\ phase[sock'[u]] # "unused"
    PROVE  PeersKept'
<1>1. bw' = ws /\ \A w \in Wrappers : held'[w] \in {NoBev, hs[w]}
  BY DEF Settle
<1>2. remote' = remote /\ phase' = phase /\ \A w : Owner(w)' = Owner(w)
  BY DEF HandlerStep, Owner
<1>3. /\ \A w \in Wrappers : held[w] # NoBev => remote[held[w]] = Owner(w)
      /\ \A u \in Peers : Owner(bw[u]) = u /\ (sock[u] # NoBev => remote[sock[u]] = u)
      /\ \A w \in Wrappers : held[w] # NoBev =>
            phase[held[w]] # "unused" /\ (w \in Bevs => phase[w] # "unused")
      /\ \A u \in Peers : sock[u] # NoBev => phase[sock[u]] # "unused"
  BY DEF PeersKept, SentToItsPeer
<1>4. \A w \in Wrappers : held'[w] # NoBev =>
         /\ remote[held'[w]] = Owner(w)
         /\ phase[held'[w]] # "unused" /\ (w \in Bevs => phase[w] # "unused")
  BY <1>1, <1>3
<1>5. \A u \in Peers : /\ Owner(bw'[u]) = u
                       /\ sock'[u] # NoBev => remote[sock'[u]] = u /\ phase[sock'[u]] # "unused"
  BY <1>1, <1>3
<1> QED BY <1>2, <1>4, <1>5 DEF PeersKept, SentToItsPeer

\* No handler puts a connection into the wrapper of another process.
LEMMA PeersKeptByWorker ==
    ASSUME TypeInv, WrapperInv, PeersKept, Worker PROVE PeersKept'
<1>1. HandlerStep
  BY WorkerType
<1>t. /\ bw \in [Peers -> Wrappers] /\ extra \in Seq(Bevs)
      /\ held \in [Wrappers -> Bevs \cup {NoBev}] /\ sock \in [Peers -> Bevs \cup {NoBev}]
  BY DEF TypeInv, TypeOK
<1>k. /\ \A w \in Wrappers : held[w] # NoBev => remote[held[w]] = Owner(w)
      /\ \A u \in Peers : Owner(bw[u]) = u
  BY DEF PeersKept, SentToItsPeer
<1>2. CASE NewAcceptedConnection
  <2> DEFINE b == Head(inbox).bev
             hs == [held EXCEPT ![b] = b]
  <2>1. b \in Bevs /\ b \in Wrappers /\ b \notin Peers /\ phase[b] # "unused"
    BY <1>2, HeadBev, BevsAssumption DEF NewAcceptedConnection, BevEvents, Settled, Wrappers
  <2>2. Settle(Append(Rest, Send(b)), bw, Append(extra, b), hs, {}) /\ sock' = sock
    BY <1>2 DEF NewAcceptedConnection
  <2> HIDE DEF b
  <2>3. /\ hs \in [Wrappers -> Bevs \cup {NoBev}]
        /\ \A w \in Wrappers : hs[w] = IF w = b THEN b ELSE held[w]
    BY <1>t, <2>1
  <2>4. remote[b] = Owner(b)
    BY <2>1 DEF Owner
  <2> HIDE DEF hs
  <2> QED BY <1>1, <1>t, <2>1, <2>2, <2>3, <2>4, SettleKeepsPeers
<1>3. CASE AuthReplacing
  <2> DEFINE b == Head(inbox).bev
             u == remote[b]
  <2>1. b \in Bevs /\ u \in Peers /\ phase[b] # "unused"
    BY <1>3, HeadBev DEF AuthReplacing, BevEvents, Settled
  <2>2. PICK v \in Peers :
          /\ Authenticate(u, v, b)
          /\ Settle(Append(Rest, Send(bw[u])), bw, extra,
                    [Emptied(held, bw[v]) EXCEPT ![bw[u]] = b], {held[bw[u]]})
    BY <1>3 DEF AuthReplacing, Holders, TypeInv, TypeOK
  <2> DEFINE hs == [Emptied(held, bw[v]) EXCEPT ![bw[u]] = b]
  <2>3. remote[b] = u
    OBVIOUS
  <2> HIDE DEF b, u
  <2>4. /\ hs \in [Wrappers -> Bevs \cup {NoBev}]
        /\ \A w \in Wrappers : hs[w] \in {NoBev, held[w]} \/ (w = bw[u] /\ hs[w] = b)
    BY <1>t, <2>1 DEF Emptied
  <2>5. \A x \in Peers : sock'[x] \in {NoBev, sock[x]} \/ (x = u /\ sock'[x] = b)
    BY <1>t, <2>1, <2>2 DEF Authenticate, NoSocket
  <2>6. Settle(Append(Rest, Send(bw[u])), bw, extra, hs, {held[bw[u]]})
    BY <2>2
  <2>7. Owner(bw[u]) = u /\ (bw[u] \in Bevs => phase[bw[u]] # "unused")
    BY <1>k, <2>1, EntryWrapper
  <2> HIDE DEF hs
  <2> DEFINE gone == {held[bw[u]]}
             q    == Append(Rest, Send(bw[u]))
  <2>8. Settle(q, bw, extra, hs, gone)
    BY <2>6
  <2> HIDE DEF gone, q
  <2> QED BY <1>1, <1>t, <2>1, <2>3, <2>4, <2>5, <2>7, <2>8, SettleKeepsPeers
<1>4. CASE AuthAdopting
  <2> DEFINE b == Head(inbox).bev
             u == remote[b]
  <2>1. b \in Bevs /\ u \in Peers /\ phase[b] # "unused"
    BY <1>4, HeadBev DEF AuthAdopting, BevEvents, Settled
  <2>2. /\ Authenticate(u, u, b)
        /\ \/ \E i \in Adoptable(b) :
                Settle(Append(Rest, Send(extra[i])), [bw EXCEPT ![u] = extra[i]],
                       ExtraWithout(i), held, {})
           \/ Settle(Append(Rest, Send(bw[u])), bw, extra, [held EXCEPT ![bw[u]] = b], {})
    BY <1>4 DEF AuthAdopting
  <2>3. remote[b] = u
    OBVIOUS
  <2> HIDE DEF b, u
  <2>5. \A x \in Peers : sock'[x] \in {NoBev, sock[x]} \/ (x = u /\ sock'[x] = b)
    BY <1>t, <2>1, <2>2 DEF Authenticate, NoSocket
  <2>6. CASE Settle(Append(Rest, Send(bw[u])), bw, extra, [held EXCEPT ![bw[u]] = b], {})
    <3> DEFINE hs == [held EXCEPT ![bw[u]] = b]
               q  == Append(Rest, Send(bw[u]))
    <3>1. /\ hs \in [Wrappers -> Bevs \cup {NoBev}]
          /\ \A w \in Wrappers : hs[w] = held[w] \/ (w = bw[u] /\ hs[w] = b)
      BY <1>t, <2>1
    <3>2. Owner(bw[u]) = u /\ (bw[u] \in Bevs => phase[bw[u]] # "unused")
      BY <1>k, <2>1, EntryWrapper
    <3>3. Settle(q, bw, extra, hs, {})
      BY <2>6
    <3> HIDE DEF hs, q
    <3> QED BY <1>1, <1>t, <2>1, <2>3, <2>5, <3>1, <3>2, <3>3, SettleKeepsPeers
  <2>7. ASSUME NEW i \in Adoptable(b),
               Settle(Append(Rest, Send(extra[i])), [bw EXCEPT ![u] = extra[i]],
                      ExtraWithout(i), held, {})
        PROVE  PeersKept'
    <3>1. extra[i] \in Wrappers /\ held[extra[i]] = b
      BY ElementOfSeq, LenProperties, <1>t DEF Adoptable, Wrappers
    <3>2. Owner(extra[i]) = u
      BY <1>k, <2>1, <2>3, <3>1, BevsAssumption
    <3> DEFINE ws == [bw EXCEPT ![u] = extra[i]]
               q  == Append(Rest, Send(extra[i]))
               ex == ExtraWithout(i)
    <3>3. /\ ws \in [Peers -> Wrappers]
          /\ \A x \in Peers : ws[x] = bw[x] \/ (x = u /\ ws[x] = extra[i])
      BY <1>t, <2>1, <3>1
    <3>4. Settle(q, ws, ex, held, {})
      BY <2>7
    <3> HIDE DEF ws, q, ex
    <3> QED BY <1>1, <1>t, <2>1, <2>3, <2>5, <3>2, <3>3, <3>4, SettleKeepsPeers
  <2> QED BY <2>2, <2>6, <2>7
<1>5. CASE PeerQuit
  <2> DEFINE b == Head(inbox).bev
  <2>1. ASSUME NEW v \in Peers, sock' = NoSocket(sock, v),
               Settle(Rest, bw, extra, Emptied(held, bw[v]), {b})
        PROVE  PeersKept'
    <3> DEFINE hs   == Emptied(held, bw[v])
               gone == {b}
               q    == Rest
    <3>1. /\ hs \in [Wrappers -> Bevs \cup {NoBev}]
          /\ \A w \in Wrappers : hs[w] \in {NoBev, held[w]}
          /\ \A x \in Peers : sock'[x] \in {NoBev, sock[x]}
      BY <1>t, <2>1 DEF Emptied, NoSocket
    <3>2. Settle(q, bw, extra, hs, gone)
      BY <2>1
    <3> HIDE DEF hs, gone, q
    <3> QED BY <1>1, <1>t, <3>1, <3>2, SettleKeepsPeers
  <2>2. ASSUME sock' = sock, Settle(Rest, bw, EveryOther(extra), held, {}) PROVE PeersKept'
    BY <1>1, <1>t, <2>2, SettleKeepsPeers
  <2> QED BY <1>5, <2>1, <2>2 DEF PeerQuit, Holders, TypeInv, TypeOK
<1>6. CASE ConnectionSucceeded
  <2> DEFINE b == Head(inbox).bev
             u == remote[b]
  <2>1. b \in Bevs /\ u \in Peers /\ phase[b] # "unused"
    BY <1>6, HeadBev DEF ConnectionSucceeded, BevEvents, Settled
  <2>2. /\ Settle(Append(Rest, Send(bw[u])), bw, extra, [held EXCEPT ![bw[u]] = b],
                  {held[bw[u]]} \ {NoBev, b})
        /\ sock' = sock
    BY <1>6 DEF ConnectionSucceeded
  <2>3. remote[b] = u
    OBVIOUS
  <2> HIDE DEF b, u
  <2> DEFINE hs   == [held EXCEPT ![bw[u]] = b]
             q    == Append(Rest, Send(bw[u]))
             gone == {held[bw[u]]} \ {NoBev, b}
  <2>4. /\ hs \in [Wrappers -> Bevs \cup {NoBev}]
        /\ \A w \in Wrappers : hs[w] = held[w] \/ (w = bw[u] /\ hs[w] = b)
    BY <1>t, <2>1
  <2>5. Owner(bw[u]) = u /\ (bw[u] \in Bevs => phase[bw[u]] # "unused")
    BY <1>k, <2>1, EntryWrapper
  <2>6. Settle(q, bw, extra, hs, gone)
    BY <2>2
  <2> HIDE DEF hs, q, gone
  <2> QED BY <1>1, <1>t, <2>1, <2>2, <2>3, <2>4, <2>5, <2>6, SettleKeepsPeers
<1>7. CASE ConnectionFailed
  <2> DEFINE b == Head(inbox).bev
             u == remote[b]
             hs   == Emptied(held, bw[u])
             gone == {b}
             q    == Rest
  <2>1. Settle(q, bw, extra, hs, gone) /\ sock' = NoSocket(sock, u)
    BY <1>7 DEF ConnectionFailed
  <2>2. /\ hs \in [Wrappers -> Bevs \cup {NoBev}]
        /\ \A w \in Wrappers : hs[w] \in {NoBev, held[w]}
        /\ \A x \in Peers : sock'[x] \in {NoBev, sock[x]}
    BY <1>t, <2>1 DEF Emptied, NoSocket
  <2> HIDE DEF hs, gone, q
  <2> QED BY <1>1, <1>t, <2>1, <2>2, SettleKeepsPeers
<1>8. CASE AttemptConnection \/ SendMsg \/ MsgHandler \/ NameHandler \/ SyncRequestHandler
  <2>1. sock' = sock
    BY <1>8 DEF AttemptConnection, SendMsg, MsgHandler, NameHandler, SyncRequestHandler
  <2>2. CASE \E q : Settle(q, bw, extra, held, {})
    BY <1>1, <1>t, <2>1, <2>2, SettleKeepsPeers
  <2>3. CASE UNCHANGED <<bw, held>>
    BY <1>1, <2>1, <2>3 DEF HandlerStep, PeersKept, SentToItsPeer, Owner
  <2> QED BY <1>8, <2>2, <2>3
          DEF AttemptConnection, SendMsg, MsgHandler, NameHandler, SyncRequestHandler
<1> QED BY <1>2, <1>3, <1>4, <1>5, <1>6, <1>7, <1>8
        DEF Worker, AuthHandler, ResultOfConnectionAttempt

\* The server thread gives a process to new connections only.
LEMMA PeersKeptByServer ==
    ASSUME TypeInv, WrapperInv, PeersKept, Server \/ World \/ UNCHANGED vars PROVE PeersKept'
<1>1. /\ UNCHANGED tableVars
      /\ \A b \in Bevs : phase[b] # "unused" => phase'[b] # "unused" /\ remote'[b] = remote[b]
  <2>1. CASE ConnectToAddr
    BY <2>1 DEF ConnectToAddr, Unused, TypeInv, TypeOK
  <2>2. CASE AddDefaultBev
    BY <2>2 DEF AddDefaultBev, TypeInv, TypeOK
  <2>3. ASSUME NEW b \in Bevs, NEW p \in Phases \ {"unused"}, NEW k, Callback(b, p, k)
        PROVE  /\ UNCHANGED tableVars
               /\ \A c \in Bevs : phase[c] # "unused" => phase'[c] # "unused" /\ remote'[c] = remote[c]
    BY <2>3 DEF Callback, TypeInv, TypeOK
  <2>4. ASSUME NEW b \in Bevs, ConnectCB(b) \/ TcpAuth(b) \/ TcpErr(b) \/ TcpRead(b)
        PROVE  \E p \in Phases \ {"unused"} : \E k : Callback(b, p, k)
    BY <2>4 DEF ConnectCB, TcpAuth, TcpErr, TcpRead, Phases
  <2>5. ASSUME NEW u \in Peers, NEW b \in Bevs, AcceptNew(u, b)
        PROVE  /\ UNCHANGED tableVars
               /\ \A c \in Bevs : phase[c] # "unused" => phase'[c] # "unused" /\ remote'[c] = remote[c]
    BY <2>5 DEF AcceptNew, TypeInv, TypeOK
  <2>6. CASE (\E u \in Peers : UdpReceive(u) \/ SendMsgAccessor(u)) \/ UNCHANGED vars
    BY <2>6 DEF UdpReceive, SendMsgAccessor, vars, netVars
  <2> QED BY <2>1, <2>2, <2>3, <2>4, <2>5, <2>6 DEF Server, World, InternalComms
<1>t. /\ bw \in [Peers -> Wrappers] /\ held \in [Wrappers -> Bevs \cup {NoBev}]
      /\ sock \in [Peers -> Bevs \cup {NoBev}]
  BY DEF TypeInv, TypeOK
<1>2. /\ held' = held /\ bw' = bw /\ sock' = sock
  BY <1>1 DEF tableVars
<1>3. \A w \in Wrappers : (w \in Bevs => phase[w] # "unused") => Owner(w)' = Owner(w)
  BY <1>1 DEF Owner, Wrappers
<1>4. ASSUME NEW w \in Wrappers, held[w] # NoBev
      PROVE  /\ remote'[held[w]] = Owner(w)' /\ phase'[held[w]] # "unused"
             /\ w \in Bevs => phase'[w] # "unused"
  BY <1>1, <1>3, <1>4, <1>t DEF PeersKept, SentToItsPeer
<1>5. ASSUME NEW u \in Peers
      PROVE  /\ Owner(bw[u])' = u
             /\ sock[u] # NoBev => remote'[sock[u]] = u /\ phase'[sock[u]] # "unused"
  <2>1. Owner(bw[u]) = u /\ bw[u] \in Wrappers /\ (bw[u] \in Bevs => phase[bw[u]] # "unused")
    BY <1>t, EntryWrapper DEF PeersKept, SentToItsPeer
  <2>2. IF bw[u] \in Peers THEN bw[u] = u ELSE remote'[bw[u]] = u
    BY <1>1, <2>1 DEF Owner, Wrappers
  <2> QED BY <1>1, <1>2, <1>t, <2>2 DEF Owner, PeersKept, SentToItsPeer
<1>6. \A w \in Wrappers : held[w] # NoBev =>
         remote'[held[w]] = (IF w \in Peers THEN w ELSE remote'[w])
  BY <1>4 DEF Owner
<1>7. \A u \in Peers : u = (IF bw[u] \in Peers THEN bw[u] ELSE remote'[bw[u]])
  BY <1>2, <1>5 DEF Owner
<1> QED BY <1>2, <1>4, <1>5, <1>6, <1>7 DEF PeersKept, SentToItsPeer, Owner

\* What is written to a peer goes to that peer, however dials, calls and quits
\* overlap (authHandler, resultOfConnectionAttempt, peerQuit).
THEOREM EverythingGoesToItsPeer == Spec => []SentToItsPeer
<1>1. Init => PeersKept
  BY BevsAssumption DEF Init, PeersKept, SentToItsPeer, Owner, Wrappers
<1>2. TypeInv /\ WrapperInv /\ PeersKept /\ [Next]_vars => PeersKept'
  BY PeersKeptByWorker, PeersKeptByServer DEF Next
<1>3. PeersKept => SentToItsPeer
  BY DEF PeersKept
<1> QED BY <1>1, <1>2, <1>3, TypeInvariant, WrapperInvariant, PTL DEF Spec

-------------------------------------------------------------------------------
(***************************************************************************)
(* Where the events of a queue are, after it was changed.                  *)
(***************************************************************************)
\* After a handler each event is where the one behind it was, and at the end
\* there may be a send.
LEMMA HandlerPositions ==
    ASSUME TypeInv, HandlerStep
    PROVE  /\ \A i \in DOMAIN inbox' :
                 \/ i + 1 \in DOMAIN inbox /\ inbox'[i] = inbox[i + 1]
                 \/ inbox'[i].kind = "send" /\ \A j \in DOMAIN inbox' : j <= i
           /\ \A i \in DOMAIN inbox : i > 1 => i - 1 \in DOMAIN inbox' /\ inbox'[i - 1] = inbox[i]
           /\ 1 \in DOMAIN inbox /\ Head(inbox) = inbox[1]
           /\ DOMAIN inbox \subseteq Nat \ {0} /\ DOMAIN inbox' \subseteq Nat \ {0}
           /\ \A i \in DOMAIN inbox : \A j \in 1..i : j \in DOMAIN inbox
           /\ \A i \in DOMAIN inbox' : \A j \in 1..i : j \in DOMAIN inbox'
           /\ \A i \in DOMAIN inbox : inbox[i] \in Events
<1>1. PICK w \in Wrappers : inbox' \in {Rest, Append(Rest, Send(w))}
  BY DEF HandlerStep, Outcome
<1>2. inbox \in Seq(Events) /\ inbox # <<>>
  BY DEF TypeInv, TypeOK, HandlerStep
<1>3. /\ Len(inbox) \in Nat \ {0} /\ DOMAIN inbox = 1..Len(inbox) /\ Head(inbox) = inbox[1]
      /\ \A i \in DOMAIN inbox : inbox[i] \in Events
  BY <1>2, EmptySeq, LenProperties, ElementOfSeq
<1>4. /\ Rest \in Seq(Events) /\ Len(Rest) = Len(inbox) - 1 /\ DOMAIN Rest = 1..(Len(inbox) - 1)
      /\ \A i \in 1..(Len(inbox) - 1) : Rest[i] = inbox[i + 1]
  BY <1>2, HeadTailProperties, LenProperties DEF Rest
<1>5. Send(w) \in Events /\ Send(w).kind = "send"
  BY EventShapes DEF Send
<1>6. CASE inbox' = Rest
  BY <1>3, <1>4, <1>6
<1>7. CASE inbox' = Append(Rest, Send(w))
  <2>1. /\ DOMAIN inbox' = 1..Len(inbox) /\ inbox'[Len(inbox)] = Send(w)
        /\ \A i \in 1..(Len(inbox) - 1) : inbox'[i] = Rest[i]
    <3>1. /\ Len(inbox') = Len(Rest) + 1 /\ inbox'[Len(Rest) + 1] = Send(w)
          /\ \A i \in 1..Len(Rest) : inbox'[i] = Rest[i]
          /\ DOMAIN inbox' = 1..Len(inbox')
      BY <1>4, <1>5, <1>7, AppendProperties, LenProperties
    <3> QED BY <1>3, <1>4, <3>1
  <2> QED BY <1>3, <1>4, <1>5, <2>1
<1> QED BY <1>1, <1>6, <1>7

\* What arrives is behind all the others.
LEMMA ArrivalPositions ==
    ASSUME TypeInv, NEW e \in Events, inbox' = Append(inbox, e)
    PROVE  /\ \A i \in DOMAIN inbox : i \in DOMAIN inbox' /\ inbox'[i] = inbox[i]
           /\ \A i \in DOMAIN inbox' :
                 \/ i \in DOMAIN inbox /\ inbox'[i] = inbox[i]
                 \/ inbox'[i] = e /\ \A j \in DOMAIN inbox : j < i
           /\ DOMAIN inbox \subseteq Nat \ {0} /\ DOMAIN inbox' \subseteq Nat \ {0}
           /\ \A i \in DOMAIN inbox : inbox[i] \in Events
<1>1. inbox \in Seq(Events) /\ Len(inbox) \in Nat /\ DOMAIN inbox = 1..Len(inbox)
  BY LenProperties DEF TypeInv, TypeOK
<1>2. /\ DOMAIN inbox' = 1..(Len(inbox) + 1) /\ inbox'[Len(inbox) + 1] = e
      /\ \A i \in 1..Len(inbox) : inbox'[i] = inbox[i]
  BY <1>1, AppendProperties, LenProperties
<1> QED BY <1>1, <1>2, ElementOfSeq

-------------------------------------------------------------------------------
(***************************************************************************)
(* The auth signal of a connection is ahead of all its packets.            *)
(***************************************************************************)
SenderInv ==
    /\ \A i \in DOMAIN inbox : inbox[i].kind \in PacketKinds =>
          \/ remote[inbox[i].bev] \in known
          \/ \E j \in DOMAIN inbox : j < i /\ inbox[j] = BevEvent("auth", inbox[i].bev)
    /\ \A b \in Bevs : phase[b] = "read" => remote[b] \in known \/ Queued(BevEvent("auth", b))

\* authHandler makes the entry; other handlers leave auth signals in the queue.
LEMMA SenderKnownByWorker ==
    ASSUME TypeInv, SenderInv, Worker PROVE SenderInv'
<1>1. HandlerStep
  BY WorkerType
<1>2. known \subseteq known'
  BY DEF Worker, NewAcceptedConnection, AuthHandler, AuthReplacing, AuthAdopting, Authenticate,
         PeerQuit, AttemptConnection, ResultOfConnectionAttempt, ConnectionSucceeded,
         ConnectionFailed, SendMsg, MsgHandler, NameHandler, SyncRequestHandler
<1>3. ASSUME Head(inbox).kind = "auth" PROVE remote[Head(inbox).bev] \in known'
  <2>1. AuthHandler
    BY <1>3 DEF Worker, NewAcceptedConnection, PeerQuit, AttemptConnection, SendMsg,
       ResultOfConnectionAttempt, ConnectionSucceeded, ConnectionFailed, MsgHandler, NameHandler,
       SyncRequestHandler, Handling
  <2> QED BY <2>1 DEF AuthHandler, AuthReplacing, AuthAdopting, Authenticate
<1>4. UNCHANGED <<phase, remote>>
  BY <1>1 DEF HandlerStep
<1>5. ASSUME NEW b \in Bevs, NEW i \in DOMAIN inbox, inbox[i] = BevEvent("auth", b)
      PROVE  remote[b] \in known' \/ \E j \in DOMAIN inbox' : j = i - 1 /\ inbox'[j] = inbox[i]
  <2>1. CASE i = 1
    <3>1. Head(inbox).kind = "auth" /\ Head(inbox).bev = b
      BY <1>1, <1>5, <2>1, HandlerPositions DEF BevEvent
    <3> QED BY <1>3, <3>1
  <2>2. CASE i # 1
    BY <1>1, <2>2, HandlerPositions
  <2> QED BY <2>1, <2>2
<1>6. ASSUME NEW i \in DOMAIN inbox', inbox'[i].kind \in PacketKinds,
             remote[inbox'[i].bev] \notin known'
      PROVE  \E j \in DOMAIN inbox' : j < i /\ inbox'[j] = BevEvent("auth", inbox'[i].bev)
  <2>1. i + 1 \in DOMAIN inbox /\ inbox'[i] = inbox[i + 1] /\ i \in Nat
    BY <1>1, <1>6, HandlerPositions, KindsAssumption
  <2>2. inbox'[i].bev \in Bevs
    BY <1>1, <1>6, <2>1, HandlerPositions, EventShapes DEF BevEvents
  <2>3. PICK j \in DOMAIN inbox : j < i + 1 /\ inbox[j] = BevEvent("auth", inbox'[i].bev)
    BY <1>2, <1>6, <2>1 DEF SenderInv
  <2>4. j \in Nat
    BY <1>1, HandlerPositions
  <2>5. PICK k \in DOMAIN inbox' : k = j - 1 /\ inbox'[k] = inbox[j]
    BY <1>5, <1>6, <2>2, <2>3
  <2> QED BY <2>1, <2>3, <2>4, <2>5
<1>7. ASSUME NEW b \in Bevs, phase'[b] = "read", remote[b] \notin known'
      PROVE  Queued(BevEvent("auth", b))'
  <2>1. PICK i \in DOMAIN inbox : inbox[i] = BevEvent("auth", b)
    BY <1>2, <1>4, <1>7 DEF SenderInv, Queued, ToSet
  <2> QED BY <1>5, <1>7, <2>1 DEF Queued, ToSet
<1> QED BY <1>4, <1>6, <1>7 DEF SenderInv

\* Packets come only after the auth packet of the same connection.
LEMMA SenderKnownByArrival ==
    ASSUME TypeInv, SenderInv, NEW e \in Events, inbox' = Append(inbox, e), known' = known,
           \A b \in Bevs : phase[b] # "unused" => remote'[b] = remote[b],
           e.kind \in PacketKinds => phase[e.bev] = "read",
           \A b \in Bevs : phase'[b] = "read" => phase[b] = "read" \/ e = BevEvent("auth", b)
    PROVE  SenderInv'
<1>1. ASSUME NEW b \in Bevs, Queued(BevEvent("auth", b)) PROVE Queued(BevEvent("auth", b))'
  BY <1>1, ArrivalPositions DEF Queued, ToSet
<1>2. ASSUME NEW b \in Bevs, phase'[b] = "read"
      PROVE  remote'[b] \in known \/ Queued(BevEvent("auth", b))'
  <2>1. CASE phase[b] = "read"
    BY <1>1, <2>1 DEF SenderInv
  <2>2. CASE e = BevEvent("auth", b)
    <3>1. ToSet(inbox') = ToSet(inbox) \cup {e}
      BY AppendSet DEF TypeInv, TypeOK
    <3> QED BY <2>2, <3>1 DEF Queued
  <2> QED BY <1>2, <2>1, <2>2
<1>3. ASSUME NEW i \in DOMAIN inbox', inbox'[i].kind \in PacketKinds,
             remote'[inbox'[i].bev] \notin known
      PROVE  \E j \in DOMAIN inbox' : j < i /\ inbox'[j] = BevEvent("auth", inbox'[i].bev)
  <2>1. CASE i \in DOMAIN inbox /\ inbox'[i] = inbox[i]
    <3>1. inbox[i] \in Events /\ inbox[i] \in ToSet(inbox)
      BY <2>1, ArrivalPositions DEF ToSet
    <3>2. inbox[i].kind \in BevEvents
      BY <1>3, <2>1 DEF BevEvents
    <3>3. inbox[i].bev \in Bevs /\ phase[inbox[i].bev] # "unused"
      BY <3>1, <3>2, EventShapes DEF TypeInv, Reached, Settled
    <3>4. PICK j \in DOMAIN inbox : j < i /\ inbox[j] = BevEvent("auth", inbox[i].bev)
      BY <1>3, <2>1, <3>3 DEF SenderInv
    <3> QED BY <2>1, <3>4, ArrivalPositions
  <2>2. CASE inbox'[i] = e /\ \A j \in DOMAIN inbox : j < i
    <3>1. e.kind \in BevEvents /\ e.bev \in Bevs
      BY <1>3, <2>2, EventShapes DEF BevEvents
    <3>2. phase[e.bev] = "read"
      BY <1>3, <2>2
    <3>3. PICK j \in DOMAIN inbox : inbox[j] = BevEvent("auth", e.bev)
      BY <1>3, <2>2, <3>1, <3>2 DEF SenderInv, Queued, ToSet
    <3> QED BY <2>2, <3>3, ArrivalPositions
  <2> QED BY <2>1, <2>2, ArrivalPositions
<1> QED BY <1>2, <1>3 DEF SenderInv

\* A packet is handled when its sender has an entry.
THEOREM SendersAreKnown == Spec => []SenderKnown
<1>1. Init => SenderInv
  BY DEF Init, SenderInv
<1>2. TypeInv /\ SenderInv /\ [Next]_vars => SenderInv'
  <2> SUFFICES ASSUME TypeInv, SenderInv, [Next]_vars PROVE SenderInv'
    OBVIOUS
  <2>1. CASE InternalComms
    <3>1. inbox' = inbox /\ known' = known
      BY <2>1 DEF InternalComms, ConnectToAddr, AddDefaultBev, tableVars
    <3>2. \A b \in Bevs : /\ phase[b] # "unused" => remote'[b] = remote[b]
                          /\ phase'[b] = "read" => phase[b] = "read"
      BY <2>1 DEF InternalComms, ConnectToAddr, AddDefaultBev, Unused, TypeInv, TypeOK
    <3>3. \A i \in DOMAIN inbox : inbox[i].kind \in PacketKinds =>
             inbox[i].bev \in Bevs /\ phase[inbox[i].bev] # "unused"
      <4>1. \A i \in DOMAIN inbox : inbox[i] \in Events /\ inbox[i] \in ToSet(inbox)
        BY ElementOfSeq, LenProperties DEF TypeInv, TypeOK, ToSet
      <4> QED BY <4>1, EventShapes DEF TypeInv, Reached, Settled, BevEvents
    <3> QED BY <3>1, <3>2, <3>3 DEF SenderInv, Queued
  <2>2. ASSUME NEW b \in Bevs, ConnectCB(b) \/ TcpAuth(b) \/ TcpErr(b) \/ TcpRead(b)
        PROVE  SenderInv'
    <3>1. PICK p \in Phases, k \in BevEvents :
            /\ Callback(b, p, k)
            /\ k \in PacketKinds => phase[b] = "read"
            /\ p = "read" => phase[b] = "read" \/ k = "auth"
      BY <2>2, KindsAssumption
         DEF ConnectCB, TcpAuth, TcpErr, TcpRead, Readable, BevEvents, Phases
    <3>2. BevEvent(k, b) \in Events /\ BevEvent(k, b).bev = b /\ BevEvent(k, b).kind = k
      BY EventShapes DEF BevEvent
    <3>3. \A c \in Bevs : phase'[c] = "read" => phase[c] = "read" \/ BevEvent(k, b) = BevEvent("auth", c)
      BY <3>1 DEF Callback, TypeInv, TypeOK
    <3> QED BY <3>1, <3>2, <3>3, SenderKnownByArrival DEF Callback, tableVars
  <2>3. ASSUME NEW u \in Peers, NEW b \in Bevs, AcceptNew(u, b) PROVE SenderInv'
    <3>1. BevEvent("newConnection", b) \in Events /\ BevEvent("newConnection", b).kind \notin PacketKinds
      BY EventShapes, KindsAssumption DEF BevEvent, BevEvents
    <3>2. \A c \in Bevs : /\ phase[c] # "unused" => remote'[c] = remote[c]
                          /\ phase'[c] = "read" => phase[c] = "read"
      BY <2>3 DEF AcceptNew, TypeInv, TypeOK
    <3> QED BY <2>3, <3>1, <3>2, SenderKnownByArrival DEF AcceptNew, tableVars
  <2>4. ASSUME NEW u \in Peers, UdpReceive(u) \/ SendMsgAccessor(u) PROVE SenderInv'
    <3>1. \E e \in Events : inbox' = Append(inbox, e) /\ e.kind \notin PacketKinds
      BY <2>4, EventShapes, KindsAssumption
         DEF UdpReceive, SendMsgAccessor, Attempt, Send, TypeInv, TypeOK
    <3> QED BY <2>4, <3>1, SenderKnownByArrival
            DEF UdpReceive, SendMsgAccessor, tableVars, netVars
  <2>5. CASE UNCHANGED vars
    BY <2>5 DEF vars, tableVars, netVars, SenderInv, Queued
  <2> QED BY <2>1, <2>2, <2>3, <2>4, <2>5, SenderKnownByWorker DEF Next, Server, World
<1>3. TypeInv /\ SenderInv => SenderKnown
  <2> SUFFICES ASSUME TypeInv, SenderInv, inbox # <<>>, Head(inbox).kind \in PacketKinds,
                      remote[Head(inbox).bev] \notin known
               PROVE  FALSE
    BY DEF SenderKnown
  <2>1. /\ DOMAIN inbox = 1..Len(inbox) /\ 1 \in DOMAIN inbox /\ Head(inbox) = inbox[1]
    BY EmptySeq, LenProperties DEF TypeInv, TypeOK
  <2> QED BY <2>1 DEF SenderInv
<1> QED BY <1>1, <1>2, <1>3, TypeInvariant, PTL DEF Spec

-------------------------------------------------------------------------------
\* The regime: a peer has one connection at a time, and one caller waits.
Calm == ~Overlap /\ MaxCallers <= 1

\* Signals of one connection, in the order in which they may wait.
Before(k, l) ==
    \/ k = "newConnection" /\ l \in {"auth", "quit"} \cup PacketKinds
    \/ k \in {"auth"} \cup PacketKinds /\ l \in {"quit"} \cup PacketKinds

Ordered ==
    \A i, j \in DOMAIN inbox :
        /\ i < j
        /\ inbox[i].kind \in BevEvents /\ inbox[j].kind \in BevEvents
        /\ inbox[i].bev = inbox[j].bev
        => Before(inbox[i].kind, inbox[j].kind)

\* The signals of a connection that may wait while it is in phase p.
Sent(p) ==
    CASE p = "up"   -> {"connected"}
      [] p = "auth" -> {"newConnection"}
      [] p = "read" -> {"newConnection", "auth"} \cup PacketKinds
      [] p = "off"  -> {"newConnection", "refused", "auth", "quit"} \cup PacketKinds
      [] OTHER      -> {}

Pending(k, b) == Queued(BevEvent(k, b))
Idle(b)       == \A k \in BevEvents : ~Pending(k, b)
Calling(b)    == Live(b) /\ b \notin dialled /\ bw[remote[b]] # b
Session(b)    == isAuthed[remote[b]] /\ sock[remote[b]] = b

SignalsInOrder ==
    /\ Ordered
    /\ \A b \in Bevs, k \in BevEvents : Pending(k, b) => k \in Sent(phase[b])

\* Accepted and dialled connections are told apart.
DialsMarked ==
    \A b \in Bevs :
        /\ phase[b] \in {"dialling", "up"} => b \in dialled
        /\ Pending("connected", b) \/ Pending("refused", b) => b \in dialled
        /\ Pending("newConnection", b) => b \notin dialled
        /\ b \in dialled => phase[b] # "unused"

\* What is freed or closed has ended, and nobody will hear of it again.
EndedIsSilent ==
    \A b \in Bevs :
        /\ b \in freed => phase[b] = "off" /\ Idle(b) /\ (b \notin dialled => fd[b] = "closed")
        /\ fd[b] = "closed" => phase[b] = "off" /\ Idle(b)
        /\ fd[b] = "none" <=> phase[b] = "unused"
        /\ fd[b] # "reclosed"

WireSound ==
    /\ IsInjective(wire)
    /\ \A b \in Bevs : OnWire([kind |-> "addDefault", bev |-> b]) =>
          phase[b] = "up" /\ ~Pending("connected", b)
    /\ \A u \in Peers : OnWire([kind |-> "connectTo", peer |-> u]) =>
          connectTo[u] /\ \A b \in Bevs : Live(b) => remote[b] # u

\* A wrapper holds the connection it was made for, or the one its peer dialled.
HeldRightly ==
    /\ \A w \in Wrappers : held[w] # NoBev =>
          /\ Live(held[w])
          /\ IF held[w] \in dialled THEN w = bw[remote[held[w]]] ELSE w = held[w]
          /\ Referenced(w, inbox, bw, extra)
    /\ \A u \in Peers : IF bw[u] \in Bevs THEN bw[u] \notin dialled /\ remote[bw[u]] = u
                                          ELSE bw[u] = u
    /\ \A c \in ToSet(extra) : c \notin dialled /\ held[c] = c

\* A peer has one connection, and one caller waits.
OneEach ==
    /\ \A b, c \in Bevs : Live(b) /\ Live(c) /\ remote[b] = remote[c] => b = c
    /\ \A b, c \in Bevs : Calling(b) /\ Calling(c) => b = c

\* How far a connection has got, and where its wrapper is.
DialStages ==
    \A b \in Bevs : Live(b) /\ b \in dialled =>
        /\ connectTo[remote[b]]
        /\ \/ phase[b] = "dialling"
           \/ Pending("connected", b) \/ Pending("refused", b)
           \/ held[bw[remote[b]]] = b
CallStages ==
    \A b \in Bevs : Live(b) /\ b \notin dialled =>
        IF Calling(b)
        THEN /\ ~connectTo[remote[b]]
             /\ ~Queued(Attempt(remote[b]))
             /\ \/ Pending("newConnection", b) /\ held[b] = NoBev
                \/ held[b] = b /\ b \in ToSet(extra)
                \/ held[b] = b /\ Queued(Send(b)) /\ fd[b] = "closed"
        ELSE held[b] = b /\ Session(b)

\* An authenticated entry is a session in progress.
SessionStages ==
    /\ \A u \in Peers : isAuthed[u] =>
          /\ sock[u] \in Bevs /\ Live(sock[u]) /\ remote[sock[u]] = u
          /\ held[bw[u]] = sock[u] /\ fd[sock[u]] = "open"
          /\ phase[sock[u]] \in {"read", "off"}
          /\ \A k \in {"newConnection", "connected", "refused", "auth"} : ~Pending(k, sock[u])
    /\ \A b \in Bevs : phase[b] = "read" \/ (\E k \in PacketKinds : Pending(k, b))
          => Pending("auth", b) \/ Session(b)
    /\ \A u \in Peers : connectTo[u] => u \in known

CalmInv ==
    /\ SignalsInOrder /\ DialsMarked /\ EndedIsSilent /\ WireSound /\ HeldRightly /\ OneEach
    /\ DialStages /\ CallStages /\ SessionStages
    /\ WindowTellsTheTruth /\ warned = {} /\ NoFault

-------------------------------------------------------------------------------
\* What a handler does to the signals that wait: it takes the first.
LEMMA HandlerSignals ==
    ASSUME TypeInv, Ordered, HandlerStep
    PROVE  /\ Ordered'
           /\ Head(inbox) \in ToSet(inbox)
           /\ \A k \in BevEvents, c \in Bevs :
                 /\ Pending(k, c)' => Pending(k, c)
                 /\ Pending(k, c) => Pending(k, c)' \/ Head(inbox) = BevEvent(k, c)
           /\ \A h, k \in BevEvents, c \in Bevs :
                 Head(inbox) = BevEvent(h, c) /\ Pending(k, c)' => Before(h, k)
           /\ \A u \in Peers : Queued(Attempt(u))' => Queued(Attempt(u))
           /\ \A w \in Wrappers : Queued(Send(w)) => Queued(Send(w))' \/ Head(inbox) = Send(w)
<1>1. PICK w \in Wrappers : inbox' \in {Rest, Append(Rest, Send(w))}
  BY DEF HandlerStep, Outcome
<1>2. /\ ToSet(inbox') \subseteq ToSet(inbox) \cup {Send(w)}
      /\ ToSet(inbox) \subseteq ToSet(inbox') \cup {Head(inbox)}
      /\ Head(inbox) \in ToSet(inbox)
  BY <1>1, HandlerQueue DEF TypeInv, HandlerStep
<1>3. /\ \A k \in BevEvents, c \in Bevs : BevEvent(k, c) # Send(w)
      /\ \A u \in Peers : Attempt(u) # Send(w)
  BY EventShapes DEF BevEvent, Send, Attempt
<1>4. Ordered'
  <2> SUFFICES ASSUME NEW i \in DOMAIN inbox', NEW j \in DOMAIN inbox', i < j,
                      inbox'[i].kind \in BevEvents, inbox'[j].kind \in BevEvents,
                      inbox'[i].bev = inbox'[j].bev
               PROVE  Before(inbox'[i].kind, inbox'[j].kind)
    BY DEF Ordered
  <2>1. /\ i \in Nat /\ j \in Nat
        /\ i + 1 \in DOMAIN inbox /\ inbox'[i] = inbox[i + 1]
        /\ j + 1 \in DOMAIN inbox /\ inbox'[j] = inbox[j + 1]
    BY HandlerPositions, EventShapes
  <2> QED BY <2>1 DEF Ordered
<1>5. ASSUME NEW h \in BevEvents, NEW k \in BevEvents, NEW c \in Bevs,
             Head(inbox) = BevEvent(h, c), BevEvent(k, c) \in ToSet(inbox')
      PROVE  Before(h, k)
  <2>1. PICK j \in DOMAIN inbox' : inbox'[j] = BevEvent(k, c)
    BY <1>5 DEF ToSet
  <2>2. BevEvent(k, c).kind = k /\ BevEvent(k, c).bev = c /\ BevEvent(h, c).kind = h
        /\ BevEvent(h, c).bev = c
    BY DEF BevEvent
  <2>3. /\ j \in Nat \ {0} /\ j + 1 \in DOMAIN inbox /\ inbox[j + 1] = BevEvent(k, c)
        /\ 1 \in DOMAIN inbox /\ inbox[1] = BevEvent(h, c)
    BY <1>5, <2>1, <2>2, HandlerPositions, EventShapes
  <2> QED BY <2>2, <2>3 DEF Ordered
<1> QED BY <1>2, <1>3, <1>4, <1>5 DEF Pending, Queued

\* The same, when the first is the signal h of b.
LEMMA SignalTaken ==
    ASSUME TypeInv, Ordered, HandlerStep, NEW h \in BevEvents, NEW b \in Bevs,
           Head(inbox) = BevEvent(h, b)
    PROVE  /\ \A k \in BevEvents, c \in Bevs :
                 /\ Pending(k, c)' => Pending(k, c)
                 /\ Pending(k, c) /\ (k # h \/ c # b) => Pending(k, c)'
           /\ \A k \in BevEvents : Pending(k, b)' => Before(h, k)
           /\ \A k \in BevEvents : Pending(k, b) /\ k # h => Before(h, k)
           /\ \A u \in Peers : Queued(Attempt(u))' => Queued(Attempt(u))
           /\ \A w \in Wrappers : Queued(Send(w)) => Queued(Send(w))'
<1>1. \A k \in BevEvents, c \in Bevs : k # h \/ c # b => Head(inbox) # BevEvent(k, c)
  BY DEF BevEvent
<1>2. \A w \in Wrappers : Head(inbox) # Send(w)
  BY EventShapes DEF BevEvent, Send
<1>3. \A k \in BevEvents, c \in Bevs :
         /\ Pending(k, c)' => Pending(k, c)
         /\ Pending(k, c) /\ (k # h \/ c # b) => Pending(k, c)'
  BY <1>1, HandlerSignals
<1>4. \A k \in BevEvents : Pending(k, b)' => Before(h, k)
  BY HandlerSignals
<1> QED BY <1>2, <1>3, <1>4, HandlerSignals

\* The signals stay in order, and dials stay told from calls.
LEMMA SignalsByHandler ==
    ASSUME TypeInv, SignalsInOrder, DialsMarked, HandlerStep
    PROVE  SignalsInOrder' /\ DialsMarked'
<1>1. /\ Ordered' /\ UNCHANGED <<phase, dialled>>
      /\ \A k \in BevEvents, c \in Bevs : Pending(k, c)' => Pending(k, c)
  BY HandlerSignals DEF SignalsInOrder, HandlerStep
<1>2. {"connected", "refused", "newConnection"} \subseteq BevEvents
  BY DEF BevEvents
<1>3. SignalsInOrder'
  BY <1>1 DEF SignalsInOrder
<1>4. DialsMarked'
  BY <1>1, <1>2 DEF DialsMarked
<1> QED BY <1>3, <1>4

\* A handler that moves no wrapper gives nobody a second connection.
LEMMA OneEachByHandler ==
    ASSUME TypeInv, OneEach, HandlerStep, freed \subseteq freed', bw' = bw
    PROVE  OneEach'
BY DEF OneEach, Calling, Live, HandlerStep

\* A dial is not forgotten while its request is on the wire.
LEMMA WireByHandler ==
    ASSUME TypeInv, SignalsInOrder, WireSound, HandlerStep, freed \subseteq freed', wire' = wire,
           \A u \in Peers : connectTo[u] /\ ~connectTo'[u] => \E b \in Bevs : Live(b) /\ remote[b] = u
    PROVE  WireSound'
<1>1. \A c \in Bevs : Pending("connected", c)' => Pending("connected", c)
  BY HandlerSignals DEF SignalsInOrder, BevEvents
<1> QED BY <1>1 DEF WireSound, OnWire, Live, HandlerStep

\* What a handler frees or closes has ended and is not heard of again.
LEMMA EndedByHandler ==
    ASSUME TypeInv, SignalsInOrder, EndedIsSilent, HandlerStep, NEW b \in Bevs,
           freed' \in {freed, freed \cup {b}}, fd' \in {fd, [fd EXCEPT ![b] = "closed"]},
           freed' # freed \/ fd' # fd => phase[b] = "off" /\ Idle(b)',
           b \in freed' /\ b \notin dialled => fd'[b] = "closed"
    PROVE  EndedIsSilent'
<1>1. \A k \in BevEvents, c \in Bevs : Pending(k, c)' => Pending(k, c)
  BY HandlerSignals DEF SignalsInOrder
<1>2. UNCHANGED <<phase, dialled>> /\ fd \in [Bevs -> {"none", "open", "closed", "reclosed"}]
  BY DEF HandlerStep, TypeInv, TypeOK
<1> QED BY <1>1, <1>2 DEF EndedIsSilent, Idle

\* The connections that are free after a handler has freed gone.
FreedToo(gone) == freed \cup gone
NotYetFreed(gone) == gone \cap freed = {}

\* No wrapper is destroyed when each that holds a connection is referred to.
LEMMA SettleKeeps ==
    ASSUME TypeInv, HandlerStep, Head(inbox).kind # "send", fault = "none",
           NEW q, NEW ws, NEW ex, NEW hs \in [Wrappers -> Bevs \cup {NoBev}], NEW gone,
           Settle(q, ws, ex, hs, gone),
           NotYetFreed(gone),
           \A w \in Wrappers : hs[w] # NoBev =>
              (\E u \in Peers : ws[u] = w) \/ w \in ToSet(ex) \/ Queued(Send(w))
    PROVE  /\ held' = hs /\ fault' = "none"
           /\ freed' = FreedToo(gone)
           /\ \A w \in Wrappers : hs[w] # NoBev => Referenced(w, q, ws, ex)
<1>1. /\ ToSet(inbox) \subseteq ToSet(inbox') \cup {Head(inbox)}
      /\ inbox' = q
  BY HandlerQueue DEF TypeInv, HandlerStep, Outcome, Settle
<1>2. \A w \in Wrappers : Queued(Send(w)) => Send(w) \in ToSet(q)
  BY <1>1 DEF Queued, Send
<1>3. \A w \in Wrappers : hs[w] # NoBev => Referenced(w, q, ws, ex)
  BY <1>2 DEF Referenced
<1>4. Doomed(q, ws, ex, hs) = {}
  BY <1>3 DEF Doomed
<1>5. ~FreedTwice({}, hs, gone)
  BY DEF FreedTwice, NotYetFreed
<1>6. /\ inbox' = q /\ bw' = ws /\ extra' = ex
      /\ held' = [w \in Wrappers |-> IF w \in {} THEN NoBev ELSE hs[w]]
      /\ freed' = freed \cup gone \cup {hs[w] : w \in {}}
      /\ fault' = fault
  BY <1>4, <1>5 DEF Settle
<1>7. held' = hs /\ freed' = freed \cup gone
  BY <1>6
<1> QED BY <1>3, <1>6, <1>7 DEF FreedToo

\* Nor is one when the handler frees nothing itself.
LEMMA SettleNone ==
    ASSUME TypeInv, HandlerStep, Head(inbox).kind # "send", fault = "none",
           NEW q, NEW ws, NEW ex, NEW hs \in [Wrappers -> Bevs \cup {NoBev}],
           Settle(q, ws, ex, hs, {}),
           \A w \in Wrappers : hs[w] # NoBev =>
              (\E u \in Peers : ws[u] = w) \/ w \in ToSet(ex) \/ Queued(Send(w))
    PROVE  /\ held' = hs /\ fault' = "none"
           /\ freed' = freed
           /\ \A w \in Wrappers : hs[w] # NoBev => Referenced(w, q, ws, ex)
<1> DEFINE gone == {}
<1>1. Settle(q, ws, ex, hs, gone) /\ NotYetFreed(gone) /\ FreedToo(gone) = freed
  BY DEF NotYetFreed, FreedToo
<1> HIDE DEF gone
<1> QED BY <1>1, SettleKeeps

\* A connection of which a signal waits exists, and its descriptor is open.
LEMMA HeardIsLive ==
    ASSUME TypeInv, SignalsInOrder, EndedIsSilent, NEW k \in BevEvents, NEW b \in Bevs, Pending(k, b)
    PROVE  Live(b) /\ k \in Sent(phase[b]) /\ fd[b] = "open"
<1>1. k \in Sent(phase[b])
  BY DEF SignalsInOrder
<1>2. phase[b] # "unused"
  BY <1>1 DEF Sent
<1>3. b \notin freed /\ fd[b] # "closed" /\ fd[b] # "none" /\ fd[b] # "reclosed"
  BY <1>2 DEF EndedIsSilent, Idle
<1> QED BY <1>1, <1>2, <1>3 DEF Live, TypeInv, TypeOK

\* The signal that is handled waited until then.
LEMMA HeadIsHeard ==
    ASSUME TypeInv, CalmInv, NEW k \in BevEvents, Handling(k)
    PROVE  LET b == Head(inbox).bev IN
           /\ inbox # <<>> /\ fault = "none" /\ Head(inbox).kind = k /\ k # "send"
           /\ b \in Bevs /\ remote[b] \in Peers /\ Head(inbox) = BevEvent(k, b)
           /\ Pending(k, b) /\ Live(b) /\ k \in Sent(phase[b]) /\ fd[b] = "open"
<1> DEFINE b == Head(inbox).bev
<1>1. /\ inbox # <<>> /\ fault = "none" /\ Head(inbox).kind = k
      /\ b \in Bevs /\ remote[b] \in Peers /\ Head(inbox) = BevEvent(k, b)
  BY HeadBev DEF Handling
<1>2. k # "send"
  BY EventShapes
<1>3. Pending(k, b)
  BY <1>1, TailSet DEF Pending, Queued, TypeInv, TypeOK
<1>4. Live(b) /\ k \in Sent(phase[b]) /\ fd[b] = "open"
  BY <1>1, <1>3, HeardIsLive DEF CalmInv
<1> QED BY <1>1, <1>2, <1>3, <1>4

\* No entry refers to the wrapper of a caller, or holds its connection.
LEMMA CallerApart ==
    ASSUME TypeInv, HeldRightly, NEW b \in Bevs, Calling(b), NEW u \in Peers
    PROVE  bw[u] # b /\ held[bw[u]] # b
<1>1. bw[u] \in Wrappers /\ b # NoBev
  BY BevsAssumption DEF TypeInv, TypeOK
<1> QED BY <1>1 DEF HeldRightly, Calling

\* newAcceptedConnection makes the wrapper of a caller.
LEMMA NewAcceptedConnectionCalm ==
    ASSUME TypeInv, WrapperInv, CalmInv, NewAcceptedConnection PROVE CalmInv'
<1> DEFINE b == Head(inbox).bev
           u == remote[b]
<1>1. /\ inbox # <<>> /\ fault = "none" /\ Head(inbox).kind = "newConnection"
      /\ b \in Bevs /\ u \in Peers /\ Head(inbox) = BevEvent("newConnection", b)
      /\ Pending("newConnection", b) /\ Live(b)
  BY HeadIsHeard DEF NewAcceptedConnection, BevEvents
<1>2. HandlerStep
  BY NewAcceptedConnectionType
<1>3. /\ Settle(Append(Rest, Send(b)), bw, Append(extra, b), [held EXCEPT ![b] = b], {})
      /\ UNCHANGED <<known, connectTo, isAuthed, sock, shown, warned, phase, fd, remote, dialled, wire>>
  BY DEF NewAcceptedConnection, netVars
<1>t. /\ bw \in [Peers -> Wrappers] /\ extra \in Seq(Bevs)
      /\ held \in [Wrappers -> Bevs \cup {NoBev}] /\ b \in Wrappers
  BY <1>1 DEF TypeInv, TypeOK, Wrappers
<1>c. /\ SignalsInOrder /\ DialsMarked /\ EndedIsSilent /\ WireSound /\ HeldRightly /\ OneEach
      /\ DialStages /\ CallStages /\ SessionStages
      /\ WindowTellsTheTruth /\ warned = {} /\ NoFault
  BY DEF CalmInv
<1> HIDE DEF b, u
<1>4. b \notin dialled /\ Calling(b)
  <2>1. b \notin dialled
    BY <1>1, <1>c DEF DialsMarked
  <2>2. ~Session(b)
    BY <1>1, <1>c DEF SessionStages, Session, u
  <2> QED BY <1>1, <1>c, <2>1, <2>2 DEF CallStages
<1>5. \A v \in Peers : bw[v] # b /\ held[bw[v]] # b
  BY <1>1, <1>4, <1>c, CallerApart
<1>6. Append(extra, b) \in Seq(Bevs) /\ ToSet(Append(extra, b)) = ToSet(extra) \cup {b}
  BY <1>1, <1>t, AppendSet
<1>7. /\ inbox' = Append(Rest, Send(b)) /\ bw' = bw /\ ToSet(extra') = ToSet(extra) \cup {b}
      /\ held' = [held EXCEPT ![b] = b] /\ freed' = freed
      /\ fault' = "none"
      /\ \A w \in Wrappers : held'[w] # NoBev => Referenced(w, inbox', bw', extra')
  <2> DEFINE hs == [held EXCEPT ![b] = b]
  <2>1. hs \in [Wrappers -> Bevs \cup {NoBev}] /\ {} \in SUBSET Bevs /\ {} \cap freed = {}
        /\ Append(Rest, Send(b)) \in {Rest, Append(Rest, Send(b))}
    BY <1>1, <1>t
  <2>2. \A w \in Wrappers : hs[w] # NoBev =>
           (\E v \in Peers : bw[v] = w) \/ w \in ToSet(Append(extra, b)) \/ Queued(Send(w))
    BY <1>t, <1>c, <1>6 DEF HeldRightly, Referenced, Queued
  <2> DEFINE q == Append(Rest, Send(b))
             ex == Append(extra, b)
  <2>3. Settle(q, bw, ex, hs, {}) /\ \A w \in Wrappers : hs[w] # NoBev =>
           (\E v \in Peers : bw[v] = w) \/ w \in ToSet(ex) \/ Queued(Send(w))
    BY <1>3, <2>2
  <2>4. Head(inbox).kind # "send"
    BY <1>1
  <2> HIDE DEF hs, q, ex
  <2>6. inbox' = q /\ bw' = bw /\ extra' = ex
    BY <2>3 DEF Settle
  <2>5. /\ held' = hs /\ fault' = "none" /\ freed' = freed
        /\ \A w \in Wrappers : hs[w] # NoBev => Referenced(w, q, bw, ex)
    BY <1>1, <1>2, <2>1, <2>3, <2>4, SettleNone
  <2> QED BY <1>6, <2>5, <2>6 DEF hs, q, ex
<1>8. /\ \A k \in BevEvents, c \in Bevs : Pending(k, c)' => Pending(k, c)
      /\ \A k \in BevEvents, c \in Bevs : c # b => (Pending(k, c) => Pending(k, c)')
      /\ \A k \in BevEvents, c \in Bevs : k # "newConnection" => (Pending(k, c) => Pending(k, c)')
      /\ \A v \in Peers : Queued(Attempt(v))' => Queued(Attempt(v))
      /\ \A w \in Wrappers : Queued(Send(w)) => Queued(Send(w))'
      /\ "newConnection" \in BevEvents /\ "auth" \in BevEvents /\ "connected" \in BevEvents
      /\ "refused" \in BevEvents /\ PacketKinds \subseteq BevEvents
  <2>1. /\ "newConnection" \in BevEvents /\ "auth" \in BevEvents /\ "connected" \in BevEvents
        /\ "refused" \in BevEvents /\ PacketKinds \subseteq BevEvents
    BY DEF BevEvents
  <2> QED BY <1>1, <1>2, <1>c, <2>1, SignalTaken DEF SignalsInOrder
<1>9. SignalsInOrder' /\ DialsMarked' /\ OneEach' /\ WireSound' /\ EndedIsSilent'
  BY <1>1, <1>2, <1>3, <1>7, <1>c,
     SignalsByHandler, OneEachByHandler, WireByHandler, EndedByHandler DEF EndedIsSilent
<1>10. HeldRightly'
  <2>1. \A w \in Wrappers : held'[w] = (IF w = b THEN b ELSE held[w])
    BY <1>t, <1>7
  <2>2. \A c \in ToSet(extra') : c \notin dialled /\ held'[c] = c
    <3>1. \A c \in ToSet(extra) : c \in Wrappers
      BY <1>t, ElementOfSeq, LenProperties DEF ToSet, Wrappers
    <3> QED BY <1>4, <1>7, <1>c, <2>1, <1>t, <3>1 DEF HeldRightly
  <2>3. \A w \in Wrappers : held'[w] # NoBev =>
          /\ Live(held'[w])
          /\ IF held'[w] \in dialled THEN w = bw[remote[held'[w]]] ELSE w = held'[w]
    BY <1>1, <1>4, <1>c, <2>1 DEF HeldRightly
  <2>4. \A v \in Peers : IF bw[v] \in Bevs THEN bw[v] \notin dialled /\ remote[bw[v]] = v
                                          ELSE bw[v] = v
    BY <1>c DEF HeldRightly
  <2> QED BY <1>3, <1>7, <2>2, <2>3, <2>4 DEF HeldRightly, Live
<1>11. DialStages'
  <2>1. \A v \in Peers : held'[bw'[v]] = held[bw[v]]
    BY <1>5, <1>7, <1>t
  <2>2. \A c \in Bevs : Live(c) => remote[c] \in Peers
    BY DEF Live, TypeInv, Reached
  <2> QED BY <1>3, <1>7, <1>8, <1>c, <2>1, <2>2 DEF DialStages, Live
<1>12. CallStages'
  <2>1. \A w \in Wrappers : held'[w] = (IF w = b THEN b ELSE held[w])
    BY <1>t, <1>7
  <2>2. \A c \in Bevs : Live(c) => remote[c] \in Peers /\ c \in Wrappers
    BY DEF Live, TypeInv, Reached, Wrappers
  <2> QED BY <1>3, <1>4, <1>7, <1>8, <1>c, <2>1, <2>2 DEF CallStages, Live, Calling, Session
<1>13. SessionStages'
  <2>1. \A v \in Peers : held'[bw'[v]] = held[bw[v]]
    BY <1>5, <1>7, <1>t
  <2> QED BY <1>3, <1>7, <1>8, <1>c, <2>1 DEF SessionStages, Live, Pending, Queued, Session
<1> QED BY <1>3, <1>7, <1>9, <1>10, <1>11, <1>12, <1>13, <1>c
        DEF CalmInv, WindowTellsTheTruth, NoFault

\* What an entry holds is a connection with its own peer.
LEMMA HeldIsOwn ==
    ASSUME TypeInv, WrapperInv, HeldRightly, NEW u \in Peers, held[bw[u]] # NoBev
    PROVE  /\ held[bw[u]] \in Bevs /\ Live(held[bw[u]]) /\ remote[held[bw[u]]] = u
           /\ held[bw[u]] \notin dialled => bw[u] = held[bw[u]]
<1> DEFINE c == held[bw[u]]
<1>1. bw[u] \in Wrappers /\ c \in Bevs
  BY DEF TypeInv, TypeOK
<1>2. Live(c) /\ IF c \in dialled THEN bw[u] = bw[remote[c]] ELSE bw[u] = c
  BY <1>1 DEF HeldRightly
<1>3. remote[c] \in Peers
  BY <1>1, <1>2 DEF Live, TypeInv, Reached
<1>4. remote[c] = u
  <2>1. CASE c \in dialled
    BY <1>2, <1>3, <2>1 DEF WrapperInv, NoSharedWrapper
  <2>2. CASE c \notin dialled
    <3>1. bw[u] = c
      BY <1>2, <2>2
    <3> QED BY <1>1, <3>1 DEF HeldRightly
  <2> QED BY <2>1, <2>2
<1> QED BY <1>1, <1>2, <1>4

\* The connection an entry authenticates is the one it holds, if it holds any.
LEMMA NothingReplaced ==
    ASSUME TypeInv, WrapperInv, CalmInv PROVE ~AuthReplacing
<1> SUFFICES ASSUME AuthReplacing PROVE FALSE
  OBVIOUS
<1>1. Handling("auth") /\ "auth" \in BevEvents
  BY DEF AuthReplacing, BevEvents
<1> DEFINE b == Head(inbox).bev
           u == remote[b]
<1>2. b \in Bevs /\ u \in Peers /\ Live(b) /\ held[bw[u]] \notin {NoBev, b}
  BY <1>1, HeadIsHeard DEF AuthReplacing
<1>3. held[bw[u]] \in Bevs /\ Live(held[bw[u]]) /\ remote[held[bw[u]]] = u
  BY <1>2, HeldIsOwn DEF CalmInv
<1> QED BY <1>2, <1>3 DEF CalmInv, OneEach

\* Only the connection of an entry that is to be authenticated is adopted: it
\* is in extraBevs, or the entry holds it since it was dialled.
LEMMA AdoptedIsOwn ==
    ASSUME TypeInv, WrapperInv, CalmInv, AuthAdopting
    PROVE  LET b == Head(inbox).bev
               u == remote[b]
           IN  IF b \in dialled THEN held[bw[u]] = b /\ Adoptable(b) = {}
               ELSE /\ held[b] = b /\ b \in ToSet(extra) /\ held[bw[u]] = NoBev
                    /\ \E i \in DOMAIN extra : extra[i] = b /\ Adoptable(b) = {i}
<1> DEFINE b == Head(inbox).bev
           u == remote[b]
<1>1. /\ inbox # <<>> /\ b \in Bevs /\ u \in Peers /\ Head(inbox) = BevEvent("auth", b)
      /\ Pending("auth", b) /\ Live(b) /\ "auth" \in Sent(phase[b]) /\ fd[b] = "open"
      /\ "auth" \in BevEvents
  BY HeadIsHeard DEF AuthAdopting, BevEvents
<1>2. HandlerStep
  BY AuthAdoptingType
<1>c. HeldRightly /\ OneEach /\ SignalsInOrder /\ DialStages /\ CallStages /\ SessionStages /\ DialsMarked
  BY DEF CalmInv
<1>o. held[bw[u]] \in {NoBev, b}
  BY DEF AuthAdopting
<1> HIDE DEF b, u
<1>3. /\ ~Pending("newConnection", b) /\ ~Pending("connected", b) /\ ~Pending("refused", b)
      /\ phase[b] # "dialling"
  <2>1. "auth" \notin {"newConnection", "connected", "refused"}
    OBVIOUS
  <2>2. \A k \in {"newConnection", "connected", "refused"} : ~Before("auth", k) /\ k \in BevEvents
    BY KindsAssumption DEF Before, BevEvents
  <2>3. \A k \in {"newConnection", "connected", "refused"} : BevEvent(k, b) # BevEvent("auth", b)
    BY DEF BevEvent
  <2>4. phase[b] # "dialling"
    BY <1>1 DEF Sent
  <2> QED BY <1>1, <1>2, <1>c, <2>2, <2>3, <2>4, HandlerSignals DEF SignalsInOrder
<1>e. /\ extra \in Seq(Bevs) /\ \A i \in DOMAIN extra : extra[i] \in Bevs /\ extra[i] \in ToSet(extra)
  BY ElementOfSeq, LenProperties DEF TypeInv, TypeOK, ToSet
<1>4. \A i \in Adoptable(b) : i \in DOMAIN extra /\ extra[i] = b /\ b \notin dialled
  BY <1>c, <1>e DEF Adoptable, HeldRightly
<1>5. CASE b \in dialled
  BY <1>1, <1>3, <1>4, <1>5, <1>c DEF DialStages, u, b
<1>6. CASE b \notin dialled
  <2>1. ~Session(b)
    BY <1>1, <1>c DEF SessionStages, Session, u
  <2>2. held[b] = b /\ b \in ToSet(extra)
    BY <1>1, <1>3, <1>6, <1>c, <2>1 DEF CallStages
  <2>3. PICK i \in DOMAIN extra : extra[i] = b
    BY <2>2 DEF ToSet
  <2>4. Adoptable(b) = {i}
    <3>1. IsInjective(extra)
      BY DEF WrapperInv, NoSharedWrapper
    <3> QED BY <1>4, <2>2, <2>3, <3>1 DEF Adoptable, IsInjective
  <2>5. held[bw[u]] # b
    <3>1. ASSUME held[bw[u]] = b PROVE FALSE
      <4>1. bw[u] = b
        BY <1>1, <1>6, <1>c, <3>1, HeldIsOwn, BevsAssumption
      <4> QED BY <1>1, <2>2, <4>1 DEF WrapperInv, NoSharedWrapper
    <3> QED BY <3>1
  <2> QED BY <1>6, <1>o, <2>2, <2>3, <2>4, <2>5 DEF u, b
<1> QED BY <1>5, <1>6 DEF u, b

\* What authHandler then does.
LEMMA AuthAdoptingEffect ==
    ASSUME TypeInv, WrapperInv, CalmInv, AuthAdopting
    PROVE  LET b == Head(inbox).bev
               u == remote[b]
           IN  /\ held' = held /\ freed' = freed /\ fault' = "none"
               /\ \A w \in Wrappers : held[w] # NoBev => Referenced(w, inbox', bw', extra')
               /\ \A v \in Peers \ {u} : bw'[v] = bw[v]
               /\ held[bw'[u]] = b
               /\ IF b \in dialled THEN bw' = bw ELSE bw'[u] = b
               /\ ToSet(extra') \subseteq ToSet(extra)
               /\ \A c \in ToSet(extra) : c # b => c \in ToSet(extra')
<1> DEFINE b == Head(inbox).bev
           u == remote[b]
<1>1. /\ inbox # <<>> /\ fault = "none" /\ Head(inbox).kind # "send" /\ b \in Bevs /\ u \in Peers
  BY HeadIsHeard DEF AuthAdopting, BevEvents
<1>2. HandlerStep
  BY AuthAdoptingType
<1>3. IF b \in dialled THEN held[bw[u]] = b /\ Adoptable(b) = {}
      ELSE /\ held[b] = b /\ b \in ToSet(extra) /\ held[bw[u]] = NoBev
           /\ \E i \in DOMAIN extra : extra[i] = b /\ Adoptable(b) = {i}
  BY AdoptedIsOwn
<1>4. \/ \E i \in Adoptable(b) :
            Settle(Append(Rest, Send(extra[i])), [bw EXCEPT ![u] = extra[i]],
                   ExtraWithout(i), held, {})
      \/ /\ Adoptable(b) = {}
         /\ Settle(Append(Rest, Send(bw[u])), bw, extra, [held EXCEPT ![bw[u]] = b], {})
  BY DEF AuthAdopting
<1>t. /\ bw \in [Peers -> Wrappers] /\ extra \in Seq(Bevs) /\ IsInjective(extra)
      /\ held \in [Wrappers -> Bevs \cup {NoBev}]
  BY DEF TypeInv, TypeOK, WrapperInv, NoSharedWrapper
<1>r. \A w \in Wrappers : held[w] # NoBev =>
         (\E v \in Peers : bw[v] = w) \/ w \in ToSet(extra) \/ Queued(Send(w))
  BY DEF CalmInv, HeldRightly, Referenced, Queued
<1> HIDE DEF b, u
<1>5. CASE b \in dialled
  <2> DEFINE q == Append(Rest, Send(bw[u]))
  <2>1. Settle(q, bw, extra, held, {})
    <3>1. [held EXCEPT ![bw[u]] = b] = held
      BY <1>3, <1>5, <1>t
    <3> QED BY <1>3, <1>4, <1>5, <3>1
  <2> HIDE DEF q
  <2>3. inbox' = q /\ bw' = bw /\ extra' = extra
    BY <2>1 DEF Settle
  <2>2. /\ held' = held /\ fault' = "none" /\ freed' = freed
        /\ \A w \in Wrappers : held[w] # NoBev => Referenced(w, q, bw, extra)
    BY <1>1, <1>2, <1>t, <1>r, <2>1, SettleNone
  <2> QED BY <1>3, <1>5, <2>2, <2>3 DEF u, b
<1>6. CASE b \notin dialled
  <2>1. PICK i \in DOMAIN extra : extra[i] = b /\ Adoptable(b) = {i}
    BY <1>3, <1>6
  <2> DEFINE q  == Append(Rest, Send(b))
             ws == [bw EXCEPT ![u] = b]
             ex == ExtraWithout(i)
  <2>2. Settle(q, ws, ex, held, {})
    BY <1>4, <2>1
  <2>3. ToSet(ex) = ToSet(extra) \ {b}
    BY <1>t, <2>1, RemoveAtSet DEF ExtraWithout
  <2>4. \A v \in Peers : ws[v] = (IF v = u THEN b ELSE bw[v])
    BY <1>1, <1>t
  <2> HIDE DEF q, ws, ex
  <2>5. \A w \in Wrappers : held[w] # NoBev =>
           (\E v \in Peers : ws[v] = w) \/ w \in ToSet(ex) \/ Queued(Send(w))
    BY <1>1, <1>3, <1>6, <1>r, <2>3, <2>4
  <2>7. inbox' = q /\ bw' = ws /\ extra' = ex
    BY <2>2 DEF Settle
  <2>6. /\ held' = held /\ fault' = "none" /\ freed' = freed
        /\ \A w \in Wrappers : held[w] # NoBev => Referenced(w, q, ws, ex)
    BY <1>1, <1>2, <1>t, <2>2, <2>5, SettleNone
  <2> QED BY <1>1, <1>3, <1>6, <2>3, <2>4, <2>6, <2>7 DEF u, b
<1> QED BY <1>5, <1>6

\* authHandler begins the session of an entry with its peer.
LEMMA AuthAdoptingCalm ==
    ASSUME TypeInv, WrapperInv, CalmInv, AuthAdopting PROVE CalmInv'
<1>1. PICK b \in Bevs, u \in Peers :
        /\ b = Head(inbox).bev /\ u = remote[b] /\ Head(inbox) = BevEvent("auth", b)
        /\ Pending("auth", b) /\ Live(b) /\ "auth" \in Sent(phase[b]) /\ fd[b] = "open"
  BY HeadIsHeard DEF AuthAdopting, BevEvents
<1>2. HandlerStep
  BY AuthAdoptingType
<1>3. /\ held' = held /\ freed' = freed /\ fault' = "none"
      /\ \A w \in Wrappers : held[w] # NoBev => Referenced(w, inbox', bw', extra')
      /\ \A v \in Peers \ {u} : bw'[v] = bw[v]
      /\ held[bw'[u]] = b
      /\ IF b \in dialled THEN bw' = bw ELSE bw'[u] = b
      /\ ToSet(extra') \subseteq ToSet(extra)
      /\ \A c \in ToSet(extra) : c # b => c \in ToSet(extra')
  BY <1>1, AuthAdoptingEffect
<1>4. Authenticate(u, u, b) /\ fd' = fd
  BY <1>1 DEF AuthAdopting
<1>c. /\ SignalsInOrder /\ DialsMarked /\ EndedIsSilent /\ WireSound /\ HeldRightly /\ OneEach
      /\ DialStages /\ CallStages /\ SessionStages
      /\ WindowTellsTheTruth /\ warned = {} /\ NoFault
  BY DEF CalmInv
<1>5. /\ UNCHANGED <<phase, remote, dialled, wire, warned, fd>>
      /\ u \in known' /\ known \subseteq known'
      /\ connectTo'[u] /\ isAuthed'[u] /\ sock'[u] = b /\ shown'[u] = "up"
      /\ \A v \in Peers \ {u} : /\ connectTo'[v] = connectTo[v] /\ isAuthed'[v] = isAuthed[v]
                                /\ sock'[v] = sock[v] /\ shown'[v] = shown[v]
  BY <1>1, <1>4 DEF Authenticate, Redialable, Deauthed, NoSocket, ToldGone, TypeInv, TypeOK
<1>6. /\ \A k \in BevEvents, c \in Bevs : Pending(k, c)' => Pending(k, c)
      /\ \A k \in BevEvents, c \in Bevs : c # b => (Pending(k, c) => Pending(k, c)')
      /\ \A k \in BevEvents, c \in Bevs : k # "auth" => (Pending(k, c) => Pending(k, c)')
      /\ \A k \in {"newConnection", "connected", "refused", "auth"} : ~Pending(k, b)'
      /\ \A v \in Peers : Queued(Attempt(v))' => Queued(Attempt(v))
      /\ \A w \in Wrappers : Queued(Send(w)) => Queued(Send(w))'
      /\ "newConnection" \in BevEvents /\ "auth" \in BevEvents /\ "connected" \in BevEvents
      /\ "refused" \in BevEvents /\ PacketKinds \subseteq BevEvents
  <2>1. \A k \in {"newConnection", "connected", "refused", "auth"} : ~Before("auth", k)
    BY KindsAssumption DEF Before
  <2>2. /\ "newConnection" \in BevEvents /\ "auth" \in BevEvents /\ "connected" \in BevEvents
        /\ "refused" \in BevEvents /\ PacketKinds \subseteq BevEvents
    BY DEF BevEvents
  <2> QED BY <1>1, <1>2, <1>c, <2>1, <2>2, SignalTaken DEF SignalsInOrder
<1>7. \A c \in Bevs : Live(c) => /\ remote[c] \in Peers /\ c \in Wrappers
                                 /\ remote[c] = u => c = b
  BY <1>1, <1>c DEF Live, TypeInv, Reached, Wrappers, OneEach
<1>8. SignalsInOrder' /\ DialsMarked' /\ EndedIsSilent' /\ WireSound'
  <2>1. \A v \in Peers : connectTo[v] => connectTo'[v]
    BY <1>5
  <2> QED BY <1>1, <1>2, <1>3, <1>5, <1>c, <2>1, SignalsByHandler, EndedByHandler, WireByHandler
          DEF EndedIsSilent
<1>9. \A c \in Bevs : Live(c) /\ c \notin dialled =>
         /\ Calling(c)' => Calling(c) /\ c # b
         /\ ~Calling(c)' => ~Calling(c) \/ c = b
  BY <1>1, <1>3, <1>5, <1>7 DEF Calling, Live
<1>10. OneEach'
  BY <1>3, <1>5, <1>9, <1>c DEF OneEach, Calling, Live
<1>11. HeldRightly'
  <2>1. \A w \in Wrappers : held[w] # NoBev =>
          /\ Live(held[w])
          /\ IF held[w] \in dialled THEN w = bw'[remote[held[w]]] ELSE w = held[w]
    <3>1. \A w \in Wrappers : held[w] # NoBev => held[w] \in Bevs
      BY DEF TypeInv, TypeOK
    <3> QED BY <1>3, <1>7, <1>c, <3>1 DEF HeldRightly
  <2>2. \A v \in Peers : IF bw'[v] \in Bevs THEN bw'[v] \notin dialled /\ remote[bw'[v]] = v
                                           ELSE bw'[v] = v
    BY <1>1, <1>3, <1>c DEF HeldRightly
  <2> QED BY <1>3, <1>5, <1>c, <2>1, <2>2 DEF HeldRightly, Live
<1>12. DialStages'
  BY <1>1, <1>3, <1>5, <1>6, <1>7, <1>c DEF DialStages, Live
<1>13. CallStages'
  <2>1. ASSUME NEW c \in Bevs, Live(c), c \notin dialled, Calling(c)'
        PROVE  /\ ~connectTo'[remote[c]]
               /\ ~Queued(Attempt(remote[c]))'
               /\ \/ Pending("newConnection", c)' /\ held[c] = NoBev
                  \/ held[c] = c /\ c \in ToSet(extra')
                  \/ held[c] = c /\ Queued(Send(c))' /\ fd[c] = "closed"
    <3>1. Calling(c) /\ c # b /\ remote[c] # u /\ remote[c] \in Peers
      BY <1>1, <1>7, <1>9, <2>1
    <3>2. /\ ~connectTo[remote[c]] /\ ~Queued(Attempt(remote[c]))
          /\ \/ Pending("newConnection", c) /\ held[c] = NoBev
             \/ held[c] = c /\ c \in ToSet(extra)
             \/ held[c] = c /\ Queued(Send(c)) /\ fd[c] = "closed"
      BY <1>c, <2>1, <3>1 DEF CallStages
    <3>3. ~Queued(Attempt(remote[c]))'
      BY <1>5, <1>6, <3>1, <3>2 DEF Queued
    <3> QED BY <1>3, <1>5, <1>6, <1>7, <2>1, <3>1, <3>2, <3>3
  <2>2. ASSUME NEW c \in Bevs, Live(c), c \notin dialled, ~Calling(c)'
        PROVE  held[c] = c /\ isAuthed'[remote[c]] /\ sock'[remote[c]] = c
    <3>1. CASE c = b
      BY <1>1, <1>3, <1>5, <2>2, <3>1
    <3>2. CASE c # b
      <4>1. ~Calling(c) /\ remote[c] # u /\ remote[c] \in Peers
        BY <1>1, <1>7, <1>9, <2>2, <3>2
      <4> QED BY <1>5, <1>c, <2>2, <4>1 DEF CallStages, Session
    <3> QED BY <3>1, <3>2
  <2> QED BY <1>3, <1>5, <2>1, <2>2 DEF CallStages, Live, Session, Queued
<1>14. SessionStages'
  <2>1. ASSUME NEW v \in Peers, isAuthed'[v]
        PROVE  /\ sock'[v] \in Bevs /\ Live(sock'[v]) /\ remote[sock'[v]] = v
               /\ held[bw'[v]] = sock'[v] /\ fd[sock'[v]] = "open"
               /\ phase[sock'[v]] \in {"read", "off"}
               /\ \A k \in {"newConnection", "connected", "refused", "auth"} :
                     BevEvent(k, sock'[v]) \notin ToSet(inbox')
    <3>1. CASE v = u
      <4>1. phase[b] \in {"read", "off"}
        BY <1>1 DEF Sent
      <4>2. \A k \in {"newConnection", "connected", "refused", "auth"} :
               BevEvent(k, b) \notin ToSet(inbox')
        BY <1>6 DEF Pending, Queued
      <4> QED BY <1>1, <1>3, <1>5, <3>1, <4>1, <4>2
    <3>2. CASE v # u
      BY <1>3, <1>5, <1>6, <1>c, <2>1, <3>2 DEF SessionStages, Pending, Queued
    <3> QED BY <3>1, <3>2
  <2>2. ASSUME NEW c \in Bevs, phase[c] = "read" \/ \E k \in PacketKinds : Pending(k, c)'
        PROVE  Pending("auth", c)' \/ (isAuthed'[remote[c]] /\ sock'[remote[c]] = c)
    <3>1. CASE c = b
      BY <1>1, <1>5, <3>1
    <3>2. CASE c # b
      <4>1. Pending("auth", c) \/ Session(c)
        BY <1>6, <1>c, <2>2 DEF SessionStages
      <4>2. ASSUME Session(c) PROVE isAuthed'[remote[c]] /\ sock'[remote[c]] = c
        <5>1. phase[c] # "unused"
          <6>1. CASE phase[c] = "read"
            BY <6>1
          <6>2. ASSUME NEW k \in PacketKinds, Pending(k, c)' PROVE phase[c] # "unused"
            BY <1>6, <1>c, <6>2, HeardIsLive DEF Live
          <6> QED BY <2>2, <6>1, <6>2
        <5>2. remote[c] \in Peers
          BY <5>1 DEF TypeInv, Reached
        <5>3. remote[c] # u
          BY <1>1, <1>7, <1>c, <3>2, <4>2, <5>2 DEF SessionStages, Session
        <5> QED BY <1>5, <4>2, <5>2, <5>3 DEF Session
      <4> QED BY <1>6, <3>2, <4>1, <4>2
    <3> QED BY <3>1, <3>2
  <2>3. \A v \in Peers : connectTo'[v] => v \in known'
    BY <1>5, <1>c DEF SessionStages
  <2> QED BY <1>3, <1>5, <2>1, <2>2, <2>3 DEF SessionStages, Live, Session, Pending, Queued
<1>15. WindowTellsTheTruth'
  BY <1>5, <1>c DEF WindowTellsTheTruth
<1> QED BY <1>3, <1>5, <1>8, <1>10, <1>11, <1>12, <1>13, <1>14, <1>15, <1>c DEF CalmInv, NoFault

\* The entry of u, at the other end of b, is left by a connection that ended.
LetGo(b, u) ==
    /\ u = remote[b] /\ Live(b) /\ phase[b] = "off"
    /\ b \notin dialled => held[bw[u]] = b /\ fd'[b] = "closed"
    /\ isAuthed[u] => sock[u] = b
    /\ connectTo' = Redialable(connectTo, u) /\ isAuthed' = Deauthed(isAuthed, u)
    /\ sock' = NoSocket(sock, u) /\ shown' \in {shown, ToldGone(u)} /\ shown'[u] # "up"
    /\ UNCHANGED <<known, warned, phase, remote, dialled, wire, bw, extra>>
    /\ fd' \in {fd, [fd EXCEPT ![b] = "closed"]}
    /\ held' = Emptied(held, bw[u]) /\ freed' = freed \cup {b} /\ fault' = "none"
    /\ \A w \in Wrappers : held'[w] # NoBev => Referenced(w, inbox', bw', extra')

\* peerQuit ends the session, or the dial, of the entry that holds b.
LEMMA PeerQuitHolderEffect ==
    ASSUME TypeInv, WrapperInv, AuthedHasSocket, CalmInv, PeerQuit,
           Holders(Head(inbox).bev) # {}
    PROVE  \E b \in Bevs, u \in Peers :
              Head(inbox) = BevEvent("quit", b) /\ LetGo(b, u)
<1>1. PICK b \in Bevs, u \in Peers :
        /\ b = Head(inbox).bev /\ u = remote[b] /\ Head(inbox) = BevEvent("quit", b)
        /\ Live(b) /\ "quit" \in Sent(phase[b]) /\ fd[b] = "open"
        /\ Head(inbox).kind # "send" /\ fault = "none"
  BY HeadIsHeard DEF PeerQuit, BevEvents
<1>2. HandlerStep
  BY PeerQuitType
<1>3. PICK v \in Holders(b) :
        /\ connectTo' = Redialable(connectTo, v) /\ isAuthed' = Deauthed(isAuthed, v)
        /\ sock' = NoSocket(sock, v) /\ shown' = ToldGone(v)
        /\ fd' = Closed(sock[v])
        /\ Settle(Rest, bw, extra, Emptied(held, bw[v]), {b})
  BY <1>1 DEF PeerQuit
<1>4. UNCHANGED <<known, warned, phase, remote, dialled, wire>>
  BY DEF PeerQuit
<1>5. held[bw[v]] = b /\ v \in Peers
  BY DEF Holders, TypeInv, TypeOK
<1>c. HeldRightly /\ SessionStages /\ CallStages
  BY DEF CalmInv
<1>6. v = u /\ (b \notin dialled => bw[v] = b)
  BY <1>1, <1>5, <1>c, HeldIsOwn, BevsAssumption
<1>7. isAuthed[u] => sock[u] = b
  BY <1>5, <1>6, <1>c DEF SessionStages
<1>8. fd' = IF isAuthed[u] THEN [fd EXCEPT ![b] = "closed"] ELSE fd
  BY <1>1, <1>3, <1>6, <1>7, BevsAssumption DEF Closed, AuthedHasSocket
<1>9. b \in dialled \/ isAuthed[u]
  BY <1>1, <1>6, <1>c DEF CallStages, Calling, Session
<1>10. phase[b] = "off"
  BY <1>1, KindsAssumption DEF Sent
<1> DEFINE hs == Emptied(held, bw[u])
<1>11. bw[u] \in Wrappers /\ held \in [Wrappers -> Bevs \cup {NoBev}]
  BY DEF TypeInv, TypeOK
<1>12. /\ hs \in [Wrappers -> Bevs \cup {NoBev}]
       /\ \A w \in Wrappers : hs[w] = (IF w = bw[u] THEN NoBev ELSE held[w])
  BY <1>11 DEF Emptied
<1> DEFINE gone == {b}
<1>13. Settle(Rest, bw, extra, hs, gone) /\ gone = {b} /\ b \in Bevs \ freed
  BY <1>1, <1>3, <1>6 DEF Live
<1> HIDE DEF hs, gone
<1>14. \A w \in Wrappers : hs[w] # NoBev =>
         (\E x \in Peers : bw[x] = w) \/ w \in ToSet(extra) \/ Queued(Send(w))
  BY <1>12, <1>c DEF HeldRightly, Referenced, Queued
<1>15. NotYetFreed(gone)
  BY <1>13 DEF NotYetFreed
<1>18. inbox' = Rest /\ bw' = bw /\ extra' = extra
  BY <1>13 DEF Settle
<1>16. /\ held' = hs /\ fault' = "none" /\ freed' = FreedToo(gone)
       /\ \A w \in Wrappers : hs[w] # NoBev => Referenced(w, Rest, bw, extra)
  BY <1>1, <1>2, <1>12, <1>13, <1>14, <1>15, SettleKeeps
<1>17. freed' = freed \cup {b}
  BY <1>16 DEF FreedToo, gone
<1>19. shown' = ToldGone(u) /\ shown'[u] # "up"
  BY <1>3, <1>6 DEF ToldGone, TypeInv, TypeOK
<1>20. /\ b \notin dialled => held[bw[u]] = b /\ fd'[b] = "closed"
       /\ fd' \in {fd, [fd EXCEPT ![b] = "closed"]}
  BY <1>5, <1>6, <1>8, <1>9 DEF TypeInv, TypeOK
<1> QED BY <1>1, <1>3, <1>4, <1>6, <1>7, <1>10, <1>16, <1>17, <1>18, <1>19, <1>20 DEF hs, LetGo

\* Who is left by the connection it holds has none, and may dial again.
LEMMA LetGoCalm ==
    ASSUME TypeInv, WrapperInv, CalmInv, HandlerStep, NEW b \in Bevs, NEW u \in Peers, LetGo(b, u),
           \A k \in BevEvents : ~Pending(k, b)',
           \A k \in BevEvents, c \in Bevs : c # b => (Pending(k, c) => Pending(k, c)'),
           \A w \in Wrappers : Queued(Send(w)) => Queued(Send(w))'
    PROVE  CalmInv'
<1>1. /\ u = remote[b] /\ Live(b) /\ phase[b] = "off"
      /\ b \notin dialled => held[bw[u]] = b /\ fd'[b] = "closed"
      /\ isAuthed[u] => sock[u] = b
      /\ connectTo' = Redialable(connectTo, u) /\ isAuthed' = Deauthed(isAuthed, u)
      /\ sock' = NoSocket(sock, u) /\ shown' \in {shown, ToldGone(u)} /\ shown'[u] # "up"
      /\ UNCHANGED <<known, warned, phase, remote, dialled, wire, bw, extra>>
      /\ fd' \in {fd, [fd EXCEPT ![b] = "closed"]}
      /\ held' = Emptied(held, bw[u]) /\ freed' = freed \cup {b} /\ fault' = "none"
      /\ \A w \in Wrappers : held'[w] # NoBev => Referenced(w, inbox', bw', extra')
  BY DEF LetGo
<1>c. /\ SignalsInOrder /\ DialsMarked /\ EndedIsSilent /\ WireSound /\ HeldRightly /\ OneEach
      /\ DialStages /\ CallStages /\ SessionStages
      /\ WindowTellsTheTruth /\ warned = {} /\ NoFault
  BY DEF CalmInv
<1>t. /\ bw \in [Peers -> Wrappers] /\ held \in [Wrappers -> Bevs \cup {NoBev}]
      /\ fd \in [Bevs -> {"none", "open", "closed", "reclosed"}]
  BY DEF TypeInv, TypeOK
<1>5. /\ ~connectTo'[u] /\ ~isAuthed'[u] /\ sock'[u] = NoBev
      /\ \A v \in Peers \ {u} : /\ connectTo'[v] = connectTo[v] /\ isAuthed'[v] = isAuthed[v]
                                /\ sock'[v] = sock[v] /\ shown'[v] = shown[v]
      /\ shown'[u] # "up"
      /\ \A w \in Wrappers : held'[w] = (IF w = bw[u] THEN NoBev ELSE held[w])
      /\ \A c \in Bevs \ {b} : fd'[c] = fd[c]
  BY <1>1, <1>t DEF Redialable, Deauthed, NoSocket, ToldGone, Emptied, TypeInv, TypeOK
<1>6. /\ \A k \in BevEvents, c \in Bevs : Pending(k, c)' => Pending(k, c)
      /\ \A v \in Peers : Queued(Attempt(v))' => Queued(Attempt(v))
      /\ "newConnection" \in BevEvents /\ "auth" \in BevEvents /\ "connected" \in BevEvents
      /\ "refused" \in BevEvents /\ PacketKinds \subseteq BevEvents
  BY <1>c, HandlerSignals DEF SignalsInOrder, BevEvents
<1>7. \A c \in Bevs : Live(c) => /\ remote[c] \in Peers /\ c \in Wrappers
                                 /\ remote[c] = u => c = b
  BY <1>1, <1>c DEF Live, TypeInv, Reached, Wrappers, OneEach
<1>8. \A c \in Bevs : Live(c)' <=> Live(c) /\ c # b
  BY <1>1 DEF Live
<1>9. \A v \in Peers \ {u} : bw[v] # bw[u]
  BY DEF WrapperInv, NoSharedWrapper
<1>10. SignalsInOrder' /\ DialsMarked' /\ OneEach' /\ WireSound'
  <2>1. \A v \in Peers : connectTo[v] /\ ~connectTo'[v] => v = u
    BY <1>5
  <2> QED BY <1>1, <1>c, <2>1, SignalsByHandler, OneEachByHandler, WireByHandler
<1>11. EndedIsSilent'
  <2>1. Idle(b)'
    BY <1>6 DEF Idle
  <2>2. /\ freed' \in {freed, freed \cup {b}} /\ fd' \in {fd, [fd EXCEPT ![b] = "closed"]}
        /\ b \in freed' /\ b \notin dialled => fd'[b] = "closed"
    BY <1>1, <1>t
  <2> QED BY <1>1, <1>c, <2>1, <2>2, EndedByHandler
<1>12. HeldRightly'
  <2>1. ASSUME NEW w \in Wrappers, held'[w] # NoBev
        PROVE  /\ held'[w] = held[w] /\ held[w] \in Bevs /\ held[w] # b
               /\ Live(held[w]) /\ IF held[w] \in dialled THEN w = bw[remote[held[w]]] ELSE w = held[w]
    <3>1. w # bw[u] /\ held'[w] = held[w] /\ held[w] \in Bevs
      BY <1>5, <1>t, <2>1
    <3>2. Live(held[w]) /\ IF held[w] \in dialled THEN w = bw[remote[held[w]]] ELSE w = held[w]
      BY <1>c, <2>1, <3>1 DEF HeldRightly
    <3>3. b \notin dialled => bw[u] = b
      BY <1>1, <1>c, HeldIsOwn, BevsAssumption
    <3>4. held[w] # b
      BY <1>1, <3>1, <3>2, <3>3
    <3> QED BY <3>1, <3>2, <3>4
  <2>2. \A c \in ToSet(extra) : c \notin dialled /\ held'[c] = c
    <3>1. \A c \in ToSet(extra) : c \in Wrappers /\ c # bw[u]
      BY ElementOfSeq, LenProperties DEF TypeInv, TypeOK, ToSet, Wrappers, WrapperInv, NoSharedWrapper
    <3> QED BY <1>5, <1>c, <3>1 DEF HeldRightly
  <2>3. \A v \in Peers : IF bw[v] \in Bevs THEN bw[v] \notin dialled /\ remote[bw[v]] = v
                                          ELSE bw[v] = v
    BY <1>c DEF HeldRightly
  <2> QED BY <1>1, <1>8, <2>1, <2>2, <2>3 DEF HeldRightly, Live
<1>13. DialStages'
  <2>1. ASSUME NEW c \in Bevs, Live(c), c # b, c \in dialled
        PROVE  /\ connectTo'[remote[c]]
               /\ \/ phase[c] = "dialling" \/ Pending("connected", c)' \/ Pending("refused", c)'
                  \/ held'[bw[remote[c]]] = c
    BY <1>5, <1>6, <1>7, <1>9, <1>c, <1>t, <2>1 DEF DialStages
  <2> QED BY <1>1, <1>8, <2>1 DEF DialStages
<1>14. CallStages'
  <2>1. ASSUME NEW c \in Bevs, Live(c), c # b, c \notin dialled
        PROVE  remote[c] \in Peers /\ remote[c] # u /\ held'[c] = held[c]
    BY <1>5, <1>7, <1>c, <2>1 DEF HeldRightly
  <2>2. ASSUME NEW c \in Bevs, Live(c), c # b, c \notin dialled, Calling(c)
        PROVE  /\ ~connectTo'[remote[c]]
               /\ ~Queued(Attempt(remote[c]))'
               /\ \/ Pending("newConnection", c)' /\ held'[c] = NoBev
                  \/ held'[c] = c /\ c \in ToSet(extra)
                  \/ held'[c] = c /\ Queued(Send(c))' /\ fd'[c] = "closed"
    <3>1. ~Queued(Attempt(remote[c]))'
      BY <1>1, <1>6, <1>c, <2>1, <2>2 DEF CallStages, Queued
    <3> QED BY <1>5, <1>6, <1>7, <1>c, <2>1, <2>2, <3>1 DEF CallStages
  <2>3. ASSUME NEW c \in Bevs, Live(c), c # b, c \notin dialled, ~Calling(c)
        PROVE  held'[c] = c /\ isAuthed'[remote[c]] /\ sock'[remote[c]] = c
    BY <1>5, <1>c, <2>1, <2>3 DEF CallStages, Session
  <2>4. \A c \in Bevs : c # b => (Calling(c)' <=> Calling(c))
    BY <1>1, <1>8 DEF Calling
  <2> QED BY <1>1, <1>8, <2>2, <2>3, <2>4 DEF CallStages, Session, Queued
<1>15. SessionStages'
  <2>1. ASSUME NEW v \in Peers, isAuthed'[v]
        PROVE  /\ sock'[v] \in Bevs /\ Live(sock'[v]) /\ sock'[v] # b /\ remote[sock'[v]] = v
               /\ held'[bw[v]] = sock'[v] /\ fd'[sock'[v]] = "open"
               /\ phase[sock'[v]] \in {"read", "off"}
               /\ \A k \in {"newConnection", "connected", "refused", "auth"} :
                     BevEvent(k, sock'[v]) \notin ToSet(inbox')
    BY <1>1, <1>5, <1>6, <1>9, <1>c, <1>t, <2>1 DEF SessionStages, Pending, Queued
  <2>2. ASSUME NEW c \in Bevs, phase[c] = "read" \/ \E k \in PacketKinds : Pending(k, c)'
        PROVE  Pending("auth", c)' \/ (isAuthed'[remote[c]] /\ sock'[remote[c]] = c)
    <3>1. c # b
      BY <1>1, <1>6, <2>2
    <3>2. Pending("auth", c) \/ Session(c)
      BY <1>6, <1>c, <2>2 DEF SessionStages
    <3>3. ASSUME Session(c) PROVE isAuthed'[remote[c]] /\ sock'[remote[c]] = c
      <4>1. phase[c] # "unused"
        <5>1. ASSUME NEW k \in PacketKinds, Pending(k, c)' PROVE phase[c] # "unused"
          BY <1>6, <1>c, <5>1, HeardIsLive DEF Live
        <5> QED BY <2>2, <5>1
      <4>2. remote[c] \in Peers
        BY <4>1 DEF TypeInv, Reached
      <4> QED BY <1>1, <1>5, <3>1, <3>3, <4>2 DEF Session
    <3> QED BY <1>6, <3>1, <3>2, <3>3
  <2>3. \A v \in Peers : connectTo'[v] => v \in known'
    BY <1>1, <1>5, <1>c DEF SessionStages
  <2> QED BY <1>1, <1>8, <2>1, <2>2, <2>3 DEF SessionStages, Live, Session, Pending, Queued
<1>16. WindowTellsTheTruth'
  BY <1>5, <1>c DEF WindowTellsTheTruth
<1> QED BY <1>1, <1>10, <1>11, <1>12, <1>13, <1>14, <1>15, <1>16, <1>c DEF CalmInv, NoFault

\* One wrapper is destroyed when it is the only one that holds a connection
\* and that nothing refers to.
LEMMA SettleDestroys ==
    ASSUME TypeInv, fault = "none",
           NEW q, NEW ws, NEW ex, NEW hs \in [Wrappers -> Bevs \cup {NoBev}],
           Settle(q, ws, ex, hs, {}),
           NEW x \in Wrappers, hs[x] # NoBev, hs[x] \notin freed, ~Referenced(x, q, ws, ex),
           \A w \in Wrappers : hs[w] # NoBev /\ w # x => Referenced(w, q, ws, ex)
    PROVE  /\ held' = [hs EXCEPT ![x] = NoBev] /\ fault' = "none"
           /\ freed' = FreedToo({hs[x]})
           /\ \A w \in Wrappers : held'[w] # NoBev => Referenced(w, q, ws, ex)
<1>1. Doomed(q, ws, ex, hs) = {x}
  BY DEF Doomed
<1>2. ~FreedTwice({x}, hs, {})
  BY DEF FreedTwice
<1>3. /\ held' = [w \in Wrappers |-> IF w \in {x} THEN NoBev ELSE hs[w]]
      /\ freed' = freed \cup {} \cup {hs[w] : w \in {x}}
      /\ fault' = fault
  BY <1>1, <1>2 DEF Settle
<1>4. held' = [hs EXCEPT ![x] = NoBev]
  BY <1>3
<1>5. freed' = FreedToo({hs[x]})
  BY <1>3 DEF FreedToo
<1>6. \A w \in Wrappers : held'[w] # NoBev => hs[w] # NoBev /\ w # x
  BY <1>4
<1> QED BY <1>3, <1>4, <1>5, <1>6

\* A caller that has gone keeps its wrapper only for a send that waits.
GivenUp(b) ==
    /\ phase[b] = "off" /\ Calling(b) /\ held[b] = b
    /\ UNCHANGED <<known, connectTo, isAuthed, sock, shown, warned, phase, remote, dialled, wire, bw>>
    /\ fd' = [fd EXCEPT ![b] = "closed"] /\ fault' = "none"
    /\ ToSet(extra') \subseteq ToSet(extra) /\ b \notin ToSet(extra')
    /\ \A c \in ToSet(extra) : c # b => c \in ToSet(extra')
    /\ \/ freed' = freed /\ held' = held /\ Queued(Send(b))'
       \/ freed' = freed \cup {b} /\ held' = [held EXCEPT ![b] = NoBev]
    /\ \A w \in Wrappers : held'[w] # NoBev => Referenced(w, inbox', bw', extra')

\* Giving up a caller keeps the calm when nothing else of it waits.
LEMMA GivenUpCalm ==
    ASSUME TypeInv, WrapperInv, CalmInv, HandlerStep, NEW b \in Bevs, GivenUp(b),
           \A k \in BevEvents : ~Pending(k, b)',
           \A k \in BevEvents, c \in Bevs : c # b => (Pending(k, c) => Pending(k, c)'),
           \A w \in Wrappers : w # b => (Queued(Send(w)) => Queued(Send(w))')
    PROVE  CalmInv'
<1>c. /\ SignalsInOrder /\ DialsMarked /\ EndedIsSilent /\ WireSound /\ HeldRightly /\ OneEach
      /\ DialStages /\ CallStages /\ SessionStages
      /\ WindowTellsTheTruth /\ warned = {} /\ NoFault
  BY DEF CalmInv
<1>t. /\ bw \in [Peers -> Wrappers] /\ held \in [Wrappers -> Bevs \cup {NoBev}]
      /\ fd \in [Bevs -> {"none", "open", "closed", "reclosed"}]
  BY DEF TypeInv, TypeOK
<1>1. /\ phase[b] = "off" /\ Calling(b) /\ held[b] = b
      /\ UNCHANGED <<known, connectTo, isAuthed, sock, shown, warned, phase, remote, dialled, wire, bw>>
      /\ fd' = [fd EXCEPT ![b] = "closed"] /\ fault' = "none"
      /\ ToSet(extra') \subseteq ToSet(extra) /\ b \notin ToSet(extra')
      /\ \A c \in ToSet(extra) : c # b => c \in ToSet(extra')
      /\ \A w \in Wrappers : held'[w] # NoBev => Referenced(w, inbox', bw', extra')
      /\ freed \subseteq freed' /\ freed' \in {freed, freed \cup {b}}
      /\ b \in Wrappers /\ b # NoBev
      /\ b \notin freed' => held' = held /\ Queued(Send(b))'
      /\ b \in freed' => held'[b] = NoBev
      /\ \A w \in Wrappers : w # b => held'[w] = held[w]
  BY <1>t, BevsAssumption DEF GivenUp, Calling, Live, Wrappers
<1>2. /\ \A k \in BevEvents, c \in Bevs : Pending(k, c)' => Pending(k, c)
      /\ \A v \in Peers : Queued(Attempt(v))' => Queued(Attempt(v))
      /\ "newConnection" \in BevEvents /\ "auth" \in BevEvents /\ "connected" \in BevEvents
      /\ "refused" \in BevEvents /\ PacketKinds \subseteq BevEvents
  BY <1>c, HandlerSignals DEF SignalsInOrder, BevEvents
<1>3. \A v \in Peers : bw[v] # b /\ held[bw[v]] # b /\ held'[bw[v]] = held[bw[v]]
  BY <1>1, <1>c, <1>t, CallerApart
<1>4. SignalsInOrder' /\ DialsMarked' /\ OneEach' /\ WireSound'
  BY <1>1, <1>c, SignalsByHandler, OneEachByHandler, WireByHandler
<1>5. EndedIsSilent'
  <2>1. Idle(b)' /\ fd'[b] = "closed"
    BY <1>1, <1>t DEF Idle
  <2> QED BY <1>1, <1>c, <2>1, EndedByHandler
<1>6. \A c \in Bevs : Live(c)' <=> Live(c) /\ (c # b \/ b \notin freed')
  BY <1>1 DEF Live
<1>7. HeldRightly'
  <2>1. ASSUME NEW w \in Wrappers, held'[w] # NoBev
        PROVE  /\ held'[w] = held[w] /\ held[w] \in Bevs /\ Live(held[w])'
               /\ IF held[w] \in dialled THEN w = bw[remote[held[w]]] ELSE w = held[w]
    <3>1. held'[w] = held[w] /\ held[w] \in Bevs
      BY <1>1, <1>t, <2>1
    <3>2. Live(held[w]) /\ IF held[w] \in dialled THEN w = bw[remote[held[w]]] ELSE w = held[w]
      BY <1>c, <2>1, <3>1 DEF HeldRightly
    <3>3. held[w] = b => b \notin freed'
      BY <1>1, <2>1, <3>2 DEF Calling
    <3> QED BY <1>1, <3>1, <3>2, <3>3 DEF Live
  <2>2. \A c \in ToSet(extra') : c \notin dialled /\ held'[c] = c
    <3>1. \A c \in ToSet(extra) : c \in Wrappers
      BY ElementOfSeq, LenProperties DEF TypeInv, TypeOK, ToSet, Wrappers
    <3> QED BY <1>1, <1>c, <3>1 DEF HeldRightly
  <2>3. \A v \in Peers : IF bw[v] \in Bevs THEN bw[v] \notin dialled /\ remote[bw[v]] = v
                                          ELSE bw[v] = v
    BY <1>c DEF HeldRightly
  <2> QED BY <1>1, <2>1, <2>2, <2>3 DEF HeldRightly, Live
<1>8. DialStages'
  <2>1. ASSUME NEW c \in Bevs, Live(c), c \in dialled
        PROVE  /\ connectTo[remote[c]]
               /\ \/ phase[c] = "dialling" \/ Pending("connected", c)' \/ Pending("refused", c)'
                  \/ held'[bw[remote[c]]] = c
    <3>1. c # b /\ remote[c] \in Peers
      BY <1>1, <2>1 DEF Calling, Live, TypeInv, Reached
    <3> QED BY <1>2, <1>3, <1>c, <2>1, <3>1 DEF DialStages
  <2> QED BY <1>1, <1>6, <2>1 DEF DialStages
<1>9. CallStages'
  <2>1. \A c \in Bevs : Live(c)' => (Calling(c)' <=> Calling(c)) /\ Live(c) /\ remote[c] \in Peers
    BY <1>1, <1>6 DEF Calling, Live, TypeInv, Reached
  <2>2. ASSUME NEW c \in Bevs, Live(c)', c \notin dialled, Calling(c)
        PROVE  /\ ~connectTo[remote[c]]
               /\ ~Queued(Attempt(remote[c]))'
               /\ \/ Pending("newConnection", c)' /\ held'[c] = NoBev
                  \/ held'[c] = c /\ c \in ToSet(extra')
                  \/ held'[c] = c /\ Queued(Send(c))' /\ fd'[c] = "closed"
    <3>1. c = b
      BY <1>1, <1>c, <2>2 DEF OneEach
    <3>2. ~connectTo[remote[c]] /\ ~Queued(Attempt(remote[c]))'
      BY <1>1, <1>2, <1>c, <2>1, <2>2 DEF CallStages, Queued
    <3>3. b \notin freed' /\ fd'[b] = "closed"
      BY <1>1, <1>t, <2>2, <3>1 DEF Live
    <3> QED BY <1>1, <3>1, <3>2, <3>3
  <2>3. ASSUME NEW c \in Bevs, Live(c)', c \notin dialled, ~Calling(c)
        PROVE  held'[c] = c /\ isAuthed[remote[c]] /\ sock[remote[c]] = c
    BY <1>1, <1>c, <2>1, <2>3 DEF CallStages, Session, Wrappers
  <2> QED BY <1>1, <2>1, <2>2, <2>3 DEF CallStages, Session, Queued
<1>10. SessionStages'
  <2>1. ASSUME NEW v \in Peers, isAuthed[v]
        PROVE  /\ sock[v] \in Bevs /\ Live(sock[v]) /\ sock[v] # b /\ remote[sock[v]] = v
               /\ held'[bw[v]] = sock[v] /\ fd'[sock[v]] = "open"
               /\ phase[sock[v]] \in {"read", "off"}
               /\ \A k \in {"newConnection", "connected", "refused", "auth"} :
                     BevEvent(k, sock[v]) \notin ToSet(inbox')
    BY <1>1, <1>2, <1>3, <1>c, <1>t, <2>1 DEF SessionStages, Pending, Queued
  <2>2. ASSUME NEW c \in Bevs, phase[c] = "read" \/ \E k \in PacketKinds : Pending(k, c)'
        PROVE  Pending("auth", c)' \/ Session(c)
    BY <1>1, <1>2, <1>c, <2>2 DEF SessionStages
  <2>3. \A v \in Peers : connectTo[v] => v \in known
    BY <1>c DEF SessionStages
  <2> QED BY <1>1, <1>6, <2>1, <2>2, <2>3 DEF SessionStages, Live, Session, Pending, Queued
<1> QED BY <1>1, <1>4, <1>5, <1>7, <1>8, <1>9, <1>10, <1>c DEF CalmInv, WindowTellsTheTruth, NoFault

\* Every wrapper in extraBevs is that of the one caller.
LEMMA ExtraIsCaller ==
    ASSUME TypeInv, WrapperInv, CalmInv, NEW b \in Bevs, Calling(b)
    PROVE  ToSet(extra) \subseteq {b} /\ ToSet(EveryOther(extra)) = {}
<1>1. extra \in Seq(Bevs) /\ IsInjective(extra)
  BY DEF TypeInv, TypeOK, WrapperInv, NoSharedWrapper
<1>2. ASSUME NEW c \in ToSet(extra) PROVE c = b
  <2>1. c \in Bevs /\ c \in Wrappers /\ c # NoBev
    BY <1>1, ElementOfSeq, LenProperties, BevsAssumption DEF ToSet, Wrappers
  <2>2. c \notin dialled /\ Live(c)
    BY <2>1 DEF CalmInv, HeldRightly
  <2>3. bw[remote[c]] # c
    BY <2>1, <2>2 DEF WrapperInv, NoSharedWrapper, Live, TypeInv, Reached
  <2> QED BY <2>1, <2>2, <2>3 DEF Calling, CalmInv, OneEach
<1>3. Len(extra) \in Nat /\ DOMAIN extra = 1..Len(extra) /\ \A i \in DOMAIN extra : extra[i] = b
  BY <1>1, <1>2, LenProperties DEF ToSet
<1>4. Len(extra) \in {0, 1}
  <2> SUFFICES ASSUME Len(extra) > 1 PROVE FALSE
    BY <1>3
  <2>1. 1 \in DOMAIN extra /\ 2 \in DOMAIN extra
    BY <1>3
  <2> QED BY <1>1, <1>3, <2>1 DEF IsInjective
<1>5. \A i \in 1..(Len(extra) \div 2) : 2 * i <= Len(extra)
  BY <1>3
<1>6. 1..(Len(extra) \div 2) = {}
  BY <1>3, <1>4, <1>5
<1>7. ToSet(EveryOther(extra)) = {}
  BY <1>6 DEF ToSet, EveryOther
<1> QED BY <1>2, <1>7

\* peerQuit gives up a caller.
LEMMA PeerQuitOtherEffect ==
    ASSUME TypeInv, WrapperInv, AuthedHasSocket, CalmInv, PeerQuit,
           Holders(Head(inbox).bev) = {}
    PROVE  \E b \in Bevs : Head(inbox) = BevEvent("quit", b) /\ GivenUp(b)
<1>1. PICK b \in Bevs, u \in Peers :
        /\ b = Head(inbox).bev /\ u = remote[b] /\ Head(inbox) = BevEvent("quit", b)
        /\ Live(b) /\ "quit" \in Sent(phase[b]) /\ fd[b] = "open"
        /\ Head(inbox).kind # "send" /\ fault = "none" /\ Pending("quit", b)
  BY HeadIsHeard DEF PeerQuit, BevEvents
<1>2. HandlerStep
  BY PeerQuitType
<1>3. /\ fd' = Closed(b) /\ Settle(Rest, bw, EveryOther(extra), held, {})
      /\ UNCHANGED <<known, connectTo, isAuthed, sock, shown, warned, phase, remote, dialled, wire>>
  BY <1>1 DEF PeerQuit
<1>c. HeldRightly /\ SessionStages /\ CallStages /\ DialStages /\ SignalsInOrder
  BY DEF CalmInv
<1>t. /\ bw \in [Peers -> Wrappers] /\ held \in [Wrappers -> Bevs \cup {NoBev}]
      /\ b \in Wrappers /\ b # NoBev
  BY BevsAssumption DEF TypeInv, TypeOK, Wrappers
<1>4. phase[b] = "off"
  BY <1>1, KindsAssumption DEF Sent
<1>5. \A k \in BevEvents \ {"quit"} : ~Pending(k, b)
  <2>1. \A k : ~Before("quit", k)
    BY KindsAssumption DEF Before
  <2>2. "quit" \in BevEvents
    BY DEF BevEvents
  <2> QED BY <1>1, <1>2, <1>c, <2>1, <2>2, SignalTaken DEF SignalsInOrder
<1>6. {"connected", "refused", "newConnection"} \subseteq BevEvents \ {"quit"}
  BY DEF BevEvents
<1>7. u \in known => held[bw[u]] # b
  BY <1>1 DEF Holders
<1>8. b \notin dialled
  BY <1>1, <1>4, <1>5, <1>6, <1>7, <1>c DEF DialStages, SessionStages
<1>9. ~Session(b)
  <2>1. ASSUME Session(b) PROVE FALSE
    <3>1. held[bw[u]] = b /\ connectTo[u]
      BY <1>1, <1>c, <2>1 DEF Session, SessionStages, AuthedHasSocket
    <3> QED BY <1>7, <1>c, <3>1 DEF SessionStages
  <2> QED BY <2>1
<1>10. Calling(b) /\ held[b] = b /\ b \in ToSet(extra)
  BY <1>1, <1>5, <1>6, <1>8, <1>9, <1>c DEF CallStages
<1>11. ToSet(extra) \subseteq {b} /\ ToSet(EveryOther(extra)) = {}
  BY <1>10, ExtraIsCaller
<1>12. fd' = [fd EXCEPT ![b] = "closed"]
  BY <1>1, <1>3, <1>t DEF Closed, TypeInv, TypeOK
<1> DEFINE ex == EveryOther(extra)
<1>13. bw' = bw /\ extra' = ex /\ inbox' = Rest
  BY <1>3 DEF Settle
<1>14. \A w \in Wrappers : held[w] # NoBev /\ w # b =>
          (\E v \in Peers : bw[v] = w) \/ w \in ToSet(ex) \/ Queued(Send(w))
  BY <1>11, <1>c DEF HeldRightly, Referenced, Queued
<1>15. Queued(Send(b)) <=> Send(b) \in ToSet(Rest)
  <2>1. Send(b) # Head(inbox)
    BY <1>1 DEF Send
  <2>2. ToSet(Rest) \subseteq ToSet(inbox) /\ ToSet(inbox) \subseteq {Head(inbox)} \cup ToSet(Rest)
    BY <1>2, TailSet DEF TypeInv, TypeOK, HandlerStep, Rest
  <2> QED BY <2>1, <2>2 DEF Queued
<1>16. Settle(Rest, bw, ex, held, {})
  BY <1>3
<1>17. ToSet(ex) = {}
  BY <1>11
<1> HIDE DEF ex
<1>18. CASE Queued(Send(b))
  <2>1. \A w \in Wrappers : held[w] # NoBev =>
           (\E v \in Peers : bw[v] = w) \/ w \in ToSet(ex) \/ Queued(Send(w))
    BY <1>14, <1>18
  <2>2. /\ held' = held /\ fault' = "none" /\ freed' = freed
        /\ \A w \in Wrappers : held[w] # NoBev => Referenced(w, Rest, bw, ex)
    BY <1>1, <1>2, <1>t, <1>16, <2>1, SettleNone
  <2>3. Send(b) \in ToSet(inbox')
    BY <1>13, <1>15, <1>18
  <2> QED BY <1>1, <1>3, <1>4, <1>10, <1>11, <1>12, <1>13, <1>17, <2>2, <2>3 DEF GivenUp, Queued
<1>19. CASE ~Queued(Send(b))
  <2>1. ~Referenced(b, Rest, bw, ex)
    BY <1>10, <1>15, <1>17, <1>19, <1>c, CallerApart DEF Referenced
  <2>2. \A w \in Wrappers : held[w] # NoBev /\ w # b => Referenced(w, Rest, bw, ex)
    <3>1. \A w \in Wrappers : Queued(Send(w)) => Send(w) \in ToSet(Rest)
      <4>1. \A w \in Wrappers : Send(w) # Head(inbox)
        BY <1>1 DEF Send
      <4>2. ToSet(inbox) \subseteq {Head(inbox)} \cup ToSet(Rest)
        BY <1>2, TailSet DEF TypeInv, TypeOK, HandlerStep, Rest
      <4> QED BY <4>1, <4>2 DEF Queued
    <3> QED BY <1>14, <3>1 DEF Referenced
  <2>3. held[b] # NoBev /\ held[b] \notin freed
    BY <1>1, <1>10, <1>t DEF Live
  <2>4. /\ held' = [held EXCEPT ![b] = NoBev] /\ fault' = "none"
        /\ freed' = FreedToo({held[b]})
        /\ \A w \in Wrappers : held'[w] # NoBev => Referenced(w, Rest, bw, ex)
    BY <1>1, <1>t, <1>16, <2>1, <2>2, <2>3, SettleDestroys
  <2>5. freed' = freed \cup {b}
    BY <1>10, <2>4 DEF FreedToo
  <2> QED BY <1>1, <1>3, <1>4, <1>10, <1>11, <1>12, <1>13, <1>17, <2>4, <2>5 DEF GivenUp
<1> QED BY <1>18, <1>19

\* The end of a connection, whoever holds it, keeps the calm.
LEMMA PeerQuitCalm ==
    ASSUME TypeInv, WrapperInv, AuthedHasSocket, CalmInv, PeerQuit
    PROVE  CalmInv'
<1>1. PICK b \in Bevs : /\ Head(inbox) = BevEvent("quit", b)
                        /\ GivenUp(b) \/ \E u \in Peers : LetGo(b, u)
  BY PeerQuitHolderEffect, PeerQuitOtherEffect
<1>2. HandlerStep /\ Ordered
  BY PeerQuitType DEF CalmInv, SignalsInOrder
<1>3. "quit" \in BevEvents /\ \A k : ~Before("quit", k)
  BY KindsAssumption DEF BevEvents, Before
<1>4. /\ \A k \in BevEvents : ~Pending(k, b)'
      /\ \A k \in BevEvents, c \in Bevs : c # b => (Pending(k, c) => Pending(k, c)')
      /\ \A w \in Wrappers : Queued(Send(w)) => Queued(Send(w))'
  BY <1>1, <1>2, <1>3, SignalTaken
<1> QED BY <1>1, <1>2, <1>4, GivenUpCalm, LetGoCalm

\* A dial that is answered has no session to disturb, and no other connection
\* is with its peer.
LEMMA DialApart ==
    ASSUME TypeInv, WrapperInv, AuthedHasSocket, CalmInv, NEW b \in Bevs, NEW u \in Peers,
           u = remote[b], Live(b), NEW k \in {"connected", "refused"}, Pending(k, b)
    PROVE  /\ b \in dialled /\ ~isAuthed[u] /\ held[bw[u]] \in {NoBev, b}
           /\ \A c \in Bevs : Live(c) /\ remote[c] = u => c = b
<1>1. b \in dialled
  BY DEF CalmInv, DialsMarked
<1>2. \A c \in Bevs : Live(c) /\ remote[c] = u => c = b
  BY DEF CalmInv, OneEach
<1>3. ~isAuthed[u]
  BY <1>2 DEF CalmInv, SessionStages
<1>4. held[bw[u]] \in {NoBev, b}
  BY <1>2, HeldIsOwn DEF CalmInv
<1> QED BY <1>1, <1>2, <1>3, <1>4

\* resultOfConnectionAttempt, refused: the entry may dial again.
LEMMA ConnectionFailedCalm ==
    ASSUME TypeInv, WrapperInv, AuthedHasSocket, CalmInv, ConnectionFailed
    PROVE  CalmInv'
<1>1. PICK b \in Bevs, u \in Peers :
        /\ b = Head(inbox).bev /\ u = remote[b] /\ Head(inbox) = BevEvent("refused", b)
        /\ Live(b) /\ "refused" \in Sent(phase[b]) /\ fd[b] = "open"
        /\ Head(inbox).kind # "send" /\ fault = "none" /\ Pending("refused", b)
  BY HeadIsHeard DEF ConnectionFailed, BevEvents
<1>2. HandlerStep
  BY ConnectionFailedType
<1>3. /\ connectTo' = Redialable(connectTo, u) /\ isAuthed' = Deauthed(isAuthed, u)
      /\ sock' = NoSocket(sock, u) /\ fd' = Closed(b)
      /\ Settle(Rest, bw, extra, Emptied(held, bw[u]), {b})
      /\ UNCHANGED <<known, shown, warned, phase, remote, dialled, wire>>
  BY <1>1 DEF ConnectionFailed
<1>4. b \in dialled /\ ~isAuthed[u]
  BY <1>1, DialApart
<1>5. phase[b] = "off"
  BY <1>1, KindsAssumption DEF Sent
<1>6. fd' = [fd EXCEPT ![b] = "closed"]
  BY <1>1, <1>3, BevsAssumption DEF Closed, TypeInv, TypeOK
<1> DEFINE hs == Emptied(held, bw[u])
           gone == {b}
<1>7. /\ hs \in [Wrappers -> Bevs \cup {NoBev}]
      /\ \A w \in Wrappers : hs[w] # NoBev => held[w] # NoBev
  BY DEF Emptied, TypeInv, TypeOK
<1>8. Settle(Rest, bw, extra, hs, gone) /\ NotYetFreed(gone)
  BY <1>1, <1>3 DEF Live, NotYetFreed
<1> HIDE DEF hs, gone
<1>9. \A w \in Wrappers : hs[w] # NoBev =>
         (\E x \in Peers : bw[x] = w) \/ w \in ToSet(extra) \/ Queued(Send(w))
  BY <1>7 DEF CalmInv, HeldRightly, Referenced, Queued
<1>10. /\ held' = hs /\ fault' = "none" /\ freed' = FreedToo(gone)
       /\ \A w \in Wrappers : hs[w] # NoBev => Referenced(w, Rest, bw, extra)
  BY <1>1, <1>2, <1>7, <1>8, <1>9, SettleKeeps
<1>11. inbox' = Rest /\ bw' = bw /\ extra' = extra
  BY <1>8 DEF Settle
<1>12. freed' = freed \cup {b}
  BY <1>10 DEF FreedToo, gone
<1>13. shown'[u] # "up"
  BY <1>3, <1>4 DEF CalmInv, WindowTellsTheTruth
<1>14. LetGo(b, u)
  BY <1>1, <1>3, <1>4, <1>5, <1>6, <1>10, <1>11, <1>12, <1>13 DEF LetGo, hs
<1>15. Ordered /\ "refused" \in BevEvents /\ \A k : ~Before("refused", k)
  BY KindsAssumption DEF BevEvents, Before, CalmInv, SignalsInOrder
<1>16. /\ \A k \in BevEvents : ~Pending(k, b)'
       /\ \A k \in BevEvents, c \in Bevs : c # b => (Pending(k, c) => Pending(k, c)')
       /\ \A w \in Wrappers : Queued(Send(w)) => Queued(Send(w))'
  BY <1>1, <1>2, <1>15, SignalTaken
<1> QED BY <1>2, <1>14, <1>16, LetGoCalm

\* resultOfConnectionAttempt, connected: the entry holds the connection and the
\* server is to enable it.
LEMMA ConnectionSucceededCalm ==
    ASSUME TypeInv, WrapperInv, AuthedHasSocket, CalmInv, ConnectionSucceeded
    PROVE  CalmInv'
<1>1. PICK b \in Bevs, u \in Peers :
        /\ b = Head(inbox).bev /\ u = remote[b] /\ Head(inbox) = BevEvent("connected", b)
        /\ Live(b) /\ "connected" \in Sent(phase[b]) /\ fd[b] = "open"
        /\ Head(inbox).kind # "send" /\ fault = "none" /\ Pending("connected", b)
  BY HeadIsHeard DEF ConnectionSucceeded, BevEvents
<1>2. HandlerStep
  BY ConnectionSucceededType
<1>3. /\ b \in dialled /\ ~isAuthed[u] /\ held[bw[u]] \in {NoBev, b}
      /\ \A c \in Bevs : Live(c) /\ remote[c] = u => c = b
  BY <1>1, DialApart
<1>c. /\ SignalsInOrder /\ DialsMarked /\ EndedIsSilent /\ WireSound /\ HeldRightly /\ OneEach
      /\ DialStages /\ CallStages /\ SessionStages
      /\ WindowTellsTheTruth /\ warned = {} /\ NoFault
  BY DEF CalmInv
<1>t. /\ bw \in [Peers -> Wrappers] /\ held \in [Wrappers -> Bevs \cup {NoBev}]
      /\ wire \in Seq(Messages)
  BY DEF TypeInv, TypeOK
<1> DEFINE m  == [kind |-> "addDefault", bev |-> b]
           q  == Append(Rest, Send(bw[u]))
           hs == [held EXCEPT ![bw[u]] = b]
<1>4. /\ wire' = Append(wire, m)
      /\ UNCHANGED <<known, connectTo, isAuthed, sock, shown, warned, phase, fd, remote, dialled>>
  BY <1>1 DEF ConnectionSucceeded, netVars
<1>5. Settle(q, bw, extra, hs, {})
  <2>1. {held[bw[u]]} \ {NoBev, b} = {}
    BY <1>3
  <2> QED BY <1>1, <2>1 DEF ConnectionSucceeded
<1>6. /\ hs \in [Wrappers -> Bevs \cup {NoBev}]
      /\ \A w \in Wrappers : hs[w] = (IF w = bw[u] THEN b ELSE held[w])
  BY <1>t
<1> HIDE DEF m, q, hs
<1>7. \A w \in Wrappers : hs[w] # NoBev =>
         (\E x \in Peers : bw[x] = w) \/ w \in ToSet(extra) \/ Queued(Send(w))
  BY <1>6, <1>c DEF HeldRightly, Referenced, Queued
<1>8. inbox' = q /\ bw' = bw /\ extra' = extra
  BY <1>5 DEF Settle
<1>9. /\ held' = hs /\ fault' = "none" /\ freed' = freed
      /\ \A w \in Wrappers : held'[w] # NoBev => Referenced(w, inbox', bw', extra')
  <2>1. /\ held' = hs /\ fault' = "none" /\ freed' = freed
        /\ \A w \in Wrappers : hs[w] # NoBev => Referenced(w, q, bw, extra)
    BY <1>1, <1>2, <1>5, <1>6, <1>7, SettleNone
  <2> QED BY <1>8, <2>1
<1>10. /\ \A k \in BevEvents, c \in Bevs : Pending(k, c)' => Pending(k, c)
       /\ \A k \in BevEvents, c \in Bevs : c # b => (Pending(k, c) => Pending(k, c)')
       /\ \A k \in BevEvents : ~Pending(k, b)'
       /\ \A v \in Peers : Queued(Attempt(v))' => Queued(Attempt(v))
       /\ \A w \in Wrappers : Queued(Send(w)) => Queued(Send(w))'
       /\ "newConnection" \in BevEvents /\ "auth" \in BevEvents /\ "connected" \in BevEvents
       /\ "refused" \in BevEvents /\ PacketKinds \subseteq BevEvents
  <2>1. \A k : ~Before("connected", k)
    BY KindsAssumption DEF Before
  <2>2. /\ "newConnection" \in BevEvents /\ "auth" \in BevEvents /\ "connected" \in BevEvents
        /\ "refused" \in BevEvents /\ PacketKinds \subseteq BevEvents
    BY DEF BevEvents
  <2> QED BY <1>1, <1>2, <1>c, <2>1, <2>2, SignalTaken DEF SignalsInOrder
<1>11. \A v \in Peers \ {u} : bw[v] # bw[u] /\ held'[bw[v]] = held[bw[v]]
  BY <1>6, <1>9, <1>t DEF WrapperInv, NoSharedWrapper
<1>12. phase[b] = "up"
  BY <1>1, KindsAssumption DEF Sent
<1>13. SignalsInOrder' /\ DialsMarked' /\ OneEach' /\ EndedIsSilent'
  BY <1>1, <1>2, <1>4, <1>8, <1>9, <1>c, SignalsByHandler, OneEachByHandler, EndedByHandler
     DEF EndedIsSilent
<1>14. WireSound'
  <2>1. m \in Messages /\ m \notin ToSet(wire)
    BY <1>1, <1>c DEF WireSound, OnWire, m, Messages
  <2>2. /\ ToSet(wire') = ToSet(wire) \cup {m}
        /\ IsInjective(wire')
    <3>1. wire \in Seq(Messages) /\ IsInjective(wire)
      BY <1>t, <1>c DEF WireSound
    <3> QED BY <1>4, <2>1, <3>1, AppendSet, InjectiveAppend
  <2>3. \A c \in Bevs : [kind |-> "addDefault", bev |-> c] \in ToSet(wire') =>
           phase[c] = "up" /\ ~Pending("connected", c)'
    BY <1>10, <1>12, <1>c, <2>2 DEF WireSound, OnWire, m
  <2>4. \A v \in Peers : [kind |-> "connectTo", peer |-> v] \in ToSet(wire') =>
           [kind |-> "connectTo", peer |-> v] \in ToSet(wire)
    BY <2>2 DEF m
  <2> QED BY <1>4, <1>9, <1>c, <2>2, <2>3, <2>4 DEF WireSound, OnWire, Live
<1>15. HeldRightly'
  <2>1. \A w \in Wrappers : held'[w] # NoBev =>
          /\ Live(held'[w])
          /\ IF held'[w] \in dialled THEN w = bw[remote[held'[w]]] ELSE w = held'[w]
    BY <1>1, <1>3, <1>6, <1>9, <1>c DEF HeldRightly
  <2>2. \A c \in ToSet(extra) : c \notin dialled /\ held'[c] = c
    <3>1. \A c \in ToSet(extra) : c \in Wrappers /\ c # bw[u]
      BY ElementOfSeq, LenProperties DEF TypeInv, TypeOK, ToSet, Wrappers, WrapperInv, NoSharedWrapper
    <3> QED BY <1>6, <1>9, <1>c, <3>1 DEF HeldRightly
  <2>3. \A v \in Peers : IF bw[v] \in Bevs THEN bw[v] \notin dialled /\ remote[bw[v]] = v
                                          ELSE bw[v] = v
    BY <1>c DEF HeldRightly
  <2> QED BY <1>4, <1>8, <1>9, <2>1, <2>2, <2>3 DEF HeldRightly, Live
<1>16. DialStages'
  <2>1. ASSUME NEW c \in Bevs, Live(c), c \in dialled
        PROVE  /\ connectTo[remote[c]]
               /\ \/ phase[c] = "dialling" \/ Pending("connected", c)' \/ Pending("refused", c)'
                  \/ held'[bw[remote[c]]] = c
    <3>1. remote[c] \in Peers
      BY <2>1 DEF Live, TypeInv, Reached
    <3>2. CASE c = b
      BY <1>1, <1>6, <1>9, <1>c, <1>t, <2>1, <3>2 DEF DialStages
    <3>3. CASE c # b
      BY <1>3, <1>10, <1>11, <1>c, <2>1, <3>1, <3>3 DEF DialStages
    <3> QED BY <3>2, <3>3
  <2> QED BY <1>4, <1>8, <1>9, <2>1 DEF DialStages, Live
<1>17. CallStages'
  <2>1. ASSUME NEW c \in Bevs, Live(c), c \notin dialled
        PROVE  c # b /\ held'[c] = held[c]
    BY <1>1, <1>3, <1>6, <1>9, <1>c, <2>1 DEF HeldRightly, Wrappers
  <2>2. ASSUME NEW c \in Bevs, Live(c), c \notin dialled, Calling(c)
        PROVE  /\ ~connectTo[remote[c]]
               /\ ~Queued(Attempt(remote[c]))'
               /\ \/ Pending("newConnection", c)' /\ held'[c] = NoBev
                  \/ held'[c] = c /\ c \in ToSet(extra)
                  \/ held'[c] = c /\ Queued(Send(c))' /\ fd[c] = "closed"
    <3>1. remote[c] \in Peers /\ c \in Wrappers
      BY <2>2 DEF Live, TypeInv, Reached, Wrappers
    <3>2. ~connectTo[remote[c]] /\ ~Queued(Attempt(remote[c]))'
      BY <1>4, <1>10, <1>c, <2>2, <3>1 DEF CallStages, Queued
    <3> QED BY <1>10, <1>c, <2>1, <2>2, <3>1, <3>2 DEF CallStages
  <2>3. \A c \in Bevs : Calling(c)' <=> Calling(c)
    BY <1>4, <1>8, <1>9 DEF Calling, Live
  <2> QED BY <1>4, <1>8, <1>9, <1>c, <2>1, <2>2, <2>3 DEF CallStages, Session, Queued, Live
<1>18. SessionStages'
  <2>1. \A v \in Peers : isAuthed[v] => held'[bw[v]] = held[bw[v]]
    BY <1>3, <1>11
  <2>2. ASSUME NEW c \in Bevs, phase[c] = "read" \/ \E k \in PacketKinds : Pending(k, c)'
        PROVE  Pending("auth", c)' \/ Session(c)
    <3>1. c # b
      BY <1>10, <1>12, <2>2
    <3> QED BY <1>10, <1>c, <2>2, <3>1 DEF SessionStages
  <2>3. ASSUME NEW v \in Peers, isAuthed[v]
        PROVE  \A k \in {"newConnection", "connected", "refused", "auth"} :
                  BevEvent(k, sock[v]) \notin ToSet(inbox')
    BY <1>10, <1>c, <2>3 DEF SessionStages, Pending, Queued
  <2> QED BY <1>4, <1>8, <1>9, <1>c, <2>1, <2>2, <2>3 DEF SessionStages, Live, Session, Pending, Queued
<1> QED BY <1>4, <1>9, <1>13, <1>14, <1>15, <1>16, <1>17, <1>18, <1>c
        DEF CalmInv, WindowTellsTheTruth, NoFault

\* A handler that leaves wrappers, connections and flags alone, and takes no
\* signal but a packet, keeps the calm.
NothingMoved ==
    /\ UNCHANGED <<known, connectTo, isAuthed, sock, warned, phase, fd, remote, dialled, wire,
                   bw, extra, held, freed>>
    /\ fault' = "none" /\ WindowTellsTheTruth'
    /\ \A w \in Wrappers : held[w] # NoBev => Referenced(w, inbox', bw, extra)
    /\ \A k \in BevEvents \ PacketKinds, c \in Bevs : Pending(k, c) => Pending(k, c)'

\* Such a step keeps the calm.
LEMMA NothingMovedCalm ==
    ASSUME TypeInv, CalmInv, HandlerStep, NothingMoved
    PROVE  CalmInv'
<1>c. /\ SignalsInOrder /\ DialsMarked /\ EndedIsSilent /\ WireSound /\ HeldRightly /\ OneEach
      /\ DialStages /\ CallStages /\ SessionStages
      /\ WindowTellsTheTruth /\ warned = {} /\ NoFault
  BY DEF CalmInv
<1>1. /\ UNCHANGED <<known, connectTo, isAuthed, sock, warned, phase, fd, remote, dialled, wire,
                     bw, extra, held, freed>>
      /\ fault' = "none" /\ WindowTellsTheTruth'
      /\ \A w \in Wrappers : held[w] # NoBev => Referenced(w, inbox', bw, extra)
  BY DEF NothingMoved
<1>2. /\ \A k \in BevEvents, c \in Bevs : Pending(k, c)' => Pending(k, c)
      /\ \A v \in Peers : Queued(Attempt(v))' => Queued(Attempt(v))
      /\ "newConnection" \in BevEvents \ PacketKinds /\ "auth" \in BevEvents \ PacketKinds
      /\ "connected" \in BevEvents \ PacketKinds /\ "refused" \in BevEvents \ PacketKinds
      /\ PacketKinds \subseteq BevEvents
  BY <1>c, HandlerSignals, KindsAssumption DEF SignalsInOrder, BevEvents
<1>3. \A k \in BevEvents \ PacketKinds, c \in Bevs : Pending(k, c) => Pending(k, c)'
  BY DEF NothingMoved
<1>4. \A c \in Bevs : /\ Live(c)' <=> Live(c)
                      /\ Calling(c)' <=> Calling(c)
                      /\ Session(c)' <=> Session(c)
  BY <1>1 DEF Live, Calling, Session
<1>5. SignalsInOrder' /\ DialsMarked' /\ OneEach' /\ WireSound' /\ EndedIsSilent'
  <2>1. \A b \in Bevs : EndedIsSilent'
    BY <1>1, <1>c, EndedByHandler DEF EndedIsSilent
  <2>2. Bevs = {} => EndedIsSilent'
    BY DEF EndedIsSilent
  <2> QED BY <1>1, <1>c, <2>1, <2>2, SignalsByHandler, OneEachByHandler, WireByHandler
<1>6. HeldRightly'
  BY <1>1, <1>c DEF HeldRightly, Live
<1>7. DialStages'
  BY <1>1, <1>2, <1>3, <1>4, <1>c DEF DialStages
<1>8. CallStages'
  <2>1. ASSUME NEW c \in Bevs, Live(c), c \notin dialled, Calling(c)
        PROVE  /\ ~connectTo[remote[c]]
               /\ ~Queued(Attempt(remote[c]))'
               /\ \/ Pending("newConnection", c)' /\ held[c] = NoBev
                  \/ held[c] = c /\ c \in ToSet(extra)
                  \/ held[c] = c /\ Queued(Send(c))' /\ fd[c] = "closed"
    <3>1. remote[c] \in Peers /\ c \in Wrappers /\ c # NoBev
      BY <2>1, BevsAssumption DEF Live, TypeInv, Reached, Wrappers
    <3>2. ~connectTo[remote[c]] /\ ~Queued(Attempt(remote[c]))'
      BY <1>1, <1>2, <1>c, <2>1, <3>1 DEF CallStages, Queued
    <3>3. held[c] = c => c \in ToSet(extra) \/ Queued(Send(c))'
      <4>1. \A u \in Peers : bw[u] # c
        BY <1>c, <2>1, CallerApart
      <4> QED BY <1>1, <3>1, <4>1 DEF Referenced, Queued
    <3> QED BY <1>2, <1>3, <1>c, <2>1, <3>2, <3>3 DEF CallStages
  <2> QED BY <1>1, <1>4, <1>c, <2>1 DEF CallStages, Queued
<1>9. SessionStages'
  <2>1. ASSUME NEW c \in Bevs, phase[c] = "read" \/ \E k \in PacketKinds : Pending(k, c)'
        PROVE  Pending("auth", c)' \/ Session(c)
    BY <1>2, <1>3, <1>c, <2>1 DEF SessionStages
  <2>2. ASSUME NEW v \in Peers, isAuthed[v]
        PROVE  \A k \in {"newConnection", "connected", "refused", "auth"} :
                  BevEvent(k, sock[v]) \notin ToSet(inbox')
    BY <1>2, <1>c, <2>2 DEF SessionStages, Pending, Queued
  <2> QED BY <1>1, <1>4, <1>c, <2>1, <2>2 DEF SessionStages, Live, Session, Pending, Queued
<1> QED BY <1>1, <1>5, <1>6, <1>7, <1>8, <1>9, <1>c DEF CalmInv, NoFault

\* A handler that ends in Settle and changes no wrapper destroys none.
LEMMA SettleSame ==
    ASSUME TypeInv, HeldRightly, HandlerStep, Head(inbox).kind # "send", fault = "none",
           NEW q, Settle(q, bw, extra, held, {})
    PROVE  /\ UNCHANGED <<bw, extra, held, freed>> /\ fault' = "none"
           /\ \A w \in Wrappers : held[w] # NoBev => Referenced(w, inbox', bw, extra)
<1>1. \A w \in Wrappers : held[w] # NoBev =>
         (\E x \in Peers : bw[x] = w) \/ w \in ToSet(extra) \/ Queued(Send(w))
  BY DEF HeldRightly, Referenced, Queued
<1>2. held \in [Wrappers -> Bevs \cup {NoBev}]
  BY DEF TypeInv, TypeOK
<1>3. /\ held' = held /\ fault' = "none" /\ freed' = freed
      /\ \A w \in Wrappers : held[w] # NoBev => Referenced(w, q, bw, extra)
  BY <1>1, <1>2, SettleNone
<1>4. inbox' = q /\ bw' = bw /\ extra' = extra
  BY DEF Settle
<1> QED BY <1>3, <1>4

\* A packet comes over the session of its sender: nobody is accused, and the
\* window learns nothing it should not show.
LEMMA PacketCalm ==
    ASSUME TypeInv, WrapperInv, CalmInv, MsgHandler \/ NameHandler \/ SyncRequestHandler
    PROVE  CalmInv'
<1>1. PICK k \in {"text", "name", "syncRequest"} : Handling(k) /\ k \in BevEvents
  <2>1. ASSUME NEW k \in {"text", "name", "syncRequest"}, Handling(k) PROVE k \in BevEvents
    <3>1. Head(inbox) \in Events /\ Head(inbox).kind = k
      BY <2>1, TailSet DEF Handling, TypeInv, TypeOK
    <3> QED BY <3>1, EventShapes
  <2> QED BY <2>1 DEF MsgHandler, NameHandler, SyncRequestHandler
<1>2. PICK b \in Bevs, u \in Peers :
        /\ b = Head(inbox).bev /\ u = remote[b] /\ Head(inbox) = BevEvent(k, b)
        /\ Head(inbox).kind # "send" /\ fault = "none" /\ Pending(k, b)
  BY <1>1, HeadIsHeard
<1>3. HandlerStep /\ k \in PacketKinds
  BY <1>1, PacketType DEF BevEvents
<1>c. SignalsInOrder /\ HeldRightly /\ SessionStages /\ WindowTellsTheTruth /\ warned = {}
  BY DEF CalmInv
<1>4. Session(b)
  <2>1. ~Before(k, "auth") /\ "auth" \in BevEvents /\ k # "auth"
    BY <1>1, KindsAssumption DEF Before, BevEvents
  <2>2. ~Pending("auth", b)
    BY <1>1, <1>2, <1>3, <1>c, <2>1, SignalTaken DEF SignalsInOrder
  <2> QED BY <1>2, <1>3, <1>c, <2>2 DEF SessionStages
<1>5. isAuthed[u] /\ held[bw[u]] = b
  BY <1>2, <1>4, <1>c DEF Session, SessionStages
<1>6. \E q : Settle(q, bw, extra, held, {})
  BY DEF MsgHandler, NameHandler, SyncRequestHandler
<1>7. UNCHANGED <<known, connectTo, isAuthed, sock, phase, fd, remote, dialled, wire>>
  BY DEF MsgHandler, NameHandler, SyncRequestHandler, netVars
<1>8. warned' = warned
  BY <1>2, <1>5 DEF MsgHandler, NameHandler, SyncRequestHandler
<1>9. shown' = shown \/ shown' = [shown EXCEPT ![u] = "up"]
  BY <1>2 DEF MsgHandler, NameHandler, SyncRequestHandler
<1>10. WindowTellsTheTruth'
  BY <1>5, <1>7, <1>9, <1>c DEF WindowTellsTheTruth, TypeInv, TypeOK
<1>11. /\ UNCHANGED <<bw, extra, held, freed>> /\ fault' = "none"
       /\ \A w \in Wrappers : held[w] # NoBev => Referenced(w, inbox', bw, extra)
  BY <1>2, <1>3, <1>6, <1>c, SettleSame
<1>12. \A l \in BevEvents \ PacketKinds, c \in Bevs : Pending(l, c) => Pending(l, c)'
  BY <1>1, <1>2, <1>3, <1>c, SignalTaken DEF SignalsInOrder
<1>13. NothingMoved
  BY <1>7, <1>8, <1>10, <1>11, <1>12 DEF NothingMoved
<1> QED BY <1>3, <1>13, NothingMovedCalm

\* attemptConnection dials nobody who has a connection.
LEMMA AttemptConnectionCalm ==
    ASSUME TypeInv, WrapperInv, AuthedHasSocket, CalmInv, AttemptConnection
    PROVE  CalmInv'
<1>1. /\ inbox # <<>> /\ Head(inbox).kind = "attempt" /\ fault = "none"
      /\ Settle(Rest, bw, extra, held, {})
      /\ UNCHANGED <<isAuthed, sock, shown, warned, phase, fd, remote, dialled>>
  BY DEF AttemptConnection, Handling, netVars
<1>2. Head(inbox) \in Events /\ Head(inbox) \in ToSet(inbox)
  BY <1>1, TailSet DEF TypeInv, TypeOK
<1>3. PICK u \in Peers : u = Head(inbox).peer /\ Head(inbox) = Attempt(u)
  BY <1>1, <1>2, EventShapes DEF Events, Attempt
<1>4. HandlerStep
  BY AttemptConnectionType
<1>c. /\ SignalsInOrder /\ DialsMarked /\ EndedIsSilent /\ WireSound /\ HeldRightly /\ OneEach
      /\ DialStages /\ CallStages /\ SessionStages
      /\ WindowTellsTheTruth /\ warned = {} /\ NoFault
  BY DEF CalmInv
<1>5. /\ UNCHANGED <<bw, extra, held, freed>> /\ fault' = "none"
      /\ \A w \in Wrappers : held[w] # NoBev => Referenced(w, inbox', bw, extra)
  BY <1>1, <1>4, <1>c, SettleSame
<1>6. /\ \A k \in BevEvents, c \in Bevs : Pending(k, c) => Pending(k, c)'
      /\ \A w \in Wrappers : Queued(Send(w)) => Queued(Send(w))'
  BY <1>3, <1>4, <1>c, HandlerSignals, EventShapes DEF SignalsInOrder, BevEvent, Attempt, Send
<1>7. CASE connectTo[u]
  <2>1. UNCHANGED <<known, connectTo, wire>>
    BY <1>3, <1>7 DEF AttemptConnection, MayDial
  <2>2. NothingMoved
    BY <1>1, <1>5, <1>6, <1>c, <2>1 DEF NothingMoved, WindowTellsTheTruth
  <2> QED BY <1>4, <2>2, NothingMovedCalm
<1>8. CASE ~connectTo[u]
  <2> DEFINE m == [kind |-> "connectTo", peer |-> u]
  <2>1. /\ known' = known \cup {u} /\ connectTo' = [connectTo EXCEPT ![u] = TRUE]
        /\ wire' = Append(wire, m)
    BY <1>3, <1>8 DEF AttemptConnection, MayDial
  <2> HIDE DEF m
  <2>2. \A c \in Bevs : Live(c) => remote[c] # u /\ remote[c] \in Peers /\ c \in Wrappers
    <3> SUFFICES ASSUME NEW c \in Bevs, Live(c), remote[c] = u PROVE FALSE
      BY DEF Live, TypeInv, Reached, Wrappers
    <3>1. c \notin dialled
      BY <1>8, <1>c DEF DialStages
    <3>2. ~Calling(c)
      BY <1>2, <1>3, <1>c, <3>1 DEF CallStages, Queued
    <3>3. Session(c)
      BY <1>c, <3>1, <3>2 DEF CallStages
    <3> QED BY <1>8, <3>3 DEF Session, AuthedHasSocket
  <2>3. /\ connectTo'[u] /\ \A v \in Peers \ {u} : connectTo'[v] = connectTo[v]
    BY <2>1 DEF TypeInv, TypeOK
  <2>4. /\ \A k \in BevEvents, c \in Bevs : Pending(k, c)' => Pending(k, c)
        /\ \A v \in Peers : Queued(Attempt(v))' => Queued(Attempt(v))
        /\ "newConnection" \in BevEvents /\ "auth" \in BevEvents /\ "connected" \in BevEvents
        /\ "refused" \in BevEvents /\ PacketKinds \subseteq BevEvents
    BY <1>4, <1>c, HandlerSignals DEF SignalsInOrder, BevEvents
  <2>5. SignalsInOrder' /\ DialsMarked' /\ OneEach'
    BY <1>4, <1>5, <1>c, SignalsByHandler, OneEachByHandler
  <2>6. EndedIsSilent'
    BY <1>1, <1>5, <1>c, <2>4 DEF EndedIsSilent, Idle
  <2>7. WireSound'
    <3>1. m \in Messages /\ m \notin ToSet(wire) /\ wire \in Seq(Messages)
      BY <1>8, <1>c DEF WireSound, OnWire, m, Messages, TypeInv, TypeOK
    <3>2. ToSet(wire') = ToSet(wire) \cup {m} /\ IsInjective(wire')
      BY <1>c, <2>1, <3>1, AppendSet, InjectiveAppend DEF WireSound
    <3>3. \A c \in Bevs : [kind |-> "addDefault", bev |-> c] \in ToSet(wire') =>
             phase[c] = "up" /\ ~Pending("connected", c)'
      BY <1>c, <2>4, <3>2 DEF WireSound, OnWire, m
    <3>4. \A v \in Peers : [kind |-> "connectTo", peer |-> v] \in ToSet(wire') =>
             connectTo'[v] /\ \A c \in Bevs : Live(c) => remote[c] # v
      <4>1. \A v \in Peers : [kind |-> "connectTo", peer |-> v] = m => v = u
        BY DEF m
      <4> QED BY <1>c, <2>2, <2>3, <3>2, <4>1 DEF WireSound, OnWire
    <3> QED BY <1>1, <1>5, <3>2, <3>3, <3>4 DEF WireSound, OnWire, Live
  <2>8. HeldRightly'
    BY <1>1, <1>5, <1>c DEF HeldRightly, Live
  <2>9. DialStages'
    BY <1>1, <1>5, <1>6, <1>c, <2>2, <2>3, <2>4 DEF DialStages, Live
  <2>10. CallStages'
    <3>1. ASSUME NEW c \in Bevs, Live(c), c \notin dialled, Calling(c)
          PROVE  /\ ~connectTo'[remote[c]]
                 /\ ~Queued(Attempt(remote[c]))'
                 /\ \/ Pending("newConnection", c)' /\ held[c] = NoBev
                    \/ held[c] = c /\ c \in ToSet(extra)
                    \/ held[c] = c /\ Queued(Send(c))' /\ fd[c] = "closed"
      <4>1. ~connectTo'[remote[c]] /\ ~Queued(Attempt(remote[c]))'
        BY <1>1, <1>c, <2>2, <2>3, <2>4, <3>1 DEF CallStages, Queued
      <4> QED BY <1>6, <1>c, <2>2, <2>4, <3>1, <4>1 DEF CallStages
    <3>2. \A c \in Bevs : /\ Live(c)' <=> Live(c)
                          /\ Calling(c)' <=> Calling(c)
                          /\ Session(c)' <=> Session(c)
      BY <1>1, <1>5 DEF Live, Calling, Session
    <3> QED BY <1>1, <1>5, <1>c, <3>1, <3>2 DEF CallStages, Queued
  <2>11. SessionStages'
    <3>1. ASSUME NEW c \in Bevs, phase[c] = "read" \/ \E k \in PacketKinds : Pending(k, c)'
          PROVE  Pending("auth", c)' \/ Session(c)
      BY <1>6, <1>c, <2>4, <3>1 DEF SessionStages
    <3>2. ASSUME NEW v \in Peers, isAuthed[v]
          PROVE  \A k \in {"newConnection", "connected", "refused", "auth"} :
                    BevEvent(k, sock[v]) \notin ToSet(inbox')
      BY <1>c, <2>4, <3>2 DEF SessionStages, Pending, Queued
    <3>3. \A v \in Peers : connectTo'[v] => v \in known'
      BY <1>c, <2>1, <2>3 DEF SessionStages
    <3> QED BY <1>1, <1>5, <1>c, <3>1, <3>2, <3>3 DEF SessionStages, Live, Session, Pending, Queued
  <2> QED BY <1>1, <1>5, <1>c, <2>5, <2>6, <2>7, <2>8, <2>9, <2>10, <2>11
          DEF CalmInv, WindowTellsTheTruth, NoFault
<1> QED BY <1>7, <1>8

\* PXMClient::sendMsg writes to what exists, and the last reference to the
\* wrapper of a caller that has gone goes with it.
LEMMA SendMsgCalm ==
    ASSUME TypeInv, WrapperInv, CalmInv, SendMsg
    PROVE  CalmInv'
<1>1. /\ inbox # <<>> /\ Head(inbox).kind = "send" /\ fault = "none"
      /\ UNCHANGED <<known, connectTo, isAuthed, sock, shown, warned, phase, fd, remote, dialled, wire>>
  BY DEF SendMsg, Handling, netVars
<1>2. Head(inbox) \in Events /\ Head(inbox) \in ToSet(inbox)
  BY <1>1, TailSet DEF TypeInv, TypeOK
<1>3. PICK x \in Wrappers : x = Head(inbox).wrapper /\ Head(inbox) = Send(x)
  BY <1>1, <1>2, EventShapes DEF Events, Send
<1>4. HandlerStep
  BY SendMsgType
<1>c. /\ SignalsInOrder /\ EndedIsSilent /\ HeldRightly /\ CallStages /\ WindowTellsTheTruth
  BY DEF CalmInv
<1>t. bw \in [Peers -> Wrappers] /\ held \in [Wrappers -> Bevs \cup {NoBev}] /\ freed \subseteq Bevs
  BY DEF TypeInv, TypeOK
<1>5. Settle(Rest, bw, extra, held, {})
  <2>1. held[x] \notin freed
    BY <1>3, <1>c, <1>t, BevsAssumption DEF HeldRightly, Live
  <2> QED BY <1>3, <2>1 DEF SendMsg
<1>6. bw' = bw /\ extra' = extra /\ inbox' = Rest
  BY <1>5 DEF Settle
<1>7. /\ \A k \in BevEvents, c \in Bevs : Pending(k, c) => Pending(k, c)'
      /\ \A k \in BevEvents, c \in Bevs : Pending(k, c)' => Pending(k, c)
      /\ \A w \in Wrappers \ {x} : Queued(Send(w)) => Send(w) \in ToSet(Rest)
  BY <1>3, <1>4, <1>6, <1>c, HandlerSignals, EventShapes DEF SignalsInOrder, BevEvent, Send, Queued
<1>8. \A w \in Wrappers \ {x} : held[w] # NoBev => Referenced(w, Rest, bw, extra)
  BY <1>7, <1>c DEF HeldRightly, Referenced, Queued
<1>9. CASE held[x] # NoBev => Referenced(x, Rest, bw, extra)
  <2>1. \A w \in Wrappers : held[w] # NoBev => Referenced(w, Rest, bw, extra)
    BY <1>8, <1>9
  <2>2. Doomed(Rest, bw, extra, held) = {}
    BY <2>1 DEF Doomed
  <2>3. ~FreedTwice({}, held, {})
    BY DEF FreedTwice
  <2>4. /\ held' = [w \in Wrappers |-> IF w \in {} THEN NoBev ELSE held[w]]
        /\ freed' = freed \cup {} \cup {held[w] : w \in {}}
        /\ fault' = fault
    BY <1>5, <2>2, <2>3 DEF Settle
  <2>5. held' = held /\ freed' = freed
    BY <1>t, <2>4
  <2>6. NothingMoved
    BY <1>1, <1>6, <1>7, <1>c, <2>1, <2>4, <2>5 DEF NothingMoved, WindowTellsTheTruth
  <2> QED BY <1>4, <2>6, NothingMovedCalm
<1>10. CASE held[x] # NoBev /\ ~Referenced(x, Rest, bw, extra)
  <2>1. PICK b \in Bevs : b = held[x]
    BY <1>10, <1>t
  <2>2. Live(b) /\ remote[b] \in Peers /\ b # NoBev
    BY <1>10, <1>c, <2>1 DEF HeldRightly, Live, TypeInv, Reached
  <2>3. /\ \A u \in Peers : bw[u] # x
        /\ x \notin ToSet(extra) /\ Send(x) \notin ToSet(Rest)
    BY <1>10 DEF Referenced
  <2>4. b \notin dialled /\ x = b
    BY <1>10, <1>c, <2>1, <2>2, <2>3 DEF HeldRightly
  <2>5. Calling(b)
    BY <2>2, <2>3, <2>4 DEF Calling
  <2>6. fd[b] = "closed"
    BY <1>c, <2>1, <2>2, <2>3, <2>4, <2>5 DEF CallStages
  <2>7. phase[b] = "off" /\ \A k \in BevEvents : ~Pending(k, b)
    BY <1>c, <2>6 DEF EndedIsSilent, Idle
  <2>8. /\ held' = [held EXCEPT ![x] = NoBev] /\ fault' = "none"
        /\ freed' = FreedToo({held[x]})
        /\ \A w \in Wrappers : held'[w] # NoBev => Referenced(w, Rest, bw, extra)
    BY <1>1, <1>5, <1>8, <1>10, <1>t, <2>1, <2>2, SettleDestroys DEF Live
  <2>9. freed' = freed \cup {b}
    BY <2>1, <2>8 DEF FreedToo
  <2>10. fd' = [fd EXCEPT ![b] = "closed"]
    BY <1>1, <2>6 DEF TypeInv, TypeOK
  <2>11. GivenUp(b)
    BY <1>1, <1>6, <2>1, <2>3, <2>4, <2>5, <2>7, <2>8, <2>9, <2>10 DEF GivenUp
  <2>12. \A w \in Wrappers : w # b => (Queued(Send(w)) => Queued(Send(w))')
    BY <1>6, <1>7, <2>4 DEF Queued
  <2> QED BY <1>4, <1>7, <2>7, <2>11, <2>12, GivenUpCalm
<1> QED BY <1>9, <1>10

\* Every handler keeps the calm.
LEMMA WorkerCalm ==
    ASSUME TypeInv, WrapperInv, AuthedHasSocket, CalmInv, Worker
    PROVE  CalmInv'
BY NewAcceptedConnectionCalm, NothingReplaced, AuthAdoptingCalm, PeerQuitCalm,
   AttemptConnectionCalm, ConnectionSucceededCalm, ConnectionFailedCalm, SendMsgCalm, PacketCalm
   DEF Worker, AuthHandler, ResultOfConnectionAttempt

-------------------------------------------------------------------------------
\* What an event adds to those that wait.
LEMMA ArrivalSignals ==
    ASSUME TypeInv, NEW e \in Events, inbox' = Append(inbox, e)
    PROVE  /\ \A k \in BevEvents, c \in Bevs :
                 Pending(k, c)' <=> Pending(k, c) \/ e = BevEvent(k, c)
           /\ \A u \in Peers : Queued(Attempt(u))' <=> Queued(Attempt(u)) \/ e = Attempt(u)
           /\ \A w \in Wrappers : Queued(Send(w)) => Queued(Send(w))'
<1>1. ToSet(inbox') = ToSet(inbox) \cup {e}
  BY AppendSet DEF TypeInv, TypeOK
<1> QED BY <1>1 DEF Pending, Queued, BevEvent, Attempt, Send

\* It comes last, so the order is kept when all that waits may be ahead of it.
LEMMA ArrivalInOrder ==
    ASSUME TypeInv, Ordered, NEW e \in Events, inbox' = Append(inbox, e),
           \A k \in BevEvents : e.kind \in BevEvents /\ Pending(k, e.bev) => Before(k, e.kind)
    PROVE  Ordered'
<1> SUFFICES ASSUME NEW i \in DOMAIN inbox', NEW j \in DOMAIN inbox', i < j,
                    inbox'[i].kind \in BevEvents, inbox'[j].kind \in BevEvents,
                    inbox'[i].bev = inbox'[j].bev
             PROVE  Before(inbox'[i].kind, inbox'[j].kind)
  BY DEF Ordered
<1>1. i \in DOMAIN inbox /\ inbox'[i] = inbox[i] /\ i \in Nat
  BY ArrivalPositions
<1>2. CASE j \in DOMAIN inbox /\ inbox'[j] = inbox[j]
  BY <1>1, <1>2 DEF Ordered
<1>3. CASE inbox'[j] = e
  <2>1. inbox[i] \in Events /\ inbox[i] \in ToSet(inbox)
    BY <1>1, ArrivalPositions DEF ToSet
  <2>2. inbox[i] = BevEvent(inbox[i].kind, inbox[i].bev)
    BY <1>1, <2>1, EventShapes
  <2>3. Pending(inbox[i].kind, e.bev)
    BY <1>1, <1>3, <2>1, <2>2 DEF Pending, Queued
  <2> QED BY <1>1, <1>3, <2>3
<1> QED BY <1>2, <1>3, ArrivalPositions

\* A libevent callback takes its connection one stage further, and the signal
\* it sends is the one that may come next.
LEMMA CallbackCalm ==
    ASSUME TypeInv, CalmInv, NEW b \in Bevs, NEW p, NEW k \in BevEvents, Callback(b, p, k),
           \/ phase[b] = "dialling" /\ p = "up" /\ k = "connected"
           \/ phase[b] = "dialling" /\ p = "off" /\ k = "refused"
           \/ phase[b] = "auth" /\ p = "read" /\ k = "auth"
           \/ phase[b] \in {"auth", "read"} /\ p = "off" /\ k = "quit"
           \/ phase[b] = "read" /\ p = "read" /\ k \in PacketKinds
    PROVE  CalmInv'
<1> DEFINE e == BevEvent(k, b)
<1>c. /\ SignalsInOrder /\ DialsMarked /\ EndedIsSilent /\ WireSound /\ HeldRightly /\ OneEach
      /\ DialStages /\ CallStages /\ SessionStages
      /\ WindowTellsTheTruth /\ warned = {} /\ NoFault
  BY DEF CalmInv
<1>1. /\ b \notin freed /\ fault' = "none" /\ inbox' = Append(inbox, e)
      /\ phase' = [phase EXCEPT ![b] = p]
      /\ UNCHANGED <<known, connectTo, isAuthed, bw, sock, held, extra, shown, warned,
                     fd, remote, dialled, freed, wire>>
  BY DEF Callback, tableVars
<1>2. /\ phase \in [Bevs -> Phases] /\ e \in Events /\ e.kind = k /\ e.bev = b
      /\ PacketKinds \subseteq {"text", "name", "syncRequest"} /\ PacketKinds \subseteq BevEvents
  BY EventShapes, KindsAssumption DEF TypeInv, TypeOK, BevEvent, BevEvents
<1>3. phase'[b] = p /\ \A c \in Bevs \ {b} : phase'[c] = phase[c]
  BY <1>1, <1>2
<1>4. /\ \A h \in BevEvents, c \in Bevs : Pending(h, c)' <=> Pending(h, c) \/ (h = k /\ c = b)
      /\ \A u \in Peers : Queued(Attempt(u))' <=> Queued(Attempt(u))
      /\ \A w \in Wrappers : Queued(Send(w)) => Queued(Send(w))'
  <2>1. /\ \A h \in BevEvents, c \in Bevs : e = BevEvent(h, c) <=> (h = k /\ c = b)
        /\ \A u \in Peers : e # Attempt(u)
    BY EventShapes DEF BevEvent, Attempt
  <2> HIDE DEF e
  <2> QED BY <1>1, <1>2, <2>1, ArrivalSignals
<1>5. \A c \in Bevs : /\ Live(c)' <=> Live(c)
                      /\ Calling(c)' <=> Calling(c)
                      /\ Session(c)' <=> Session(c)
  <2>1. phase[b] # "unused" /\ p # "unused"
    OBVIOUS
  <2> QED BY <1>1, <1>3, <2>1 DEF Live, Calling, Session
<1>6. Sent(phase[b]) \subseteq Sent(p) /\ k \in Sent(p)
  BY <1>2 DEF Sent
<1>7. \A h \in BevEvents : Pending(h, b) => h \in Sent(phase[b]) /\ Before(h, k)
  <2>1. \A h \in Sent(phase[b]) : Before(h, k)
    BY <1>2 DEF Sent, Before
  <2> QED BY <1>c, <2>1 DEF SignalsInOrder
<1>8. SignalsInOrder'
  <2>1. Ordered'
    <3> HIDE DEF e
    <3> QED BY <1>1, <1>2, <1>7, <1>c, ArrivalInOrder DEF SignalsInOrder
  <2> QED BY <1>3, <1>4, <1>6, <1>c, <2>1 DEF SignalsInOrder
<1>9. DialsMarked'
  BY <1>1, <1>2, <1>3, <1>4, <1>c DEF DialsMarked, BevEvents
<1>10. EndedIsSilent'
  <2>1. fd[b] # "closed"
    BY <1>c DEF EndedIsSilent
  <2> QED BY <1>1, <1>3, <1>4, <1>c, <2>1 DEF EndedIsSilent, Idle
<1>11. WireSound'
  BY <1>1, <1>3, <1>4, <1>5, <1>c DEF WireSound, OnWire, BevEvents
<1>12. HeldRightly'
  <2>1. \A w \in Wrappers : Referenced(w, inbox, bw, extra) => Referenced(w, inbox', bw, extra)
    BY <1>4 DEF Referenced, Queued
  <2>2. held \in [Wrappers -> Bevs \cup {NoBev}]
    BY DEF TypeInv, TypeOK
  <2> QED BY <1>1, <1>5, <1>c, <2>1, <2>2 DEF HeldRightly
<1>13. OneEach'
  BY <1>1, <1>5, <1>c DEF OneEach
<1>14. DialStages'
  BY <1>1, <1>3, <1>4, <1>5, <1>c DEF DialStages, BevEvents
<1>15. CallStages'
  <2>1. \A c \in Bevs : Live(c) => remote[c] \in Peers
    BY DEF Live, TypeInv, Reached
  <2>2. \A c \in Bevs : c \in Wrappers
    BY DEF Wrappers
  <2>3. \A c \in Bevs : /\ Pending("newConnection", c) => Pending("newConnection", c)'
                        /\ Queued(Send(c)) => Queued(Send(c))'
                        /\ Live(c) => (Queued(Attempt(remote[c]))' <=> Queued(Attempt(remote[c])))
    <3>1. ASSUME NEW c \in Bevs, Live(c)
          PROVE  Queued(Attempt(remote[c]))' <=> Queued(Attempt(remote[c]))
      BY <1>1, <1>4, <2>1, <3>1 DEF Queued
    <3> QED BY <1>4, <2>2, <3>1 DEF BevEvents
  <2> QED BY <1>1, <1>5, <1>c, <2>3 DEF CallStages
<1>16. SessionStages'
  <2>1. ASSUME NEW u \in Peers, isAuthed[u]
        PROVE  /\ sock[u] \in Bevs /\ phase'[sock[u]] \in {"read", "off"}
               /\ sock[u] \notin freed
               /\ \A h \in {"newConnection", "connected", "refused", "auth"} :
                     BevEvent(h, sock[u]) \notin ToSet(inbox')
    <3>1. PICK s \in Bevs : s = sock[u] /\ Live(s) /\ phase[s] \in {"read", "off"}
      BY <1>c, <2>1 DEF SessionStages
    <3>2. \A h \in {"newConnection", "connected", "refused", "auth"} : ~Pending(h, s)
      BY <1>c, <2>1, <3>1 DEF SessionStages
    <3>3. s = b => p \in {"read", "off"} /\ k \notin {"newConnection", "connected", "refused", "auth"}
      BY <1>2, <3>1
    <3>4. \A h \in {"newConnection", "connected", "refused", "auth"} : ~Pending(h, s)'
      BY <1>4, <3>2, <3>3 DEF BevEvents
    <3> QED BY <1>3, <3>1, <3>3, <3>4 DEF Pending, Queued, Live
  <2>2. ASSUME NEW c \in Bevs, phase'[c] = "read" \/ \E h \in PacketKinds : Pending(h, c)'
        PROVE  Pending("auth", c)' \/ Session(c)
    <3>1. CASE phase[c] = "read" \/ \E h \in PacketKinds : Pending(h, c)
      BY <1>4, <1>c, <3>1 DEF SessionStages, BevEvents
    <3>2. CASE ~(phase[c] = "read" \/ \E h \in PacketKinds : Pending(h, c))
      <4>1. c = b
        BY <1>2, <1>3, <1>4, <2>2, <3>2
      <4>2. k = "auth"
        BY <1>2, <1>3, <1>4, <2>2, <3>2, <4>1
      <4> QED BY <1>4, <4>1, <4>2
    <3> QED BY <3>1, <3>2
  <2>3. sock' = sock /\ isAuthed' = isAuthed
    BY <1>1
  <2> QED BY <1>1, <1>5, <1>c, <2>1, <2>2, <2>3 DEF SessionStages, Live, Pending, Queued
<1> QED BY <1>1, <1>8, <1>9, <1>10, <1>11, <1>12, <1>13, <1>14, <1>15, <1>16, <1>c
        DEF CalmInv, WindowTellsTheTruth, NoFault

\* A request of the user or a name that arrives moves nothing.
LEMMA RequestCalm ==
    ASSUME TypeInv, CalmInv, Calm, NEW u \in Peers, UdpReceive(u) \/ SendMsgAccessor(u)
    PROVE  CalmInv'
<1>c. /\ SignalsInOrder /\ DialsMarked /\ EndedIsSilent /\ WireSound /\ HeldRightly /\ OneEach
      /\ DialStages /\ CallStages /\ SessionStages
      /\ WindowTellsTheTruth /\ warned = {} /\ NoFault
  BY DEF CalmInv
<1>1. PICK e \in Events : /\ inbox' = Append(inbox, e) /\ e.kind \notin BevEvents
                          /\ \A c \in Bevs : Calling(c) => e # Attempt(remote[c])
  <2>1. CASE UdpReceive(u)
    <3>1. /\ inbox' = Append(inbox, Attempt(u)) /\ Attempt(u) \in Events
          /\ Attempt(u).kind \notin BevEvents
      BY <2>1, EventShapes DEF UdpReceive, Attempt
    <3>2. ASSUME NEW c \in Bevs, Calling(c) PROVE remote[c] # u
      <4>1. c \in Callers
        BY <1>c, <3>2, CallerApart DEF Callers, Calling
      <4> QED BY <2>1, <4>1 DEF UdpReceive, MayName, Calm
    <3> QED BY <3>1, <3>2 DEF Attempt
  <2>2. CASE SendMsgAccessor(u)
    <3>1. /\ inbox' = Append(inbox, Send(bw[u])) /\ Send(bw[u]) \in Events
          /\ Send(bw[u]).kind \notin BevEvents
      BY <2>2, EventShapes DEF SendMsgAccessor, Send, TypeInv, TypeOK
    <3> QED BY <3>1 DEF Send, Attempt
  <2> QED BY <2>1, <2>2
<1>2. UNCHANGED <<known, connectTo, isAuthed, bw, sock, held, extra, shown, warned,
                  phase, fd, remote, dialled, freed, wire, fault>>
  BY DEF UdpReceive, SendMsgAccessor, tableVars, netVars
<1>3. /\ \A h \in BevEvents, c \in Bevs : Pending(h, c)' <=> Pending(h, c)
      /\ \A c \in Bevs : Calling(c) => (Queued(Attempt(remote[c])) <=> Queued(Attempt(remote[c]))')
      /\ \A w \in Wrappers : Queued(Send(w)) => Queued(Send(w))'
  <2>1. \A h \in BevEvents, c \in Bevs : e # BevEvent(h, c)
    BY <1>1 DEF BevEvent
  <2>2. \A c \in Bevs : Calling(c) => remote[c] \in Peers
    BY DEF Calling, Live, TypeInv, Reached
  <2>3. /\ \A h \in BevEvents, c \in Bevs : Pending(h, c)' <=> Pending(h, c) \/ e = BevEvent(h, c)
        /\ \A v \in Peers : Queued(Attempt(v))' <=> Queued(Attempt(v)) \/ e = Attempt(v)
        /\ \A w \in Wrappers : Queued(Send(w)) => Queued(Send(w))'
    BY <1>1, ArrivalSignals
  <2>4. ASSUME NEW c \in Bevs, Calling(c)
        PROVE  Queued(Attempt(remote[c])) <=> Queued(Attempt(remote[c]))'
    BY <1>1, <1>2, <2>2, <2>3, <2>4 DEF Queued
  <2> QED BY <2>1, <2>3, <2>4
<1>4. Ordered'
  BY <1>1, <1>c, ArrivalInOrder DEF SignalsInOrder
<1>5. SignalsInOrder' /\ DialsMarked'
  BY <1>2, <1>3, <1>4, <1>c DEF SignalsInOrder, DialsMarked, BevEvents
<1>6. EndedIsSilent' /\ OneEach'
  BY <1>2, <1>3, <1>c DEF EndedIsSilent, Idle, OneEach, Live, Calling
<1>7. WireSound'
  BY <1>2, <1>3, <1>c DEF WireSound, OnWire, BevEvents, Live
<1>8. HeldRightly'
  <2>1. \A w \in Wrappers : Referenced(w, inbox, bw, extra) => Referenced(w, inbox', bw, extra)
    BY <1>3 DEF Referenced, Queued
  <2> QED BY <1>2, <1>c, <2>1 DEF HeldRightly, Live
<1>9. DialStages'
  BY <1>2, <1>3, <1>c DEF DialStages, BevEvents, Live
<1>10. CallStages'
  <2>1. \A c \in Bevs : /\ Pending("newConnection", c) => Pending("newConnection", c)'
                        /\ Queued(Send(c)) => Queued(Send(c))'
    BY <1>3 DEF BevEvents, Wrappers
  <2>2. \A c \in Bevs : /\ Live(c)' <=> Live(c)
                        /\ Calling(c)' <=> Calling(c)
                        /\ Session(c)' <=> Session(c)
    BY <1>2 DEF Live, Calling, Session
  <2> QED BY <1>2, <1>3, <1>c, <2>1, <2>2 DEF CallStages
<1>11. SessionStages'
  <2>1. ASSUME NEW v \in Peers, isAuthed[v]
        PROVE  \A h \in {"newConnection", "connected", "refused", "auth"} :
                  BevEvent(h, sock[v]) \notin ToSet(inbox')
    <3>1. sock[v] \in Bevs /\ \A h \in {"newConnection", "connected", "refused", "auth"} :
                                 ~Pending(h, sock[v])
      BY <1>c, <2>1 DEF SessionStages
    <3>2. PICK s \in Bevs : s = sock[v]
      BY <3>1
    <3>3. \A h \in {"newConnection", "connected", "refused", "auth"} : ~Pending(h, s)'
      BY <1>3, <3>1, <3>2 DEF BevEvents
    <3> QED BY <3>2, <3>3 DEF Pending, Queued
  <2>2. ASSUME NEW c \in Bevs, phase'[c] = "read" \/ \E h \in PacketKinds : Pending(h, c)'
        PROVE  Pending("auth", c)' \/ Session(c)'
    BY <1>2, <1>3, <1>c, <2>2 DEF SessionStages, BevEvents, Session
  <2> QED BY <1>2, <1>c, <2>1, <2>2 DEF SessionStages, Live, Pending, Queued
<1> QED BY <1>2, <1>5, <1>6, <1>7, <1>8, <1>9, <1>10, <1>11, <1>c
        DEF CalmInv, WindowTellsTheTruth, NoFault

\* ADD_DEFAULT_BEV finds the connection it names connected and waiting.
LEMMA AddDefaultBevCalm ==
    ASSUME TypeInv, CalmInv, AddDefaultBev
    PROVE  CalmInv'
<1>c. /\ SignalsInOrder /\ DialsMarked /\ EndedIsSilent /\ WireSound /\ HeldRightly /\ OneEach
      /\ DialStages /\ CallStages /\ SessionStages
      /\ WindowTellsTheTruth /\ warned = {} /\ NoFault
  BY DEF CalmInv
<1>1. wire # <<>> /\ wire \in Seq(Messages) /\ IsInjective(wire) /\ wire' = Tail(wire)
  BY <1>c DEF AddDefaultBev, WireSound, TypeInv, TypeOK
<1>2. /\ ToSet(wire') \subseteq ToSet(wire) /\ IsInjective(wire')
      /\ Head(wire) \in ToSet(wire) /\ Head(wire) \notin ToSet(wire') /\ Head(wire) \in Messages
  BY <1>1, TailSet, InjectiveTail
<1>3. PICK b \in Bevs : b = Head(wire).bev /\ Head(wire) = [kind |-> "addDefault", bev |-> b]
  BY <1>2 DEF AddDefaultBev, Messages
<1>4. /\ phase[b] = "up" /\ ~Pending("connected", b) /\ b \notin freed
  BY <1>2, <1>3, <1>c DEF WireSound, OnWire, EndedIsSilent
<1>5. /\ phase' = [phase EXCEPT ![b] = "auth"]
      /\ UNCHANGED <<known, connectTo, isAuthed, bw, sock, held, extra, shown, warned,
                     fd, remote, dialled, freed, inbox, fault>>
  BY <1>3, <1>4 DEF AddDefaultBev, tableVars
<1>6. phase \in [Bevs -> Phases]
  BY DEF TypeInv, TypeOK
<1>7. phase'[b] = "auth" /\ \A c \in Bevs \ {b} : phase'[c] = phase[c]
  BY <1>5, <1>6
<1>8. \A k \in BevEvents : ~Pending(k, b)
  BY <1>4, <1>c DEF SignalsInOrder, Sent
<1>9. /\ \A k, c : Pending(k, c)' <=> Pending(k, c)
      /\ \A c \in Bevs : /\ Live(c)' <=> Live(c)
                         /\ Calling(c)' <=> Calling(c)
                         /\ Session(c)' <=> Session(c)
  BY <1>4, <1>5, <1>7 DEF Pending, Queued, Live, Calling, Session
<1>10. SignalsInOrder'
  BY <1>5, <1>7, <1>8, <1>9, <1>c DEF SignalsInOrder, Ordered
<1>11. DialsMarked' /\ EndedIsSilent' /\ OneEach'
  BY <1>4, <1>5, <1>7, <1>8, <1>9, <1>c DEF DialsMarked, EndedIsSilent, Idle, OneEach
<1>12. WireSound'
  <2>1. ASSUME NEW c \in Bevs, [kind |-> "addDefault", bev |-> c] \in ToSet(wire')
        PROVE  phase'[c] = "up" /\ ~Pending("connected", c)
    BY <1>2, <1>3, <1>7, <1>c, <2>1 DEF WireSound, OnWire
  <2> QED BY <1>2, <1>5, <1>9, <1>c, <2>1 DEF WireSound, OnWire
<1>13. HeldRightly'
  <2> held \in [Wrappers -> Bevs \cup {NoBev}]
    BY DEF TypeInv, TypeOK
  <2> QED BY <1>5, <1>9, <1>c DEF HeldRightly
<1>14. DialStages'
  <2>1. ~Pending("refused", b)
    BY <1>8 DEF BevEvents
  <2> QED BY <1>4, <1>5, <1>7, <1>9, <1>c, <2>1 DEF DialStages
<1>15. CallStages'
  BY <1>5, <1>9, <1>c DEF CallStages, Queued
<1>16. SessionStages'
  <2>1. \A u \in Peers : isAuthed[u] => sock[u] # b /\ phase'[sock[u]] = phase[sock[u]]
    BY <1>4, <1>7, <1>c DEF SessionStages
  <2> QED BY <1>4, <1>5, <1>7, <1>9, <1>c, <2>1 DEF SessionStages, Live, Session, Pending, Queued
<1> QED BY <1>5, <1>10, <1>11, <1>12, <1>13, <1>14, <1>15, <1>16, <1>c
        DEF CalmInv, WindowTellsTheTruth, NoFault

\* Nothing knows of a connection that has not been made.
LEMMA UnusedApart ==
    ASSUME TypeInv, WrapperInv, CalmInv, NEW b \in Bevs, phase[b] = "unused"
    PROVE  /\ ~Live(b) /\ b \notin freed /\ b \notin dialled
           /\ \A k \in BevEvents : ~Pending(k, b)
           /\ \A w \in Wrappers : held[w] # b
           /\ held[b] = NoBev
           /\ b \notin ToSet(extra) /\ \A u \in Peers : bw[u] # b
           /\ \A u \in Peers : isAuthed[u] => sock[u] # b
<1>c. SignalsInOrder /\ DialsMarked /\ EndedIsSilent /\ HeldRightly /\ SessionStages
  BY DEF CalmInv
<1>1. ~Live(b)
  BY DEF Live
<1>2. \A k \in BevEvents : ~Pending(k, b)
  BY <1>c DEF SignalsInOrder, Sent
<1>3. b \notin freed /\ b \notin dialled
  BY <1>c DEF EndedIsSilent, DialsMarked
<1>4. b \in Wrappers /\ b # NoBev /\ held \in [Wrappers -> Bevs \cup {NoBev}]
  BY BevsAssumption DEF Wrappers, TypeInv, TypeOK
<1>5. \A w \in Wrappers : held[w] # b
  BY <1>1, <1>4, <1>c DEF HeldRightly
<1>6. ~InUse(b)
  BY DEF WrapperInv, NewOnce, Settled
<1>7. held[b] = NoBev
  <2> SUFFICES ASSUME held[b] # NoBev PROVE FALSE
    OBVIOUS
  <2>1. /\ Live(held[b]) /\ held[b] \in Bevs
        /\ held[b] \in dialled => b = bw[remote[held[b]]]
        /\ held[b] \notin dialled => b = held[b]
    BY <1>4, <1>c DEF HeldRightly
  <2>2. remote[held[b]] \in Peers
    BY <2>1 DEF Live, TypeInv, Reached
  <2> QED BY <1>1, <1>6, <2>1, <2>2 DEF InUse
<1>8. \A u \in Peers : isAuthed[u] => sock[u] # b
  BY <1>1, <1>c DEF SessionStages
<1> QED BY <1>1, <1>2, <1>3, <1>5, <1>6, <1>7, <1>8 DEF InUse

\* A connection is made to or by a peer that has none.
NewConnection(b, u) ==
    /\ b \in Bevs /\ u \in Peers /\ phase[b] = "unused"
    /\ \A c \in Bevs : Live(c) => remote[c] # u
    /\ phase' = [phase EXCEPT ![b] = phase'[b]] /\ phase'[b] \notin {"unused", "up", "read", "off"}
    /\ fd' = [fd EXCEPT ![b] = "open"]
    /\ remote' = [remote EXCEPT ![b] = u]
    /\ \A k \in BevEvents, c \in Bevs : c # b => (Pending(k, c)' <=> Pending(k, c))
    /\ \A k \in BevEvents : Pending(k, b)' => k = "newConnection"
    /\ \A v \in Peers : Queued(Attempt(v))' <=> Queued(Attempt(v))
    /\ \A w \in Wrappers : Queued(Send(w)) => Queued(Send(w))'
    /\ UNCHANGED <<known, connectTo, isAuthed, bw, sock, held, extra, shown, warned, freed, fault>>

\* The other connections are where they were.
LEMMA OthersStay ==
    ASSUME TypeInv, WrapperInv, CalmInv, NEW b, NEW u, NewConnection(b, u),
           dialled' \in {dialled, dialled \cup {b}}
    PROVE  /\ Live(b)' /\ phase'[b] # "unused" /\ remote'[b] = u /\ fd'[b] = "open"
           /\ \A c \in Bevs \ {b} :
                 /\ phase'[c] = phase[c] /\ remote'[c] = remote[c] /\ fd'[c] = fd[c]
                 /\ c \in dialled' <=> c \in dialled
                 /\ Live(c)' <=> Live(c)
                 /\ Calling(c)' <=> Calling(c)
                 /\ Session(c)' <=> Session(c)
                 /\ Live(c) => remote[c] \in Peers
<1>1. /\ phase \in [Bevs -> Phases] /\ remote \in [Bevs -> Peers \cup {NoPeer}]
      /\ fd \in [Bevs -> {"none", "open", "closed", "reclosed"}]
      /\ \A c \in Bevs : Live(c) => remote[c] \in Peers
  BY DEF TypeInv, TypeOK, Reached, Live
<1>2. /\ remote'[b] = u /\ fd'[b] = "open" /\ phase'[b] # "unused"
      /\ \A c \in Bevs \ {b} : phase'[c] = phase[c] /\ remote'[c] = remote[c] /\ fd'[c] = fd[c]
  BY <1>1 DEF NewConnection
<1>3. b \in Bevs /\ phase[b] = "unused" /\ UNCHANGED <<isAuthed, sock, bw, freed>>
  BY DEF NewConnection
<1>4. b \notin freed
  BY <1>3, UnusedApart
<1> QED BY <1>1, <1>2, <1>3, <1>4 DEF Live, Calling, Session

\* So are the wrappers, the sessions and what has ended.
LEMMA NewConnectionCalm ==
    ASSUME TypeInv, WrapperInv, CalmInv, NEW b, NEW u, NewConnection(b, u),
           dialled' \in {dialled, dialled \cup {b}}
    PROVE  EndedIsSilent' /\ HeldRightly' /\ SessionStages'
<1>c. EndedIsSilent /\ HeldRightly /\ SessionStages
  BY DEF CalmInv
<1>1. /\ b \in Bevs /\ u \in Peers /\ phase[b] = "unused"
      /\ phase'[b] \notin {"unused", "up", "read", "off"}
      /\ UNCHANGED <<known, connectTo, isAuthed, bw, sock, held, extra, freed>>
      /\ \A k \in BevEvents, c \in Bevs : c # b => (Pending(k, c)' <=> Pending(k, c))
  BY DEF NewConnection
<1>2. /\ ~Live(b) /\ b \notin freed /\ b \notin dialled
      /\ \A w \in Wrappers : held[w] # b
      /\ b \notin ToSet(extra) /\ \A v \in Peers : bw[v] # b
      /\ \A v \in Peers : isAuthed[v] => sock[v] # b
  BY <1>1, UnusedApart
<1>3. /\ Live(b)' /\ remote'[b] = u /\ fd'[b] = "open"
      /\ \A c \in Bevs \ {b} :
            /\ phase'[c] = phase[c] /\ remote'[c] = remote[c] /\ fd'[c] = fd[c]
            /\ c \in dialled' <=> c \in dialled
            /\ Live(c)' <=> Live(c)
            /\ Session(c)' <=> Session(c)
  BY OthersStay
<1>4. EndedIsSilent'
  BY <1>1, <1>2, <1>3, <1>c DEF EndedIsSilent, Idle
<1>5. HeldRightly'
  <2>1. held \in [Wrappers -> Bevs \cup {NoBev}] /\ extra \in Seq(Bevs)
    BY DEF TypeInv, TypeOK
  <2>2. \A w \in Wrappers : Referenced(w, inbox, bw, extra) => Referenced(w, inbox', bw, extra)
    BY DEF Referenced, Queued, NewConnection
  <2>3. ASSUME NEW w \in Wrappers, held[w] # NoBev
        PROVE  /\ held[w] \in Bevs \ {b} /\ Live(held[w])
               /\ IF held[w] \in dialled THEN w = bw[remote[held[w]]] ELSE w = held[w]
               /\ Referenced(w, inbox', bw, extra)
    BY <1>2, <1>c, <2>1, <2>2, <2>3 DEF HeldRightly
  <2>4. ASSUME NEW w \in Wrappers, held[w] # NoBev
        PROVE  /\ Live(held[w])'
               /\ IF held[w] \in dialled' THEN w = bw[remote'[held[w]]] ELSE w = held[w]
    BY <1>1, <1>3, <2>3, <2>4 DEF Live
  <2>5. \A c \in ToSet(extra) : c \in Bevs \ {b}
    BY <1>2, <2>1, ElementOfSeq DEF ToSet
  <2> QED BY <1>1, <1>2, <1>3, <1>c, <2>3, <2>4, <2>5 DEF HeldRightly
<1>6. SessionStages'
  <2>1. ASSUME NEW v \in Peers, isAuthed[v]
        PROVE  /\ sock[v] \in Bevs \ {b} /\ phase'[sock[v]] = phase[sock[v]]
               /\ remote'[sock[v]] = remote[sock[v]] /\ fd'[sock[v]] = fd[sock[v]]
               /\ \A h \in {"newConnection", "connected", "refused", "auth"} :
                  BevEvent(h, sock[v]) \notin ToSet(inbox')
    <3>1. sock[v] \in Bevs \ {b} /\ \A h \in {"newConnection", "connected", "refused", "auth"} :
                                       ~Pending(h, sock[v])
      BY <1>2, <1>c, <2>1 DEF SessionStages
    <3>2. PICK s \in Bevs \ {b} : s = sock[v]
      BY <3>1
    <3>3. \A h \in {"newConnection", "connected", "refused", "auth"} : ~Pending(h, s)'
      BY <1>1, <3>1, <3>2 DEF BevEvents
    <3> QED BY <1>3, <3>2, <3>3 DEF Pending, Queued
  <2>2. ASSUME NEW c \in Bevs \ {b}, phase'[c] = "read" \/ \E h \in PacketKinds : Pending(h, c)'
        PROVE  Pending("auth", c)' \/ Session(c)'
    BY <1>1, <1>3, <1>c, <2>2 DEF SessionStages, BevEvents
  <2>3. phase'[b] # "read" /\ \A h \in PacketKinds : ~Pending(h, b)'
    BY <1>1, KindsAssumption DEF NewConnection, BevEvents
  <2> QED BY <1>1, <1>c, <2>1, <2>2, <2>3 DEF SessionStages, Live, Pending, Queued
<1> QED BY <1>4, <1>5, <1>6

\* A dial goes out to a peer that has no connection.
LEMMA ConnectToAddrCalm ==
    ASSUME TypeInv, WrapperInv, CalmInv, ConnectToAddr
    PROVE  CalmInv'
<1>c. /\ SignalsInOrder /\ DialsMarked /\ WireSound /\ OneEach /\ DialStages /\ CallStages
      /\ WindowTellsTheTruth /\ warned = {} /\ NoFault
  BY DEF CalmInv
<1>1. wire # <<>> /\ wire \in Seq(Messages) /\ IsInjective(wire) /\ wire' = Tail(wire)
  BY <1>c DEF ConnectToAddr, WireSound, TypeInv, TypeOK
<1>2. /\ ToSet(wire') \subseteq ToSet(wire) /\ IsInjective(wire')
      /\ Head(wire) \in ToSet(wire) /\ Head(wire) \notin ToSet(wire') /\ Head(wire) \in Messages
  BY <1>1, TailSet, InjectiveTail
<1>3. PICK u \in Peers : u = Head(wire).peer /\ Head(wire) = [kind |-> "connectTo", peer |-> u]
  BY <1>2 DEF ConnectToAddr, Messages
<1>4. connectTo[u] /\ \A c \in Bevs : Live(c) => remote[c] # u
  BY <1>2, <1>3, <1>c DEF WireSound, OnWire
<1>5. PICK b \in Bevs :
         /\ phase[b] = "unused"
         /\ phase' = [phase EXCEPT ![b] = "dialling"]
         /\ fd' = [fd EXCEPT ![b] = "open"]
         /\ remote' = [remote EXCEPT ![b] = u]
         /\ dialled' = dialled \cup {b}
  BY <1>3 DEF ConnectToAddr, Unused
<1>6. UNCHANGED <<known, connectTo, isAuthed, bw, sock, held, extra, shown, warned,
                  freed, inbox, fault>>
  BY DEF ConnectToAddr, tableVars
<1>7. /\ phase'[b] = "dialling"
      /\ \A k, c : Pending(k, c)' <=> Pending(k, c)
      /\ \A x : Queued(x)' <=> Queued(x)
  BY <1>5, <1>6 DEF TypeInv, TypeOK, Pending, Queued
<1>8. /\ \A k \in BevEvents : ~Pending(k, b)
      /\ \A c \in ToSet(extra) : c # b
      /\ \A v \in Peers : bw[v] # b
      /\ b \notin dialled
  BY <1>5, UnusedApart
<1>9. NewConnection(b, u)
  BY <1>4, <1>5, <1>6, <1>7, <1>8 DEF NewConnection
<1>10. /\ Live(b)' /\ phase'[b] # "unused" /\ remote'[b] = u /\ fd'[b] = "open"
       /\ \A c \in Bevs \ {b} :
             /\ phase'[c] = phase[c] /\ remote'[c] = remote[c] /\ fd'[c] = fd[c]
             /\ c \in dialled' <=> c \in dialled
             /\ Live(c)' <=> Live(c)
             /\ Calling(c)' <=> Calling(c)
             /\ Session(c)' <=> Session(c)
             /\ Live(c) => remote[c] \in Peers
  BY <1>5, <1>9, OthersStay
<1>11. EndedIsSilent' /\ HeldRightly' /\ SessionStages'
  BY <1>5, <1>9, NewConnectionCalm
<1>12. SignalsInOrder' /\ DialsMarked'
  BY <1>5, <1>6, <1>7, <1>8, <1>10, <1>c DEF SignalsInOrder, Ordered, DialsMarked, BevEvents
<1>13. OneEach' /\ ~Calling(b)'
  BY <1>4, <1>5, <1>10, <1>c DEF OneEach, Calling
<1>14. WireSound'
  <2>1. ASSUME NEW c \in Bevs, [kind |-> "addDefault", bev |-> c] \in ToSet(wire')
        PROVE  phase'[c] = "up" /\ ~Pending("connected", c)
    BY <1>2, <1>5, <1>10, <1>c, <2>1 DEF WireSound, OnWire
  <2>2. ASSUME NEW v \in Peers, [kind |-> "connectTo", peer |-> v] \in ToSet(wire')
        PROVE  connectTo[v] /\ \A c \in Bevs : Live(c)' => remote'[c] # v
    BY <1>2, <1>3, <1>10, <1>c, <2>2 DEF WireSound, OnWire
  <2> QED BY <1>2, <1>6, <1>7, <2>1, <2>2 DEF WireSound, OnWire
<1>15. DialStages'
  BY <1>4, <1>6, <1>7, <1>10, <1>c DEF DialStages
<1>16. CallStages'
  BY <1>5, <1>6, <1>7, <1>10, <1>c DEF CallStages, Queued
<1> QED BY <1>6, <1>11, <1>12, <1>13, <1>14, <1>15, <1>16, <1>c
        DEF CalmInv, WindowTellsTheTruth, NoFault

\* A peer calls that has no connection, and nobody else is waiting.
LEMMA AcceptNewCalm ==
    ASSUME TypeInv, WrapperInv, CalmInv, Calm, NEW u \in Peers, NEW b \in Bevs, AcceptNew(u, b)
    PROVE  CalmInv'
<1> DEFINE e == BevEvent("newConnection", b)
<1>c. /\ SignalsInOrder /\ DialsMarked /\ WireSound /\ HeldRightly /\ OneEach /\ DialStages
      /\ CallStages /\ WindowTellsTheTruth /\ warned = {} /\ NoFault
  BY DEF CalmInv
<1>1. /\ phase[b] = "unused"
      /\ phase' = [phase EXCEPT ![b] = "auth"]
      /\ fd' = [fd EXCEPT ![b] = "open"]
      /\ remote' = [remote EXCEPT ![b] = u]
      /\ inbox' = Append(inbox, e)
      /\ UNCHANGED <<known, connectTo, isAuthed, bw, sock, held, extra, shown, warned,
                     dialled, freed, wire, fault>>
  BY DEF AcceptNew, tableVars
<1>2. ~connectTo[u] /\ ~Queued(Attempt(u)) /\ \A c \in Bevs : Live(c) => remote[c] # u
  BY DEF AcceptNew, MayCall, Calm
<1>3. \A c \in Bevs : ~Calling(c)
  <2>1. IsFiniteSet(Callers) /\ Cardinality(Callers) \in Nat
    BY BevsAssumption, FS_Subset, FS_CardinalityType DEF Callers
  <2>2. Cardinality(Callers) = 0
    BY <2>1, BoundsAssumption DEF AcceptNew, Calm
  <2>3. Callers = {}
    BY <2>1, <2>2, FS_EmptySet
  <2> QED BY <1>c, <2>3, CallerApart DEF Callers, Calling
<1>4. /\ \A h \in BevEvents, c \in Bevs :
            Pending(h, c)' <=> Pending(h, c) \/ (h = "newConnection" /\ c = b)
      /\ \A v \in Peers : Queued(Attempt(v))' <=> Queued(Attempt(v))
      /\ \A w \in Wrappers : Queued(Send(w)) => Queued(Send(w))'
      /\ e \in Events /\ e.kind = "newConnection" /\ e.bev = b
  <2>1. /\ \A h \in BevEvents, c \in Bevs : e = BevEvent(h, c) <=> (h = "newConnection" /\ c = b)
        /\ \A v \in Peers : e # Attempt(v)
        /\ e \in Events /\ e.kind = "newConnection" /\ e.bev = b
    BY EventShapes DEF BevEvent, Attempt, BevEvents
  <2> HIDE DEF e
  <2> QED BY <1>1, <2>1, ArrivalSignals
<1>5. /\ \A k \in BevEvents : ~Pending(k, b)
      /\ held[b] = NoBev /\ \A v \in Peers : bw[v] # b
      /\ b \notin dialled
  BY <1>1, UnusedApart
<1>6. phase'[b] = "auth"
  BY <1>1 DEF TypeInv, TypeOK
<1>7. NewConnection(b, u)
  BY <1>1, <1>2, <1>4, <1>5, <1>6 DEF NewConnection
<1>8. /\ Live(b)' /\ remote'[b] = u
      /\ \A c \in Bevs \ {b} :
            /\ phase'[c] = phase[c] /\ remote'[c] = remote[c] /\ fd'[c] = fd[c]
            /\ Live(c)' <=> Live(c)
            /\ Calling(c)' <=> Calling(c)
            /\ Session(c)' <=> Session(c)
            /\ Live(c) => remote[c] \in Peers
  BY <1>1, <1>7, OthersStay
<1>9. EndedIsSilent' /\ HeldRightly' /\ SessionStages'
  BY <1>1, <1>7, NewConnectionCalm
<1>10. Ordered'
  <2> HIDE DEF e
  <2> QED BY <1>1, <1>4, <1>5, <1>c, ArrivalInOrder DEF SignalsInOrder
<1>11. SignalsInOrder' /\ DialsMarked'
  <2>1. \A k \in BevEvents : Pending(k, b)' => k \in Sent(phase'[b])
    BY <1>4, <1>5, <1>6 DEF Sent
  <2>2. SignalsInOrder'
    BY <1>4, <1>8, <1>10, <1>c, <2>1 DEF SignalsInOrder
  <2>3. DialsMarked'
    BY <1>1, <1>4, <1>5, <1>6, <1>8, <1>c DEF DialsMarked, BevEvents
  <2> QED BY <2>2, <2>3
<1>12. OneEach'
  BY <1>2, <1>3, <1>8, <1>c DEF OneEach
<1>13. WireSound'
  <2>1. ASSUME NEW c \in Bevs, OnWire([kind |-> "addDefault", bev |-> c])
        PROVE  phase'[c] = "up" /\ ~Pending("connected", c)'
    BY <1>1, <1>4, <1>8, <1>c, <2>1 DEF WireSound, BevEvents
  <2>2. ASSUME NEW v \in Peers, OnWire([kind |-> "connectTo", peer |-> v])
        PROVE  connectTo[v] /\ \A c \in Bevs : Live(c)' => remote'[c] # v
    BY <1>2, <1>8, <1>c, <2>2 DEF WireSound
  <2> QED BY <1>1, <1>c, <2>1, <2>2 DEF WireSound, OnWire
<1>14. DialStages'
  BY <1>1, <1>4, <1>5, <1>8, <1>c DEF DialStages, BevEvents
<1>15. CallStages'
  <2>1. Calling(b)'
    BY <1>1, <1>5, <1>8 DEF Calling
  <2>2. ~Queued(Attempt(u))' /\ Pending("newConnection", b)'
    BY <1>2, <1>4 DEF BevEvents
  <2>3. ~Queued(Attempt(remote[b]))'
    BY <1>8, <2>2 DEF Queued
  <2>4. ASSUME NEW c \in Bevs \ {b}, Live(c), c \notin dialled
        PROVE  held[c] = c /\ Session(c)' /\ ~Calling(c)'
    BY <1>3, <1>8, <1>c, <2>4 DEF CallStages
  <2> QED BY <1>1, <1>2, <1>5, <1>8, <2>1, <2>2, <2>3, <2>4 DEF CallStages, Queued
<1> QED BY <1>1, <1>9, <1>11, <1>12, <1>13, <1>14, <1>15, <1>c
        DEF CalmInv, WindowTellsTheTruth, NoFault

\* Every step of the server thread and of the world keeps the calm.
LEMMA ServerCalm ==
    ASSUME TypeInv, WrapperInv, CalmInv, Calm, Server \/ World
    PROVE  CalmInv'
<1>1. CASE InternalComms
  BY <1>1, ConnectToAddrCalm, AddDefaultBevCalm DEF InternalComms
<1>2. ASSUME NEW b \in Bevs, ConnectCB(b) \/ TcpAuth(b) \/ TcpErr(b) \/ TcpRead(b)
      PROVE  CalmInv'
  <2>1. {"connected", "refused", "auth", "quit"} \cup PacketKinds \subseteq BevEvents
    BY DEF BevEvents
  <2>2. CASE ConnectCB(b)
    BY <2>1, <2>2, CallbackCalm DEF ConnectCB
  <2>3. CASE TcpAuth(b)
    BY <2>1, <2>3, CallbackCalm DEF TcpAuth
  <2>4. CASE TcpErr(b)
    BY <2>1, <2>4, CallbackCalm DEF TcpErr
  <2>5. CASE TcpRead(b)
    BY <2>1, <2>5, CallbackCalm DEF TcpRead, Readable
  <2> QED BY <1>2, <2>2, <2>3, <2>4, <2>5
<1> QED BY <1>1, <1>2, AcceptNewCalm, RequestCalm DEF Server, World

-------------------------------------------------------------------------------
(***************************************************************************)
(* The theorems of the calm, and what follows from its invariant.          *)
(***************************************************************************)

\* In every behaviour in which the connections of a peer do not overlap and
\* one caller waits at a time, the stage of each connection, its wrapper, its
\* signals and the entry of its peer agree.
THEOREM CalmInvariant == ASSUME Calm PROVE Spec => []CalmInv
<1>1. Init => CalmInv
  <2> SUFFICES ASSUME Init PROVE CalmInv
    OBVIOUS
  <2> USE DEF Init
  <2>1. ToSet(inbox) = {} /\ ToSet(wire) = {} /\ ToSet(extra) = {}
    BY DEF ToSet
  <2>2. \A k, b : ~Pending(k, b)
    BY <2>1 DEF Pending, Queued
  <2>3. SignalsInOrder /\ DialsMarked /\ WireSound
    BY <2>1, <2>2 DEF SignalsInOrder, Ordered, DialsMarked, WireSound, OnWire, IsInjective
  <2>4. EndedIsSilent
    BY <2>2 DEF EndedIsSilent, Idle
  <2>5. HeldRightly
    BY <2>1, PeersAssumption, BevsAssumption DEF HeldRightly, Wrappers
  <2>6. \A b \in Bevs : ~Live(b) /\ ~Calling(b)
    BY DEF Live, Calling
  <2>7. OneEach /\ DialStages /\ CallStages
    BY <2>6 DEF OneEach, DialStages, CallStages
  <2>8. SessionStages
    BY <2>2 DEF SessionStages
  <2> QED BY <2>3, <2>4, <2>5, <2>7, <2>8 DEF CalmInv, WindowTellsTheTruth, NoFault
<1>2. ASSUME TypeInv, WrapperInv, AuthedHasSocket, CalmInv, [Next]_vars PROVE CalmInv'
  <2>1. CASE Worker
    BY <1>2, <2>1, WorkerCalm
  <2>2. CASE Server \/ World
    BY <1>2, <2>2, ServerCalm
  <2>3. CASE UNCHANGED vars
    BY <1>2, <2>3 DEF vars, tableVars, netVars, CalmInv, SignalsInOrder, Ordered, DialsMarked,
       EndedIsSilent, WireSound, HeldRightly, OneEach, DialStages, CallStages, SessionStages,
       WindowTellsTheTruth, NoFault, Pending, Queued, Idle, Live, Calling, Session, OnWire,
       Referenced
  <2> QED BY <1>2, <2>1, <2>2, <2>3 DEF Next
<1> QED BY <1>1, <1>2, TypeInvariant, WrapperInvariant, AuthedEntriesHaveSockets, PTL DEF Spec

\* No bufferevent is used or freed after it has been freed, each is held by
\* one wrapper at most, and none that exists is forgotten (extraBevs, the
\* wrappers of peersHash, ~BevWrapper).
THEOREM OwnershipIsExact == ASSUME Calm PROVE Spec => []OwnershipExact
<1>1. TypeInv /\ CalmInv => OwnershipExact
  <2> SUFFICES ASSUME TypeInv, CalmInv PROVE OwnershipExact
    OBVIOUS
  <2>c. HeldRightly /\ DialStages /\ CallStages /\ NoFault
    BY DEF CalmInv
  <2>1. ASSUME NEW b \in Bevs PROVE Cardinality({w \in Wrappers : held[w] = b}) <= 1
    <3> DEFINE S == {w \in Wrappers : held[w] = b}
    <3>1. \A w \in S, x \in S : w = x
      BY <2>c, BevsAssumption DEF HeldRightly
    <3>2. CASE S = {}
      BY <3>2, FS_EmptySet
    <3>3. CASE S # {}
      <4>1. PICK w : w \in S
        BY <3>3
      <4>2. S = {w}
        BY <3>1, <4>1
      <4>3. Cardinality(S) = 1
        BY <4>2, FS_Singleton
      <4> QED BY <4>3
    <3> QED BY <3>2, <3>3
  <2>2. ASSUME NEW b \in Bevs, Live(b), phase[b] # "dialling"
        PROVE  \/ \E w \in Wrappers : held[w] = b /\ Referenced(w, inbox, bw, extra)
               \/ \E k \in {"newConnection", "connected", "refused"} : Queued(BevEvent(k, b))
    <3>1. remote[b] \in Peers /\ bw[remote[b]] \in Wrappers /\ b \in Wrappers /\ b # NoBev
      BY <2>2, BevsAssumption DEF Live, TypeInv, TypeOK, Reached, Wrappers
    <3>2. \A w \in Wrappers : held[w] = b => Referenced(w, inbox, bw, extra)
      BY <2>c, <3>1 DEF HeldRightly
    <3>3. CASE b \in dialled
      BY <2>2, <2>c, <3>1, <3>2, <3>3 DEF DialStages, Pending
    <3>4. CASE b \notin dialled
      BY <2>2, <2>c, <3>1, <3>2, <3>4 DEF CallStages, Pending
    <3> QED BY <3>3, <3>4
  <2> QED BY <2>c, <2>1, <2>2 DEF OwnershipExact, OneWrapperPerBev, NoOrphan
<1> QED BY <1>1, TypeInvariant, CalmInvariant, PTL

\* An authenticated entry is the session with that very peer, over what is
\* still open, and nobody honest is accused of spoofing (msgHandler).
THEOREM SessionsAreSound == ASSUME Calm PROVE Spec => []SessionSound
<1>1. CalmInv => SessionSound
  BY DEF CalmInv, SessionStages, SessionSound, Live
<1> QED BY <1>1, CalmInvariant, PTL

\* Descriptors are closed once, and with its bufferevent the one of every
\* accepted connection (peerQuit).
THEOREM DescriptorsAreClosedOnce == ASSUME Calm PROVE Spec => []DescriptorsClosedOnce
<1>1. CalmInv => DescriptorsClosedOnce
  BY DEF CalmInv, EndedIsSilent, DescriptorsClosedOnce
<1> QED BY <1>1, CalmInvariant, PTL

\* The window shows a peer as connected when and only when the table says so
\* (connectionStatusChange, authHandler, peerQuit).
THEOREM TheWindowTellsTheTruth == ASSUME Calm PROVE Spec => []WindowTellsTheTruth
<1>1. CalmInv => WindowTellsTheTruth
  BY DEF CalmInv
<1> QED BY <1>1, CalmInvariant, PTL

\* What peerQuit does is done for the connection it was sent for.
LEMMA PeerQuitOwn ==
    ASSUME TypeInv, WrapperInv, AuthedHasSocket, CalmInv, PeerQuit
    PROVE  \E b \in Bevs :
              /\ Head(inbox) = BevEvent("quit", b) /\ inbox # <<>>
              /\ \A u \in Peers : isAuthed[u] /\ ~isAuthed'[u] => sock[u] = b
<1>1. PICK b \in Bevs : /\ Head(inbox) = BevEvent("quit", b)
                        /\ GivenUp(b) \/ \E u \in Peers : LetGo(b, u)
  BY PeerQuitHolderEffect, PeerQuitOtherEffect
<1>2. \A u \in Peers : isAuthed[u] /\ ~isAuthed'[u] => sock[u] = b
  BY <1>1 DEF GivenUp, LetGo, Deauthed, TypeInv, TypeOK
<1>3. inbox # <<>>
  BY DEF PeerQuit, Handling
<1> QED BY <1>1, <1>2, <1>3

\* A session ends only by the end of its own connection.
THEOREM SessionsEndByThemselves == ASSUME Calm PROVE Spec => SessionsEndByTheirOwnQuit
<1>1. ASSUME TypeInv, WrapperInv, AuthedHasSocket, CalmInv, [Next]_vars,
             NEW u \in Peers, isAuthed[u], ~isAuthed'[u]
      PROVE  inbox # <<>> /\ Head(inbox) = BevEvent("quit", sock[u])
  <2>1. CASE PeerQuit
    BY <1>1, <2>1, PeerQuitOwn
  <2>2. CASE AuthHandler
    <3>1. PICK v \in Peers, b \in Bevs : Authenticate(v, v, b)
      <4>1. AuthAdopting
        BY <1>1, <2>2, NothingReplaced DEF AuthHandler
      <4>2. "auth" \in BevEvents /\ Handling("auth")
        BY <4>1 DEF AuthAdopting, BevEvents
      <4> QED BY <1>1, <4>1, <4>2, HeadBev DEF AuthAdopting
    <3> QED BY <1>1, <3>1 DEF Authenticate, Deauthed, TypeInv, TypeOK
  <2>3. CASE ConnectionFailed
    <3>1. /\ "refused" \in BevEvents /\ Handling("refused")
          /\ isAuthed' = Deauthed(isAuthed, remote[Head(inbox).bev])
      BY <2>3 DEF ConnectionFailed, BevEvents
    <3>2. PICK b \in Bevs, v \in Peers :
            b = Head(inbox).bev /\ v = remote[b] /\ Live(b) /\ Pending("refused", b)
      BY <1>1, <3>1, HeadIsHeard
    <3>3. ~isAuthed[v]
      BY <1>1, <3>2, DialApart
    <3> QED BY <1>1, <3>1, <3>2, <3>3 DEF Deauthed, TypeInv, TypeOK
  <2>4. CASE UNCHANGED isAuthed
    BY <1>1, <2>4
  <2>5. CASE NewAcceptedConnection \/ AttemptConnection \/ ConnectionSucceeded
             \/ SendMsg \/ MsgHandler \/ NameHandler \/ SyncRequestHandler
    BY <2>4, <2>5 DEF NewAcceptedConnection, AttemptConnection, ConnectionSucceeded,
       SendMsg, MsgHandler, NameHandler, SyncRequestHandler
  <2>6. CASE Server \/ World \/ UNCHANGED vars
    BY <2>4, <2>6 DEF Server, World, InternalComms, ConnectToAddr, AddDefaultBev, ConnectCB,
       TcpAuth, TcpErr, TcpRead, Callback, AcceptNew, UdpReceive, SendMsgAccessor, vars, tableVars
  <2> QED BY <1>1, <2>1, <2>2, <2>3, <2>5, <2>6 DEF Next, Worker, ResultOfConnectionAttempt
<1>2. TypeInv /\ WrapperInv /\ AuthedHasSocket /\ CalmInv /\ [Next]_vars
         => [\A u \in Peers : isAuthed[u] /\ ~isAuthed'[u]
                  => inbox # <<>> /\ Head(inbox) = BevEvent("quit", sock[u])]_vars
  BY <1>1
<1> QED BY <1>2, TypeInvariant, WrapperInvariant, AuthedEntriesHaveSockets, CalmInvariant, PTL
        DEF Spec, SessionsEndByTheirOwnQuit

-------------------------------------------------------------------------------
(***************************************************************************)
(* Whoever is marked has a connection under way, and of each connection    *)
(* the worker has yet to hear.                                             *)
(***************************************************************************)
\* A peer marked as not to dial is being dialled or has a connection.
MarkedHaveOne ==
    \A u \in Peers : connectTo[u] =>
        \/ OnWire([kind |-> "connectTo", peer |-> u])
        \/ \E b \in Bevs : Live(b) /\ remote[b] = u

\* What has happened to a connection is told to who has to know; of a caller
\* that has been given up there is nothing left to tell.
ToldOfUp(b) ==
    phase[b] = "up" => Pending("connected", b) \/ OnWire([kind |-> "addDefault", bev |-> b])
ToldOfEnd(b) ==
    Live(b) /\ phase[b] = "off" =>
        Pending("refused", b) \/ Pending("quit", b) \/ (Calling(b) /\ Idle(b))
NewsToCome == \A b \in Bevs : ToldOfUp(b) /\ ToldOfEnd(b)

\* A handler that leaves the entries their wrappers frees what it says, or a
\* caller.
LEMMA FreedByHandler ==
    ASSUME TypeInv, HeldRightly, NEW q, NEW ex, NEW hs, NEW gone, Settle(q, bw, ex, hs, gone),
           \A w \in Wrappers :
              \/ hs[w] \in {NoBev, held[w]}
              \/ w \in ToSet(ex) \/ \E u \in Peers : w = bw[u],
           NEW b \in Bevs, Live(b), b \in freed'
    PROVE  b \in gone \/ Calling(b)
<1>1. CASE b \in gone
  BY <1>1
<1>2. CASE b \notin gone
  <2>1. PICK w \in Doomed(q, bw, ex, hs) : hs[w] = b
    BY <1>2 DEF Settle, Live
  <2>2. /\ w \in Wrappers /\ w \notin ToSet(ex) /\ \A u \in Peers : bw[u] # w
    BY <2>1 DEF Doomed, Referenced
  <2>3. held[w] = b /\ b # NoBev /\ remote[b] \in Peers
    BY <2>1, <2>2, BevsAssumption DEF Live, TypeInv, Reached
  <2>4. b \notin dialled /\ w = b
    BY <2>2, <2>3 DEF HeldRightly
  <2> QED BY <2>2, <2>3, <2>4 DEF Calling
<1> QED BY <1>1, <1>2

\* Who loses a connection in a handler may be dialled again.
LEMMA FreedMayBeDialled ==
    ASSUME TypeInv, WrapperInv, AuthedHasSocket, CalmInv, NoFault', Worker,
           NEW b \in Bevs, Live(b), b \in freed', connectTo[remote[b]]
    PROVE  ~connectTo'[remote[b]]
<1>c. HeldRightly /\ CallStages
  BY DEF CalmInv
<1>1. ~Calling(b)
  BY <1>c DEF CallStages, Calling
<1>t. /\ bw \in [Peers -> Wrappers] /\ held \in [Wrappers -> Bevs \cup {NoBev}]
      /\ extra \in Seq(Bevs) /\ connectTo \in [Peers -> BOOLEAN] /\ remote[b] \in Peers
  BY DEF TypeInv, TypeOK, Live, Reached
<1>2. CASE NewAcceptedConnection
  <2>1. PICK c \in Bevs : /\ Settle(Append(Rest, Send(c)), bw, Append(extra, c), [held EXCEPT ![c] = c], {})
                          /\ c \in Wrappers
    BY <1>2, HeadBev DEF NewAcceptedConnection, BevEvents, Wrappers
  <2>2. \A w \in Wrappers : [held EXCEPT ![c] = c][w] \in {NoBev, held[w]} \/ w \in ToSet(Append(extra, c))
    BY <1>t, <2>1, AppendSet
  <2> DEFINE hs == [held EXCEPT ![c] = c]
             ex == Append(extra, c)
             q  == Append(Rest, Send(c))
  <2>3. /\ Settle(q, bw, ex, hs, {})
        /\ \A w \in Wrappers : hs[w] \in {NoBev, held[w]} \/ w \in ToSet(ex)
    BY <2>1, <2>2
  <2> HIDE DEF hs, ex, q
  <2> QED BY <1>1, <1>c, <2>3, FreedByHandler
<1>3. CASE AuthHandler
  <2>1. freed' = freed
    BY <1>3, NothingReplaced, AuthAdoptingEffect DEF AuthHandler
  <2> QED BY <2>1 DEF Live
<1>4. CASE PeerQuit
  <2>1. PICK c \in Bevs : GivenUp(c) \/ \E u \in Peers : LetGo(c, u)
    BY <1>4, PeerQuitHolderEffect, PeerQuitOtherEffect
  <2>2. c = b
    BY <2>1 DEF GivenUp, LetGo, Live
  <2> QED BY <1>1, <1>t, <2>1, <2>2 DEF GivenUp, LetGo, Redialable
<1>5. CASE AttemptConnection \/ SendMsg \/ MsgHandler \/ NameHandler \/ SyncRequestHandler
  <2>1. \/ \E q : Settle(q, bw, extra, held, {})
        \/ freed' = freed
    BY <1>5 DEF AttemptConnection, SendMsg, MsgHandler, NameHandler, SyncRequestHandler
  <2>2. CASE freed' = freed
    BY <2>2 DEF Live
  <2>3. ASSUME NEW q, Settle(q, bw, extra, held, {}) PROVE FALSE
    BY <1>1, <1>c, <2>3, FreedByHandler
  <2> QED BY <2>1, <2>2, <2>3
<1>6. CASE ConnectionSucceeded
  <2>1. PICK c \in Bevs, u \in Peers : c = Head(inbox).bev /\ u = remote[c] /\ Live(c) /\ Pending("connected", c)
    BY <1>6, HeadIsHeard DEF ConnectionSucceeded, BevEvents
  <2>2. held[bw[u]] \in {NoBev, c}
    BY <2>1, DialApart
  <2>3. Settle(Append(Rest, Send(bw[u])), bw, extra, [held EXCEPT ![bw[u]] = c],
               {held[bw[u]]} \ {NoBev, c})
    BY <1>6, <2>1 DEF ConnectionSucceeded
  <2> DEFINE hs == [held EXCEPT ![bw[u]] = c]
             q  == Append(Rest, Send(bw[u]))
             gone == {held[bw[u]]} \ {NoBev, c}
  <2>4. /\ Settle(q, bw, extra, hs, gone) /\ gone = {}
        /\ \A w \in Wrappers : hs[w] \in {NoBev, held[w]} \/ w = bw[u]
    BY <1>t, <2>2, <2>3
  <2> HIDE DEF hs, q, gone
  <2> QED BY <1>1, <1>c, <2>4, FreedByHandler
<1>7. CASE ConnectionFailed
  <2> DEFINE c == Head(inbox).bev
             u == remote[c]
             hs == Emptied(held, bw[u])
             gone == {c}
             q == Rest
  <2>1. Settle(q, bw, extra, hs, gone) /\ connectTo' = Redialable(connectTo, u)
    BY <1>7 DEF ConnectionFailed
  <2>2. \A w \in Wrappers : hs[w] \in {NoBev, held[w]}
    BY <1>t DEF Emptied
  <2> HIDE DEF hs, q, gone
  <2>3. b \in gone
    BY <1>1, <1>c, <2>1, <2>2, FreedByHandler
  <2> QED BY <1>t, <2>1, <2>3 DEF gone, Redialable
<1> QED BY <1>2, <1>3, <1>4, <1>5, <1>6, <1>7 DEF Worker, ResultOfConnectionAttempt

\* A handler marks a peer together with its dial or its connection.
LEMMA MarkedByWorker ==
    ASSUME TypeInv, WrapperInv, AuthedHasSocket, CalmInv, NoFault', MarkedHaveOne, Worker
    PROVE  MarkedHaveOne'
<1>1. HandlerStep
  BY WorkerType
<1>2. ToSet(wire) \subseteq ToSet(wire') /\ remote' = remote /\ phase' = phase
  <2>1. CASE wire' = wire
    BY <1>1, <2>1 DEF HandlerStep
  <2>2. CASE \E m \in Messages : wire' = Append(wire, m)
    BY <1>1, <2>2, AppendSet DEF HandlerStep, TypeInv, TypeOK
  <2> QED BY <1>1, <2>1, <2>2 DEF HandlerStep, WireOutcome
<1>3. SUFFICES ASSUME NEW u \in Peers, connectTo'[u]
               PROVE  \/ [kind |-> "connectTo", peer |-> u] \in ToSet(wire')
                      \/ \E b \in Bevs : Live(b)' /\ remote[b] = u
  BY <1>2 DEF MarkedHaveOne, OnWire
<1>4. CASE connectTo[u]
  <2>1. CASE [kind |-> "connectTo", peer |-> u] \in ToSet(wire)
    BY <1>2, <2>1
  <2>2. ASSUME NEW b \in Bevs, Live(b), remote[b] = u
        PROVE  Live(b)'
    BY <1>2, <1>3, <1>4, <2>2, FreedMayBeDialled DEF Live
  <2> QED BY <1>4, <2>1, <2>2 DEF MarkedHaveOne, OnWire
<1>5. CASE ~connectTo[u]
  <2>1. CASE AttemptConnection
    <3>1. wire' = Append(wire, [kind |-> "connectTo", peer |-> u])
      BY <1>3, <1>5, <2>1 DEF AttemptConnection, TypeInv, TypeOK
    <3>2. [kind |-> "connectTo", peer |-> u] \in Messages /\ wire \in Seq(Messages)
      BY DEF Messages, TypeInv, TypeOK
    <3> QED BY <3>1, <3>2, AppendSet
  <2>2. CASE AuthHandler
    <3>1. AuthAdopting
      BY <2>2, NothingReplaced DEF AuthHandler
    <3>2. PICK b \in Bevs : b = Head(inbox).bev /\ Live(b) /\ remote[b] \in Peers
      BY <3>1, HeadIsHeard DEF AuthAdopting, BevEvents
    <3>3. freed' = freed /\ Authenticate(remote[b], remote[b], b)
      BY <3>1, <3>2, AuthAdoptingEffect DEF AuthAdopting
    <3>4. u = remote[b]
      BY <1>3, <1>5, <3>2, <3>3 DEF Authenticate, Redialable, TypeInv, TypeOK
    <3> QED BY <1>2, <3>2, <3>3, <3>4 DEF Live
  <2>3. CASE \E v \in Peers : connectTo' = Redialable(connectTo, v)
    BY <1>3, <1>5, <2>3 DEF Redialable, TypeInv, TypeOK
  <2>4. CASE connectTo' = connectTo
    BY <1>3, <1>5, <2>4
  <2>5. CASE ConnectionFailed
    <3>1. remote[Head(inbox).bev] \in Peers
      BY <2>5, HeadBev DEF ConnectionFailed, BevEvents
    <3> QED BY <2>3, <2>5, <3>1 DEF ConnectionFailed
  <2>6. CASE PeerQuit
    BY <2>3, <2>4, <2>6 DEF PeerQuit, Holders, TypeInv, TypeOK
  <2> QED BY <2>1, <2>2, <2>4, <2>5, <2>6
          DEF Worker, ResultOfConnectionAttempt, NewAcceptedConnection, ConnectionSucceeded,
              SendMsg, MsgHandler, NameHandler, SyncRequestHandler
<1> QED BY <1>4, <1>5

\* Which handler takes the news of a connection.
LEMMA WhoHears ==
    ASSUME Worker, NEW b \in Bevs
    PROVE  /\ Head(inbox) = BevEvent("connected", b) => ConnectionSucceeded
           /\ Head(inbox) = BevEvent("refused", b) => ConnectionFailed
           /\ Head(inbox) = BevEvent("quit", b) => PeerQuit
<1>1. NewAcceptedConnection => Head(inbox).kind = "newConnection"
  BY DEF NewAcceptedConnection, Handling
<1>2. AuthHandler => Head(inbox).kind = "auth"
  BY DEF AuthHandler, AuthReplacing, AuthAdopting, Handling
<1>3. PeerQuit => Head(inbox).kind = "quit"
  BY DEF PeerQuit, Handling
<1>4. AttemptConnection => Head(inbox).kind = "attempt"
  BY DEF AttemptConnection, Handling
<1>5. ConnectionSucceeded => Head(inbox).kind = "connected"
  BY DEF ConnectionSucceeded, Handling
<1>6. ConnectionFailed => Head(inbox).kind = "refused"
  BY DEF ConnectionFailed, Handling
<1>7. SendMsg => Head(inbox).kind = "send"
  BY DEF SendMsg, Handling
<1>8. MsgHandler => Head(inbox).kind = "text"
  BY DEF MsgHandler, Handling
<1>9. NameHandler => Head(inbox).kind = "name"
  BY DEF NameHandler, Handling
<1>10. SyncRequestHandler => Head(inbox).kind = "syncRequest"
  BY DEF SyncRequestHandler, Handling
<1>11. \A k : Head(inbox) = BevEvent(k, b) => Head(inbox).kind = k
  BY DEF BevEvent
<1> QED BY <1>1, <1>2, <1>3, <1>4, <1>5, <1>6, <1>7, <1>8, <1>9, <1>10, <1>11
        DEF Worker, ResultOfConnectionAttempt

\* No handler but the one of an authentication changes the wrapper of an entry.
LEMMA EntriesKeepWrappers ==
    ASSUME Worker, ~AuthHandler
    PROVE  UNCHANGED bw
<1>1. NewAcceptedConnection => bw' = bw
  BY DEF NewAcceptedConnection, Settle
<1>3. PeerQuit => bw' = bw
  BY DEF PeerQuit, Settle
<1>4. AttemptConnection => bw' = bw
  BY DEF AttemptConnection, Settle
<1>5. ConnectionSucceeded => bw' = bw
  BY DEF ConnectionSucceeded, Settle
<1>6. ConnectionFailed => bw' = bw
  BY DEF ConnectionFailed, Settle
<1>7. SendMsg => bw' = bw
  BY DEF SendMsg, Settle
<1>8. MsgHandler => bw' = bw
  BY DEF MsgHandler, Settle
<1>9. NameHandler => bw' = bw
  BY DEF NameHandler, Settle
<1>10. SyncRequestHandler => bw' = bw
  BY DEF SyncRequestHandler, Settle
<1> QED BY <1>1, <1>3, <1>4, <1>5, <1>6, <1>7, <1>8, <1>9, <1>10
        DEF Worker, ResultOfConnectionAttempt

\* What has been freed stays freed.
LEMMA FreedGrows == ASSUME Worker PROVE freed \subseteq freed'
<1>0. \A q, ws, ex, hs, gone : Settle(q, ws, ex, hs, gone) => freed \subseteq freed'
  BY DEF Settle
<1>1. NewAcceptedConnection => freed \subseteq freed'
  BY <1>0 DEF NewAcceptedConnection
<1>2. AuthReplacing => freed \subseteq freed'
  BY <1>0 DEF AuthReplacing
<1>11. AuthAdopting => freed \subseteq freed'
  BY <1>0 DEF AuthAdopting
<1>3. PeerQuit => freed \subseteq freed'
  BY <1>0 DEF PeerQuit
<1>4. AttemptConnection => freed \subseteq freed'
  BY <1>0 DEF AttemptConnection
<1>5. ConnectionSucceeded => freed \subseteq freed'
  BY <1>0 DEF ConnectionSucceeded
<1>6. ConnectionFailed => freed \subseteq freed'
  BY <1>0 DEF ConnectionFailed
<1>7. SendMsg => freed \subseteq freed'
  BY <1>0 DEF SendMsg
<1>8. MsgHandler => freed \subseteq freed'
  BY <1>0 DEF MsgHandler
<1>9. NameHandler => freed \subseteq freed'
  BY <1>0 DEF NameHandler
<1>10. SyncRequestHandler => freed \subseteq freed'
  BY <1>0 DEF SyncRequestHandler
<1> QED BY <1>1, <1>2, <1>3, <1>4, <1>5, <1>6, <1>7, <1>8, <1>9, <1>10, <1>11
        DEF Worker, ResultOfConnectionAttempt, AuthHandler

\* A handler that hears of a connection tells the next who has to know.
LEMMA NewsByWorker ==
    ASSUME TypeInv, WrapperInv, AuthedHasSocket, CalmInv, NewsToCome, Worker
    PROVE  NewsToCome'
<1>c. SignalsInOrder /\ OneEach
  BY DEF CalmInv
<1>1. HandlerStep /\ phase' = phase /\ remote' = remote /\ dialled' = dialled
  BY WorkerType DEF HandlerStep
<1>2. /\ \A k \in BevEvents, c \in Bevs :
            /\ Pending(k, c)' => Pending(k, c)
            /\ Pending(k, c) => Pending(k, c)' \/ Head(inbox) = BevEvent(k, c)
      /\ \A h, k \in BevEvents, c \in Bevs :
            Head(inbox) = BevEvent(h, c) /\ Pending(k, c)' => Before(h, k)
      /\ {"connected", "refused", "quit", "auth"} \subseteq BevEvents
  BY <1>1, <1>c, HandlerSignals DEF SignalsInOrder, BevEvents
<1>3. ToSet(wire) \subseteq ToSet(wire')
  <2>1. CASE wire' = wire
    BY <2>1
  <2>2. CASE \E m \in Messages : wire' = Append(wire, m)
    BY <2>2, AppendSet DEF TypeInv, TypeOK
  <2> QED BY <1>1, <2>1, <2>2 DEF HandlerStep, WireOutcome
<1>4. ASSUME NEW b \in Bevs
      PROVE  ToldOfUp(b)'
  <2>0. SUFFICES ASSUME phase[b] = "up"
                 PROVE  Pending("connected", b)' \/ OnWire([kind |-> "addDefault", bev |-> b])'
    BY <1>1 DEF ToldOfUp
  <2>1. CASE OnWire([kind |-> "addDefault", bev |-> b]) \/ Pending("connected", b)'
    BY <1>3, <2>1 DEF OnWire
  <2>2. CASE Head(inbox) = BevEvent("connected", b)
    <3>1. ConnectionSucceeded
      BY <2>2, WhoHears
    <3>2. wire' = Append(wire, [kind |-> "addDefault", bev |-> b])
      BY <2>2, <3>1 DEF ConnectionSucceeded, BevEvent
    <3>3. [kind |-> "addDefault", bev |-> b] \in Messages /\ wire \in Seq(Messages)
      BY DEF Messages, TypeInv, TypeOK
    <3> QED BY <3>2, <3>3, AppendSet DEF OnWire
  <2>3. Pending("connected", b) \/ OnWire([kind |-> "addDefault", bev |-> b])
    BY <2>0 DEF NewsToCome, ToldOfUp
  <2> QED BY <1>2, <2>1, <2>2, <2>3
<1>5. ASSUME NEW b \in Bevs
      PROVE  ToldOfEnd(b)'
  <2>0. SUFFICES ASSUME Live(b)', phase[b] = "off"
                 PROVE  \/ Pending("refused", b)' \/ Pending("quit", b)'
                        \/ (Calling(b)' /\ Idle(b)')
    BY <1>1 DEF ToldOfEnd
  <2>1. Live(b)
    BY <1>1, <2>0, FreedGrows DEF Live
  <2>2. CASE Pending("refused", b)' \/ Pending("quit", b)'
    BY <2>2
  <2>3. CASE Head(inbox) = BevEvent("refused", b)
    <3>1. ConnectionFailed
      BY <2>3, WhoHears
    <3>2. b \in freed'
      BY <2>3, <3>1 DEF ConnectionFailed, Settle, BevEvent
    <3> QED BY <2>0, <3>2 DEF Live
  <2>4. CASE Head(inbox) = BevEvent("quit", b)
    <3>1. PeerQuit
      BY <2>4, WhoHears
    <3>2. PICK c \in Bevs : /\ Head(inbox) = BevEvent("quit", c)
                            /\ GivenUp(c) \/ \E u \in Peers : LetGo(c, u)
      BY <3>1, PeerQuitHolderEffect, PeerQuitOtherEffect
    <3>3. c = b
      BY <2>4, <3>2 DEF BevEvent
    <3>4. Calling(b) /\ bw' = bw
      BY <2>0, <3>2, <3>3 DEF LetGo, GivenUp, Live
    <3>5. Calling(b)'
      BY <1>1, <2>0, <3>4 DEF Calling
    <3>6. \A k \in BevEvents : ~Before("quit", k)
      BY KindsAssumption DEF Before
    <3> QED BY <1>2, <2>4, <3>5, <3>6 DEF Idle
  <2>5. CASE Calling(b) /\ Idle(b)
    <3>1. Idle(b)'
      BY <1>2, <2>5 DEF Idle
    <3>2. CASE bw' = bw
      BY <1>1, <2>0, <2>5, <3>1, <3>2 DEF Calling
    <3>3. CASE AuthHandler
      <4>1. AuthAdopting
        BY <3>3, NothingReplaced DEF AuthHandler
      <4>2. PICK c \in Bevs : c = Head(inbox).bev /\ Live(c) /\ Pending("auth", c)
        BY <4>1, HeadIsHeard DEF AuthAdopting, BevEvents
      <4>3. c # b
        BY <1>2, <2>5, <4>2 DEF Idle
      <4>4. remote[b] # remote[c] /\ remote[b] \in Peers
        BY <1>c, <2>1, <4>2, <4>3 DEF OneEach, Live, TypeInv, Reached
      <4>5. bw'[remote[b]] = bw[remote[b]]
        BY <4>1, <4>2, <4>4, AuthAdoptingEffect
      <4> QED BY <1>1, <2>0, <2>5, <3>1, <4>5 DEF Calling
    <3>4. AuthHandler \/ UNCHANGED bw
      BY EntriesKeepWrappers
    <3> QED BY <3>2, <3>3, <3>4
  <2>6. Pending("refused", b) \/ Pending("quit", b) \/ (Calling(b) /\ Idle(b))
    BY <2>0, <2>1 DEF NewsToCome, ToldOfEnd
  <2> QED BY <1>2, <2>2, <2>3, <2>4, <2>5, <2>6
<1> QED BY <1>4, <1>5 DEF NewsToCome

\* A callback tells the worker what has become of its connection.
LEMMA UnderwayByServer ==
    ASSUME TypeInv, WrapperInv, CalmInv, MarkedHaveOne, NewsToCome, Server \/ World
    PROVE  MarkedHaveOne' /\ NewsToCome'
<1>c. SignalsInOrder /\ WireSound
  BY DEF CalmInv
<1>t. /\ phase \in [Bevs -> Phases] /\ remote \in [Bevs -> Peers \cup {NoPeer}]
      /\ wire \in Seq(Messages) /\ {"connected", "refused", "quit"} \subseteq BevEvents
  BY DEF TypeInv, TypeOK, BevEvents
<1>1. CASE ConnectToAddr
  <2>1. PICK b \in Bevs : /\ phase[b] = "unused" /\ phase' = [phase EXCEPT ![b] = "dialling"]
                          /\ remote' = [remote EXCEPT ![b] = Head(wire).peer]
                          /\ dialled' = dialled \cup {b}
    BY <1>1 DEF ConnectToAddr, Unused
  <2>2. /\ wire # <<>> /\ Head(wire).kind = "connectTo" /\ wire' = Tail(wire)
        /\ UNCHANGED <<connectTo, bw, freed, inbox>>
    BY <1>1 DEF ConnectToAddr, tableVars
  <2>3. /\ ToSet(wire) \subseteq {Head(wire)} \cup ToSet(wire') /\ ToSet(wire') \subseteq ToSet(wire)
    BY <1>t, <2>2, TailSet
  <2>4. b \notin freed /\ Live(b)'
    BY <1>t, <2>1, <2>2, UnusedApart DEF Live
  <2>5. \A c \in Bevs \ {b} : /\ phase'[c] = phase[c] /\ remote'[c] = remote[c]
                              /\ (Live(c)' <=> Live(c)) /\ (Calling(c)' <=> Calling(c))
                              /\ \A k : Pending(k, c)' <=> Pending(k, c)
    BY <1>t, <2>1, <2>2 DEF Live, Calling, Pending, Queued
  <2>6. MarkedHaveOne'
    <3> SUFFICES ASSUME NEW u \in Peers, connectTo[u]
                 PROVE  \/ [kind |-> "connectTo", peer |-> u] \in ToSet(wire')
                        \/ \E c \in Bevs : Live(c)' /\ remote'[c] = u
      BY <2>2 DEF MarkedHaveOne, OnWire
    <3>1. CASE Head(wire) = [kind |-> "connectTo", peer |-> u]
      BY <1>t, <2>1, <2>4, <3>1
    <3>2. CASE \E c \in Bevs : Live(c) /\ remote[c] = u
      BY <2>1, <2>5, <3>2 DEF Live
    <3> QED BY <2>3, <3>1, <3>2 DEF MarkedHaveOne, OnWire
  <2>7. NewsToCome'
    <3>1. \A c \in Bevs : [kind |-> "addDefault", bev |-> c] # Head(wire)
      BY <2>2
    <3>2. phase'[b] = "dialling"
      BY <1>t, <2>1
    <3>3. ToldOfUp(b)' /\ ToldOfEnd(b)'
      BY <3>2 DEF ToldOfUp, ToldOfEnd
    <3>4. ASSUME NEW c \in Bevs \ {b} PROVE ToldOfUp(c)'
      BY <2>3, <2>5, <3>1 DEF NewsToCome, ToldOfUp, OnWire
    <3>5. ASSUME NEW c \in Bevs \ {b} PROVE ToldOfEnd(c)'
      <4>1. Idle(c) => Idle(c)'
        BY <2>5 DEF Idle
      <4> QED BY <2>5, <4>1 DEF NewsToCome, ToldOfEnd
    <3> QED BY <3>3, <3>4, <3>5 DEF NewsToCome
  <2> QED BY <2>6, <2>7
<1>2. CASE AddDefaultBev
  <2>1. wire # <<>> /\ Head(wire).kind = "addDefault" /\ wire' = Tail(wire)
        /\ UNCHANGED <<connectTo, bw, freed, inbox, remote, dialled>>
    BY <1>2 DEF AddDefaultBev, tableVars
  <2>2. /\ ToSet(wire) \subseteq {Head(wire)} \cup ToSet(wire')
        /\ Head(wire) \in ToSet(wire) /\ Head(wire) \in Messages
    BY <1>t, <2>1, TailSet
  <2>3. PICK b \in Bevs : b = Head(wire).bev /\ Head(wire) = [kind |-> "addDefault", bev |-> b]
    BY <2>1, <2>2 DEF Messages
  <2>4. phase[b] = "up" /\ b \notin freed
    BY <2>2, <2>3, <1>c DEF WireSound, OnWire, CalmInv, EndedIsSilent
  <2>5. phase' = [phase EXCEPT ![b] = "auth"]
    BY <1>2, <2>3, <2>4 DEF AddDefaultBev
  <2>6. \A c \in Bevs : /\ (Live(c)' <=> Live(c)) /\ (Calling(c)' <=> Calling(c))
                        /\ \A k : Pending(k, c)' <=> Pending(k, c)
                        /\ c # b => phase'[c] = phase[c]
    BY <1>t, <2>1, <2>4, <2>5 DEF Live, Calling, Pending, Queued
  <2>7. phase'[b] = "auth"
    BY <1>t, <2>5
  <2>8. MarkedHaveOne'
    BY <2>1, <2>2, <2>6 DEF MarkedHaveOne, OnWire
  <2>9. NewsToCome'
    <3>1. ToldOfUp(b)' /\ ToldOfEnd(b)'
      BY <2>7 DEF ToldOfUp, ToldOfEnd
    <3>2. ASSUME NEW c \in Bevs \ {b} PROVE ToldOfUp(c)'
      <4>1. [kind |-> "addDefault", bev |-> c] # Head(wire)
        BY <2>3
      <4> QED BY <2>2, <2>6, <4>1 DEF NewsToCome, ToldOfUp, OnWire
    <3>3. ASSUME NEW c \in Bevs \ {b} PROVE ToldOfEnd(c)'
      <4>1. Idle(c) => Idle(c)'
        BY <2>6 DEF Idle
      <4> QED BY <2>6, <4>1 DEF NewsToCome, ToldOfEnd
    <3> QED BY <3>1, <3>2, <3>3 DEF NewsToCome
  <2> QED BY <2>8, <2>9
<1>3. ASSUME NEW b \in Bevs, NEW p, NEW k \in BevEvents, Callback(b, p, k),
             phase[b] \in {"dialling", "auth", "read"},
             \/ p = "up" /\ k = "connected"
             \/ p = "off" /\ k \in {"refused", "quit"}
             \/ p = "read"
      PROVE  MarkedHaveOne' /\ NewsToCome'
  <2>1. /\ inbox' = Append(inbox, BevEvent(k, b)) /\ phase' = [phase EXCEPT ![b] = p]
        /\ UNCHANGED <<connectTo, bw, freed, remote, dialled, wire>> /\ BevEvent(k, b) \in Events
    BY <1>3, EventShapes DEF Callback, tableVars
  <2>2. \A h \in BevEvents, c \in Bevs : Pending(h, c)' <=> Pending(h, c) \/ (h = k /\ c = b)
    <3> DEFINE e == BevEvent(k, b)
    <3>1. \A h \in BevEvents, c \in Bevs : e = BevEvent(h, c) <=> (h = k /\ c = b)
      BY DEF BevEvent
    <3>2. inbox' = Append(inbox, e) /\ e \in Events
      BY <2>1
    <3> HIDE DEF e
    <3> QED BY <3>1, <3>2, ArrivalSignals
  <2>3. \A c \in Bevs : /\ (Live(c)' <=> Live(c)) /\ (Calling(c)' <=> Calling(c))
                        /\ c # b => phase'[c] = phase[c]
    BY <1>3, <1>t, <2>1 DEF Live, Calling
  <2>4. phase'[b] = p
    BY <1>t, <2>1
  <2>5. MarkedHaveOne'
    BY <2>1, <2>3 DEF MarkedHaveOne, OnWire
  <2>6. NewsToCome'
    <3>1. ToldOfUp(b)' /\ ToldOfEnd(b)'
      BY <1>3, <1>t, <2>2, <2>4 DEF ToldOfUp, ToldOfEnd
    <3>2. ASSUME NEW c \in Bevs \ {b} PROVE ToldOfUp(c)'
      BY <1>t, <2>1, <2>2, <2>3 DEF NewsToCome, ToldOfUp, OnWire
    <3>3. ASSUME NEW c \in Bevs \ {b} PROVE ToldOfEnd(c)'
      <4>1. Idle(c) => Idle(c)'
        BY <2>2 DEF Idle
      <4> QED BY <1>t, <2>2, <2>3, <4>1 DEF NewsToCome, ToldOfEnd
    <3> QED BY <3>1, <3>2, <3>3 DEF NewsToCome
  <2> QED BY <2>5, <2>6
<1>4. ASSUME NEW b \in Bevs, ConnectCB(b) \/ TcpAuth(b) \/ TcpErr(b) \/ TcpRead(b)
      PROVE  MarkedHaveOne' /\ NewsToCome'
  BY <1>3, <1>4, KindsAssumption DEF ConnectCB, TcpAuth, TcpErr, TcpRead, Readable, BevEvents
<1>5. ASSUME NEW u \in Peers, NEW b \in Bevs, AcceptNew(u, b)
      PROVE  MarkedHaveOne' /\ NewsToCome'
  <2>1. /\ inbox' = Append(inbox, BevEvent("newConnection", b)) /\ phase[b] = "unused"
        /\ phase' = [phase EXCEPT ![b] = "auth"] /\ remote' = [remote EXCEPT ![b] = u]
        /\ UNCHANGED <<connectTo, bw, freed, dialled, wire>>
        /\ BevEvent("newConnection", b) \in Events /\ "newConnection" \in BevEvents
    BY <1>5, EventShapes DEF AcceptNew, tableVars, BevEvents
  <2>2. ~Live(b) /\ phase'[b] = "auth"
    BY <1>t, <2>1 DEF Live
  <2>3. \A c \in Bevs \ {b} : /\ phase'[c] = phase[c] /\ remote'[c] = remote[c]
                              /\ (Live(c)' <=> Live(c)) /\ (Calling(c)' <=> Calling(c))
    BY <1>t, <2>1 DEF Live, Calling
  <2>4. \A h \in BevEvents, c \in Bevs \ {b} : Pending(h, c)' <=> Pending(h, c)
    <3> DEFINE e == BevEvent("newConnection", b)
    <3>1. \A h \in BevEvents, c \in Bevs \ {b} : e # BevEvent(h, c)
      BY DEF BevEvent
    <3>2. inbox' = Append(inbox, e) /\ e \in Events
      BY <2>1
    <3> HIDE DEF e
    <3> QED BY <3>1, <3>2, ArrivalSignals
  <2>5. MarkedHaveOne'
    BY <2>1, <2>2, <2>3 DEF MarkedHaveOne, OnWire
  <2>6. NewsToCome'
    <3>1. ToldOfUp(b)' /\ ToldOfEnd(b)'
      BY <2>2 DEF ToldOfUp, ToldOfEnd
    <3>2. ASSUME NEW c \in Bevs \ {b} PROVE ToldOfUp(c)'
      BY <1>t, <2>1, <2>3, <2>4 DEF NewsToCome, ToldOfUp, OnWire
    <3>3. ASSUME NEW c \in Bevs \ {b} PROVE ToldOfEnd(c)'
      <4>1. Idle(c) => Idle(c)'
        BY <2>4 DEF Idle
      <4> QED BY <1>t, <2>3, <2>4, <4>1 DEF NewsToCome, ToldOfEnd
    <3> QED BY <3>1, <3>2, <3>3 DEF NewsToCome
  <2> QED BY <2>5, <2>6
<1>6. ASSUME NEW u \in Peers, UdpReceive(u) \/ SendMsgAccessor(u)
      PROVE  MarkedHaveOne' /\ NewsToCome'
  <2>1. PICK e \in Events : inbox' = Append(inbox, e) /\ e.kind \notin BevEvents
    BY <1>6, EventShapes DEF UdpReceive, SendMsgAccessor, Attempt, Send, TypeInv, TypeOK
  <2>2. UNCHANGED <<connectTo, bw, freed, dialled, wire, phase, remote>>
    BY <1>6 DEF UdpReceive, SendMsgAccessor, tableVars, netVars
  <2>3. \A h \in BevEvents, c \in Bevs : Pending(h, c)' <=> Pending(h, c)
    BY <2>1, ArrivalSignals DEF BevEvent
  <2>4. \A c \in Bevs : (Live(c)' <=> Live(c)) /\ (Calling(c)' <=> Calling(c))
    BY <2>2 DEF Live, Calling
  <2>5. MarkedHaveOne'
    BY <2>2, <2>4 DEF MarkedHaveOne, OnWire
  <2>6. NewsToCome'
    <3>2. ASSUME NEW c \in Bevs PROVE ToldOfUp(c)'
      BY <1>t, <2>2, <2>3 DEF NewsToCome, ToldOfUp, OnWire
    <3>3. ASSUME NEW c \in Bevs PROVE ToldOfEnd(c)'
      <4>1. Idle(c) => Idle(c)'
        BY <2>3 DEF Idle
      <4> QED BY <1>t, <2>2, <2>3, <2>4, <4>1 DEF NewsToCome, ToldOfEnd
    <3> QED BY <3>2, <3>3 DEF NewsToCome
  <2> QED BY <2>5, <2>6
<1> QED BY <1>1, <1>2, <1>4, <1>5, <1>6 DEF Server, World, InternalComms

\* A peer marked as not to dial has a dial whose result is to come, or a
\* connection in its entry that still exists and whose end will be heard
\* (attemptConnection, resultOfConnectionAttempt, authHandler, peerQuit).
THEOREM NobodyIsWedged == ASSUME Calm PROVE Spec => []NeverWedged
<1>1. Init => MarkedHaveOne /\ NewsToCome
  BY DEF Init, MarkedHaveOne, NewsToCome, ToldOfUp, ToldOfEnd, Live
<1>2. TypeInv /\ WrapperInv /\ AuthedHasSocket /\ CalmInv /\ NoFault' /\ MarkedHaveOne
         /\ NewsToCome /\ [Next]_vars => MarkedHaveOne' /\ NewsToCome'
  <2> SUFFICES ASSUME TypeInv, WrapperInv, AuthedHasSocket, CalmInv, NoFault', MarkedHaveOne,
                      NewsToCome, [Next]_vars
               PROVE  MarkedHaveOne' /\ NewsToCome'
    OBVIOUS
  <2>1. CASE UNCHANGED vars
    BY <2>1 DEF vars, tableVars, netVars, MarkedHaveOne, NewsToCome, ToldOfUp, ToldOfEnd, OnWire, Live,
       Pending, Queued, Calling, Idle
  <2> QED BY <2>1, MarkedByWorker, NewsByWorker, UnderwayByServer DEF Next
<1>3. TypeInv /\ CalmInv /\ MarkedHaveOne /\ NewsToCome => NeverWedged
  <2> SUFFICES ASSUME TypeInv, CalmInv, MarkedHaveOne, NewsToCome,
                      NEW u \in Peers, connectTo[u], ~Dialling(u)
               PROVE  \E b \in Bevs : held[bw[u]] = b /\ remote[b] = u /\ WillBeHeard(b)
    BY DEF NeverWedged
  <2>c. DialStages /\ CallStages /\ SessionStages /\ DialsMarked
    BY DEF CalmInv
  <2>1. PICK b \in Bevs : Live(b) /\ remote[b] = u
    BY DEF MarkedHaveOne, Dialling
  <2>2. ~(b \in dialled /\ phase[b] = "dialling") /\ ~Pending("connected", b) /\ ~Pending("refused", b)
    BY <2>c, <2>1 DEF Dialling, Pending, DialsMarked
  <2>3. held[bw[u]] = b /\ ~Calling(b)
    <3>1. CASE b \in dialled
      BY <2>c, <2>1, <2>2, <3>1 DEF DialStages, Calling
    <3>2. CASE b \notin dialled
      BY <2>c, <2>1, <3>2 DEF CallStages, SessionStages, Session
    <3> QED BY <3>1, <3>2
  <2>4. phase[b] \in {"up", "auth", "read", "off"}
    BY <2>c, <2>1, <2>2 DEF DialsMarked, Live, TypeInv, TypeOK, Phases
  <2>5. WillBeHeard(b)
    <3>1. CASE phase[b] = "up"
      BY <2>1, <2>2, <3>1 DEF NewsToCome, ToldOfUp, WillBeHeard, Live
    <3>2. CASE phase[b] = "off"
      BY <2>1, <2>2, <2>3, <3>2 DEF NewsToCome, ToldOfEnd, WillBeHeard, Live, Pending
    <3> QED BY <2>1, <2>4, <3>1, <3>2 DEF WillBeHeard, Live
  <2> QED BY <2>1, <2>3, <2>5
<1>4. CalmInv => NoFault
  BY DEF CalmInv
<1> QED BY <1>1, <1>2, <1>3, <1>4, TypeInvariant, WrapperInvariant, AuthedEntriesHaveSockets,
           CalmInvariant, PTL DEF Spec

===============================================================================
