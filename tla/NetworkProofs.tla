---------------------------- MODULE NetworkProofs ----------------------------
(***************************************************************************)
(* Theorems about Network, for any finite set of connections, any bounds.  *)
(*                                                                         *)
(* The two processes are two instances of PeerWorker.  What is the same    *)
(* for both is said once, of a process as a value: a record s of what the  *)
(* process knows of its only peer u.  First come the handlers and the      *)
(* callbacks of such a process, and what it keeps to as long as it has one *)
(* live connection at most (Lone); then that the two never have a second   *)
(* one between them (Together), and that Alice's and Bob's steps are just  *)
(* the steps said.  From that and from what is on its way between the two  *)
(* (Between) it follows that they agree whenever nothing is.               *)
(***************************************************************************)
EXTENDS Network, QueueLemmas, FiniteSetTheorems

-------------------------------------------------------------------------------
(***************************************************************************)
(* A process as a value.                                                   *)
(***************************************************************************)
AliceNow ==
    [inbox |-> aInbox, wire |-> aWire, phase |-> aPhase, dialled |-> aDialled,
     remote |-> aRemote, fd |-> aFd, held |-> aHeld, bw |-> aBw[Bob], extra |-> aExtra,
     freed |-> aFreed, known |-> Bob \in aKnown, connectTo |-> aConnectTo[Bob],
     isAuthed |-> aIsAuthed[Bob], sock |-> aSock[Bob]]

BobNow ==
    [inbox |-> bInbox, wire |-> bWire, phase |-> bPhase, dialled |-> bDialled,
     remote |-> bRemote, fd |-> bFd, held |-> bHeld, bw |-> bBw[Alice], extra |-> bExtra,
     freed |-> bFreed, known |-> Alice \in bKnown, connectTo |-> bConnectTo[Alice],
     isAuthed |-> bIsAuthed[Alice], sock |-> bSock[Alice]]

Wrappers(u) == {u} \cup Bevs
BevKinds    == {"newConnection", "auth", "quit", "connected", "refused"} \cup Kinds

Signal(kind, k) == [kind |-> kind, bev |-> k]
SendTo(w)       == [kind |-> "send", wrapper |-> w]
Attempt(u)      == [kind |-> "attempt", peer |-> u]
Dial(u)         == [kind |-> "connectTo", peer |-> u]
Enable(k)       == [kind |-> "addDefault", bev |-> k]

Events(u) ==
    [kind : BevKinds, bev : Bevs] \cup [kind : {"attempt"}, peer : {u}]
        \cup [kind : {"send"}, wrapper : Wrappers(u)]
Messages(u) == [kind : {"connectTo"}, peer : {u}] \cup [kind : {"addDefault"}, bev : Bevs]

SameEntry(s, t) ==
    /\ t.known = s.known /\ t.connectTo = s.connectTo
    /\ t.isAuthed = s.isAuthed /\ t.sock = s.sock
SameOwner(s, t) == t.held = s.held /\ t.bw = s.bw /\ t.extra = s.extra /\ t.freed = s.freed
SameNet(s, t)   == t.phase = s.phase /\ t.dialled = s.dialled /\ t.remote = s.remote

\* Settle: the wrappers nothing refers to any more are lost.
Lost(u, q, ws, ex, hs) ==
    {w \in Wrappers(u) : /\ hs[w] # NoBev /\ w # ws /\ w \notin ToSet(ex)
                         /\ SendTo(w) \notin ToSet(q)}

Settles(s, t, u, q, ws, ex, hs, gone) ==
    LET lost == Lost(u, q, ws, ex, hs) IN
    /\ t.inbox = q /\ t.bw = ws /\ t.extra = ex
    /\ t.held = [w \in Wrappers(u) |-> IF w \in lost THEN NoBev ELSE hs[w]]
    /\ t.freed = s.freed \cup gone \cup {hs[w] : w \in lost}

ClosedAt(fds, k) ==
    IF k = NoBev THEN fds
    ELSE [fds EXCEPT ![k] = IF @ = "open" THEN "closed" ELSE "reclosed"]

HalfOf(q) == [i \in 1..(Len(q) \div 2) |-> q[2 * i]]

Takes(s, kind) == s.inbox # <<>> /\ Head(s.inbox).kind = kind
About(s)       == Head(s.inbox).bev
Left(s)        == Tail(s.inbox)

-------------------------------------------------------------------------------
(***************************************************************************)
(* The handlers of the worker, for the one peer u.                         *)
(***************************************************************************)
TakesCall(s, t, u) ==
    /\ Takes(s, "newConnection")
    /\ Settles(s, t, u, Append(Left(s), SendTo(About(s))), s.bw, Append(s.extra, About(s)),
               [s.held EXCEPT ![About(s)] = About(s)], {})
    /\ SameEntry(s, t) /\ t.fd = s.fd /\ t.wire = s.wire

Adopts(s, t, u) ==
    \/ \E i \in DOMAIN s.extra :
         /\ s.held[s.extra[i]] = About(s)
         /\ Settles(s, t, u, Append(Left(s), SendTo(s.extra[i])), s.extra[i],
                    RemoveAt(s.extra, i), s.held, {})
    \/ /\ \A i \in DOMAIN s.extra : s.held[s.extra[i]] # About(s)
       /\ Settles(s, t, u, Append(Left(s), SendTo(s.bw)), s.bw, s.extra,
                  [s.held EXCEPT ![s.bw] = About(s)], {})

\* What a process does whose entry holds another connection is left out: it
\* never comes to that here.
TakesAuth(s, t, u) ==
    /\ Takes(s, "auth")
    /\ \/ s.held[s.bw] \notin {NoBev, About(s)}
       \/ /\ s.held[s.bw] \in {NoBev, About(s)}
          /\ Adopts(s, t, u)
          /\ t.known = TRUE /\ t.connectTo = TRUE /\ t.isAuthed = TRUE /\ t.sock = About(s)
          /\ t.fd = s.fd
    /\ t.wire = s.wire

LetsGo(s, t, u) ==
    /\ s.known = TRUE /\ s.held[s.bw] = About(s)
    /\ t.known = TRUE /\ t.connectTo = FALSE /\ t.isAuthed = FALSE /\ t.sock = NoBev
    /\ t.fd = ClosedAt(s.fd, s.sock)
    /\ Settles(s, t, u, Left(s), s.bw, s.extra, [s.held EXCEPT ![s.bw] = NoBev], {About(s)})

GivesUp(s, t, u) ==
    /\ ~(s.known = TRUE /\ s.held[s.bw] = About(s))
    /\ SameEntry(s, t)
    /\ t.fd = ClosedAt(s.fd, About(s))
    /\ Settles(s, t, u, Left(s), s.bw, HalfOf(s.extra), s.held, {})

TakesQuit(s, t, u) ==
    /\ Takes(s, "quit")
    /\ LetsGo(s, t, u) \/ GivesUp(s, t, u)
    /\ t.wire = s.wire

TakesAttempt(s, t, u) ==
    /\ Takes(s, "attempt")
    /\ IF s.connectTo = TRUE
       THEN t.known = s.known /\ t.connectTo = TRUE /\ t.wire = s.wire
       ELSE t.known = TRUE /\ t.connectTo = TRUE /\ t.wire = Append(s.wire, Dial(u))
    /\ Settles(s, t, u, Left(s), s.bw, s.extra, s.held, {})
    /\ t.isAuthed = s.isAuthed /\ t.sock = s.sock /\ t.fd = s.fd

TakesConnected(s, t, u) ==
    /\ Takes(s, "connected")
    /\ t.wire = Append(s.wire, Enable(About(s)))
    /\ Settles(s, t, u, Append(Left(s), SendTo(s.bw)), s.bw, s.extra,
               [s.held EXCEPT ![s.bw] = About(s)], {s.held[s.bw]} \ {NoBev, About(s)})
    /\ SameEntry(s, t) /\ t.fd = s.fd

TakesRefused(s, t, u) ==
    /\ Takes(s, "refused")
    /\ t.known = s.known /\ t.connectTo = FALSE /\ t.isAuthed = FALSE /\ t.sock = NoBev
    /\ t.fd = ClosedAt(s.fd, About(s))
    /\ Settles(s, t, u, Left(s), s.bw, s.extra, [s.held EXCEPT ![s.bw] = NoBev], {About(s)})
    /\ t.wire = s.wire

TakesSend(s, t, u) ==
    /\ Takes(s, "send")
    /\ \/ s.held[Head(s.inbox).wrapper] \in s.freed /\ t.inbox = Left(s) /\ SameOwner(s, t)
       \/ Settles(s, t, u, Left(s), s.bw, s.extra, s.held, {})
    /\ SameEntry(s, t) /\ t.fd = s.fd /\ t.wire = s.wire

TakesPacket(s, t, u) ==
    /\ \E kind \in Kinds : Takes(s, kind)
    /\ \E q \in {Left(s), Append(Left(s), SendTo(s.bw))} :
          /\ q = Left(s) \/ Takes(s, "syncRequest")
          /\ Settles(s, t, u, q, s.bw, s.extra, s.held, {})
    /\ SameEntry(s, t) /\ t.fd = s.fd /\ t.wire = s.wire

Works(s, t, u) ==
    /\ \/ TakesCall(s, t, u) \/ TakesAuth(s, t, u) \/ TakesQuit(s, t, u)
       \/ TakesAttempt(s, t, u) \/ TakesConnected(s, t, u) \/ TakesRefused(s, t, u)
       \/ TakesSend(s, t, u) \/ TakesPacket(s, t, u)
    /\ SameNet(s, t)

-------------------------------------------------------------------------------
(***************************************************************************)
(* What the server thread and the world do to the process.                 *)
(***************************************************************************)
Dials(s, t, u) ==
    /\ s.wire # <<>> /\ Head(s.wire).kind = "connectTo"
    /\ \E k \in Bevs :
         /\ s.phase[k] = "unused"
         /\ t.phase = [s.phase EXCEPT ![k] = "dialling"]
         /\ t.fd = [s.fd EXCEPT ![k] = "open"]
         /\ t.remote = [s.remote EXCEPT ![k] = u]
         /\ t.dialled = s.dialled \cup {k}
    /\ t.wire = Tail(s.wire) /\ t.inbox = s.inbox
    /\ SameEntry(s, t) /\ SameOwner(s, t)

Enables(s, t) ==
    /\ s.wire # <<>> /\ Head(s.wire).kind = "addDefault"
    /\ t.phase = IF Head(s.wire).bev \in s.freed THEN s.phase
                 ELSE [s.phase EXCEPT ![Head(s.wire).bev] = "auth"]
    /\ t.wire = Tail(s.wire) /\ t.inbox = s.inbox
    /\ t.dialled = s.dialled /\ t.remote = s.remote /\ t.fd = s.fd
    /\ SameEntry(s, t) /\ SameOwner(s, t)

\* A callback of k is run, k is then in phase p and the worker is sent kind.
CallsBack(s, t, k, p, kind) ==
    /\ k \notin s.freed
    /\ t.phase = [s.phase EXCEPT ![k] = p]
    /\ t.inbox = Append(s.inbox, Signal(kind, k))
    /\ t.dialled = s.dialled /\ t.remote = s.remote /\ t.fd = s.fd /\ t.wire = s.wire
    /\ SameEntry(s, t) /\ SameOwner(s, t)

HearsResult(s, t, k) ==
    /\ s.phase[k] = "dialling"
    /\ CallsBack(s, t, k, "up", "connected") \/ CallsBack(s, t, k, "off", "refused")
HearsAuth(s, t, k) == s.phase[k] = "auth" /\ CallsBack(s, t, k, "read", "auth")
HearsEnd(s, t, k)  == s.phase[k] \in {"auth", "read"} /\ CallsBack(s, t, k, "off", "quit")
HearsPacket(s, t, k) ==
    s.phase[k] = "read" /\ \E kind \in Kinds : CallsBack(s, t, k, "read", kind)

IsCalled(s, t, u, k) ==
    /\ s.phase[k] = "unused"
    /\ t.phase = [s.phase EXCEPT ![k] = "auth"]
    /\ t.fd = [s.fd EXCEPT ![k] = "open"]
    /\ t.remote = [s.remote EXCEPT ![k] = u]
    /\ t.inbox = Append(s.inbox, Signal("newConnection", k))
    /\ t.dialled = s.dialled /\ t.wire = s.wire
    /\ SameEntry(s, t) /\ SameOwner(s, t)

\* e is an attempt, or what the user writes.
IsGiven(s, t, e) ==
    /\ t.inbox = Append(s.inbox, e)
    /\ SameNet(s, t) /\ t.fd = s.fd /\ t.wire = s.wire
    /\ SameEntry(s, t) /\ SameOwner(s, t)

-------------------------------------------------------------------------------
(***************************************************************************)
(* What every process keeps to, as long as it has one live connection at   *)
(* most.                                                                   *)
(***************************************************************************)
Typed(s, u) ==
    /\ s.inbox \in Seq(Events(u)) /\ s.wire \in Seq(Messages(u))
    /\ s.phase \in [Bevs -> {"unused", "dialling", "up", "auth", "read", "off"}]
    /\ s.dialled \subseteq Bevs /\ s.freed \subseteq Bevs
    /\ s.remote \in [Bevs -> {u, NoPeer}]
    /\ s.fd \in [Bevs -> {"none", "open", "closed", "reclosed"}]
    /\ s.held \in [Wrappers(u) -> Bevs \cup {NoBev}]
    /\ s.bw \in Wrappers(u) /\ s.extra \in Seq(Bevs)
    /\ s.known \in BOOLEAN /\ s.connectTo \in BOOLEAN /\ s.isAuthed \in BOOLEAN
    /\ s.sock \in Bevs \cup {NoBev}

Settled(s, k)      == s.phase[k] \notin {"unused", "dialling"}
Live(s, k)         == s.phase[k] # "unused" /\ k \notin s.freed
Queued(s, kind, k) == Signal(kind, k) \in ToSet(s.inbox)
Sending(s, w)      == SendTo(w) \in ToSet(s.inbox)
OnWire(s, m)       == m \in ToSet(s.wire)
Owned(s, w)        == w = s.bw \/ w \in ToSet(s.extra)

\* What the worker, its wrappers and libevent know of a connection has been
\* made, and if it was dialled, has heard the result.
Reached(s, u) ==
    /\ \A k \in Bevs : s.phase[k] # "unused" => s.remote[k] = u /\ s.fd[k] # "none"
    /\ \A k \in s.dialled : s.phase[k] # "unused"
    /\ \A k \in Bevs : s.phase[k] = "dialling" => k \in s.dialled
    /\ \A e \in ToSet(s.inbox) : e.kind \in BevKinds => Settled(s, e.bev)
    /\ \A w \in Wrappers(u) : s.held[w] # NoBev => Settled(s, s.held[w])

\* e may come after d in a queue, where both are about one connection.
MayFollow(d, e) ==
    /\ d.kind \notin {"quit", "refused"}
    /\ e.kind \notin {"newConnection", "connected", "refused"}
    /\ e.kind = "auth" => d.kind \in {"newConnection", "connected"}

InOrder(q) ==
    \A i, j \in DOMAIN q :
        /\ i < j /\ q[i].kind \in BevKinds /\ q[j].kind \in BevKinds
        /\ q[i].bev = q[j].bev
        => MayFollow(q[i], q[j])

\* No attempt is behind the end of a connection: those that are queued while
\* the peer is marked are all handled while it is.
EndsLast(q, u) ==
    \A i, j \in DOMAIN q : i < j /\ q[i].kind \in {"quit", "refused"} => q[j] # Attempt(u)

\* No dial and no enabling is asked for twice.
Once(s, u) ==
    InOrder(s.inbox) /\ EndsLast(s.inbox, u) /\ IsInjective(s.wire)

\* What is still to be heard of connection k, and the phase it is in.
StageOf(s, k) ==
    /\ \A kind \in BevKinds : Queued(s, kind, k) => k \notin s.freed
    /\ Queued(s, "connected", k) \/ Queued(s, "refused", k) => k \in s.dialled
    /\ Queued(s, "newConnection", k) => k \notin s.dialled
    /\ Queued(s, "connected", k) => s.phase[k] = "up" /\ ~OnWire(s, Enable(k))
    /\ Queued(s, "quit", k) \/ Queued(s, "refused", k) => s.phase[k] = "off"
    /\ \A kind \in {"auth"} \cup Kinds : Queued(s, kind, k) => s.phase[k] \in {"read", "off"}
    /\ OnWire(s, Enable(k)) => s.phase[k] = "up"
    /\ s.phase[k] = "up" => /\ k \in s.dialled
                            /\ Queued(s, "connected", k) \/ OnWire(s, Enable(k))
    /\ k \in s.freed => s.phase[k] = "off"
Staged(s) == \A k \in Bevs : StageOf(s, k)

\* Which wrapper has which connection: the entry's a dialled one, its own an
\* accepted one.
Unheard(s, k) == ~Settled(s, k) \/ k \in s.dialled \/ Queued(s, "newConnection", k)

Holds(s, w) ==
    /\ s.held[w] \notin s.freed
    /\ w = IF s.held[w] \in s.dialled THEN s.bw ELSE s.held[w]
    /\ Owned(s, w) \/ Sending(s, w)
    /\ ~Owned(s, w) => /\ s.phase[s.held[w]] = "off"
                       /\ \A kind \in BevKinds : ~Queued(s, kind, s.held[w])

Wrapped(s, u) ==
    /\ \A k \in Bevs : Unheard(s, k) => ~Owned(s, k) /\ ~Sending(s, k)
    /\ \A k \in Bevs : Queued(s, "newConnection", k) => s.held[k] = NoBev
    /\ \A x \in ToSet(s.extra) : s.held[x] = x
    /\ IsInjective(s.extra) /\ s.bw \notin ToSet(s.extra)
    /\ \A w \in Wrappers(u) : s.held[w] # NoBev => Holds(s, w)

\* No connection is forgotten.
KeptOf(s, u, k) ==
    /\ k \notin s.freed /\ Settled(s, k) =>
         \/ \E kind \in {"newConnection", "connected", "refused"} : Queued(s, kind, k)
         \/ \E w \in Wrappers(u) : s.held[w] = k
    /\ k \notin s.dialled /\ (s.phase[k] = "auth" \/ Queued(s, "auth", k)) =>
         Queued(s, "newConnection", k) \/ k \in ToSet(s.extra)
    /\ k \notin s.freed /\ s.phase[k] = "off" =>
         \/ Queued(s, "quit", k) \/ Queued(s, "refused", k)
         \/ \E w \in Wrappers(u) : s.held[w] = k /\ ~Owned(s, w)
Kept(s, u) ==
    /\ s.held[s.bw] # NoBev \/ s.dialled # {} \/ OnWire(s, Dial(u)) => s.known = TRUE
    /\ \A k \in Bevs : KeptOf(s, u, k)

\* A peer not to be dialled is being dialled or has a connection.
Marked(s, u) ==
    s.connectTo = TRUE =>
        \/ OnWire(s, Dial(u))
        \/ \E k \in s.dialled : \/ s.phase[k] = "dialling"
                                \/ Queued(s, "connected", k) \/ Queued(s, "refused", k)
        \/ s.held[s.bw] # NoBev

\* The session, and the descriptors.
OpenOf(s, k) ==
    /\ s.phase[k] = "read" => Queued(s, "auth", k) \/ s.sock = k
    /\ s.phase[k] # "unused" /\ (\/ s.phase[k] # "off" \/ Queued(s, "quit", k)
                                 \/ Queued(s, "refused", k))
         => s.fd[k] = "open"
    /\ k \notin s.dialled /\ s.phase[k] = "off" /\ ~Queued(s, "quit", k) => s.fd[k] # "open"
Session(s) ==
    /\ s.isAuthed = TRUE <=> s.sock # NoBev
    /\ s.sock # NoBev => /\ s.held[s.bw] = s.sock /\ s.fd[s.sock] = "open"
                         /\ s.phase[s.sock] \in {"read", "off"}
    /\ s.held[s.bw] # NoBev /\ s.held[s.bw] \notin s.dialled => s.sock = s.held[s.bw]
    /\ \A k \in Bevs : OpenOf(s, k)

Lone(s, u) ==
    /\ Typed(s, u) /\ Reached(s, u) /\ Once(s, u) /\ Staged(s)
    /\ Wrapped(s, u) /\ Kept(s, u) /\ Marked(s, u) /\ Session(s)

\* The process does one thing at a time.
Alone(s, u) ==
    /\ \A j, k \in Bevs : Live(s, j) /\ Live(s, k) => j = k
    /\ Attempt(u) \in ToSet(s.inbox) /\ s.connectTo # TRUE => ~OnWire(s, Dial(u))

-------------------------------------------------------------------------------
(***************************************************************************)
(* Queues of events.                                                       *)
(***************************************************************************)
\* The events of a process with one peer, told apart by their kinds.
LEMMA EventShapes ==
    ASSUME NEW u
    PROVE  /\ \A e \in Events(u) :
                /\ e.kind \in BevKinds => e.bev \in Bevs /\ e = Signal(e.kind, e.bev)
                /\ e.kind = "attempt" => e = Attempt(u)
                /\ e.kind = "send" => e.wrapper \in Wrappers(u) /\ e = SendTo(e.wrapper)
                /\ e.kind \in BevKinds \cup {"attempt", "send"}
           /\ \A kind \in BevKinds, k \in Bevs : Signal(kind, k) \in Events(u)
           /\ \A w \in Wrappers(u) : SendTo(w) \in Events(u)
           /\ Attempt(u) \in Events(u)
BY DEF Events, BevKinds, Kinds, Signal, Attempt, SendTo

\* The kinds and the connections of events.
LEMMA EventKinds ==
    ASSUME NEW kind, NEW k, NEW w, NEW u
    PROVE  /\ Signal(kind, k).kind = kind /\ Signal(kind, k).bev = k
           /\ SendTo(w).kind = "send" /\ SendTo(w).wrapper = w
           /\ Attempt(u).kind = "attempt"
           /\ "send" \notin BevKinds /\ "attempt" \notin BevKinds
BY DEF Signal, SendTo, Attempt, BevKinds, Kinds

\* Order is kept when the head is taken, and all that follows it may.
LEMMA InOrderTail ==
    ASSUME NEW u, NEW q \in Seq(Events(u)), q # <<>>, InOrder(q)
    PROVE  /\ InOrder(Tail(q))
           /\ \A e \in ToSet(Tail(q)) :
                /\ Head(q).kind \in BevKinds /\ e.kind \in BevKinds /\ Head(q).bev = e.bev
                => MayFollow(Head(q), e)
<1>1. Len(q) \in Nat \ {0} /\ DOMAIN q = 1..Len(q) /\ Head(q) = q[1]
  BY EmptySeq, LenProperties
<1>2. /\ DOMAIN Tail(q) = 1..(Len(q) - 1)
      /\ \A i \in 1..(Len(q) - 1) : Tail(q)[i] = q[i + 1]
  BY HeadTailProperties, LenProperties
<1>3. \A i \in DOMAIN Tail(q) : i + 1 \in DOMAIN q /\ 1 < i + 1 /\ 1 \in DOMAIN q
  BY <1>1, <1>2
<1>4. \A i, j \in DOMAIN Tail(q) : i < j => i + 1 < j + 1
  BY <1>2
<1>5. InOrder(Tail(q))
  BY <1>2, <1>3, <1>4 DEF InOrder
<1>6. ASSUME NEW i \in DOMAIN Tail(q), Head(q).kind \in BevKinds,
             Tail(q)[i].kind \in BevKinds, Head(q).bev = Tail(q)[i].bev
      PROVE  MayFollow(Head(q), Tail(q)[i])
  BY <1>1, <1>2, <1>3, <1>6 DEF InOrder
<1> QED BY <1>5, <1>6 DEF ToSet

\* Order is kept when what is added may follow all that is there.
LEMMA InOrderAppend ==
    ASSUME NEW u, NEW q \in Seq(Events(u)), NEW e \in Events(u), InOrder(q),
           \A d \in ToSet(q) : d.kind \in BevKinds /\ e.kind \in BevKinds /\ d.bev = e.bev
                                  => MayFollow(d, e)
    PROVE  InOrder(Append(q, e))
<1> DEFINE a == Append(q, e)
<1>1. Len(q) \in Nat /\ DOMAIN q = 1..Len(q) /\ DOMAIN a = 1..(Len(q) + 1)
  BY AppendProperties, LenProperties
<1>2. (\A i \in 1..Len(q) : a[i] = q[i]) /\ a[Len(q) + 1] = e
  BY AppendProperties
<1> HIDE DEF a
<1> SUFFICES ASSUME NEW i \in DOMAIN a, NEW j \in DOMAIN a, i < j,
                    a[i].kind \in BevKinds, a[j].kind \in BevKinds, a[i].bev = a[j].bev
             PROVE  MayFollow(a[i], a[j])
  BY DEF InOrder, a
<1>3. i \in DOMAIN q /\ a[i] = q[i]
  BY <1>1, <1>2
<1>4. CASE j \in DOMAIN q
  BY <1>1, <1>2, <1>3, <1>4 DEF InOrder
<1>5. CASE j = Len(q) + 1
  BY <1>2, <1>3, <1>5 DEF ToSet
<1> QED BY <1>1, <1>4, <1>5

\* Behind the end of a connection there is no attempt, nor is there one when
\* the head is taken, or something added that is none.
LEMMA EndsLastTail ==
    ASSUME NEW u, NEW q \in Seq(Events(u)), q # <<>>, EndsLast(q, u)
    PROVE  /\ EndsLast(Tail(q), u)
           /\ Head(q).kind \in {"quit", "refused"} => Attempt(u) \notin ToSet(Tail(q))
<1>1. Len(q) \in Nat \ {0} /\ DOMAIN q = 1..Len(q) /\ Head(q) = q[1]
  BY EmptySeq, LenProperties
<1>2. /\ DOMAIN Tail(q) = 1..(Len(q) - 1)
      /\ \A i \in 1..(Len(q) - 1) : Tail(q)[i] = q[i + 1]
  BY HeadTailProperties, LenProperties
<1>3. \A i \in DOMAIN Tail(q) : i + 1 \in DOMAIN q /\ 1 < i + 1 /\ 1 \in DOMAIN q
  BY <1>1, <1>2
<1>4. \A i, j \in DOMAIN Tail(q) : i < j => i + 1 < j + 1
  BY <1>2
<1>5. EndsLast(Tail(q), u)
  BY <1>2, <1>3, <1>4 DEF EndsLast
<1>6. ASSUME NEW i \in DOMAIN Tail(q), Head(q).kind \in {"quit", "refused"}
      PROVE  Tail(q)[i] # Attempt(u)
  BY <1>1, <1>2, <1>3, <1>6 DEF EndsLast
<1> QED BY <1>5, <1>6 DEF ToSet

\* An attempt may be put behind what holds no end of a connection.
LEMMA EndsLastAppend ==
    ASSUME NEW u, NEW q \in Seq(Events(u)), NEW e \in Events(u), EndsLast(q, u),
           e = Attempt(u) => ~Clears(q)
    PROVE  EndsLast(Append(q, e), u)
<1> DEFINE a == Append(q, e)
<1>1. Len(q) \in Nat /\ DOMAIN q = 1..Len(q) /\ DOMAIN a = 1..(Len(q) + 1)
  BY AppendProperties, LenProperties
<1>2. (\A i \in 1..Len(q) : a[i] = q[i]) /\ a[Len(q) + 1] = e
  BY AppendProperties
<1> HIDE DEF a
<1> SUFFICES ASSUME NEW i \in DOMAIN a, NEW j \in DOMAIN a, i < j,
                    a[i].kind \in {"quit", "refused"}
             PROVE  a[j] # Attempt(u)
  BY DEF EndsLast, a
<1>3. i \in DOMAIN q /\ a[i] = q[i]
  BY <1>1, <1>2
<1>4. CASE j \in DOMAIN q
  BY <1>1, <1>2, <1>3, <1>4 DEF EndsLast
<1>5. CASE j = Len(q) + 1
  BY <1>2, <1>3, <1>5 DEF ToSet, Clears
<1> QED BY <1>1, <1>4, <1>5

\* The queue after a handler, which takes the head and may post a send.
LEMMA QueueTaken ==
    ASSUME NEW u, NEW s, Typed(s, u), Once(s, u), s.inbox # <<>>, NEW w \in Wrappers(u),
           NEW q \in {Left(s), Append(Left(s), SendTo(w))}
    PROVE  /\ q \in Seq(Events(u))
           /\ ToSet(Left(s)) \subseteq ToSet(q) /\ ToSet(q) \subseteq ToSet(Left(s)) \cup {SendTo(w)}
           /\ ToSet(Left(s)) \subseteq ToSet(s.inbox)
           /\ ToSet(s.inbox) \subseteq ToSet(Left(s)) \cup {Head(s.inbox)}
           /\ InOrder(q) /\ EndsLast(q, u)
           /\ Head(s.inbox).kind \in {"quit", "refused"} => Attempt(u) \notin ToSet(q)
           /\ \A kind \in BevKinds, k \in Bevs : Signal(kind, k) \in ToSet(q) =>
                /\ Queued(s, kind, k)
                /\ Head(s.inbox).kind \in BevKinds /\ Head(s.inbox).bev = k =>
                      MayFollow(Head(s.inbox), Signal(kind, k))
           /\ \A kind \in BevKinds, k \in Bevs : Queued(s, kind, k) =>
                Signal(kind, k) \in ToSet(q) \/ Head(s.inbox) = Signal(kind, k)
           /\ Attempt(u) \in ToSet(q) => Attempt(u) \in ToSet(s.inbox)
           /\ Append(Left(s), SendTo(w)) = q => SendTo(w) \in ToSet(q)
<1>1. /\ Left(s) \in Seq(Events(u)) /\ Head(s.inbox) \in Events(u)
      /\ ToSet(Left(s)) \subseteq ToSet(s.inbox)
      /\ ToSet(s.inbox) \subseteq {Head(s.inbox)} \cup ToSet(Left(s))
  BY TailSet DEF Typed, Left
<1>2. /\ InOrder(Left(s))
      /\ \A e \in ToSet(Left(s)) :
           /\ Head(s.inbox).kind \in BevKinds /\ e.kind \in BevKinds /\ Head(s.inbox).bev = e.bev
           => MayFollow(Head(s.inbox), e)
  BY InOrderTail DEF Typed, Once, Left
<1>3. /\ EndsLast(Left(s), u)
      /\ Head(s.inbox).kind \in {"quit", "refused"} => Attempt(u) \notin ToSet(Left(s))
  BY EndsLastTail DEF Typed, Once, Left
<1>4. SendTo(w) \in Events(u) /\ SendTo(w).kind = "send" /\ SendTo(w) # Attempt(u)
  BY EventShapes, EventKinds DEF SendTo, Attempt
<1>5. /\ Append(Left(s), SendTo(w)) \in Seq(Events(u))
      /\ ToSet(Append(Left(s), SendTo(w))) = ToSet(Left(s)) \cup {SendTo(w)}
  BY <1>1, <1>4, AppendSet
<1>a. InOrder(Append(Left(s), SendTo(w)))
  <2>1. \A d \in ToSet(Left(s)) :
          /\ d.kind \in BevKinds /\ SendTo(w).kind \in BevKinds /\ d.bev = SendTo(w).bev
          => MayFollow(d, SendTo(w))
    BY <1>4, EventKinds
  <2> QED BY <1>1, <1>2, <1>4, <2>1, InOrderAppend
<1>b. EndsLast(Append(Left(s), SendTo(w)), u)
  BY <1>1, <1>3, <1>4, EndsLastAppend
<1>6. InOrder(q) /\ EndsLast(q, u)
  BY <1>2, <1>3, <1>a, <1>b
<1>7. \A kind \in BevKinds, k \in Bevs :
         Signal(kind, k).kind = kind /\ Signal(kind, k).bev = k /\ Signal(kind, k) # SendTo(w)
  BY EventKinds DEF Signal, SendTo
<1>8. \A kind \in BevKinds, k \in Bevs : Signal(kind, k) \in ToSet(q) =>
        Signal(kind, k) \in ToSet(Left(s))
  <2>1. CASE q = Left(s)
    BY <2>1
  <2>2. CASE q = Append(Left(s), SendTo(w))
    BY <1>5, <1>7, <2>2
  <2> QED BY <2>1, <2>2
<1>9. \A kind \in BevKinds, k \in Bevs : Signal(kind, k) \in ToSet(q) =>
        /\ Queued(s, kind, k)
        /\ Head(s.inbox).kind \in BevKinds /\ Head(s.inbox).bev = k =>
              MayFollow(Head(s.inbox), Signal(kind, k))
  BY <1>1, <1>2, <1>7, <1>8 DEF Queued
<1> QED BY <1>1, <1>3, <1>4, <1>5, <1>6, <1>9 DEF Queued

\* The event a handler takes.
LEMMA HeadOf ==
    ASSUME NEW u, NEW s, Lone(s, u), NEW kind \in BevKinds, Takes(s, kind)
    PROVE  /\ s.inbox # <<>> /\ About(s) \in Bevs /\ Head(s.inbox) = Signal(kind, About(s))
           /\ Queued(s, kind, About(s)) /\ Settled(s, About(s)) /\ Live(s, About(s))
           /\ StageOf(s, About(s)) /\ About(s) # NoBev
<1>1. s.inbox # <<>> /\ Head(s.inbox).kind = kind
  BY DEF Takes
<1>2. Head(s.inbox) \in Events(u) /\ Head(s.inbox) \in ToSet(s.inbox)
  BY <1>1, TailSet DEF Lone, Typed
<1>3. About(s) \in Bevs /\ Head(s.inbox) = Signal(kind, About(s))
  BY <1>1, <1>2, EventShapes DEF About
<1>4. Queued(s, kind, About(s)) /\ Settled(s, About(s))
  BY <1>1, <1>2, <1>3 DEF Queued, About, Lone, Reached
<1>5. StageOf(s, About(s)) /\ About(s) # NoBev
  BY <1>3, ConnectionsAssumption DEF Lone, Staged
<1> QED BY <1>1, <1>3, <1>4, <1>5 DEF Live, Settled, StageOf


\* What may be queued of the connection the event at the head is about.
LEMMA WhatFollows ==
    ASSUME NEW u, NEW s, Lone(s, u), NEW kind \in BevKinds, Takes(s, kind),
           NEW other \in BevKinds
    PROVE  /\ Signal(other, About(s)) \in ToSet(Left(s)) =>
                /\ kind \notin {"quit", "refused"}
                /\ other \notin {"newConnection", "connected", "refused"}
                /\ other = "auth" => kind \in {"newConnection", "connected"}
           /\ Queued(s, other, About(s)) =>
                other = kind \/ Signal(other, About(s)) \in ToSet(Left(s))
<1> DEFINE k == About(s)
<1>1. k \in Bevs /\ Head(s.inbox) = Signal(kind, k) /\ s.inbox # <<>>
  BY HeadOf
<1>2. Head(s.inbox).kind = kind /\ Head(s.inbox).bev = k
  BY <1>1, EventKinds
<1> HIDE DEF k
<1>3. s.bw \in Wrappers(u) /\ Typed(s, u) /\ Once(s, u)
  BY DEF Lone, Typed
<1>4. Signal(other, k) \in ToSet(Left(s)) => MayFollow(Head(s.inbox), Signal(other, k))
  BY <1>1, <1>2, <1>3, QueueTaken
<1>5. Queued(s, other, k) =>
        Signal(other, k) \in ToSet(Left(s)) \/ Head(s.inbox) = Signal(other, k)
  BY <1>1, <1>3, QueueTaken
<1>6. Head(s.inbox) = Signal(other, k) => other = kind
  BY <1>1 DEF Signal
<1>7. MayFollow(Head(s.inbox), Signal(other, k)) =>
        /\ kind \notin {"quit", "refused"}
        /\ other \notin {"newConnection", "connected", "refused"}
        /\ other = "auth" => kind \in {"newConnection", "connected"}
  BY <1>2, EventKinds DEF MayFollow
<1> QED BY <1>4, <1>5, <1>6, <1>7 DEF k
-------------------------------------------------------------------------------
(***************************************************************************)
(* What the wrappers of a process with one live connection hold.           *)
(***************************************************************************)
\* A list of one connection at most.
LEMMA OneOrNone ==
    ASSUME NEW q \in Seq(Bevs), IsInjective(q), NEW k, ToSet(q) \subseteq {k}
    PROVE  q = <<>> \/ q = <<k>>
<1>1. Len(q) \in Nat /\ DOMAIN q = 1..Len(q)
  BY LenProperties
<1>2. \A i \in DOMAIN q : q[i] = k
  BY DEF ToSet
<1>3. Len(q) <= 1
  <2> SUFFICES ASSUME Len(q) > 1 PROVE FALSE
    BY <1>1
  <2>1. 1 \in DOMAIN q /\ 2 \in DOMAIN q
    BY <1>1
  <2> QED BY <2>1, <1>2 DEF IsInjective
<1>4. CASE Len(q) = 0
  BY <1>4, EmptySeq
<1>5. CASE Len(q) = 1
  BY <1>1, <1>2, <1>5
<1> QED BY <1>1, <1>3, <1>4, <1>5

\* What is in a list of one connection or none.
LEMMA ShortLists ==
    ASSUME NEW k \in Bevs
    PROVE  /\ ToSet(<<k>>) = {k} /\ IsInjective(<<k>>) /\ <<k>> \in Seq(Bevs)
           /\ Append(<<>>, k) = <<k>> /\ RemoveAt(<<k>>, 1) = <<>> /\ HalfOf(<<k>>) = <<>>
           /\ DOMAIN <<k>> = {1}
           /\ ToSet(<<>>) = {} /\ IsInjective(<<>>) /\ <<>> \in Seq(Bevs)
           /\ DOMAIN <<>> = {}
<1>1. ToSet(<<k>>) = {k} /\ IsInjective(<<k>>) /\ <<k>> \in Seq(Bevs) /\ DOMAIN <<k>> = {1}
  BY DEF ToSet, IsInjective
<1>2. ToSet(<<>>) = {} /\ IsInjective(<<>>) /\ <<>> \in Seq(Bevs) /\ DOMAIN <<>> = {}
  BY DEF ToSet, IsInjective
<1>3. RemoveAt(<<k>>, 1) = <<>>
  <2>1. RemoveAt(<<k>>, 1) \in Seq(Bevs) /\ Len(RemoveAt(<<k>>, 1)) = Len(<<k>>) - 1
    BY <1>1, RemoveAtSet
  <2> QED BY <2>1, EmptySeq
<1>4. HalfOf(<<k>>) = <<>>
  <2>1. Len(<<k>>) \div 2 = 0
    BY SMT
  <2>2. HalfOf(<<k>>) = [i \in 1..0 |-> <<k>>[2 * i]]
    BY <2>1 DEF HalfOf
  <2>3. DOMAIN HalfOf(<<k>>) = 1..0
    BY <2>2
  <2>4. HalfOf(<<k>>) \in Seq(Bevs) /\ Len(HalfOf(<<k>>)) = 0
    BY <2>2, <2>3
  <2> QED BY <2>4, EmptySeq
<1>5. Append(<<>>, k) = <<k>>
  BY SMT
<1> QED BY <1>1, <1>2, <1>3, <1>4, <1>5

\* The wrappers, when k is the only live connection.
LEMMA OneConnection ==
    ASSUME NEW u, NEW s, Lone(s, u), Alone(s, u), NEW k \in Bevs, Live(s, k)
    PROVE  /\ k # NoBev /\ NoBev \notin s.freed
           /\ \A w \in Wrappers(u) :
                /\ s.held[w] \in {NoBev, k}
                /\ s.held[w] = k => w = IF k \in s.dialled THEN s.bw ELSE k
           /\ s.extra # <<>> => /\ s.extra = <<k>> /\ s.held[k] = k /\ k \notin s.dialled
                                /\ s.bw # k /\ s.held[s.bw] = NoBev
           /\ s.extra = <<>> \/ s.extra = <<k>>
<1>1. k # NoBev /\ NoBev \notin s.freed
  BY ConnectionsAssumption DEF Lone, Typed
<1>2. ASSUME NEW w \in Wrappers(u)
      PROVE  /\ s.held[w] \in {NoBev, k}
             /\ s.held[w] = k => w = IF k \in s.dialled THEN s.bw ELSE k
  <2>1. s.held[w] \in Bevs \cup {NoBev}
    BY DEF Lone, Typed
  <2>2. s.held[w] # NoBev => Holds(s, w) /\ Settled(s, s.held[w])
    BY DEF Lone, Wrapped, Reached
  <2>3. s.held[w] # NoBev => Live(s, s.held[w])
    BY <2>2 DEF Holds, Settled, Live
  <2> QED BY <1>1, <2>1, <2>2, <2>3 DEF Alone, Holds
<1>3. ASSUME NEW x \in ToSet(s.extra)
      PROVE  x = k /\ s.held[k] = k /\ k \notin s.dialled /\ s.bw # k /\ s.held[s.bw] = NoBev
  <2>1. x \in Bevs
    BY <1>3 DEF Lone, Typed, ToSet
  <2>2. s.held[x] = x /\ x \in Wrappers(u) /\ x # NoBev /\ s.bw # x /\ s.bw \in Wrappers(u)
    BY <2>1, ConnectionsAssumption DEF Lone, Wrapped, Wrappers, Typed
  <2>3. x = k
    BY <2>2, <1>2
  <2>4. k \notin s.dialled
    BY <2>2, <2>3, <1>2
  <2> QED BY <2>2, <2>3, <2>4, <1>2
<1>4. s.extra = <<>> \/ s.extra = <<k>>
  BY <1>3, OneOrNone DEF Lone, Typed, Wrapped
<1>5. s.extra # <<>> => k \in ToSet(s.extra)
  BY <1>4, ShortLists
<1> QED BY <1>1, <1>2, <1>3, <1>4, <1>5

\* The wrappers, when no connection is live.
LEMMA NoConnection ==
    ASSUME NEW u, NEW s, Lone(s, u), \A k \in Bevs : ~Live(s, k)
    PROVE  /\ \A w \in Wrappers(u) : s.held[w] = NoBev
           /\ s.extra = <<>>
<1>1. ASSUME NEW w \in Wrappers(u) PROVE s.held[w] = NoBev
  <2>1. s.held[w] \in Bevs \cup {NoBev}
    BY DEF Lone, Typed
  <2>2. s.held[w] # NoBev => Holds(s, w) /\ Settled(s, s.held[w])
    BY DEF Lone, Wrapped, Reached
  <2> QED BY <2>1, <2>2 DEF Holds, Settled, Live
<1>2. ToSet(s.extra) = {}
  <2> SUFFICES ASSUME NEW x \in ToSet(s.extra) PROVE FALSE
    OBVIOUS
  <2>1. x \in Bevs
    BY DEF Lone, Typed, ToSet
  <2>2. s.held[x] = x /\ x \in Wrappers(u) /\ x # NoBev
    BY <2>1, ConnectionsAssumption DEF Lone, Wrapped, Wrappers
  <2> QED BY <2>2, <1>1
<1>3. s.extra = <<>>
  <2>1. s.extra \in Seq(Bevs) /\ Len(s.extra) \in Nat /\ DOMAIN s.extra = 1..Len(s.extra)
    BY LenProperties DEF Lone, Typed
  <2>2. ~(Len(s.extra) >= 1)
    <3> SUFFICES ASSUME Len(s.extra) >= 1 PROVE FALSE
      OBVIOUS
    <3>1. s.extra[1] \in ToSet(s.extra)
      BY <2>1 DEF ToSet
    <3> QED BY <3>1, <1>2
  <2> QED BY <2>1, <2>2, EmptySeq
<1> QED BY <1>1, <1>3
-------------------------------------------------------------------------------
(***************************************************************************)
(* What each handler leaves, when the connection it is about is the only   *)
(* live one.                                                               *)
(***************************************************************************)
\* The wrappers, when only w holds a connection, and when none does.
HeldBy(u, w, k) == [v \in Wrappers(u) |-> IF v = w THEN k ELSE NoBev]
Nobody(u)       == [v \in Wrappers(u) |-> NoBev]

\* The worker's possessions after a handler, which freed the connections f.
Has(s, t, q, ws, ex, hs, f) ==
    t.inbox = q /\ t.bw = ws /\ t.extra = ex /\ t.held = hs /\ t.freed = s.freed \cup f

\* Nothing is lost.
LEMMA NothingLost ==
    ASSUME NEW u, NEW s, NEW t, NEW q, NEW ws, NEW ex, NEW hs, NEW gone,
           Settles(s, t, u, q, ws, ex, hs, gone), hs \in [Wrappers(u) -> Bevs \cup {NoBev}],
           \A w \in Wrappers(u) :
              hs[w] # NoBev => w = ws \/ w \in ToSet(ex) \/ SendTo(w) \in ToSet(q)
    PROVE  Has(s, t, q, ws, ex, hs, gone)
<1>1. Lost(u, q, ws, ex, hs) = {}
  BY DEF Lost
<1>2. {hs[w] : w \in Lost(u, q, ws, ex, hs)} = {}
  BY <1>1
<1> QED BY <1>1, <1>2 DEF Settles, Has

\* Only w held a connection, and it is lost.
LEMMA OneLost ==
    ASSUME NEW u, NEW s, NEW t, NEW q, NEW ws, NEW ex, NEW hs, NEW gone,
           Settles(s, t, u, q, ws, ex, hs, gone), hs \in [Wrappers(u) -> Bevs \cup {NoBev}],
           NEW x \in Wrappers(u), NEW k \in Bevs, hs[x] = k,
           \A w \in Wrappers(u) : hs[w] # NoBev => w = x,
           x # ws /\ x \notin ToSet(ex) /\ SendTo(x) \notin ToSet(q)
    PROVE  Has(s, t, q, ws, ex, Nobody(u), gone \cup {k})
<1>1. Lost(u, q, ws, ex, hs) = {x}
  BY ConnectionsAssumption DEF Lost
<1>2. {hs[w] : w \in Lost(u, q, ws, ex, hs)} = {k}
  BY <1>1
<1>3. [w \in Wrappers(u) |-> IF w \in {x} THEN NoBev ELSE hs[w]] = Nobody(u)
  BY DEF Nobody
<1> QED BY <1>1, <1>2, <1>3 DEF Settles, Has

\* A call is added to extraBevs, and greeted.
LEMMA CallLeaves ==
    ASSUME NEW u, u \notin Bevs, NEW s, NEW t, Lone(s, u), Alone(s, u), TakesCall(s, t, u)
    PROVE  LET k == About(s) IN
           /\ k \notin s.dialled /\ s.bw # k
           /\ Has(s, t, Append(Left(s), SendTo(k)), s.bw, <<k>>, HeldBy(u, k, k), {})
           /\ s.held = Nobody(u)
<1> DEFINE k == About(s)
<1>1. /\ k \in Bevs /\ Queued(s, "newConnection", k) /\ Live(s, k) /\ k # NoBev
      /\ StageOf(s, k) /\ k \notin s.dialled
  BY HeadOf DEF TakesCall, BevKinds, StageOf
<1> HIDE DEF k
<1>2. s.held[k] = NoBev /\ ~Owned(s, k) /\ s.held \in [Wrappers(u) -> Bevs \cup {NoBev}]
  BY <1>1 DEF Lone, Wrapped, Unheard, Typed
<1>3. \A w \in Wrappers(u) : s.held[w] = NoBev
  BY <1>1, <1>2, OneConnection
<1>4. s.extra = <<>>
  BY <1>1, <1>2, OneConnection
<1>5. Settles(s, t, u, Append(Left(s), SendTo(k)), s.bw, <<k>>, [s.held EXCEPT ![k] = k], {})
  BY <1>1, <1>4, ShortLists DEF TakesCall, k
<1>6. [s.held EXCEPT ![k] = k] = HeldBy(u, k, k) /\ k \in Wrappers(u) /\ s.held = Nobody(u)
  BY <1>1, <1>2, <1>3 DEF HeldBy, Wrappers, Nobody
<1>7. /\ HeldBy(u, k, k) \in [Wrappers(u) -> Bevs \cup {NoBev}]
      /\ \A w \in Wrappers(u) : HeldBy(u, k, k)[w] # NoBev => w = k
  BY <1>1 DEF HeldBy
<1>8. k \in ToSet(<<k>>)
  BY <1>1, ShortLists
<1> QED BY <1>1, <1>2, <1>5, <1>6, <1>7, <1>8, NothingLost DEF Owned, k

\* An authentication gives the entry the wrapper of the call, or finds it has
\* the connection it dialled.
LEMMA AuthLeaves ==
    ASSUME NEW u, u \notin Bevs, NEW s, NEW t, Lone(s, u), Alone(s, u), TakesAuth(s, t, u)
    PROVE  LET k == About(s)
               w == IF k \in s.dialled THEN s.bw ELSE k
           IN
           /\ t.known = TRUE /\ t.connectTo = TRUE /\ t.isAuthed = TRUE /\ t.sock = k
           /\ t.fd = s.fd /\ t.wire = s.wire
           /\ Has(s, t, Append(Left(s), SendTo(w)), w, <<>>, HeldBy(u, w, k), {})
           /\ s.held = HeldBy(u, w, k) /\ w \in Wrappers(u)
           /\ s.bw # w => s.held[s.bw] = NoBev
<1> DEFINE k == About(s)
<1>1. /\ k \in Bevs /\ Queued(s, "auth", k) /\ Live(s, k) /\ k # NoBev /\ Settled(s, k)
      /\ StageOf(s, k) /\ Head(s.inbox) = Signal("auth", k) /\ s.inbox # <<>>
  BY HeadOf DEF TakesAuth, BevKinds
<1> HIDE DEF k
<1>2. /\ s.held \in [Wrappers(u) -> Bevs \cup {NoBev}]
      /\ s.bw \in Wrappers(u) /\ k \in Wrappers(u)
  BY <1>1 DEF Lone, Typed, Wrappers
<1>3. /\ \A w \in Wrappers(u) : s.held[w] \in {NoBev, k}
      /\ \A w \in Wrappers(u) : s.held[w] = k => w = IF k \in s.dialled THEN s.bw ELSE k
      /\ s.extra # <<>> => /\ s.extra = <<k>> /\ s.held[k] = k /\ k \notin s.dialled
                           /\ s.bw # k /\ s.held[s.bw] = NoBev
      /\ s.extra = <<>> \/ s.extra = <<k>>
  BY <1>1, OneConnection
<1>4. /\ ~Queued(s, "newConnection", k) /\ ~Queued(s, "connected", k) /\ ~Queued(s, "refused", k)
  BY WhatFollows DEF TakesAuth, BevKinds, k
<1>5. /\ t.known = TRUE /\ t.connectTo = TRUE /\ t.isAuthed = TRUE /\ t.sock = k
      /\ t.fd = s.fd /\ t.wire = s.wire /\ Adopts(s, t, u)
  BY <1>2, <1>3 DEF TakesAuth, k
<1>6. CASE \E i \in DOMAIN s.extra : s.held[s.extra[i]] = k
  <2>1. s.extra = <<k>> /\ s.held[k] = k /\ k \notin s.dialled /\ s.bw # k /\ s.held[s.bw] = NoBev
    BY <1>3, <1>6, ShortLists, <1>1
  <2>2. DOMAIN s.extra = {1} /\ s.extra[1] = k /\ RemoveAt(s.extra, 1) = <<>>
    BY <2>1, <1>1, ShortLists
  <2>3. Settles(s, t, u, Append(Left(s), SendTo(k)), k, <<>>, s.held, {})
    BY <1>5, <1>6, <2>2 DEF Adopts, k
  <2>4. s.held = HeldBy(u, k, k)
    BY <1>1, <1>2, <1>3, <2>1 DEF HeldBy
  <2>5. \A w \in Wrappers(u) : s.held[w] # NoBev => w = k
    BY <1>3, <2>1
  <2>6. Has(s, t, Append(Left(s), SendTo(k)), k, <<>>, HeldBy(u, k, k), {})
    BY <1>2, <2>3, <2>4, <2>5, NothingLost
  <2> QED BY <1>2, <1>5, <2>1, <2>4, <2>6 DEF k
<1>7. CASE ~\E i \in DOMAIN s.extra : s.held[s.extra[i]] = k
  <2>1. s.extra = <<>>
    BY <1>3, <1>7, <1>1, ShortLists
  <2>2. k \in s.dialled
    <3>1. k \notin s.dialled => k \in ToSet(s.extra)
      BY <1>1, <1>4 DEF Lone, Kept, KeptOf
    <3> QED BY <2>1, <3>1, <1>1, ShortLists
  <2>3. \E w \in Wrappers(u) : s.held[w] = k
    <3>1. k \notin s.freed /\ Settled(s, k)
      BY <1>1 DEF Live
    <3> QED BY <1>1, <1>4, <3>1 DEF Lone, Kept, KeptOf
  <2>4. s.held[s.bw] = k
    BY <2>2, <2>3, <1>3
  <2>5. [s.held EXCEPT ![s.bw] = k] = s.held /\ s.held = HeldBy(u, s.bw, k)
    BY <1>1, <1>2, <1>3, <2>2, <2>4 DEF HeldBy
  <2>6. Settles(s, t, u, Append(Left(s), SendTo(s.bw)), s.bw, <<>>, s.held, {})
    BY <1>5, <1>7, <2>1, <2>5 DEF Adopts, k
  <2>7. \A w \in Wrappers(u) : s.held[w] # NoBev => w = s.bw
    BY <1>3, <2>2
  <2>8. Has(s, t, Append(Left(s), SendTo(s.bw)), s.bw, <<>>, HeldBy(u, s.bw, k), {})
    BY <1>2, <2>5, <2>6, <2>7, NothingLost
  <2> QED BY <1>2, <1>5, <2>2, <2>5, <2>8 DEF k
<1> QED BY <1>6, <1>7

\* The entry has the connection it dialled.
LEMMA ConnectedLeaves ==
    ASSUME NEW u, u \notin Bevs, NEW s, NEW t, Lone(s, u), Alone(s, u), TakesConnected(s, t, u)
    PROVE  LET k == About(s) IN
           /\ k \in s.dialled
           /\ Has(s, t, Append(Left(s), SendTo(s.bw)), s.bw, <<>>, HeldBy(u, s.bw, k), {})
           /\ s.held = HeldBy(u, s.bw, k) \/ s.held = Nobody(u)
           /\ s.extra = <<>>
<1> DEFINE k == About(s)
<1>1. /\ k \in Bevs /\ Queued(s, "connected", k) /\ Live(s, k) /\ k # NoBev
      /\ StageOf(s, k) /\ k \in s.dialled
  BY HeadOf DEF TakesConnected, BevKinds, StageOf
<1>2. s.held \in [Wrappers(u) -> Bevs \cup {NoBev}] /\ s.bw \in Wrappers(u)
  BY DEF Lone, Typed
<1>3. /\ \A w \in Wrappers(u) : s.held[w] \in {NoBev, k} /\ (s.held[w] = k => w = s.bw)
      /\ s.extra = <<>>
  BY <1>1, OneConnection
<1> HIDE DEF k
<1>4. /\ [s.held EXCEPT ![s.bw] = k] = HeldBy(u, s.bw, k)
      /\ s.held = HeldBy(u, s.bw, k) \/ s.held = Nobody(u)
  BY <1>1, <1>2, <1>3 DEF HeldBy, Nobody
<1>5. {s.held[s.bw]} \ {NoBev, k} = {}
  BY <1>2, <1>3
<1>6. Settles(s, t, u, Append(Left(s), SendTo(s.bw)), s.bw, <<>>, HeldBy(u, s.bw, k), {})
  BY <1>3, <1>4, <1>5 DEF TakesConnected, k
<1>7. /\ HeldBy(u, s.bw, k) \in [Wrappers(u) -> Bevs \cup {NoBev}]
      /\ \A w \in Wrappers(u) : HeldBy(u, s.bw, k)[w] # NoBev => w = s.bw
  BY <1>1 DEF HeldBy
<1>8. Has(s, t, Append(Left(s), SendTo(s.bw)), s.bw, <<>>, HeldBy(u, s.bw, k), {})
  BY <1>6, <1>7, NothingLost
<1> QED BY <1>1, <1>3, <1>4, <1>8 DEF k

\* A refused connection is given back.
LEMMA RefusedLeaves ==
    ASSUME NEW u, u \notin Bevs, NEW s, NEW t, Lone(s, u), Alone(s, u), TakesRefused(s, t, u)
    PROVE  LET k == About(s) IN
           /\ k \in s.dialled
           /\ Has(s, t, Left(s), s.bw, <<>>, Nobody(u), {k})
           /\ s.extra = <<>>
<1> DEFINE k == About(s)
<1>1. /\ k \in Bevs /\ Queued(s, "refused", k) /\ Live(s, k) /\ k # NoBev
      /\ StageOf(s, k) /\ k \in s.dialled
  BY HeadOf DEF TakesRefused, BevKinds, StageOf
<1>2. s.held \in [Wrappers(u) -> Bevs \cup {NoBev}] /\ s.bw \in Wrappers(u)
  BY DEF Lone, Typed
<1>3. /\ \A w \in Wrappers(u) : s.held[w] \in {NoBev, k} /\ (s.held[w] = k => w = s.bw)
      /\ s.extra = <<>>
  BY <1>1, OneConnection
<1> HIDE DEF k
<1>4. [s.held EXCEPT ![s.bw] = NoBev] = Nobody(u)
  BY <1>1, <1>2, <1>3 DEF Nobody
<1>5. Settles(s, t, u, Left(s), s.bw, <<>>, Nobody(u), {k})
  BY <1>3, <1>4 DEF TakesRefused, k
<1>6. /\ Nobody(u) \in [Wrappers(u) -> Bevs \cup {NoBev}]
      /\ \A w \in Wrappers(u) : Nobody(u)[w] = NoBev
  BY DEF Nobody
<1>7. Has(s, t, Left(s), s.bw, <<>>, Nobody(u), {k})
  BY <1>5, <1>6, NothingLost
<1> QED BY <1>1, <1>3, <1>7 DEF k

\* A connection of the entry that has ended is given back.
LEMMA LetGoLeaves ==
    ASSUME NEW u, u \notin Bevs, NEW s, NEW t, Lone(s, u), Alone(s, u), Takes(s, "quit"),
           LetsGo(s, t, u)
    PROVE  LET k == About(s) IN
           /\ s.held[s.bw] = k /\ s.sock \in {NoBev, k}
           /\ Has(s, t, Left(s), s.bw, <<>>, Nobody(u), {k})
           /\ s.extra = <<>>
<1> DEFINE k == About(s)
<1>1. k \in Bevs /\ Live(s, k) /\ k # NoBev
  BY HeadOf DEF BevKinds
<1>2. s.held \in [Wrappers(u) -> Bevs \cup {NoBev}] /\ s.bw \in Wrappers(u)
  BY DEF Lone, Typed
<1>3. s.held[s.bw] = k /\ s.sock \in {NoBev, k}
  BY DEF LetsGo, Lone, Session
<1>4. /\ \A w \in Wrappers(u) : s.held[w] \in {NoBev, k} /\ (s.held[w] = k => w = s.bw)
      /\ s.extra = <<>>
  BY <1>1, <1>2, <1>3, OneConnection
<1> HIDE DEF k
<1>5. [s.held EXCEPT ![s.bw] = NoBev] = Nobody(u)
  BY <1>1, <1>2, <1>4 DEF Nobody
<1>6. Settles(s, t, u, Left(s), s.bw, <<>>, Nobody(u), {k})
  BY <1>4, <1>5 DEF LetsGo, k
<1>7. /\ Nobody(u) \in [Wrappers(u) -> Bevs \cup {NoBev}]
      /\ \A w \in Wrappers(u) : Nobody(u)[w] = NoBev
  BY DEF Nobody
<1>8. Has(s, t, Left(s), s.bw, <<>>, Nobody(u), {k})
  BY <1>6, <1>7, NothingLost
<1> QED BY <1>3, <1>4, <1>8 DEF k

\* The only live connection is the wrapper's own, which nothing but a queued
\* send refers to: it stays until that is taken.
Drops(s, t, u, k) ==
    \/ /\ SendTo(k) \in ToSet(Left(s))
       /\ Has(s, t, Left(s), s.bw, <<>>, HeldBy(u, k, k), {})
    \/ /\ SendTo(k) \notin ToSet(Left(s))
       /\ Has(s, t, Left(s), s.bw, <<>>, Nobody(u), {k})

\* A wrapper only sends refer to stays as long as one of them is queued.
LEMMA DropsOne ==
    ASSUME NEW u, NEW s, NEW t, NEW k \in Bevs, s.bw # k,
           Settles(s, t, u, Left(s), s.bw, <<>>, HeldBy(u, k, k), {})
    PROVE  Drops(s, t, u, k)
<1>1. /\ HeldBy(u, k, k) \in [Wrappers(u) -> Bevs \cup {NoBev}] /\ k \in Wrappers(u)
      /\ \A w \in Wrappers(u) : HeldBy(u, k, k)[w] # NoBev => w = k
      /\ HeldBy(u, k, k)[k] = k
  BY DEF HeldBy, Wrappers
<1>2. CASE SendTo(k) \in ToSet(Left(s))
  BY <1>1, <1>2, NothingLost DEF Drops
<1>3. CASE SendTo(k) \notin ToSet(Left(s))
  <2>1. k \notin ToSet(<<>>)
    BY ShortLists
  <2>2. Has(s, t, Left(s), s.bw, <<>>, Nobody(u), {} \cup {k})
    BY <1>1, <1>3, <2>1, OneLost
  <2> QED BY <1>3, <2>2 DEF Drops
<1> QED BY <1>2, <1>3

\* A call that ended before it was authenticated is forgotten.
LEMMA GiveUpLeaves ==
    ASSUME NEW u, u \notin Bevs, NEW s, NEW t, Lone(s, u), Alone(s, u), Takes(s, "quit"),
           GivesUp(s, t, u)
    PROVE  LET k == About(s) IN
           /\ s.held = HeldBy(u, k, k) /\ s.bw # k /\ k \notin s.dialled
           /\ Drops(s, t, u, k)
<1> DEFINE k == About(s)
<1>1. /\ k \in Bevs /\ Queued(s, "quit", k) /\ Live(s, k) /\ k # NoBev /\ Settled(s, k)
      /\ StageOf(s, k)
  BY HeadOf DEF BevKinds
<1>2. /\ s.held \in [Wrappers(u) -> Bevs \cup {NoBev}]
      /\ s.bw \in Wrappers(u) /\ k \in Wrappers(u)
  BY <1>1 DEF Lone, Typed, Wrappers
<1>3. /\ \A w \in Wrappers(u) : s.held[w] \in {NoBev, k}
      /\ \A w \in Wrappers(u) : s.held[w] = k => w = IF k \in s.dialled THEN s.bw ELSE k
      /\ s.extra = <<>> \/ s.extra = <<k>>
  BY <1>1, OneConnection
<1>4. s.held[s.bw] = NoBev
  <2>1. s.held[s.bw] # NoBev => s.known = TRUE
    BY DEF Lone, Kept
  <2> QED BY <1>2, <1>3, <2>1 DEF GivesUp
<1>5. /\ ~Queued(s, "newConnection", k) /\ ~Queued(s, "connected", k) /\ ~Queued(s, "refused", k)
  BY WhatFollows DEF BevKinds
<1>6. \E w \in Wrappers(u) : s.held[w] = k
  BY <1>1, <1>5 DEF Lone, Kept, KeptOf, Live
<1> HIDE DEF k
<1>7. k \notin s.dialled /\ s.held[k] = k /\ s.bw # k
  BY <1>1, <1>3, <1>4, <1>6
<1>8. Owned(s, k)
  BY <1>1, <1>2, <1>7 DEF Lone, Wrapped, Holds, BevKinds
<1>9. s.extra = <<k>>
  BY <1>1, <1>3, <1>7, <1>8, ShortLists DEF Owned
<1>10. s.held = HeldBy(u, k, k)
  BY <1>1, <1>2, <1>3, <1>7 DEF HeldBy
<1>11. Settles(s, t, u, Left(s), s.bw, <<>>, HeldBy(u, k, k), {})
  BY <1>1, <1>9, <1>10, ShortLists DEF GivesUp
<1> QED BY <1>1, <1>7, <1>10, <1>11, DropsOne DEF k

\* Nothing changes hands unless a send is taken.
LEMMA NothingDropped ==
    ASSUME NEW u, NEW s, NEW t, Lone(s, u), s.inbox # <<>>, Head(s.inbox).kind # "send",
           NEW w \in Wrappers(u), NEW q \in {Left(s), Append(Left(s), SendTo(w))},
           Settles(s, t, u, q, s.bw, s.extra, s.held, {})
    PROVE  /\ Has(s, t, q, s.bw, s.extra, s.held, {})
           /\ \A v \in Wrappers(u) : s.held[v] # NoBev => Owned(s, v) \/ Sending(t, v)
<1>1. s.held \in [Wrappers(u) -> Bevs \cup {NoBev}] /\ Typed(s, u) /\ Once(s, u)
  BY DEF Lone, Typed
<1>2. ASSUME NEW v \in Wrappers(u), s.held[v] # NoBev
      PROVE  v = s.bw \/ v \in ToSet(s.extra) \/ SendTo(v) \in ToSet(q)
  <2>1. Owned(s, v) \/ Sending(s, v)
    BY <1>2 DEF Lone, Wrapped, Holds
  <2>2. /\ ToSet(s.inbox) \subseteq ToSet(Left(s)) \cup {Head(s.inbox)}
        /\ ToSet(Left(s)) \subseteq ToSet(q)
    BY <1>1, QueueTaken
  <2>3. SendTo(v) # Head(s.inbox)
    BY EventKinds
  <2> QED BY <2>1, <2>2, <2>3 DEF Owned, Sending
<1>3. Has(s, t, q, s.bw, s.extra, s.held, {})
  BY <1>1, <1>2, NothingLost
<1> QED BY <1>2, <1>3 DEF Has, Owned, Sending

\* A send taken may have been all that referred to a forgotten call.
LEMMA SendLeaves ==
    ASSUME NEW u, u \notin Bevs, NEW s, NEW t, Lone(s, u), Alone(s, u), TakesSend(s, t, u)
    PROVE  \/ /\ Has(s, t, Left(s), s.bw, s.extra, s.held, {})
              /\ \A v \in Wrappers(u) : s.held[v] # NoBev => Owned(s, v) \/ Sending(t, v)
           \/ \E k \in Bevs :
                /\ Live(s, k) /\ k \notin s.dialled /\ ~Owned(s, k) /\ s.extra = <<>>
                /\ s.held = HeldBy(u, k, k) /\ Drops(s, t, u, k)
<1> DEFINE x == Head(s.inbox).wrapper
<1>1. s.inbox # <<>> /\ Head(s.inbox).kind = "send"
  BY DEF TakesSend, Takes
<1>2. x \in Wrappers(u) /\ Head(s.inbox) = SendTo(x)
  <2>1. Head(s.inbox) \in Events(u)
    BY <1>1, TailSet DEF Lone, Typed
  <2> QED BY <1>1, <2>1, EventShapes
<1> HIDE DEF x
<1>3. /\ s.held \in [Wrappers(u) -> Bevs \cup {NoBev}] /\ Typed(s, u) /\ Once(s, u)
      /\ s.bw \in Wrappers(u)
  BY DEF Lone, Typed
<1>4. s.held[x] \notin s.freed
  <2>1. s.held[x] # NoBev => s.held[x] \notin s.freed
    BY <1>2 DEF Lone, Wrapped, Holds
  <2> QED BY <2>1, ConnectionsAssumption DEF Lone, Typed
<1>5. Settles(s, t, u, Left(s), s.bw, s.extra, s.held, {})
  BY <1>4 DEF TakesSend, x
<1>6. ToSet(s.inbox) \subseteq ToSet(Left(s)) \cup {Head(s.inbox)}
  BY <1>1, <1>3, QueueTaken
<1>7. CASE s.held[x] = NoBev \/ Owned(s, x)
  <2>1. ASSUME NEW v \in Wrappers(u), s.held[v] # NoBev
        PROVE  v = s.bw \/ v \in ToSet(s.extra) \/ SendTo(v) \in ToSet(Left(s))
    <3>1. Owned(s, v) \/ Sending(s, v)
      BY <2>1 DEF Lone, Wrapped, Holds
    <3>2. v # x => SendTo(v) # Head(s.inbox)
      BY <1>2 DEF SendTo
    <3> QED BY <1>6, <1>7, <2>1, <3>1, <3>2 DEF Owned, Sending
  <2>2. Has(s, t, Left(s), s.bw, s.extra, s.held, {})
    BY <1>3, <1>5, <2>1, NothingLost
  <2> QED BY <2>1, <2>2 DEF Has, Owned, Sending
<1>8. CASE s.held[x] # NoBev /\ ~Owned(s, x)
  <2> DEFINE k == s.held[x]
  <2>1. k \in Bevs /\ Holds(s, x) /\ Settled(s, k)
    BY <1>2, <1>3, <1>8 DEF Lone, Wrapped, Reached
  <2>2. Live(s, k) /\ x = k /\ k \notin s.dialled
    BY <1>8, <2>1 DEF Holds, Live, Settled, Owned
  <2> HIDE DEF k
  <2>3. /\ \A w \in Wrappers(u) : s.held[w] \in {NoBev, k} /\ (s.held[w] = k => w = k)
        /\ s.extra = <<>> \/ s.extra = <<k>>
    BY <2>1, <2>2, OneConnection
  <2>4. s.held = HeldBy(u, k, k)
    BY <1>2, <1>3, <2>2, <2>3 DEF HeldBy, k
  <2>5. s.extra = <<>>
    BY <1>8, <2>1, <2>2, <2>3, ShortLists DEF Owned
  <2>6. s.bw # k /\ ~Owned(s, k)
    BY <1>8, <2>2 DEF Owned
  <2>7. Drops(s, t, u, k)
    BY <1>5, <2>1, <2>4, <2>5, <2>6, DropsOne
  <2> QED BY <2>1, <2>2, <2>4, <2>5, <2>6, <2>7
<1> QED BY <1>7, <1>8

-------------------------------------------------------------------------------
(***************************************************************************)
(* A handler keeps the queues, the stages and the wrappers in order.       *)
(***************************************************************************)
\* The queue of t is what s's handler left, with a send to w at most.
Turns(s, t, w) ==
    /\ s.inbox # <<>> /\ t.inbox \in {Left(s), Append(Left(s), SendTo(w))}
    /\ SameNet(s, t)

\* What the wire has after a handler.
Wires(s, t, u) ==
    \/ t.wire = s.wire /\ ~Takes(s, "connected")
    \/ t.wire = Append(s.wire, Dial(u)) /\ Takes(s, "attempt") /\ s.connectTo # TRUE
    \/ t.wire = Append(s.wire, Enable(About(s))) /\ Takes(s, "connected")

\* The events that are queued after a handler were so before it.
LEMMA QueuedAfter ==
    ASSUME NEW u, NEW s, NEW t, Lone(s, u), NEW w \in Wrappers(u), Turns(s, t, w)
    PROVE  /\ t.inbox \in Seq(Events(u)) /\ InOrder(t.inbox) /\ EndsLast(t.inbox, u)
           /\ \A kind \in BevKinds, k \in Bevs :
                /\ Queued(t, kind, k) => Queued(s, kind, k)
                /\ Queued(s, kind, k) => Queued(t, kind, k) \/ (Takes(s, kind) /\ About(s) = k)
           /\ \A x \in Wrappers(u) : Sending(t, x) => Sending(s, x) \/ x = w
           /\ \A x \in Wrappers(u) : Sending(s, x) => Sending(t, x) \/ Head(s.inbox) = SendTo(x)
           /\ Attempt(u) \in ToSet(t.inbox) => Attempt(u) \in ToSet(s.inbox)
           /\ Head(s.inbox).kind \in {"quit", "refused"} => Attempt(u) \notin ToSet(t.inbox)
           /\ \A e \in ToSet(t.inbox) : e.kind \in BevKinds => e \in ToSet(s.inbox)
<1> DEFINE q == t.inbox
<1>1. /\ Typed(s, u) /\ Once(s, u) /\ s.inbox # <<>> /\ q \in {Left(s), Append(Left(s), SendTo(w))}
  BY DEF Lone, Turns
<1>2. /\ q \in Seq(Events(u))
      /\ ToSet(Left(s)) \subseteq ToSet(q) /\ ToSet(q) \subseteq ToSet(Left(s)) \cup {SendTo(w)}
      /\ ToSet(Left(s)) \subseteq ToSet(s.inbox)
      /\ ToSet(s.inbox) \subseteq ToSet(Left(s)) \cup {Head(s.inbox)}
      /\ InOrder(q) /\ EndsLast(q, u)
      /\ Head(s.inbox).kind \in {"quit", "refused"} => Attempt(u) \notin ToSet(q)
      /\ \A kind \in BevKinds, k \in Bevs : Signal(kind, k) \in ToSet(q) => Queued(s, kind, k)
      /\ \A kind \in BevKinds, k \in Bevs : Queued(s, kind, k) =>
           Signal(kind, k) \in ToSet(q) \/ Head(s.inbox) = Signal(kind, k)
      /\ Attempt(u) \in ToSet(q) => Attempt(u) \in ToSet(s.inbox)
  <2> HIDE DEF q
  <2>1. CASE q = Left(s)
    BY <1>1, <2>1, QueueTaken
  <2>2. CASE q = Append(Left(s), SendTo(w))
    BY <1>1, <2>2, QueueTaken
  <2> QED BY <1>1, <2>1, <2>2
<1> HIDE DEF q
<1>3. \A kind \in BevKinds, k \in Bevs :
         Head(s.inbox) = Signal(kind, k) => Takes(s, kind) /\ About(s) = k
  BY <1>1, EventKinds DEF Takes, About
<1>4. \A x \in Wrappers(u) : SendTo(x) = SendTo(w) => x = w
  BY DEF SendTo
<1>5. \A e \in ToSet(q) : e.kind \in BevKinds => e \in ToSet(s.inbox)
  BY <1>2, EventKinds
<1> QED BY <1>2, <1>3, <1>4, <1>5 DEF Queued, Sending, q

\* The wire has no message twice.
LEMMA WireAfter ==
    ASSUME NEW u, NEW s, NEW t, Lone(s, u), Alone(s, u), Wires(s, t, u)
    PROVE  /\ t.wire \in Seq(Messages(u)) /\ IsInjective(t.wire)
           /\ \A k \in Bevs : /\ OnWire(s, Enable(k)) => OnWire(t, Enable(k))
                              /\ OnWire(t, Enable(k)) =>
                                    OnWire(s, Enable(k)) \/ (Takes(s, "connected") /\ About(s) = k)
           /\ Takes(s, "connected") => OnWire(t, Enable(About(s)))
           /\ OnWire(s, Dial(u)) => OnWire(t, Dial(u))
           /\ OnWire(t, Dial(u)) => OnWire(s, Dial(u)) \/ Takes(s, "attempt")
<1>1. s.wire \in Seq(Messages(u)) /\ IsInjective(s.wire)
  BY DEF Lone, Typed, Once
<1>2. \A k \in Bevs : Enable(k) \in Messages(u) /\ Enable(k) # Dial(u)
  BY DEF Messages, Enable, Dial
<1>3. Dial(u) \in Messages(u)
  BY DEF Messages, Dial
<1>4. \A j, k \in Bevs : Enable(j) = Enable(k) => j = k
  BY DEF Enable
<1>5. CASE t.wire = s.wire /\ ~Takes(s, "connected")
  BY <1>1, <1>5 DEF OnWire
<1>6. CASE t.wire = Append(s.wire, Dial(u)) /\ Takes(s, "attempt") /\ s.connectTo # TRUE
  <2>1. s.inbox # <<>> /\ Head(s.inbox).kind = "attempt" /\ ~Takes(s, "connected")
    BY <1>6 DEF Takes
  <2>2. Head(s.inbox) = Attempt(u) /\ Head(s.inbox) \in ToSet(s.inbox)
    BY <2>1, TailSet, EventShapes DEF Lone, Typed
  <2>3. ~OnWire(s, Dial(u))
    BY <1>6, <2>2 DEF Alone
  <2>4. /\ t.wire \in Seq(Messages(u)) /\ ToSet(t.wire) = ToSet(s.wire) \cup {Dial(u)}
        /\ IsInjective(t.wire)
    BY <1>1, <1>3, <1>6, <2>3, AppendSet, InjectiveAppend DEF OnWire
  <2> QED BY <1>2, <1>6, <2>1, <2>4 DEF OnWire
<1>7. CASE t.wire = Append(s.wire, Enable(About(s))) /\ Takes(s, "connected")
  <2>1. About(s) \in Bevs /\ StageOf(s, About(s)) /\ Queued(s, "connected", About(s))
    BY <1>7, HeadOf DEF BevKinds
  <2>2. ~OnWire(s, Enable(About(s)))
    BY <2>1 DEF StageOf
  <2>3. /\ t.wire \in Seq(Messages(u)) /\ ToSet(t.wire) = ToSet(s.wire) \cup {Enable(About(s))}
        /\ IsInjective(t.wire)
    BY <1>1, <1>2, <1>7, <2>1, <2>2, AppendSet, InjectiveAppend DEF OnWire
  <2> QED BY <1>2, <1>4, <1>7, <2>1, <2>3 DEF OnWire
<1> QED BY <1>5, <1>6, <1>7 DEF Wires

\* What every handler does: it frees the connections f, of which nothing is
\* left to be heard.
Handles(s, t, u, w, f) ==
    /\ Turns(s, t, w) /\ Wires(s, t, u) /\ w \in Wrappers(u)
    /\ f \subseteq Bevs /\ t.freed = s.freed \cup f
    /\ \A k \in f : s.phase[k] = "off" /\ \A kind \in BevKinds : ~Queued(t, kind, k)
    /\ t.bw \in Wrappers(u) /\ t.extra \in Seq(Bevs)
    /\ t.held \in [Wrappers(u) -> Bevs \cup {NoBev}]
    /\ \A x \in Wrappers(u) : t.held[x] # NoBev => Settled(s, t.held[x])
    /\ \E k \in Bevs \cup {NoBev} : t.fd = ClosedAt(s.fd, k)
    /\ t.known \in BOOLEAN /\ t.connectTo \in BOOLEAN /\ t.isAuthed \in BOOLEAN
    /\ t.sock \in Bevs \cup {NoBev}

\* Closing a descriptor.
LEMMA Closing ==
    ASSUME NEW fds \in [Bevs -> {"none", "open", "closed", "reclosed"}],
           NEW k \in Bevs \cup {NoBev}
    PROVE  /\ ClosedAt(fds, k) \in [Bevs -> {"none", "open", "closed", "reclosed"}]
           /\ k = NoBev => ClosedAt(fds, k) = fds
           /\ k # NoBev => ClosedAt(fds, k)[k] \in {"closed", "reclosed"}
           /\ \A j \in Bevs : j # k => ClosedAt(fds, k)[j] = fds[j]
           /\ \A j \in Bevs : fds[j] # "none" => ClosedAt(fds, k)[j] # "none"
BY ConnectionsAssumption DEF ClosedAt

\* The types, the queues and the stages after a handler.
LEMMA InStep ==
    ASSUME NEW u, NEW s, NEW t, Lone(s, u), Alone(s, u), NEW w, NEW f, Handles(s, t, u, w, f)
    PROVE  Typed(t, u) /\ Reached(t, u) /\ Once(t, u) /\ Staged(t)
<1>1. /\ t.inbox \in Seq(Events(u)) /\ InOrder(t.inbox) /\ EndsLast(t.inbox, u)
      /\ \A kind \in BevKinds, k \in Bevs :
           /\ Queued(t, kind, k) => Queued(s, kind, k)
           /\ Queued(s, kind, k) => Queued(t, kind, k) \/ (Takes(s, kind) /\ About(s) = k)
      /\ \A e \in ToSet(t.inbox) : e.kind \in BevKinds => e \in ToSet(s.inbox)
  BY QueuedAfter DEF Handles
<1>2. /\ t.wire \in Seq(Messages(u)) /\ IsInjective(t.wire)
      /\ \A k \in Bevs : /\ OnWire(s, Enable(k)) => OnWire(t, Enable(k))
                         /\ OnWire(t, Enable(k)) =>
                               OnWire(s, Enable(k)) \/ (Takes(s, "connected") /\ About(s) = k)
      /\ Takes(s, "connected") => OnWire(t, Enable(About(s)))
  BY WireAfter DEF Handles
<1>3. t.phase = s.phase /\ t.dialled = s.dialled /\ t.remote = s.remote
  BY DEF Handles, Turns, SameNet
<1>4. PICK c \in Bevs \cup {NoBev} : t.fd = ClosedAt(s.fd, c)
  BY DEF Handles
<1>5. /\ t.fd \in [Bevs -> {"none", "open", "closed", "reclosed"}]
      /\ \A k \in Bevs : s.fd[k] # "none" => t.fd[k] # "none"
  BY <1>4, Closing DEF Lone, Typed
<1>6. Typed(t, u)
  BY <1>1, <1>2, <1>3, <1>5 DEF Handles, Lone, Typed
<1>7. \A k \in Bevs : Settled(t, k) <=> Settled(s, k)
  BY <1>3 DEF Settled
<1>8. Reached(t, u)
  <2>1. ASSUME NEW e \in ToSet(t.inbox), e.kind \in BevKinds PROVE Settled(t, e.bev)
    BY <1>1, <1>3, <2>1 DEF Lone, Reached, Settled
  <2>2. ASSUME NEW x \in Wrappers(u), t.held[x] # NoBev PROVE Settled(t, t.held[x])
    BY <1>3, <2>2 DEF Handles, Settled
  <2> QED BY <1>3, <1>5, <2>1, <2>2 DEF Lone, Reached
<1>9. Once(t, u)
  BY <1>1, <1>2 DEF Once
<1>10. ASSUME NEW k \in Bevs PROVE StageOf(t, k)
  <2>1. StageOf(s, k)
    BY DEF Lone, Staged
  <2>2. k \in t.freed => k \in s.freed \/ (s.phase[k] = "off" /\ \A kind \in BevKinds : ~Queued(t, kind, k))
    BY DEF Handles
  <2>3. \A kind \in BevKinds : Queued(t, kind, k) => Queued(s, kind, k)
    BY <1>1
  <2>4. \A kind \in {"connected", "refused", "newConnection", "quit", "auth"} \cup Kinds :
           kind \in BevKinds
    BY DEF BevKinds
  <2>5. \A kind \in BevKinds : Queued(t, kind, k) => k \notin t.freed
    BY <2>1, <2>2, <2>3 DEF StageOf
  <2>6. Takes(s, "connected") /\ About(s) = k =>
          /\ Queued(s, "connected", k) /\ s.phase[k] = "up" /\ k \in s.dialled
          /\ ~Queued(t, "connected", k)
    <3> SUFFICES ASSUME Takes(s, "connected"), About(s) = k
                 PROVE  /\ Queued(s, "connected", k) /\ s.phase[k] = "up" /\ k \in s.dialled
                        /\ ~Queued(t, "connected", k)
      OBVIOUS
    <3>1. Queued(s, "connected", k)
      BY <2>4, HeadOf
    <3>2. Signal("connected", k) \notin ToSet(Left(s))
      BY <2>4, WhatFollows
    <3>3. ~Queued(t, "connected", k)
      <4>1. CASE t.inbox = Left(s)
        BY <3>2, <4>1 DEF Queued
      <4>2. CASE t.inbox = Append(Left(s), SendTo(w))
        <5>1. ToSet(t.inbox) \subseteq ToSet(Left(s)) \cup {SendTo(w)}
          BY <4>2, QueueTaken DEF Lone, Handles, Turns
        <5>2. Signal("connected", k) # SendTo(w)
          BY EventKinds
        <5> QED BY <3>2, <5>1, <5>2 DEF Queued
      <4> QED BY <4>1, <4>2 DEF Handles, Turns
    <3> QED BY <2>1, <3>1, <3>3 DEF StageOf
  <2>7. OnWire(t, Enable(k)) => s.phase[k] = "up" /\ ~Queued(t, "connected", k)
    BY <1>2, <2>1, <2>3, <2>4, <2>6 DEF StageOf
  <2>8. s.phase[k] = "up" => k \in s.dialled /\ (Queued(t, "connected", k) \/ OnWire(t, Enable(k)))
    BY <1>1, <1>2, <2>1, <2>4 DEF StageOf
  <2>9. k \in t.freed => s.phase[k] = "off"
    BY <2>1, <2>2 DEF StageOf
  <2>10. /\ Queued(t, "connected", k) \/ Queued(t, "refused", k) => k \in s.dialled
         /\ Queued(t, "newConnection", k) => k \notin s.dialled
         /\ Queued(t, "connected", k) => s.phase[k] = "up"
         /\ Queued(t, "quit", k) \/ Queued(t, "refused", k) => s.phase[k] = "off"
         /\ \A kind \in {"auth"} \cup Kinds : Queued(t, kind, k) => s.phase[k] \in {"read", "off"}
    BY <2>1, <2>3, <2>4 DEF StageOf
  <2> QED BY <1>3, <2>5, <2>7, <2>8, <2>9, <2>10 DEF StageOf
<1> QED BY <1>6, <1>8, <1>9, <1>10 DEF Staged

\* What is kept of a connection that is not there any more, or not yet.
LEMMA DeadKept ==
    ASSUME NEW u, NEW t, Reached(t, u), Staged(t), Typed(t, u), NEW j \in Bevs, ~Live(t, j)
    PROVE  /\ \A kind \in BevKinds : ~Queued(t, kind, j)
           /\ KeptOf(t, u, j)
           /\ OpenOf(t, j) <=> (j \notin t.dialled /\ t.phase[j] = "off" => t.fd[j] # "open")
<1>1. ASSUME NEW kind \in BevKinds, Queued(t, kind, j) PROVE FALSE
  <2>1. Settled(t, j)
    BY <1>1, EventKinds DEF Reached, Queued
  <2>2. j \notin t.freed
    BY <1>1 DEF Staged, StageOf
  <2> QED BY <2>1, <2>2 DEF Live, Settled
<1>2. j \in t.freed => t.phase[j] = "off"
  BY DEF Staged, StageOf
<1>3. {"auth", "quit", "refused", "newConnection"} \subseteq BevKinds
  BY DEF BevKinds
<1>4. KeptOf(t, u, j)
  BY <1>1, <1>2, <1>3 DEF KeptOf, Live, Settled
<1>5. OpenOf(t, j) <=> (j \notin t.dialled /\ t.phase[j] = "off" => t.fd[j] # "open")
  BY <1>1, <1>2, <1>3 DEF OpenOf, Live
<1> QED BY <1>1, <1>4, <1>5

\* The connections that were not live before a handler.
LEMMA OthersKept ==
    ASSUME NEW u, NEW s, NEW t, Lone(s, u), Alone(s, u), NEW w, NEW f, Handles(s, t, u, w, f),
           NEW j \in Bevs, ~Live(s, j)
    PROVE  ~Live(t, j) /\ KeptOf(t, u, j) /\ OpenOf(t, j)
<1>1. Typed(t, u) /\ Reached(t, u) /\ Staged(t)
  BY InStep
<1>2. t.phase = s.phase /\ t.dialled = s.dialled /\ s.freed \subseteq t.freed
  BY DEF Handles, Turns, SameNet
<1>3. ~Live(t, j)
  BY <1>2 DEF Live
<1>4. j \notin s.dialled /\ s.phase[j] = "off" => s.fd[j] # "open"
  BY DeadKept DEF Lone, Session
<1>5. s.fd[j] # "open" => t.fd[j] # "open"
  <2>1. PICK c \in Bevs \cup {NoBev} : t.fd = ClosedAt(s.fd, c)
    BY DEF Handles
  <2>2. s.fd \in [Bevs -> {"none", "open", "closed", "reclosed"}]
    BY DEF Lone, Typed
  <2> QED BY <2>1, <2>2, Closing
<1> QED BY <1>1, <1>2, <1>3, <1>4, <1>5, DeadKept

\* The wrappers after a handler that leaves nothing in them.
LEMMA NobodyWrapped ==
    ASSUME NEW u, NEW s, NEW t, Lone(s, u), NEW f, Handles(s, t, u, s.bw, f),
           t.bw = s.bw, t.extra = <<>>, t.held = Nobody(u)
    PROVE  Wrapped(t, u)
<1>1. /\ \A k \in Bevs : Queued(t, "newConnection", k) => Queued(s, "newConnection", k)
      /\ \A x \in Wrappers(u) : Sending(t, x) => Sending(s, x) \/ x = s.bw
  <2>1. s.bw \in Wrappers(u) /\ Turns(s, t, s.bw) /\ "newConnection" \in BevKinds
    BY DEF Handles, BevKinds
  <2> QED BY <2>1, QueuedAfter
<1>2. t.phase = s.phase /\ t.dialled = s.dialled
  BY DEF Handles, Turns, SameNet
<1>3. ASSUME NEW k \in Bevs, Unheard(t, k) PROVE ~Owned(t, k) /\ ~Sending(t, k)
  <2>1. Unheard(s, k) /\ k \in Wrappers(u)
    BY <1>1, <1>2, <1>3 DEF Unheard, Settled, Wrappers
  <2>2. ~Owned(s, k) /\ ~Sending(s, k)
    BY <2>1 DEF Lone, Wrapped
  <2> QED BY <1>1, <2>1, <2>2, ShortLists, <1>3 DEF Owned
<1>4. \A x \in Wrappers(u) : t.held[x] = NoBev
  BY DEF Nobody
<1>5. ToSet(t.extra) = {} /\ IsInjective(t.extra)
  BY DEF ToSet, IsInjective
<1> QED BY <1>3, <1>4, <1>5 DEF Wrapped, Wrappers

\* The wrappers after a handler that leaves one connection in one of them.
LEMMA HeldByWrapped ==
    ASSUME NEW u, NEW s, NEW t, Lone(s, u), Alone(s, u), NEW w, NEW f, Handles(s, t, u, w, f),
           NEW k \in Bevs, k \notin t.freed,
           NEW x \in Wrappers(u), t.held = HeldBy(u, x, k),
           x = IF k \in s.dialled THEN t.bw ELSE k,
           t.extra = <<>> \/ (t.extra = <<k>> /\ x = k /\ t.bw # k),
           Owned(t, x) \/ Sending(t, x),
           ~Owned(t, x) => s.phase[k] = "off" /\ \A kind \in BevKinds : ~Queued(t, kind, k),
           k \notin s.dialled => ~Unheard(t, k),
           k \in s.dialled => t.bw = s.bw,
           t.bw \in {s.bw, x}, w \in {s.bw, x}
    PROVE  Wrapped(t, u)
<1>0. /\ \A kind \in BevKinds, j \in Bevs : Queued(t, kind, j) => Queued(s, kind, j)
      /\ \A v \in Wrappers(u) : Sending(t, v) => Sending(s, v) \/ v = w
  BY QueuedAfter DEF Handles
<1>1. /\ \A j \in Bevs : Queued(t, "newConnection", j) => Queued(s, "newConnection", j)
      /\ \A v \in Wrappers(u) : Sending(t, v) => Sending(s, v) \/ v = w
  BY <1>0 DEF BevKinds
<1>2. t.phase = s.phase /\ t.dialled = s.dialled
  BY DEF Handles, Turns, SameNet
<1>3. \A j \in Bevs : Unheard(t, j) => Unheard(s, j) /\ ~Owned(s, j) /\ ~Sending(s, j)
  BY <1>1, <1>2 DEF Unheard, Settled, Lone, Wrapped
<1>4. x \in Bevs => ~Unheard(t, x)
  <2>1. CASE k \in s.dialled
    BY <1>3, <2>1 DEF Owned
  <2>2. CASE k \notin s.dialled
    BY <2>2
  <2> QED BY <2>1, <2>2
<1>5. ToSet(t.extra) \subseteq {k} /\ IsInjective(t.extra)
      /\ (t.extra = <<>> => ToSet(t.extra) = {}) /\ (t.extra = <<k>> => ToSet(t.extra) = {k})
  BY ShortLists
<1>6. ASSUME NEW j \in Bevs, Unheard(t, j) PROVE ~Owned(t, j) /\ ~Sending(t, j)
  <2>1. j # x /\ j \in Wrappers(u)
    BY <1>4, <1>6 DEF Wrappers
  <2>2. ~Owned(s, j) /\ ~Sending(s, j)
    BY <1>3, <1>6
  <2>3. j # s.bw
    BY <2>2 DEF Owned
  <2>4. t.extra = <<k>> => x = k
    BY ShortLists
  <2>5. j \notin ToSet(t.extra)
    BY <1>5, <2>1, <2>4
  <2> QED BY <1>1, <2>1, <2>2, <2>3, <2>5 DEF Owned
<1>7. /\ \A v \in Wrappers(u) : t.held[v] # NoBev => v = x /\ t.held[v] = k
      /\ t.held[x] = k
  BY DEF HeldBy
<1>8. ASSUME NEW j \in Bevs, Queued(t, "newConnection", j) PROVE t.held[j] = NoBev
  <2>1. Unheard(t, j) /\ j \in Wrappers(u)
    BY <1>8 DEF Unheard, Wrappers
  <2> QED BY <1>4, <1>7, <2>1
<1>9. ASSUME NEW y \in ToSet(t.extra) PROVE t.held[y] = y
  BY <1>5, <1>7, <1>9
<1>10. t.bw \notin ToSet(t.extra)
  BY <1>5
<1>11. ASSUME NEW v \in Wrappers(u), t.held[v] # NoBev PROVE Holds(t, v)
  BY <1>2, <1>7, <1>11 DEF Holds
<1> QED BY <1>5, <1>6, <1>8, <1>9, <1>10, <1>11 DEF Wrapped

\* The wrappers after a handler nothing changes hands in.
LEMMA SameWrapped ==
    ASSUME NEW u, NEW s, NEW t, Lone(s, u), Alone(s, u), Handles(s, t, u, s.bw, {}),
           t.bw = s.bw, t.extra = s.extra, t.held = s.held,
           \A x \in Wrappers(u) : s.held[x] # NoBev => Owned(s, x) \/ Sending(t, x)
    PROVE  Wrapped(t, u)
<1>1. /\ \A kind \in BevKinds, j \in Bevs : Queued(t, kind, j) => Queued(s, kind, j)
      /\ \A v \in Wrappers(u) : Sending(t, v) => Sending(s, v) \/ v = s.bw
  <2>1. s.bw \in Wrappers(u) /\ Turns(s, t, s.bw)
    BY DEF Handles
  <2> QED BY <2>1, QueuedAfter
<1>2. t.phase = s.phase /\ t.dialled = s.dialled /\ t.freed = s.freed
  BY DEF Handles, Turns, SameNet
<1>3. ASSUME NEW j \in Bevs, Unheard(t, j) PROVE ~Owned(t, j) /\ ~Sending(t, j)
  <2>1. Unheard(s, j) /\ j \in Wrappers(u)
    BY <1>1, <1>2, <1>3 DEF Unheard, Settled, Wrappers, BevKinds
  <2>2. ~Owned(s, j) /\ ~Sending(s, j)
    BY <2>1 DEF Lone, Wrapped
  <2> QED BY <1>1, <2>1, <2>2 DEF Owned
<1>4. ASSUME NEW j \in Bevs, Queued(t, "newConnection", j) PROVE t.held[j] = NoBev
  BY <1>1, <1>4 DEF BevKinds, Lone, Wrapped
<1>5. ASSUME NEW x \in Wrappers(u), t.held[x] # NoBev PROVE Holds(t, x)
  <2>1. Holds(s, x) /\ (Owned(s, x) \/ Sending(t, x)) /\ s.held[x] \in Bevs
    BY <1>5 DEF Lone, Wrapped, Typed
  <2> QED BY <1>1, <1>2, <2>1 DEF Holds, Owned
<1> QED BY <1>3, <1>4, <1>5 DEF Wrapped, Lone

\* What is queued of a connection once an event about it was taken.
LEMMA AfterHead ==
    ASSUME NEW u, NEW s, NEW t, Lone(s, u), NEW w \in Wrappers(u), Turns(s, t, w),
           NEW kind \in BevKinds, Takes(s, kind), NEW other \in BevKinds,
           Queued(t, other, About(s))
    PROVE  /\ kind \notin {"quit", "refused"}
           /\ other \notin {"newConnection", "connected", "refused"}
           /\ other = "auth" => kind \in {"newConnection", "connected"}
<1>1. Signal(other, About(s)) # SendTo(w)
  BY EventKinds
<1>2. CASE t.inbox = Left(s)
  BY <1>2, WhatFollows DEF Queued
<1>3. CASE t.inbox = Append(Left(s), SendTo(w))
  <2>1. ToSet(t.inbox) \subseteq ToSet(Left(s)) \cup {SendTo(w)}
    BY <1>3, QueueTaken DEF Lone, Turns
  <2>2. Signal(other, About(s)) \in ToSet(Left(s))
    BY <1>1, <2>1 DEF Queued
  <2> QED BY <2>2, WhatFollows
<1> QED BY <1>2, <1>3 DEF Turns

\* What is proved of every handler.
Handled(s, t, u) ==
    Lone(t, u) /\ \E w \in Wrappers(u), f \in SUBSET Bevs : Handles(s, t, u, w, f)

\* Lone again, when the handler did what is said of it.
LEMMA LoneAgain ==
    ASSUME NEW u, NEW s, NEW t, Lone(s, u), Alone(s, u), NEW w, NEW f, Handles(s, t, u, w, f),
           Wrapped(t, u), Marked(t, u),
           t.held[t.bw] # NoBev \/ t.dialled # {} \/ OnWire(t, Dial(u)) => t.known = TRUE,
           t.isAuthed = TRUE <=> t.sock # NoBev,
           t.sock # NoBev => /\ t.held[t.bw] = t.sock /\ t.fd[t.sock] = "open"
                             /\ t.phase[t.sock] \in {"read", "off"},
           t.held[t.bw] # NoBev /\ t.held[t.bw] \notin t.dialled => t.sock = t.held[t.bw],
           \A j \in Bevs : Live(s, j) => KeptOf(t, u, j) /\ OpenOf(t, j)
    PROVE  Handled(s, t, u)
<1>1. Typed(t, u) /\ Reached(t, u) /\ Once(t, u) /\ Staged(t)
  BY InStep
<1>2. \A j \in Bevs : KeptOf(t, u, j) /\ OpenOf(t, j)
  BY OthersKept
<1>3. Kept(t, u) /\ Session(t)
  BY <1>2 DEF Kept, Session
<1>4. w \in Wrappers(u) /\ f \in SUBSET Bevs
  BY DEF Handles
<1> QED BY <1>1, <1>3, <1>4 DEF Lone, Handled

\* A call taken.
LEMMA CallKeeps ==
    ASSUME NEW u, u \notin Bevs, NEW s, NEW t, Lone(s, u), Alone(s, u),
           TakesCall(s, t, u), SameNet(s, t)
    PROVE  Handled(s, t, u)
<1> DEFINE k == About(s)
<1>1. /\ k \in Bevs /\ Queued(s, "newConnection", k) /\ Live(s, k) /\ k # NoBev
      /\ Settled(s, k) /\ StageOf(s, k) /\ s.inbox # <<>> /\ "newConnection" \in BevKinds
      /\ Takes(s, "newConnection")
  BY HeadOf DEF TakesCall, BevKinds
<1>2. /\ k \notin s.dialled /\ s.bw # k /\ s.held = Nobody(u)
      /\ Has(s, t, Append(Left(s), SendTo(k)), s.bw, <<k>>, HeldBy(u, k, k), {})
  BY CallLeaves
<1>3. SameEntry(s, t) /\ t.fd = s.fd /\ t.wire = s.wire
  BY DEF TakesCall
<1> HIDE DEF k
<1>4. k \in Wrappers(u) /\ s.bw \in Wrappers(u)
  BY <1>1 DEF Wrappers, Lone, Typed
<1>5. /\ HeldBy(u, k, k) \in [Wrappers(u) -> Bevs \cup {NoBev}]
      /\ \A x \in Wrappers(u) : HeldBy(u, k, k)[x] = IF x = k THEN k ELSE NoBev
      /\ \A x \in Wrappers(u) : s.held[x] = NoBev
  BY <1>1, <1>2 DEF HeldBy, Nobody
<1>6. Turns(s, t, k)
  BY <1>1, <1>2 DEF Turns, Has
<1>7. Wires(s, t, u)
  BY <1>1, <1>3 DEF Wires, Takes
<1>8. ClosedAt(s.fd, NoBev) = s.fd
  BY Closing DEF Lone, Typed
<1>9. Handles(s, t, u, k, {})
  BY <1>1, <1>2, <1>3, <1>4, <1>5, <1>6, <1>7, <1>8, ShortLists
     DEF Handles, Has, SameEntry, Lone, Typed
<1>10. /\ \A kind \in BevKinds, j \in Bevs : Queued(t, kind, j) => Queued(s, kind, j)
       /\ \A kind \in BevKinds, j \in Bevs :
             Queued(s, kind, j) => Queued(t, kind, j) \/ kind = "newConnection"
       /\ ~Queued(t, "newConnection", k)
  <2>1. \A kind \in BevKinds : Takes(s, kind) => kind = "newConnection"
    BY <1>1 DEF Takes
  <2>2. ~Queued(t, "newConnection", k)
    BY <1>1, <1>4, <1>6, AfterHead DEF k
  <2> QED BY <1>4, <1>6, <2>1, <2>2, QueuedAfter
<1>11. t.phase = s.phase /\ t.dialled = s.dialled /\ t.freed = s.freed /\ t.bw = s.bw
       /\ t.held = HeldBy(u, k, k) /\ t.extra = <<k>>
  BY <1>2, <1>6 DEF Turns, SameNet, Has
<1>12. Owned(t, k) /\ ~Unheard(t, k) /\ k \notin t.freed
  BY <1>1, <1>2, <1>10, <1>11, ShortLists DEF Owned, Unheard, Settled, Live
<1>13. Wrapped(t, u)
  BY <1>1, <1>2, <1>4, <1>9, <1>11, <1>12, HeldByWrapped
<1>14. t.held[t.bw] = NoBev /\ t.held[k] = k /\ s.held[s.bw] = NoBev
  BY <1>2, <1>4, <1>5, <1>11
<1>15. Marked(t, u)
  BY <1>3, <1>10, <1>11, <1>14 DEF Marked, Lone, SameEntry, OnWire, BevKinds, Typed
<1>16. s.sock = NoBev /\ t.sock = s.sock /\ t.isAuthed = s.isAuthed /\ t.known = s.known
       /\ (s.isAuthed = TRUE <=> s.sock # NoBev)
  BY <1>3, <1>14 DEF Lone, Session, SameEntry
<1>17. KeptOf(t, u, k) /\ OpenOf(t, k)
  <2>1. s.phase[k] = "off" => Queued(t, "quit", k)
    <3>1. s.phase[k] = "off" => Queued(s, "quit", k) \/ Queued(s, "refused", k)
      BY <1>1, <1>5 DEF Lone, Kept, KeptOf, Live
    <3> QED BY <1>1, <1>2, <1>10, <3>1 DEF StageOf, BevKinds
  <2>2. s.phase[k] = "read" => Queued(t, "auth", k)
    <3>1. s.phase[k] = "read" => Queued(s, "auth", k)
      BY <1>1, <1>16 DEF Lone, Session, OpenOf
    <3> QED BY <1>1, <1>10, <3>1 DEF BevKinds
  <2>3. KeptOf(t, u, k)
    BY <1>1, <1>4, <1>11, <1>14, <2>1, ShortLists DEF KeptOf
  <2>4. s.phase[k] # "unused" => s.fd[k] = "open"
    <3>1. s.phase[k] = "off" => Queued(s, "quit", k)
      BY <1>1, <1>10, <2>1 DEF BevKinds
    <3> QED BY <1>1, <3>1 DEF Lone, Session, OpenOf
  <2>5. OpenOf(t, k)
    BY <1>3, <1>11, <2>1, <2>2, <2>4, <1>1 DEF OpenOf, Live
  <2> QED BY <2>3, <2>5
<1>18. \A j \in Bevs : Live(s, j) => j = k
  BY <1>1 DEF Alone
<1>19. t.dialled # {} \/ OnWire(t, Dial(u)) => t.known = TRUE
  BY <1>3, <1>11, <1>16 DEF Lone, Kept, OnWire
<1> QED BY <1>9, <1>13, <1>14, <1>15, <1>16, <1>17, <1>18, <1>19, LoneAgain

\* An authentication taken.
LEMMA AuthKeeps ==
    ASSUME NEW u, u \notin Bevs, NEW s, NEW t, Lone(s, u), Alone(s, u),
           TakesAuth(s, t, u), SameNet(s, t)
    PROVE  Handled(s, t, u)
<1> DEFINE k == About(s)
           w == IF k \in s.dialled THEN s.bw ELSE k
<1>1. /\ k \in Bevs /\ Queued(s, "auth", k) /\ Live(s, k) /\ k # NoBev
      /\ Settled(s, k) /\ StageOf(s, k) /\ s.inbox # <<>> /\ "auth" \in BevKinds
      /\ Takes(s, "auth") /\ s.phase[k] \in {"read", "off"} /\ k \notin s.freed
  BY HeadOf DEF TakesAuth, BevKinds, Live, StageOf
<1>2. /\ t.known = TRUE /\ t.connectTo = TRUE /\ t.isAuthed = TRUE /\ t.sock = k
      /\ t.fd = s.fd /\ t.wire = s.wire
      /\ Has(s, t, Append(Left(s), SendTo(w)), w, <<>>, HeldBy(u, w, k), {})
      /\ s.held = HeldBy(u, w, k) /\ w \in Wrappers(u)
      /\ s.bw # w => s.held[s.bw] = NoBev
  BY AuthLeaves
<1>3. w = (IF k \in s.dialled THEN s.bw ELSE k)
  OBVIOUS
<1> HIDE DEF w
<1>4. \A kind \in BevKinds :
         Queued(s, kind, k) => kind = "auth" \/ kind \notin {"newConnection", "connected", "refused"}
  BY <1>1, WhatFollows
<1> HIDE DEF k
<1>5. /\ HeldBy(u, w, k) \in [Wrappers(u) -> Bevs \cup {NoBev}]
      /\ \A x \in Wrappers(u) : HeldBy(u, w, k)[x] = IF x = w THEN k ELSE NoBev
  BY <1>1 DEF HeldBy
<1>6. Turns(s, t, w)
  BY <1>1, <1>2 DEF Turns, Has
<1>7. Wires(s, t, u)
  BY <1>1, <1>2 DEF Wires, Takes
<1>8. ClosedAt(s.fd, NoBev) = s.fd
  BY Closing DEF Lone, Typed
<1>9. Handles(s, t, u, w, {})
  BY <1>1, <1>2, <1>5, <1>6, <1>7, <1>8, ShortLists DEF Handles, Has
<1>10. /\ \A kind \in BevKinds, j \in Bevs : Queued(t, kind, j) => Queued(s, kind, j)
       /\ \A kind \in BevKinds, j \in Bevs :
             Queued(s, kind, j) => Queued(t, kind, j) \/ kind = "auth"
       /\ ~Queued(t, "auth", k)
  <2>1. \A kind \in BevKinds : Takes(s, kind) => kind = "auth"
    BY <1>1 DEF Takes
  <2>2. ~Queued(t, "auth", k)
    BY <1>1, <1>2, <1>6, AfterHead DEF k
  <2> QED BY <1>2, <1>6, <2>1, <2>2, QueuedAfter
<1>11. t.phase = s.phase /\ t.dialled = s.dialled /\ t.freed = s.freed /\ t.bw = w
       /\ t.held = HeldBy(u, w, k) /\ t.extra = <<>>
  BY <1>2, <1>6 DEF Turns, SameNet, Has
<1>12. /\ Owned(t, w) /\ k \notin t.freed
       /\ k \notin s.dialled => ~Unheard(t, k)
  <2>1. ~Queued(t, "newConnection", k)
    BY <1>1, <1>4, <1>10 DEF BevKinds
  <2> QED BY <1>1, <1>11, <2>1 DEF Owned, Unheard, Settled
<1>13. Wrapped(t, u)
  BY <1>1, <1>2, <1>3, <1>9, <1>11, <1>12, HeldByWrapped
<1>14. t.held[t.bw] = k /\ s.held[w] = k
  BY <1>2, <1>5, <1>11
<1>15. Marked(t, u)
  BY <1>1, <1>14 DEF Marked
<1>16. s.phase[k] = "off" => Queued(s, "quit", k) /\ Queued(t, "quit", k)
  <2>1. ASSUME s.phase[k] = "off" PROVE Queued(s, "quit", k)
    <3>1. \/ Queued(s, "quit", k) \/ Queued(s, "refused", k)
          \/ \E v \in Wrappers(u) : s.held[v] = k /\ ~Owned(s, v)
      BY <1>1, <2>1 DEF Lone, Kept, KeptOf
    <3>2. ~Queued(s, "refused", k)
      BY <1>4 DEF BevKinds
    <3>3. \A v \in Wrappers(u) : s.held[v] = k => Owned(s, v)
      BY <1>1 DEF Lone, Wrapped, Holds
    <3> QED BY <3>1, <3>2, <3>3
  <2> QED BY <2>1, <1>1, <1>10 DEF BevKinds
<1>17. KeptOf(t, u, k) /\ OpenOf(t, k) /\ t.fd[k] = "open"
  <2>1. KeptOf(t, u, k)
    BY <1>1, <1>2, <1>10, <1>11, <1>14, <1>16 DEF KeptOf
  <2>2. s.phase[k] # "unused" => s.fd[k] = "open"
    BY <1>1, <1>16 DEF Lone, Session, OpenOf
  <2>3. OpenOf(t, k) /\ t.fd[k] = "open"
    BY <1>1, <1>2, <1>11, <1>16, <2>2 DEF OpenOf
  <2> QED BY <2>1, <2>3
<1>18. \A j \in Bevs : Live(s, j) => j = k
  BY <1>1 DEF Alone
<1> QED BY <1>1, <1>2, <1>9, <1>11, <1>13, <1>14, <1>15, <1>17, <1>18, LoneAgain

\* The end of the entry's connection taken.
LEMMA LetGoKeeps ==
    ASSUME NEW u, u \notin Bevs, NEW s, NEW t, Lone(s, u), Alone(s, u), Takes(s, "quit"),
           LetsGo(s, t, u), t.wire = s.wire, SameNet(s, t)
    PROVE  Handled(s, t, u)
<1> DEFINE k == About(s)
<1>1. /\ k \in Bevs /\ Queued(s, "quit", k) /\ Live(s, k) /\ k # NoBev
      /\ Settled(s, k) /\ StageOf(s, k) /\ s.inbox # <<>> /\ "quit" \in BevKinds
      /\ s.phase[k] = "off"
  BY HeadOf DEF BevKinds, StageOf
<1>2. /\ s.held[s.bw] = k /\ s.sock \in {NoBev, k}
      /\ Has(s, t, Left(s), s.bw, <<>>, Nobody(u), {k})
  BY LetGoLeaves
<1>3. /\ t.known = TRUE /\ t.connectTo = FALSE /\ t.isAuthed = FALSE /\ t.sock = NoBev
      /\ t.fd = ClosedAt(s.fd, s.sock)
  BY DEF LetsGo
<1>4. s.bw \in Wrappers(u)
  BY DEF Lone, Typed
<1>5. Turns(s, t, s.bw)
  BY <1>1, <1>2 DEF Turns, Has
<1>6. \A kind \in BevKinds : ~Queued(t, kind, k)
  BY <1>1, <1>4, <1>5, AfterHead
<1> HIDE DEF k
<1>7. Wires(s, t, u)
  BY DEF Wires, Takes
<1>8. /\ Nobody(u) \in [Wrappers(u) -> Bevs \cup {NoBev}]
      /\ \A x \in Wrappers(u) : Nobody(u)[x] = NoBev
  BY DEF Nobody
<1>9. s.sock \in Bevs \cup {NoBev} /\ {k} \subseteq Bevs
  BY <1>1 DEF Lone, Typed
<1>10. Handles(s, t, u, s.bw, {k})
  BY <1>1, <1>2, <1>3, <1>4, <1>5, <1>6, <1>7, <1>8, <1>9, ShortLists DEF Handles, Has
<1>11. t.phase = s.phase /\ t.dialled = s.dialled /\ t.freed = s.freed \cup {k} /\ t.bw = s.bw
       /\ t.held = Nobody(u) /\ t.extra = <<>>
  BY <1>2, <1>5 DEF Turns, SameNet, Has
<1>12. Wrapped(t, u)
  BY <1>10, <1>11, NobodyWrapped
<1>13. Marked(t, u)
  BY <1>3 DEF Marked
<1>14. t.held[t.bw] = NoBev
  BY <1>4, <1>8, <1>11
<1>15. KeptOf(t, u, k) /\ OpenOf(t, k)
  <2>1. ~Live(t, k)
    BY <1>11 DEF Live
  <2>2. Typed(t, u) /\ Reached(t, u) /\ Staged(t)
    BY <1>10, InStep
  <2>3. k \notin s.dialled => s.sock = k
    BY <1>1, <1>2 DEF Lone, Session
  <2>4. k \notin s.dialled => t.fd[k] # "open"
    <3>1. s.fd \in [Bevs -> {"none", "open", "closed", "reclosed"}]
      BY DEF Lone, Typed
    <3> QED BY <1>1, <1>3, <2>3, <3>1, Closing
  <2> QED BY <1>1, <1>11, <2>1, <2>2, <2>4, DeadKept
<1>16. \A j \in Bevs : Live(s, j) => j = k
  BY <1>1 DEF Alone
<1> QED BY <1>3, <1>10, <1>12, <1>13, <1>14, <1>15, <1>16, LoneAgain

\* A refusal taken.
LEMMA RefusedKeeps ==
    ASSUME NEW u, u \notin Bevs, NEW s, NEW t, Lone(s, u), Alone(s, u),
           TakesRefused(s, t, u), SameNet(s, t)
    PROVE  Handled(s, t, u)
<1> DEFINE k == About(s)
<1>1. /\ k \in Bevs /\ Queued(s, "refused", k) /\ Live(s, k) /\ k # NoBev
      /\ Settled(s, k) /\ StageOf(s, k) /\ s.inbox # <<>> /\ "refused" \in BevKinds
      /\ s.phase[k] = "off" /\ Takes(s, "refused")
  BY HeadOf DEF TakesRefused, BevKinds, StageOf
<1>2. k \in s.dialled /\ Has(s, t, Left(s), s.bw, <<>>, Nobody(u), {k})
  BY RefusedLeaves
<1>3. /\ t.known = s.known /\ t.connectTo = FALSE /\ t.isAuthed = FALSE /\ t.sock = NoBev
      /\ t.fd = ClosedAt(s.fd, k) /\ t.wire = s.wire
  BY DEF TakesRefused
<1>4. s.bw \in Wrappers(u)
  BY DEF Lone, Typed
<1>5. Turns(s, t, s.bw)
  BY <1>1, <1>2 DEF Turns, Has
<1>6. \A kind \in BevKinds : ~Queued(t, kind, k)
  BY <1>1, <1>4, <1>5, AfterHead
<1> HIDE DEF k
<1>7. Wires(s, t, u)
  BY <1>1, <1>3 DEF Wires, Takes
<1>8. /\ Nobody(u) \in [Wrappers(u) -> Bevs \cup {NoBev}]
      /\ \A x \in Wrappers(u) : Nobody(u)[x] = NoBev
  BY DEF Nobody
<1>9. {k} \subseteq Bevs /\ s.known \in BOOLEAN
  BY <1>1 DEF Lone, Typed
<1>10. Handles(s, t, u, s.bw, {k})
  BY <1>1, <1>2, <1>3, <1>4, <1>5, <1>6, <1>7, <1>8, <1>9, ShortLists DEF Handles, Has
<1>11. t.phase = s.phase /\ t.dialled = s.dialled /\ t.freed = s.freed \cup {k} /\ t.bw = s.bw
       /\ t.held = Nobody(u) /\ t.extra = <<>>
  BY <1>2, <1>5 DEF Turns, SameNet, Has
<1>12. Wrapped(t, u)
  BY <1>10, <1>11, NobodyWrapped
<1>13. Marked(t, u)
  BY <1>3 DEF Marked
<1>14. t.held[t.bw] = NoBev
  BY <1>4, <1>8, <1>11
<1>15. KeptOf(t, u, k) /\ OpenOf(t, k)
  <2>1. ~Live(t, k)
    BY <1>11 DEF Live
  <2>2. Typed(t, u) /\ Reached(t, u) /\ Staged(t)
    BY <1>10, InStep
  <2> QED BY <1>1, <1>2, <1>11, <2>1, <2>2, DeadKept
<1>16. \A j \in Bevs : Live(s, j) => j = k
  BY <1>1 DEF Alone
<1>17. s.known = TRUE
  BY <1>2 DEF Lone, Kept
<1> QED BY <1>3, <1>10, <1>12, <1>13, <1>14, <1>15, <1>16, <1>17, LoneAgain

\* The success of a dial taken.
LEMMA ConnectedKeeps ==
    ASSUME NEW u, u \notin Bevs, NEW s, NEW t, Lone(s, u), Alone(s, u),
           TakesConnected(s, t, u), SameNet(s, t)
    PROVE  Handled(s, t, u)
<1> DEFINE k == About(s)
<1>1. /\ k \in Bevs /\ Queued(s, "connected", k) /\ Live(s, k) /\ k # NoBev
      /\ Settled(s, k) /\ StageOf(s, k) /\ s.inbox # <<>> /\ "connected" \in BevKinds
      /\ s.phase[k] = "up" /\ Takes(s, "connected") /\ k \notin s.freed
  BY HeadOf DEF TakesConnected, BevKinds, StageOf, Live
<1>2. /\ k \in s.dialled
      /\ Has(s, t, Append(Left(s), SendTo(s.bw)), s.bw, <<>>, HeldBy(u, s.bw, k), {})
      /\ s.held = HeldBy(u, s.bw, k) \/ s.held = Nobody(u)
  BY ConnectedLeaves
<1>3. SameEntry(s, t) /\ t.fd = s.fd /\ t.wire = Append(s.wire, Enable(k))
  BY DEF TakesConnected
<1>4. s.bw \in Wrappers(u)
  BY DEF Lone, Typed
<1>5. Turns(s, t, s.bw)
  BY <1>1, <1>2 DEF Turns, Has
<1>6. Wires(s, t, u)
  BY <1>1, <1>3 DEF Wires
<1> HIDE DEF k
<1>7. /\ HeldBy(u, s.bw, k) \in [Wrappers(u) -> Bevs \cup {NoBev}]
      /\ \A x \in Wrappers(u) : HeldBy(u, s.bw, k)[x] = IF x = s.bw THEN k ELSE NoBev
      /\ s.held[s.bw] \in {NoBev, k}
  BY <1>1, <1>2, <1>4 DEF HeldBy, Nobody
<1>8. ClosedAt(s.fd, NoBev) = s.fd
  BY Closing DEF Lone, Typed
<1>9. Handles(s, t, u, s.bw, {})
  BY <1>1, <1>2, <1>3, <1>4, <1>5, <1>6, <1>7, <1>8, ShortLists
     DEF Handles, Has, SameEntry, Lone, Typed
<1>10. t.phase = s.phase /\ t.dialled = s.dialled /\ t.freed = s.freed /\ t.bw = s.bw
       /\ t.held = HeldBy(u, s.bw, k) /\ t.extra = <<>>
  BY <1>2, <1>5 DEF Turns, SameNet, Has
<1>11. Owned(t, s.bw) /\ k \notin t.freed
  BY <1>1, <1>10 DEF Owned
<1>12. Wrapped(t, u)
  BY <1>1, <1>2, <1>4, <1>9, <1>10, <1>11, HeldByWrapped
<1>13. t.held[t.bw] = k
  BY <1>4, <1>7, <1>10
<1>14. Marked(t, u)
  BY <1>1, <1>13 DEF Marked
<1>15. s.sock = NoBev /\ t.sock = s.sock /\ t.isAuthed = s.isAuthed /\ t.known = s.known
       /\ (s.isAuthed = TRUE <=> s.sock # NoBev) /\ s.known = TRUE
  BY <1>1, <1>2, <1>3, <1>7 DEF Lone, Session, SameEntry, Kept
<1>16. KeptOf(t, u, k) /\ OpenOf(t, k)
  <2>1. KeptOf(t, u, k)
    BY <1>1, <1>2, <1>4, <1>10, <1>13 DEF KeptOf
  <2>2. s.fd[k] = "open"
    BY <1>1 DEF Lone, Session, OpenOf
  <2> QED BY <1>1, <1>2, <1>3, <1>10, <2>1, <2>2 DEF OpenOf
<1>17. \A j \in Bevs : Live(s, j) => j = k
  BY <1>1 DEF Alone
<1> QED BY <1>2, <1>9, <1>10, <1>12, <1>13, <1>14, <1>15, <1>16, <1>17, LoneAgain

\* A forgotten call stays in its wrapper, or is given back with it.
LEMMA DropKeeps ==
    ASSUME NEW u, u \notin Bevs, NEW s, NEW t, Lone(s, u), Alone(s, u), SameNet(s, t),
           NEW k \in Bevs, Live(s, k), Settled(s, k), k \notin s.dialled, s.bw # k,
           s.held = HeldBy(u, k, k), Drops(s, t, u, k),
           s.phase[k] = "off", \A kind \in BevKinds : ~Queued(t, kind, k),
           s.inbox # <<>>, Head(s.inbox).kind \in {"quit", "send"},
           SameEntry(s, t), t.wire = s.wire,
           NEW c \in {NoBev, k}, t.fd = ClosedAt(s.fd, c), t.fd[k] # "open"
    PROVE  Handled(s, t, u)
<1> DEFINE f == IF SendTo(k) \in ToSet(Left(s)) THEN {} ELSE {k}
           hs == IF SendTo(k) \in ToSet(Left(s)) THEN HeldBy(u, k, k) ELSE Nobody(u)
<1>1. Has(s, t, Left(s), s.bw, <<>>, hs, f) /\ f \subseteq {k}
  BY DEF Drops
<1>2. s.bw \in Wrappers(u) /\ k \in Wrappers(u) /\ k # NoBev
  BY ConnectionsAssumption DEF Lone, Typed, Wrappers
<1>3. Turns(s, t, s.bw)
  BY <1>1 DEF Turns, Has
<1>4. Wires(s, t, u)
  BY DEF Wires, Takes
<1>5. /\ \A x \in Wrappers(u) : Nobody(u)[x] = NoBev
      /\ \A x \in Wrappers(u) : HeldBy(u, k, k)[x] = IF x = k THEN k ELSE NoBev
      /\ Nobody(u) \in [Wrappers(u) -> Bevs \cup {NoBev}]
      /\ HeldBy(u, k, k) \in [Wrappers(u) -> Bevs \cup {NoBev}]
  BY DEF Nobody, HeldBy
<1>6. /\ hs \in [Wrappers(u) -> Bevs \cup {NoBev}]
      /\ \A x \in Wrappers(u) : hs[x] # NoBev => hs[x] = k /\ x = k
  BY <1>5
<1>7. Handles(s, t, u, s.bw, f)
  <2>1. t.extra \in Seq(Bevs) /\ t.bw \in Wrappers(u) /\ t.freed = s.freed \cup f /\ t.held = hs
    BY <1>1, <1>2, ShortLists DEF Has
  <2>2. \A j \in f : s.phase[j] = "off" /\ \A kind \in BevKinds : ~Queued(t, kind, j)
    BY <1>1
  <2>3. /\ t.known \in BOOLEAN /\ t.connectTo \in BOOLEAN /\ t.isAuthed \in BOOLEAN
        /\ t.sock \in Bevs \cup {NoBev}
    BY DEF SameEntry, Lone, Typed
  <2> QED BY <1>1, <1>2, <1>3, <1>4, <1>6, <2>1, <2>2, <2>3 DEF Handles
<1>8. /\ \A kind \in BevKinds, j \in Bevs : Queued(t, kind, j) => Queued(s, kind, j)
      /\ \A kind \in {"connected", "refused"}, j \in Bevs : Queued(s, kind, j) => Queued(t, kind, j)
  <2>1. \A kind \in {"connected", "refused"} : ~Takes(s, kind) /\ kind \in BevKinds
    BY DEF Takes, BevKinds
  <2> QED BY <1>2, <1>3, <2>1, QueuedAfter
<1>9. t.phase = s.phase /\ t.dialled = s.dialled /\ t.freed = s.freed \cup f /\ t.bw = s.bw
      /\ t.held = hs /\ t.extra = <<>>
  BY <1>1, <1>3 DEF Turns, SameNet, Has
<1>10. Wrapped(t, u)
  <2>1. CASE SendTo(k) \in ToSet(Left(s))
    <3>1. t.held = HeldBy(u, k, k) /\ Sending(t, k) /\ k \notin t.freed
      BY <1>1, <1>9, <2>1 DEF Sending, Has, Live
    <3>2. ~Unheard(t, k)
      BY <1>9 DEF Unheard, Settled, BevKinds
    <3> QED BY <1>2, <1>7, <1>9, <3>1, <3>2, HeldByWrapped
  <2>2. CASE SendTo(k) \notin ToSet(Left(s))
    BY <1>7, <1>9, <2>2, NobodyWrapped
  <2> QED BY <2>1, <2>2
<1>11. t.held[t.bw] = NoBev /\ s.held[s.bw] = NoBev
  BY <1>2, <1>5, <1>9
<1>12. SameEntry(s, t)
  OBVIOUS
<1>13. Marked(t, u)
  <2>1. \A j \in s.dialled : j \in Bevs
    BY DEF Lone, Typed
  <2> QED BY <1>8, <1>9, <1>11, <1>12, <2>1 DEF Marked, Lone, SameEntry, OnWire
<1>14. t.sock = NoBev /\ (t.isAuthed = TRUE <=> t.sock # NoBev)
  BY <1>11, <1>12 DEF Lone, Session, SameEntry
<1>15. KeptOf(t, u, k) /\ OpenOf(t, k)
  <2>1. Typed(t, u) /\ Reached(t, u) /\ Staged(t)
    BY <1>7, InStep
  <2>2. CASE SendTo(k) \in ToSet(Left(s))
    <3>1. t.held[k] = k /\ ~Owned(t, k)
      BY <1>2, <1>5, <1>9, <2>2, ShortLists DEF Owned
    <3>2. {"auth", "quit", "refused"} \subseteq BevKinds
      BY DEF BevKinds
    <3>3. KeptOf(t, u, k)
      BY <1>2, <1>9, <3>1, <3>2 DEF KeptOf
    <3>4. OpenOf(t, k)
      BY <1>9, <3>2 DEF OpenOf
    <3> QED BY <3>3, <3>4
  <2>3. CASE SendTo(k) \notin ToSet(Left(s))
    BY <1>9, <2>1, <2>3, DeadKept DEF Live
  <2> QED BY <2>2, <2>3
<1>16. \A j \in Bevs : Live(s, j) => j = k
  BY DEF Alone
<1>17. t.dialled # {} \/ OnWire(t, Dial(u)) => t.known = TRUE
  BY <1>9, <1>12 DEF Lone, Kept, OnWire, SameEntry
<1> HIDE DEF f, hs
<1> QED BY <1>7, <1>10, <1>11, <1>13, <1>14, <1>15, <1>16, <1>17, LoneAgain

\* The end of an unauthenticated call taken.
LEMMA GiveUpKeeps ==
    ASSUME NEW u, u \notin Bevs, NEW s, NEW t, Lone(s, u), Alone(s, u), Takes(s, "quit"),
           GivesUp(s, t, u), t.wire = s.wire, SameNet(s, t)
    PROVE  Handled(s, t, u)
<1> DEFINE k == About(s)
<1>1. /\ k \in Bevs /\ Queued(s, "quit", k) /\ Live(s, k) /\ k # NoBev
      /\ Settled(s, k) /\ StageOf(s, k) /\ s.inbox # <<>> /\ "quit" \in BevKinds
      /\ s.phase[k] = "off" /\ Head(s.inbox).kind = "quit"
  BY HeadOf DEF BevKinds, StageOf, Takes
<1>2. s.held = HeldBy(u, k, k) /\ s.bw # k /\ k \notin s.dialled /\ Drops(s, t, u, k)
  BY GiveUpLeaves
<1>3. SameEntry(s, t) /\ t.fd = ClosedAt(s.fd, k)
  BY DEF GivesUp
<1>4. s.bw \in Wrappers(u) /\ s.fd \in [Bevs -> {"none", "open", "closed", "reclosed"}]
  BY DEF Lone, Typed
<1>5. Turns(s, t, s.bw)
  BY <1>1, <1>2 DEF Turns, Drops, Has
<1>6. \A kind \in BevKinds : ~Queued(t, kind, k)
  BY <1>1, <1>4, <1>5, AfterHead
<1>7. t.fd[k] # "open"
  BY <1>1, <1>3, <1>4, Closing
<1> HIDE DEF k
<1> QED BY <1>1, <1>2, <1>3, <1>6, <1>7, DropKeeps

\* Nothing but the queue and a dial changes.
LEMMA SteadyKeeps ==
    ASSUME NEW u, NEW s, NEW t, Lone(s, u), Alone(s, u), Handles(s, t, u, s.bw, {}),
           t.bw = s.bw, t.extra = s.extra, t.held = s.held, t.fd = s.fd,
           \A x \in Wrappers(u) : s.held[x] # NoBev => Owned(s, x) \/ Sending(t, x),
           Head(s.inbox).kind \notin {"newConnection", "auth", "quit", "connected", "refused"},
           t.isAuthed = s.isAuthed, t.sock = s.sock,
           t.known = s.known \/ t.known = TRUE,
           OnWire(t, Dial(u)) => OnWire(s, Dial(u)) \/ t.known = TRUE,
           OnWire(s, Dial(u)) => OnWire(t, Dial(u)),
           t.connectTo = TRUE => s.connectTo = TRUE \/ OnWire(t, Dial(u))
    PROVE  Handled(s, t, u)
<1> DEFINE Table == {"newConnection", "auth", "quit", "connected", "refused"}
<1>1. /\ \A kind \in BevKinds, j \in Bevs : Queued(t, kind, j) => Queued(s, kind, j)
      /\ \A kind \in Table, j \in Bevs : Queued(s, kind, j) => Queued(t, kind, j)
  <2>1. \A kind \in Table : ~Takes(s, kind) /\ kind \in BevKinds
    BY DEF Takes, BevKinds
  <2> QED BY <2>1, QueuedAfter DEF Handles
<1>2. \A kind \in Table, j \in Bevs : Queued(s, kind, j) <=> Queued(t, kind, j)
  BY <1>1 DEF BevKinds
<1>3. t.phase = s.phase /\ t.dialled = s.dialled /\ t.freed = s.freed
  BY DEF Handles, Turns, SameNet
<1>4. Wrapped(t, u)
  BY SameWrapped
<1>5. Marked(t, u)
  <2>1. \A j \in s.dialled : j \in Bevs
    BY DEF Lone, Typed
  <2> QED BY <1>2, <1>3, <2>1 DEF Marked, Lone
<1>6. ASSUME NEW j \in Bevs PROVE KeptOf(t, u, j) /\ OpenOf(t, j)
  <2>1. /\ Queued(s, "newConnection", j) <=> Queued(t, "newConnection", j)
        /\ Queued(s, "connected", j) <=> Queued(t, "connected", j)
        /\ Queued(s, "refused", j) <=> Queued(t, "refused", j)
        /\ Queued(s, "auth", j) <=> Queued(t, "auth", j)
        /\ Queued(s, "quit", j) <=> Queued(t, "quit", j)
    BY <1>2
  <2>2. \A x \in Wrappers(u) : Owned(t, x) <=> Owned(s, x)
    BY DEF Owned
  <2>3. Settled(t, j) <=> Settled(s, j)
    BY <1>3 DEF Settled
  <2>4. KeptOf(s, u, j) /\ OpenOf(s, j)
    BY DEF Lone, Kept, Session
  <2>5. KeptOf(t, u, j)
    BY <1>3, <2>1, <2>2, <2>3, <2>4 DEF KeptOf
  <2>6. OpenOf(t, j)
    BY <1>3, <2>1, <2>4 DEF OpenOf
  <2> QED BY <2>5, <2>6
<1>7. t.held[t.bw] # NoBev \/ t.dialled # {} \/ OnWire(t, Dial(u)) => t.known = TRUE
  BY <1>3 DEF Lone, Kept
<1>8. /\ t.isAuthed = TRUE <=> t.sock # NoBev
      /\ t.sock # NoBev => /\ t.held[t.bw] = t.sock /\ t.fd[t.sock] = "open"
                           /\ t.phase[t.sock] \in {"read", "off"}
      /\ t.held[t.bw] # NoBev /\ t.held[t.bw] \notin t.dialled => t.sock = t.held[t.bw]
  BY <1>3 DEF Lone, Session
<1> QED BY <1>4, <1>5, <1>6, <1>7, <1>8, LoneAgain

\* A step of the worker keeps the process as it should be.
LEMMA WorksKeeps ==
    ASSUME NEW u, u \notin Bevs, NEW s, NEW t, Lone(s, u), Alone(s, u), Works(s, t, u)
    PROVE  Handled(s, t, u)
<1>1. SameNet(s, t)
  BY DEF Works
<1>2. /\ s.bw \in Wrappers(u) /\ s.extra \in Seq(Bevs) /\ ClosedAt(s.fd, NoBev) = s.fd
      /\ s.held \in [Wrappers(u) -> Bevs \cup {NoBev}]
      /\ \A x \in Wrappers(u) : s.held[x] # NoBev => Settled(s, s.held[x])
      /\ s.known \in BOOLEAN /\ s.connectTo \in BOOLEAN /\ s.isAuthed \in BOOLEAN
      /\ s.sock \in Bevs \cup {NoBev}
  BY Closing DEF Lone, Typed, Reached
<1>3. CASE TakesAttempt(s, t, u)
  <2>1. /\ s.inbox # <<>> /\ Head(s.inbox).kind = "attempt"
        /\ Settles(s, t, u, Left(s), s.bw, s.extra, s.held, {})
        /\ t.isAuthed = s.isAuthed /\ t.sock = s.sock /\ t.fd = s.fd
    BY <1>3 DEF TakesAttempt, Takes
  <2>2. /\ Has(s, t, Left(s), s.bw, s.extra, s.held, {})
        /\ \A v \in Wrappers(u) : s.held[v] # NoBev => Owned(s, v) \/ Sending(t, v)
    BY <1>2, <2>1, NothingDropped
  <2>3. Wires(s, t, u)
    BY <1>3, <2>1 DEF TakesAttempt, Wires, Takes
  <2>4. Turns(s, t, s.bw)
    BY <1>1, <2>1, <2>2 DEF Turns, Has
  <2>5. t.known \in BOOLEAN /\ t.connectTo = TRUE /\ (t.known = s.known \/ t.known = TRUE)
    BY <1>2, <1>3 DEF TakesAttempt
  <2>6. Handles(s, t, u, s.bw, {})
    BY <1>2, <2>1, <2>2, <2>3, <2>4, <2>5 DEF Handles, Has
  <2>7. /\ OnWire(s, Dial(u)) => OnWire(t, Dial(u))
        /\ OnWire(t, Dial(u)) => OnWire(s, Dial(u)) \/ t.known = TRUE
    <3>1. OnWire(s, Dial(u)) => OnWire(t, Dial(u))
      BY <2>3, WireAfter
    <3>2. t.wire = s.wire \/ t.known = TRUE
      BY <1>3 DEF TakesAttempt
    <3> QED BY <3>1, <3>2 DEF OnWire
  <2>8. s.connectTo = TRUE \/ OnWire(t, Dial(u))
    <3>1. SUFFICES ASSUME s.connectTo # TRUE PROVE OnWire(t, Dial(u))
      OBVIOUS
    <3>2. t.wire = Append(s.wire, Dial(u))
      BY <1>3, <3>1 DEF TakesAttempt
    <3>3. s.wire \in Seq(Messages(u)) /\ Dial(u) \in Messages(u)
      BY DEF Lone, Typed, Messages, Dial
    <3> QED BY <3>2, <3>3, AppendSet DEF OnWire
  <2> QED BY <2>1, <2>2, <2>5, <2>6, <2>7, <2>8, SteadyKeeps DEF Has
<1>4. CASE TakesSend(s, t, u)
  <2>1. /\ s.inbox # <<>> /\ Head(s.inbox).kind = "send"
        /\ SameEntry(s, t) /\ t.fd = s.fd /\ t.wire = s.wire
    BY <1>4 DEF TakesSend, Takes
  <2>2. CASE /\ Has(s, t, Left(s), s.bw, s.extra, s.held, {})
             /\ \A v \in Wrappers(u) : s.held[v] # NoBev => Owned(s, v) \/ Sending(t, v)
    <3>1. Wires(s, t, u)
      BY <2>1 DEF Wires, Takes
    <3>2. Turns(s, t, s.bw)
      BY <1>1, <2>1, <2>2 DEF Turns, Has
    <3>3. Handles(s, t, u, s.bw, {})
      BY <1>2, <2>1, <2>2, <3>1, <3>2 DEF Handles, Has, SameEntry
    <3> QED BY <1>2, <2>1, <2>2, <3>3, SteadyKeeps DEF Has, SameEntry, OnWire, Lone, Kept
  <2>3. ASSUME NEW k \in Bevs, Live(s, k), k \notin s.dialled, ~Owned(s, k),
               s.held = HeldBy(u, k, k), Drops(s, t, u, k)
        PROVE  Handled(s, t, u)
    <3>1. s.held[k] = k /\ k \in Wrappers(u) /\ k # NoBev
      BY <2>3, ConnectionsAssumption DEF HeldBy, Wrappers
    <3>2. Holds(s, k) /\ Settled(s, k)
      BY <1>2, <3>1 DEF Lone, Wrapped
    <3>3. s.phase[k] = "off" /\ \A kind \in BevKinds : ~Queued(s, kind, k)
      BY <2>3, <3>1, <3>2 DEF Holds
    <3>4. Turns(s, t, s.bw)
      BY <1>1, <2>1, <2>3 DEF Turns, Drops, Has
    <3>5. \A kind \in BevKinds : ~Queued(t, kind, k)
      BY <1>2, <3>3, <3>4, QueuedAfter
    <3>6. t.fd[k] # "open"
      BY <2>1, <2>3, <3>3 DEF Lone, Session, OpenOf, BevKinds
    <3>7. s.bw # k
      BY <2>3 DEF Owned
    <3> QED BY <1>1, <1>2, <2>1, <2>3, <3>2, <3>3, <3>5, <3>6, <3>7, DropKeeps
  <2> QED BY <1>4, <2>2, <2>3, SendLeaves
<1>5. CASE TakesPacket(s, t, u)
  <2>1. /\ s.inbox # <<>> /\ Head(s.inbox).kind \in Kinds
        /\ SameEntry(s, t) /\ t.fd = s.fd /\ t.wire = s.wire
    BY <1>5 DEF TakesPacket, Takes
  <2>2. Head(s.inbox).kind \notin
          {"send", "newConnection", "auth", "quit", "connected", "refused", "attempt"}
    BY <2>1 DEF Kinds
  <2>3. PICK q \in {Left(s), Append(Left(s), SendTo(s.bw))} :
          Settles(s, t, u, q, s.bw, s.extra, s.held, {})
    BY <1>5 DEF TakesPacket
  <2>4. /\ Has(s, t, q, s.bw, s.extra, s.held, {})
        /\ \A v \in Wrappers(u) : s.held[v] # NoBev => Owned(s, v) \/ Sending(t, v)
    BY <1>2, <2>1, <2>2, <2>3, NothingDropped
  <2>5. Wires(s, t, u)
    BY <2>1, <2>2 DEF Wires, Takes
  <2>6. Turns(s, t, s.bw)
    BY <1>1, <2>1, <2>4 DEF Turns, Has
  <2>7. Handles(s, t, u, s.bw, {})
    BY <1>2, <2>1, <2>4, <2>5, <2>6 DEF Handles, Has, SameEntry
  <2> QED BY <1>2, <2>1, <2>2, <2>4, <2>7, SteadyKeeps DEF Has, SameEntry, OnWire, Lone, Kept
<1>6. CASE TakesQuit(s, t, u)
  BY <1>1, <1>6, LetGoKeeps, GiveUpKeeps DEF TakesQuit
<1> QED BY <1>1, <1>3, <1>4, <1>5, <1>6, CallKeeps, AuthKeeps, ConnectedKeeps, RefusedKeeps
        DEF Works

-------------------------------------------------------------------------------
(***************************************************************************)
(* The callbacks of the server thread.                                     *)
(***************************************************************************)
\* A queue an event is added to.
LEMMA QueueAdded ==
    ASSUME NEW u, NEW s, NEW t, Typed(s, u), Once(s, u), NEW e \in Events(u),
           t.inbox = Append(s.inbox, e),
           \A d \in ToSet(s.inbox) : d.kind \in BevKinds /\ e.kind \in BevKinds /\ d.bev = e.bev
                                        => MayFollow(d, e),
           e = Attempt(u) => ~Clears(s.inbox)
    PROVE  /\ t.inbox \in Seq(Events(u)) /\ ToSet(t.inbox) = ToSet(s.inbox) \cup {e}
           /\ InOrder(t.inbox) /\ EndsLast(t.inbox, u)
           /\ \A kind \in BevKinds, k \in Bevs :
                Queued(t, kind, k) <=> Queued(s, kind, k) \/ e = Signal(kind, k)
           /\ \A w \in Wrappers(u) : Sending(t, w) <=> Sending(s, w) \/ e = SendTo(w)
<1>1. /\ s.inbox \in Seq(Events(u)) /\ InOrder(s.inbox) /\ EndsLast(s.inbox, u)
  BY DEF Typed, Once
<1>2. t.inbox \in Seq(Events(u)) /\ ToSet(t.inbox) = ToSet(s.inbox) \cup {e}
  BY <1>1, AppendSet
<1>3. InOrder(t.inbox)
  BY <1>1, InOrderAppend
<1>4. EndsLast(t.inbox, u)
  BY <1>1, EndsLastAppend
<1> QED BY <1>2, <1>3, <1>4 DEF Queued, Sending

\* How the phase of a connection moves when a callback tells the worker kind.
Moves(from, to, kind) ==
    \/ from = "unused"   /\ to = "auth" /\ kind = "newConnection"
    \/ from = "dialling" /\ to = "up"   /\ kind = "connected"
    \/ from = "dialling" /\ to = "off"  /\ kind = "refused"
    \/ from = "auth"     /\ to = "read" /\ kind = "auth"
    \/ from \in {"auth", "read"} /\ to = "off" /\ kind = "quit"
    \/ from = "read"     /\ to = "read" /\ kind \in Kinds

\* A callback of k, or accept, tells the worker kind.
Tells(s, t, u, k, p, kind) ==
    /\ k \notin s.freed /\ Moves(s.phase[k], p, kind)
    /\ t.phase = [s.phase EXCEPT ![k] = p]
    /\ t.inbox = Append(s.inbox, Signal(kind, k))
    /\ t.dialled = s.dialled /\ t.wire = s.wire
    /\ IF s.phase[k] = "unused"
       THEN /\ t.fd = [s.fd EXCEPT ![k] = "open"]
            /\ t.remote = [s.remote EXCEPT ![k] = u]
       ELSE t.fd = s.fd /\ t.remote = s.remote
    /\ SameEntry(s, t) /\ SameOwner(s, t)

\* What is queued of a connection in the phase it is told of in.
LEMMA QueuedBefore ==
    ASSUME NEW u, NEW s, Lone(s, u), NEW k \in Bevs, NEW other \in BevKinds, Queued(s, other, k)
    PROVE  /\ s.phase[k] \notin {"unused", "dialling"}
           /\ s.phase[k] = "auth" => other = "newConnection"
           /\ s.phase[k] = "read" => other \in {"newConnection", "auth"} \cup Kinds
           /\ s.phase[k] = "up" => other = "connected"
<1>1. Settled(s, k)
  BY EventKinds DEF Lone, Reached, Queued
<1>2. StageOf(s, k)
  BY DEF Lone, Staged
<1>3. other \in {"newConnection", "auth", "quit", "connected", "refused"} \cup Kinds
  BY DEF BevKinds
<1>4. s.phase[k] = "up" => other = "connected"
  BY <1>2, <1>3 DEF StageOf
<1> QED BY <1>1, <1>2, <1>3, <1>4 DEF StageOf, Settled

\* What the worker is told of stays in order.
LEMMA TellsQueue ==
    ASSUME NEW u, NEW s, NEW t, Lone(s, u), NEW k \in Bevs, NEW p, NEW kind,
           Tells(s, t, u, k, p, kind)
    PROVE  /\ kind \in BevKinds /\ p \in {"auth", "up", "off", "read"}
           /\ t.inbox \in Seq(Events(u)) /\ ToSet(t.inbox) = ToSet(s.inbox) \cup {Signal(kind, k)}
           /\ InOrder(t.inbox) /\ EndsLast(t.inbox, u)
           /\ \A other \in BevKinds, j \in Bevs :
                Queued(t, other, j) <=> Queued(s, other, j) \/ (other = kind /\ j = k)
           /\ \A w \in Wrappers(u) : Sending(t, w) <=> Sending(s, w)
<1>1. kind \in BevKinds /\ p \in {"auth", "up", "off", "read"}
  BY DEF Tells, Moves, BevKinds
<1>2. Typed(s, u) /\ Once(s, u)
  BY DEF Lone
<1>3. Signal(kind, k) \in Events(u) /\ Signal(kind, k) # Attempt(u)
  BY <1>1, EventShapes DEF Signal, Attempt
<1>4. ASSUME NEW d \in ToSet(s.inbox), d.kind \in BevKinds, d.bev = k
      PROVE  MayFollow(d, Signal(kind, k))
  <2>1. d = Signal(d.kind, k)
    BY <1>2, <1>4, EventShapes DEF Typed, ToSet
  <2>2. Queued(s, d.kind, k)
    BY <1>4, <2>1 DEF Queued
  <2>3. s.phase[k] \notin {"unused", "dialling"}
    BY <1>4, <2>2, QueuedBefore
  <2>4. s.phase[k] = "auth" => d.kind = "newConnection"
    BY <1>4, <2>2, QueuedBefore
  <2>5. s.phase[k] = "read" => d.kind \in {"newConnection", "auth"} \cup Kinds
    BY <1>4, <2>2, QueuedBefore
  <2>6. kind \notin {"newConnection", "connected", "refused"}
    BY <2>3 DEF Tells, Moves, Kinds
  <2>7. s.phase[k] \in {"auth", "read"} /\ (kind = "auth" => s.phase[k] = "auth")
    BY <2>3 DEF Tells, Moves, Kinds
  <2>8. d.kind \notin {"quit", "refused"} /\ (kind = "auth" => d.kind = "newConnection")
    BY <2>4, <2>5, <2>7 DEF Kinds
  <2> QED BY <2>6, <2>8, EventKinds DEF MayFollow
<1>5. \A d \in ToSet(s.inbox) : /\ d.kind \in BevKinds /\ Signal(kind, k).kind \in BevKinds
                                /\ d.bev = Signal(kind, k).bev
                                => MayFollow(d, Signal(kind, k))
  BY <1>4, EventKinds
<1>6. t.inbox = Append(s.inbox, Signal(kind, k))
  BY DEF Tells
<1>7. /\ t.inbox \in Seq(Events(u)) /\ ToSet(t.inbox) = ToSet(s.inbox) \cup {Signal(kind, k)}
      /\ InOrder(t.inbox) /\ EndsLast(t.inbox, u)
      /\ \A other \in BevKinds, j \in Bevs :
           Queued(t, other, j) <=> Queued(s, other, j) \/ Signal(kind, k) = Signal(other, j)
      /\ \A w \in Wrappers(u) : Sending(t, w) <=> Sending(s, w) \/ Signal(kind, k) = SendTo(w)
  BY <1>2, <1>3, <1>5, <1>6, QueueAdded
<1>8. \A other, j : Signal(kind, k) = Signal(other, j) <=> other = kind /\ j = k
  BY DEF Signal
<1>9. \A w : Signal(kind, k) # SendTo(w)
  BY <1>1, EventKinds
<1> QED BY <1>1, <1>7, <1>8, <1>9

\* A callback keeps the process as it should be.
LEMMA TellsKeeps ==
    ASSUME NEW u, u \notin Bevs, NEW s, NEW t, Lone(s, u), NEW k \in Bevs, NEW p, NEW kind,
           Tells(s, t, u, k, p, kind)
    PROVE  Lone(t, u)
<1>1. /\ kind \in BevKinds /\ p \in {"auth", "up", "off", "read"}
      /\ t.inbox \in Seq(Events(u)) /\ ToSet(t.inbox) = ToSet(s.inbox) \cup {Signal(kind, k)}
      /\ InOrder(t.inbox) /\ EndsLast(t.inbox, u)
      /\ \A other \in BevKinds, j \in Bevs :
           Queued(t, other, j) <=> Queued(s, other, j) \/ (other = kind /\ j = k)
      /\ \A w \in Wrappers(u) : Sending(t, w) <=> Sending(s, w)
  BY TellsQueue
<1>2. /\ k \notin s.freed /\ Moves(s.phase[k], p, kind)
      /\ t.dialled = s.dialled /\ t.wire = s.wire
      /\ t.held = s.held /\ t.bw = s.bw /\ t.extra = s.extra /\ t.freed = s.freed
      /\ t.known = s.known /\ t.connectTo = s.connectTo
      /\ t.isAuthed = s.isAuthed /\ t.sock = s.sock
  BY DEF Tells, SameEntry, SameOwner
<1>3. /\ s.phase \in [Bevs -> {"unused", "dialling", "up", "auth", "read", "off"}]
      /\ s.fd \in [Bevs -> {"none", "open", "closed", "reclosed"}]
      /\ s.remote \in [Bevs -> {u, NoPeer}]
      /\ s.dialled \subseteq Bevs /\ s.bw \in Wrappers(u)
      /\ s.held \in [Wrappers(u) -> Bevs \cup {NoBev}] /\ s.extra \in Seq(Bevs)
      /\ NoBev \notin Bevs /\ s.sock \in Bevs \cup {NoBev}
  BY ConnectionsAssumption DEF Lone, Typed
<1>4. /\ t.phase \in [Bevs -> {"unused", "dialling", "up", "auth", "read", "off"}]
      /\ t.phase[k] = p /\ \A j \in Bevs \ {k} : t.phase[j] = s.phase[j]
  BY <1>1, <1>3 DEF Tells
<1>5. /\ t.fd \in [Bevs -> {"none", "open", "closed", "reclosed"}]
      /\ t.remote \in [Bevs -> {u, NoPeer}]
      /\ \A j \in Bevs \ {k} : t.fd[j] = s.fd[j] /\ t.remote[j] = s.remote[j]
      /\ IF s.phase[k] = "unused" THEN t.fd[k] = "open" /\ t.remote[k] = u
         ELSE t.fd[k] = s.fd[k] /\ t.remote[k] = s.remote[k]
  <2>1. CASE s.phase[k] = "unused"
    <3>1. t.fd = [s.fd EXCEPT ![k] = "open"] /\ t.remote = [s.remote EXCEPT ![k] = u]
      BY <2>1 DEF Tells
    <3> QED BY <1>3, <2>1, <3>1
  <2>2. CASE s.phase[k] # "unused"
    <3>1. t.fd = s.fd /\ t.remote = s.remote
      BY <2>2 DEF Tells
    <3> QED BY <1>3, <2>2, <3>1
  <2> QED BY <2>1, <2>2
<1>6. Typed(t, u)
  BY <1>1, <1>2, <1>4, <1>5 DEF Typed, Lone
<1>7. /\ Settled(t, k) /\ \A j \in Bevs \ {k} : Settled(t, j) <=> Settled(s, j)
      /\ \A j \in Bevs : Settled(s, j) => Settled(t, j)
      /\ ~Settled(s, k) <=> kind \in {"newConnection", "connected", "refused"}
  BY <1>2, <1>4 DEF Settled, Moves, Kinds
<1>8. Reached(t, u)
  <2>1. ASSUME NEW e \in ToSet(t.inbox), e.kind \in BevKinds PROVE Settled(t, e.bev)
    <3>1. CASE e \in ToSet(s.inbox)
      <4>1. e.bev \in Bevs /\ Settled(s, e.bev)
        BY <2>1, <3>1, EventShapes DEF Lone, Reached, Typed, ToSet
      <4> QED BY <4>1, <1>7
    <3>2. CASE e = Signal(kind, k)
      BY <3>2, <1>7, EventKinds
    <3> QED BY <1>1, <2>1, <3>1, <3>2
  <2>2. ASSUME NEW j \in Bevs PROVE t.phase[j] # "unused" => t.remote[j] = u /\ t.fd[j] # "none"
    BY <1>4, <1>5 DEF Lone, Reached
  <2>3. \A j \in t.dialled : t.phase[j] # "unused"
    BY <1>1, <1>2, <1>3, <1>4 DEF Lone, Reached
  <2>4. \A j \in Bevs : t.phase[j] = "dialling" => j \in t.dialled
    BY <1>1, <1>2, <1>4 DEF Lone, Reached
  <2>5. \A w \in Wrappers(u) : t.held[w] # NoBev => Settled(t, t.held[w])
    BY <1>2, <1>3, <1>7 DEF Lone, Reached
  <2> QED BY <2>1, <2>2, <2>3, <2>4, <2>5 DEF Reached
<1>9. Once(t, u)
  BY <1>1, <1>2 DEF Once, Lone
<1>10. \A other \in BevKinds : Queued(s, other, k) =>
         /\ s.phase[k] \notin {"unused", "dialling"}
         /\ s.phase[k] = "auth" => other = "newConnection"
         /\ s.phase[k] = "read" => other \in {"newConnection", "auth"} \cup Kinds
  BY QueuedBefore
<1>11. {"newConnection", "auth", "quit", "connected", "refused"} \cup Kinds = BevKinds
  BY DEF BevKinds
<1>12. /\ s.phase[k] = "dialling" => k \in s.dialled
       /\ s.phase[k] = "unused" => k \notin s.dialled
       /\ s.phase[k] # "up" => ~OnWire(s, Enable(k))
  BY DEF Lone, Reached, Staged, StageOf
<1>13. Staged(t)
  <2>1. ASSUME NEW j \in Bevs, j # k PROVE StageOf(t, j)
    <3>1. StageOf(s, j)
      BY DEF Lone, Staged
    <3>2. \A other \in BevKinds : Queued(t, other, j) <=> Queued(s, other, j)
      BY <1>1, <2>1
    <3>3. t.phase[j] = s.phase[j]
      BY <1>4, <2>1
    <3> HIDE <2>1
    <3> QED BY <1>2, <1>11, <3>1, <3>2, <3>3 DEF StageOf, OnWire
  <2>2. StageOf(t, k)
    <3>1. StageOf(s, k)
      BY DEF Lone, Staged
    <3>2. ~OnWire(t, Enable(k))
      BY <1>2, <1>12 DEF OnWire, Moves
    <3>3. \A other \in BevKinds : Queued(t, other, k) => k \notin t.freed
      BY <1>2
    <3>4. /\ Queued(t, "connected", k) => kind = "connected"
          /\ Queued(t, "refused", k) => kind = "refused"
          /\ Queued(t, "quit", k) => kind = "quit"
      <4>1. s.phase[k] \in {"unused", "dialling", "auth", "read"}
        BY <1>2 DEF Moves
      <4>2. ASSUME NEW other \in {"connected", "refused", "quit"} PROVE ~Queued(s, other, k)
        BY <1>10, <1>11, <4>1, <4>2 DEF Kinds
      <4> QED BY <1>1, <1>11, <4>2
    <3>5. /\ Queued(t, "connected", k) \/ Queued(t, "refused", k) => k \in s.dialled
          /\ Queued(t, "connected", k) => p = "up"
          /\ Queued(t, "quit", k) \/ Queued(t, "refused", k) => p = "off"
      BY <1>2, <1>12, <3>4 DEF Moves, Kinds
    <3>6. Queued(t, "newConnection", k) => k \notin s.dialled
      BY <1>1, <1>2, <1>11, <1>12, <3>1 DEF Moves, Kinds, StageOf
    <3>7. \A other \in {"auth"} \cup Kinds : Queued(t, other, k) => p \in {"read", "off"}
      <4> SUFFICES ASSUME NEW other \in {"auth"} \cup Kinds, Queued(t, other, k)
                   PROVE  p \in {"read", "off"}
        OBVIOUS
      <4>1. other \in BevKinds /\ other \notin {"newConnection", "connected", "refused", "quit"}
        BY <1>11 DEF Kinds
      <4>2. CASE Queued(s, other, k)
        <5>1. s.phase[k] = "read"
          BY <1>2, <1>10, <4>1, <4>2 DEF Moves
        <5> QED BY <1>2, <5>1 DEF Moves
      <4>3. CASE other = kind
        BY <1>2, <4>1, <4>3 DEF Moves
      <4> QED BY <1>1, <4>1, <4>2, <4>3
    <3>8. p = "up" => k \in s.dialled /\ Queued(t, "connected", k)
      BY <1>1, <1>2, <1>11, <1>12 DEF Moves
    <3> QED BY <1>2, <1>4, <3>2, <3>3, <3>5, <3>6, <3>7, <3>8 DEF StageOf
  <2> QED BY <2>1, <2>2 DEF Staged
<1>14. Wrapped(t, u)
  <2>1. ASSUME NEW j \in Bevs, Unheard(t, j) PROVE Unheard(s, j)
    BY <1>1, <1>2, <1>7, <1>11, <2>1 DEF Unheard
  <2>2. ASSUME NEW j \in Bevs, Unheard(t, j) PROVE ~Owned(t, j) /\ ~Sending(t, j)
    <3>1. ~Owned(s, j) /\ ~Sending(s, j) /\ j \in Wrappers(u)
      BY <2>1, <2>2 DEF Lone, Wrapped, Wrappers
    <3> QED BY <1>1, <1>2, <3>1 DEF Owned
  <2>3. ASSUME NEW w \in Wrappers(u), t.held[w] # NoBev PROVE Holds(t, w)
    <3>1. Holds(s, w) /\ s.held[w] \in Bevs /\ Settled(s, s.held[w])
      BY <1>2, <1>3, <2>3 DEF Lone, Wrapped, Reached
    <3>2. t.held[w] \notin t.freed /\ (Owned(t, w) \/ Sending(t, w))
          /\ w = (IF t.held[w] \in t.dialled THEN t.bw ELSE t.held[w])
      BY <1>1, <1>2, <3>1 DEF Holds, Owned
    <3>3. ASSUME ~Owned(t, w)
          PROVE  /\ t.phase[t.held[w]] = "off"
                 /\ \A other \in BevKinds : ~Queued(t, other, t.held[w])
      <4>1. s.phase[s.held[w]] = "off" /\ \A other \in BevKinds : ~Queued(s, other, s.held[w])
        BY <1>2, <3>1, <3>3 DEF Holds, Owned
      <4>2. s.held[w] # k
        BY <1>2, <4>1 DEF Moves
      <4> QED BY <1>1, <1>2, <1>4, <3>1, <4>1, <4>2
    <3> QED BY <3>2, <3>3 DEF Holds
  <2>4. ASSUME NEW j \in Bevs, Queued(t, "newConnection", j) PROVE t.held[j] = NoBev
    <3>1. CASE Queued(s, "newConnection", j)
      BY <1>2, <3>1 DEF Lone, Wrapped
    <3>2. CASE ~Queued(s, "newConnection", j)
      <4>1. j = k /\ kind = "newConnection" /\ j \in Wrappers(u)
        BY <1>1, <1>11, <2>4, <3>2 DEF Wrappers
      <4>2. Unheard(s, j)
        BY <1>7, <4>1 DEF Unheard
      <4>3. ~Owned(s, j) /\ ~Sending(s, j)
        BY <4>2 DEF Lone, Wrapped
      <4>4. s.held[j] = NoBev
        BY <4>1, <4>3 DEF Lone, Wrapped, Holds
      <4> QED BY <1>2, <4>4
    <3> QED BY <3>1, <3>2
  <2> QED BY <1>2, <2>2, <2>3, <2>4 DEF Wrapped, Lone
<1>15. Kept(t, u)
  <2>1. t.held[t.bw] # NoBev \/ t.dialled # {} \/ OnWire(t, Dial(u)) => t.known = TRUE
    BY <1>2 DEF Lone, Kept, OnWire
  <2>2. ASSUME NEW j \in Bevs, j # k PROVE KeptOf(t, u, j)
    <3>1. KeptOf(s, u, j)
      BY DEF Lone, Kept
    <3>2. \A other \in BevKinds : Queued(t, other, j) <=> Queued(s, other, j)
      BY <1>1, <2>2
    <3>3. t.phase[j] = s.phase[j] /\ (Settled(t, j) <=> Settled(s, j))
      BY <1>4, <1>7, <2>2
    <3>4. \A w \in Wrappers(u) : Owned(t, w) <=> Owned(s, w)
      BY <1>2 DEF Owned
    <3> HIDE <2>2
    <3> QED BY <1>2, <1>11, <3>1, <3>2, <3>3, <3>4 DEF KeptOf
  <2>3. KeptOf(t, u, k)
    <3>1. KeptOf(s, u, k)
      BY DEF Lone, Kept
    <3>2. \/ \E other \in {"newConnection", "connected", "refused"} : Queued(t, other, k)
          \/ \E w \in Wrappers(u) : t.held[w] = k
      <4>1. CASE kind \in {"newConnection", "connected", "refused"}
        BY <1>1, <1>11, <4>1
      <4>2. CASE kind \notin {"newConnection", "connected", "refused"}
        BY <1>1, <1>2, <1>7, <1>11, <3>1, <4>2 DEF KeptOf
      <4> QED BY <4>1, <4>2
    <3>3. k \notin t.dialled /\ (t.phase[k] = "auth" \/ Queued(t, "auth", k)) =>
            Queued(t, "newConnection", k) \/ k \in ToSet(t.extra)
      <4>1. CASE kind = "newConnection"
        BY <1>1, <1>11, <4>1
      <4>2. CASE kind # "newConnection"
        <5>1. p # "auth" /\ (kind = "auth" => s.phase[k] = "auth")
          BY <1>2, <4>2 DEF Moves, Kinds
        <5> QED BY <1>1, <1>2, <1>4, <1>11, <3>1, <5>1 DEF KeptOf
      <4> QED BY <4>1, <4>2
    <3>4. t.phase[k] = "off" => Queued(t, "quit", k) \/ Queued(t, "refused", k)
      BY <1>1, <1>2, <1>4, <1>11 DEF Moves
    <3> QED BY <3>2, <3>3, <3>4 DEF KeptOf
  <2> QED BY <2>1, <2>2, <2>3 DEF Kept
<1>16. Marked(t, u)
  <2>1. ASSUME NEW j \in s.dialled,
               s.phase[j] = "dialling" \/ Queued(s, "connected", j) \/ Queued(s, "refused", j)
        PROVE  t.phase[j] = "dialling" \/ Queued(t, "connected", j) \/ Queued(t, "refused", j)
    <3>1. CASE j # k
      BY <1>1, <1>3, <1>4, <1>11, <2>1, <3>1
    <3>2. CASE j = k
      BY <1>1, <1>2, <1>11, <2>1, <3>2 DEF Moves
    <3> QED BY <3>1, <3>2
  <2> QED BY <1>2, <2>1 DEF Marked, Lone, OnWire
<1>17. Session(t)
  <2>1. ASSUME s.sock # NoBev
        PROVE  t.fd[s.sock] = "open" /\ t.phase[s.sock] \in {"read", "off"}
    <3>1. s.fd[s.sock] = "open" /\ s.phase[s.sock] \in {"read", "off"} /\ s.sock \in Bevs
      BY <1>3, <2>1 DEF Lone, Session
    <3>2. CASE s.sock # k
      BY <1>4, <1>5, <3>1, <3>2
    <3>3. CASE s.sock = k
      BY <1>2, <1>4, <1>5, <3>1, <3>3 DEF Moves
    <3> QED BY <3>2, <3>3
  <2>2. ASSUME NEW j \in Bevs, j # k PROVE OpenOf(t, j)
    <3>1. OpenOf(s, j)
      BY DEF Lone, Session
    <3>2. \A other \in BevKinds : Queued(t, other, j) <=> Queued(s, other, j)
      BY <1>1, <2>2
    <3>3. t.phase[j] = s.phase[j] /\ t.fd[j] = s.fd[j]
      BY <1>4, <1>5, <2>2
    <3> HIDE <2>2
    <3> QED BY <1>2, <1>11, <3>1, <3>2, <3>3 DEF OpenOf
  <2>3. OpenOf(t, k)
    <3>1. OpenOf(s, k)
      BY DEF Lone, Session
    <3>2. t.fd[k] = "open"
      BY <1>2, <1>5, <3>1 DEF OpenOf, Moves
    <3>3. t.phase[k] = "read" => Queued(t, "auth", k) \/ t.sock = k
      <4>1. CASE kind = "auth"
        BY <1>1, <1>11, <4>1
      <4>2. CASE kind # "auth"
        BY <1>1, <1>2, <1>4, <1>11, <3>1, <4>2 DEF Moves, OpenOf
      <4> QED BY <4>1, <4>2
    <3>4. k \notin t.dialled /\ t.phase[k] = "off" => Queued(t, "quit", k)
      BY <1>1, <1>2, <1>4, <1>11, <1>12 DEF Moves
    <3> QED BY <3>2, <3>3, <3>4 DEF OpenOf
  <2> QED BY <1>2, <2>1, <2>2, <2>3 DEF Session, Lone
<1> QED BY <1>6, <1>8, <1>9, <1>13, <1>14, <1>15, <1>16, <1>17 DEF Lone

\* A dial keeps the process as it should be.
LEMMA DialsKeeps ==
    ASSUME NEW u, u \notin Bevs, NEW s, NEW t, Lone(s, u), Dials(s, t, u)
    PROVE  Lone(t, u)
<1>1. /\ s.wire # <<>> /\ Head(s.wire).kind = "connectTo"
      /\ t.wire = Tail(s.wire) /\ t.inbox = s.inbox
      /\ t.held = s.held /\ t.bw = s.bw /\ t.extra = s.extra /\ t.freed = s.freed
      /\ t.known = s.known /\ t.connectTo = s.connectTo
      /\ t.isAuthed = s.isAuthed /\ t.sock = s.sock
  BY DEF Dials, SameEntry, SameOwner
<1>2. PICK k \in Bevs : /\ s.phase[k] = "unused"
                        /\ t.phase = [s.phase EXCEPT ![k] = "dialling"]
                        /\ t.fd = [s.fd EXCEPT ![k] = "open"]
                        /\ t.remote = [s.remote EXCEPT ![k] = u]
                        /\ t.dialled = s.dialled \cup {k}
  BY DEF Dials
<1>3. /\ s.phase \in [Bevs -> {"unused", "dialling", "up", "auth", "read", "off"}]
      /\ s.fd \in [Bevs -> {"none", "open", "closed", "reclosed"}]
      /\ s.remote \in [Bevs -> {u, NoPeer}]
      /\ s.dialled \subseteq Bevs /\ s.bw \in Wrappers(u)
      /\ s.held \in [Wrappers(u) -> Bevs \cup {NoBev}] /\ s.extra \in Seq(Bevs)
      /\ NoBev \notin Bevs /\ s.sock \in Bevs \cup {NoBev}
      /\ s.wire \in Seq(Messages(u)) /\ s.inbox \in Seq(Events(u)) /\ s.freed \subseteq Bevs
  BY ConnectionsAssumption DEF Lone, Typed
<1>4. /\ Tail(s.wire) \in Seq(Messages(u)) /\ Head(s.wire) \in Messages(u)
      /\ ToSet(Tail(s.wire)) \subseteq ToSet(s.wire)
      /\ ToSet(s.wire) \subseteq {Head(s.wire)} \cup ToSet(Tail(s.wire))
      /\ Head(s.wire) \in ToSet(s.wire) /\ IsInjective(Tail(s.wire))
  BY <1>1, <1>3, TailSet, InjectiveTail DEF Lone, Once
<1>5. Head(s.wire) = Dial(u) /\ \A j : Enable(j) # Dial(u)
  BY <1>1, <1>4 DEF Messages, Dial, Enable
<1>6. \A j \in Bevs : OnWire(t, Enable(j)) <=> OnWire(s, Enable(j))
  BY <1>1, <1>4, <1>5 DEF OnWire
<1>7. /\ t.phase \in [Bevs -> {"unused", "dialling", "up", "auth", "read", "off"}]
      /\ t.fd \in [Bevs -> {"none", "open", "closed", "reclosed"}]
      /\ t.remote \in [Bevs -> {u, NoPeer}]
      /\ t.dialled \subseteq Bevs
      /\ t.phase[k] = "dialling" /\ t.fd[k] = "open" /\ t.remote[k] = u
      /\ \A j \in Bevs \ {k} : /\ t.phase[j] = s.phase[j] /\ t.fd[j] = s.fd[j]
                               /\ t.remote[j] = s.remote[j]
      /\ \A j \in Bevs \ {k} : j \in t.dialled <=> j \in s.dialled
  BY <1>2, <1>3
<1>8. Typed(t, u)
  BY <1>1, <1>4, <1>7 DEF Lone, Typed
<1>9. /\ \A j \in Bevs : Settled(t, j) <=> Settled(s, j)
      /\ ~Settled(s, k) /\ k \in t.dialled
  BY <1>2, <1>7 DEF Settled
<1>10. /\ \A kind, j : Queued(t, kind, j) <=> Queued(s, kind, j)
       /\ \A w : (Sending(t, w) <=> Sending(s, w)) /\ (Owned(t, w) <=> Owned(s, w))
  BY <1>1 DEF Queued, Sending, Owned
<1>11. \A kind \in BevKinds : ~Queued(s, kind, k)
  BY <1>2, QueuedBefore
<1>12. Reached(t, u)
  <2>1. ASSUME NEW e \in ToSet(t.inbox), e.kind \in BevKinds PROVE Settled(t, e.bev)
    <3>1. e.bev \in Bevs /\ Settled(s, e.bev)
      BY <1>1, <1>3, <2>1, EventShapes DEF Lone, Reached, ToSet
    <3> QED BY <1>9, <3>1
  <2> QED BY <1>1, <1>2, <1>3, <1>7, <1>9, <2>1 DEF Lone, Reached
<1>13. Once(t, u)
  BY <1>1, <1>4 DEF Lone, Once
<1>14. {"newConnection", "auth", "quit", "connected", "refused"} \cup Kinds = BevKinds
  BY DEF BevKinds
<1>15. Staged(t)
  <2>1. ASSUME NEW j \in Bevs, j # k PROVE StageOf(t, j)
    <3>1. StageOf(s, j)
      BY DEF Lone, Staged
    <3>2. t.phase[j] = s.phase[j] /\ (j \in t.dialled <=> j \in s.dialled)
      BY <1>7, <2>1
    <3> HIDE <2>1
    <3> QED BY <1>1, <1>6, <1>10, <3>1, <3>2 DEF StageOf
  <2>2. StageOf(t, k)
    <3>1. ~OnWire(s, Enable(k)) /\ k \notin s.freed
      BY <1>2 DEF Lone, Staged, StageOf
    <3> QED BY <1>1, <1>6, <1>7, <1>9, <1>10, <1>11, <1>14, <3>1 DEF StageOf
  <2> QED BY <2>1, <2>2 DEF Staged
<1>16. ASSUME NEW w \in Wrappers(u), s.held[w] # NoBev
       PROVE  s.held[w] \in Bevs \ {k}
  BY <1>3, <1>9, <1>16 DEF Lone, Reached
<1>17. Wrapped(t, u)
  <2>1. ASSUME NEW j \in Bevs, Unheard(t, j) PROVE Unheard(s, j)
    <3>1. CASE j = k
      BY <1>9, <3>1 DEF Unheard
    <3>2. CASE j # k
      BY <1>7, <1>9, <1>10, <2>1, <3>2 DEF Unheard
    <3> QED BY <3>1, <3>2
  <2>2. ASSUME NEW w \in Wrappers(u), t.held[w] # NoBev PROVE Holds(t, w)
    <3>1. Holds(s, w) /\ s.held[w] \in Bevs \ {k}
      BY <1>1, <1>16, <2>2 DEF Lone, Wrapped
    <3> QED BY <1>1, <1>7, <1>10, <3>1 DEF Holds
  <2> QED BY <1>1, <1>10, <2>1, <2>2 DEF Wrapped, Lone
<1>18. Kept(t, u)
  <2>1. t.known = TRUE
    BY <1>1, <1>4, <1>5 DEF Lone, Kept, OnWire
  <2>2. ASSUME NEW j \in Bevs, j # k PROVE KeptOf(t, u, j)
    <3>1. KeptOf(s, u, j)
      BY DEF Lone, Kept
    <3>2. t.phase[j] = s.phase[j] /\ (j \in t.dialled <=> j \in s.dialled)
      BY <1>7, <2>2
    <3> HIDE <2>2
    <3> QED BY <1>1, <1>9, <1>10, <3>1, <3>2 DEF KeptOf
  <2>3. KeptOf(t, u, k)
    BY <1>7, <1>9 DEF KeptOf
  <2> QED BY <2>1, <2>2, <2>3 DEF Kept
<1>19. Marked(t, u)
  BY <1>7, <1>9 DEF Marked
<1>20. Session(t)
  <2>1. s.sock # NoBev => s.sock \in Bevs \ {k}
    BY <1>2, <1>3 DEF Lone, Session
  <2>2. ASSUME NEW j \in Bevs, j # k PROVE OpenOf(t, j)
    <3>1. OpenOf(s, j)
      BY DEF Lone, Session
    <3>2. t.phase[j] = s.phase[j] /\ (j \in t.dialled <=> j \in s.dialled) /\ t.fd[j] = s.fd[j]
      BY <1>7, <2>2
    <3> HIDE <2>2
    <3> QED BY <1>1, <1>10, <3>1, <3>2 DEF OpenOf
  <2>3. OpenOf(t, k)
    BY <1>7, <1>9 DEF OpenOf
  <2>4. /\ t.isAuthed = TRUE <=> t.sock # NoBev
        /\ t.sock # NoBev => /\ t.held[t.bw] = t.sock /\ t.fd[t.sock] = "open"
                             /\ t.phase[t.sock] \in {"read", "off"}
    BY <1>1, <1>7, <2>1 DEF Lone, Session
  <2>5. t.held[t.bw] # NoBev /\ t.held[t.bw] \notin t.dialled => t.sock = t.held[t.bw]
    BY <1>1, <1>2, <1>3 DEF Lone, Session
  <2> QED BY <2>2, <2>3, <2>4, <2>5 DEF Session
<1> QED BY <1>8, <1>12, <1>13, <1>15, <1>17, <1>18, <1>19, <1>20 DEF Lone

\* A dialled connection that was enabled is read.
LEMMA EnablesKeeps ==
    ASSUME NEW u, u \notin Bevs, NEW s, NEW t, Lone(s, u), Enables(s, t)
    PROVE  /\ Lone(t, u) /\ Head(s.wire).bev \in Bevs /\ Head(s.wire).bev \in s.dialled
           /\ s.phase[Head(s.wire).bev] = "up"
           /\ t.phase = [s.phase EXCEPT ![Head(s.wire).bev] = "auth"]
<1> DEFINE k == Head(s.wire).bev
<1>1. /\ s.wire # <<>> /\ Head(s.wire).kind = "addDefault"
      /\ t.wire = Tail(s.wire) /\ t.inbox = s.inbox
      /\ t.held = s.held /\ t.bw = s.bw /\ t.extra = s.extra /\ t.freed = s.freed
      /\ t.known = s.known /\ t.connectTo = s.connectTo
      /\ t.isAuthed = s.isAuthed /\ t.sock = s.sock
      /\ t.dialled = s.dialled /\ t.remote = s.remote /\ t.fd = s.fd
      /\ t.phase = IF k \in s.freed THEN s.phase ELSE [s.phase EXCEPT ![k] = "auth"]
  BY DEF Enables, SameEntry, SameOwner
<1>2. /\ s.phase \in [Bevs -> {"unused", "dialling", "up", "auth", "read", "off"}]
      /\ s.dialled \subseteq Bevs /\ s.bw \in Wrappers(u)
      /\ s.held \in [Wrappers(u) -> Bevs \cup {NoBev}]
      /\ NoBev \notin Bevs /\ s.sock \in Bevs \cup {NoBev}
      /\ s.wire \in Seq(Messages(u)) /\ s.inbox \in Seq(Events(u))
  BY ConnectionsAssumption DEF Lone, Typed
<1>3. /\ Tail(s.wire) \in Seq(Messages(u)) /\ Head(s.wire) \in Messages(u)
      /\ ToSet(Tail(s.wire)) \subseteq ToSet(s.wire)
      /\ ToSet(s.wire) \subseteq {Head(s.wire)} \cup ToSet(Tail(s.wire))
      /\ Head(s.wire) \in ToSet(s.wire)
      /\ IsInjective(Tail(s.wire)) /\ Head(s.wire) \notin ToSet(Tail(s.wire))
  BY <1>1, <1>2, TailSet, InjectiveTail DEF Lone, Once
<1>4. Head(s.wire) = Enable(k) /\ k \in Bevs
  BY <1>1, <1>3 DEF Messages, Enable
<1>5. s.phase[k] = "up" /\ k \in s.dialled /\ k \notin s.freed /\ ~Queued(s, "connected", k)
  BY <1>3, <1>4 DEF Lone, Staged, StageOf, OnWire
<1>6. t.phase = [s.phase EXCEPT ![k] = "auth"]
  BY <1>1, <1>5
<1> HIDE DEF k
<1>7. /\ t.phase \in [Bevs -> {"unused", "dialling", "up", "auth", "read", "off"}]
      /\ t.phase[k] = "auth" /\ \A j \in Bevs \ {k} : t.phase[j] = s.phase[j]
  BY <1>2, <1>4, <1>6
<1>8. /\ ~OnWire(t, Enable(k))
      /\ \A j \in Bevs \ {k} : OnWire(t, Enable(j)) <=> OnWire(s, Enable(j))
      /\ OnWire(t, Dial(u)) <=> OnWire(s, Dial(u))
  BY <1>1, <1>3, <1>4 DEF OnWire, Enable, Dial
<1>9. Typed(t, u)
  BY <1>1, <1>3, <1>7 DEF Lone, Typed
<1>10. \A j \in Bevs : Settled(t, j) <=> Settled(s, j)
  BY <1>4, <1>5, <1>7 DEF Settled
<1>11. /\ \A kind, j : Queued(t, kind, j) <=> Queued(s, kind, j)
       /\ \A w : (Sending(t, w) <=> Sending(s, w)) /\ (Owned(t, w) <=> Owned(s, w))
  BY <1>1 DEF Queued, Sending, Owned
<1>12. \A kind \in BevKinds : ~Queued(s, kind, k)
  BY <1>4, <1>5, QueuedBefore
<1>13. {"newConnection", "auth", "quit", "connected", "refused"} \cup Kinds = BevKinds
  BY DEF BevKinds
<1>14. Reached(t, u)
  <2>1. ASSUME NEW e \in ToSet(t.inbox), e.kind \in BevKinds PROVE Settled(t, e.bev)
    <3>1. e.bev \in Bevs /\ Settled(s, e.bev)
      BY <1>1, <1>2, <2>1, EventShapes DEF Lone, Reached, ToSet
    <3> QED BY <1>10, <3>1
  <2>2. ASSUME NEW j \in Bevs
        PROVE  /\ t.phase[j] # "unused" => s.phase[j] # "unused"
               /\ t.phase[j] = "dialling" => s.phase[j] = "dialling"
               /\ s.phase[j] # "unused" => t.phase[j] # "unused"
    BY <1>5, <1>7
  <2>3. \A w \in Wrappers(u) : t.held[w] # NoBev => Settled(t, t.held[w])
    BY <1>1, <1>2, <1>10 DEF Lone, Reached
  <2> QED BY <1>1, <1>2, <2>1, <2>2, <2>3 DEF Lone, Reached
<1>15. Once(t, u)
  BY <1>1, <1>3 DEF Lone, Once
<1>16. Staged(t)
  <2>1. ASSUME NEW j \in Bevs, j # k PROVE StageOf(t, j)
    <3>1. StageOf(s, j)
      BY DEF Lone, Staged
    <3>2. t.phase[j] = s.phase[j] /\ (OnWire(t, Enable(j)) <=> OnWire(s, Enable(j)))
      BY <1>7, <1>8, <2>1
    <3> HIDE <2>1
    <3> QED BY <1>1, <1>11, <3>1, <3>2 DEF StageOf
  <2>2. StageOf(t, k)
    BY <1>1, <1>5, <1>7, <1>8, <1>11, <1>12, <1>13 DEF StageOf
  <2> QED BY <2>1, <2>2 DEF Staged
<1>17. Wrapped(t, u)
  <2>1. \A j \in Bevs : Unheard(t, j) <=> Unheard(s, j)
    BY <1>1, <1>10, <1>11 DEF Unheard
  <2>2. ASSUME NEW w \in Wrappers(u), t.held[w] # NoBev PROVE Holds(t, w)
    <3>1. Holds(s, w) /\ s.held[w] \in Bevs
      BY <1>1, <1>2, <2>2 DEF Lone, Wrapped
    <3>2. s.phase[s.held[w]] = "off" => t.phase[s.held[w]] = "off"
      BY <1>5, <1>7, <3>1
    <3> QED BY <1>1, <1>11, <3>1, <3>2 DEF Holds
  <2> QED BY <1>1, <1>11, <2>1, <2>2 DEF Wrapped, Lone
<1>18. Kept(t, u)
  <2>1. t.held[t.bw] # NoBev \/ t.dialled # {} \/ OnWire(t, Dial(u)) => t.known = TRUE
    BY <1>1, <1>8 DEF Lone, Kept
  <2>2. ASSUME NEW j \in Bevs, j # k PROVE KeptOf(t, u, j)
    <3>1. KeptOf(s, u, j)
      BY DEF Lone, Kept
    <3>2. t.phase[j] = s.phase[j]
      BY <1>7, <2>2
    <3> HIDE <2>2
    <3> QED BY <1>1, <1>10, <1>11, <3>1, <3>2 DEF KeptOf
  <2>3. KeptOf(t, u, k)
    <3>1. KeptOf(s, u, k)
      BY <1>4 DEF Lone, Kept
    <3> QED BY <1>1, <1>4, <1>5, <1>7, <1>10, <1>11, <3>1 DEF KeptOf
  <2> QED BY <2>1, <2>2, <2>3 DEF Kept
<1>19. Marked(t, u)
  <2>1. \A j \in s.dialled : s.phase[j] = "dialling" => t.phase[j] = "dialling"
    BY <1>2, <1>5, <1>7
  <2> QED BY <1>1, <1>8, <1>11, <2>1 DEF Marked, Lone
<1>20. Session(t)
  <2>1. s.sock # NoBev => s.sock \in Bevs \ {k}
    BY <1>2, <1>5 DEF Lone, Session
  <2>2. ASSUME NEW j \in Bevs, j # k PROVE OpenOf(t, j)
    <3>1. OpenOf(s, j)
      BY DEF Lone, Session
    <3>2. t.phase[j] = s.phase[j]
      BY <1>7, <2>2
    <3> HIDE <2>2
    <3> QED BY <1>1, <1>11, <3>1, <3>2 DEF OpenOf
  <2>3. OpenOf(t, k)
    <3>1. s.fd[k] = "open"
      BY <1>4, <1>5 DEF Lone, Session, OpenOf
    <3> QED BY <1>1, <1>5, <1>7, <3>1 DEF OpenOf
  <2>4. s.sock # NoBev => t.phase[s.sock] = s.phase[s.sock]
    BY <1>7, <2>1
  <2> QED BY <1>1, <2>2, <2>3, <2>4 DEF Session, Lone
<1>21. Lone(t, u)
  BY <1>9, <1>14, <1>15, <1>16, <1>17, <1>18, <1>19, <1>20 DEF Lone
<1> QED BY <1>4, <1>5, <1>6, <1>21 DEF k

\* An attempt or a text added to the queue.
LEMMA GivenKeeps ==
    ASSUME NEW u, u \notin Bevs, NEW s, NEW t, Lone(s, u), NEW e, IsGiven(s, t, e),
           \/ e = Attempt(u) /\ ~Clears(s.inbox)
           \/ e = SendTo(s.bw)
    PROVE  Lone(t, u)
<1>1. /\ t.inbox = Append(s.inbox, e) /\ t.wire = s.wire
      /\ t.held = s.held /\ t.bw = s.bw /\ t.extra = s.extra /\ t.freed = s.freed
      /\ t.known = s.known /\ t.connectTo = s.connectTo
      /\ t.isAuthed = s.isAuthed /\ t.sock = s.sock
      /\ t.dialled = s.dialled /\ t.remote = s.remote /\ t.fd = s.fd /\ t.phase = s.phase
  BY DEF IsGiven, SameEntry, SameOwner, SameNet
<1>2. Typed(s, u) /\ Once(s, u) /\ s.bw \in Wrappers(u)
  BY DEF Lone, Typed
<1>3. /\ e \in Events(u) /\ e.kind \notin BevKinds
      /\ e = Attempt(u) => ~Clears(s.inbox)
  <2>1. CASE e = Attempt(u) /\ ~Clears(s.inbox)
    BY <2>1, EventShapes, EventKinds
  <2>2. CASE e = SendTo(s.bw)
    <3>1. SendTo(s.bw) # Attempt(u)
      BY EventKinds
    <3> QED BY <1>2, <2>2, <3>1, EventShapes, EventKinds
  <2> QED BY <2>1, <2>2
<1>4. /\ t.inbox \in Seq(Events(u)) /\ ToSet(t.inbox) = ToSet(s.inbox) \cup {e}
      /\ InOrder(t.inbox) /\ EndsLast(t.inbox, u)
      /\ \A kind \in BevKinds, k \in Bevs :
           Queued(t, kind, k) <=> Queued(s, kind, k) \/ e = Signal(kind, k)
      /\ \A w \in Wrappers(u) : Sending(t, w) <=> Sending(s, w) \/ e = SendTo(w)
  <2>1. \A d \in ToSet(s.inbox) : d.kind \in BevKinds /\ e.kind \in BevKinds /\ d.bev = e.bev
                                      => MayFollow(d, e)
    BY <1>3
  <2>2. Typed(s, u) /\ Once(s, u)
    BY <1>2
  <2>3. e \in Events(u) /\ (e = Attempt(u) => ~Clears(s.inbox))
    BY <1>3
  <2>4. t.inbox = Append(s.inbox, e)
    BY <1>1
  <2> QED BY <2>1, <2>2, <2>3, <2>4, QueueAdded
<1>5. \A kind \in BevKinds, k \in Bevs : Queued(t, kind, k) <=> Queued(s, kind, k)
  BY <1>3, <1>4, EventKinds
<1>6. {"newConnection", "auth", "quit", "connected", "refused"} \cup Kinds = BevKinds
  BY DEF BevKinds
<1>7. \A w \in Wrappers(u) : Sending(s, w) => Sending(t, w)
  BY <1>4
<1>8. \A w \in Wrappers(u) : Sending(t, w) => Sending(s, w) \/ w = s.bw
  BY <1>4, EventKinds DEF SendTo, Attempt
<1>9. Typed(t, u) /\ Once(t, u)
  BY <1>1, <1>2, <1>4 DEF Typed, Once
<1>10. \A k : Settled(t, k) <=> Settled(s, k)
  BY <1>1 DEF Settled
<1>11. \A w : Owned(t, w) <=> Owned(s, w)
  BY <1>1 DEF Owned
<1>12. Reached(t, u)
  BY <1>1, <1>3, <1>4, <1>10 DEF Lone, Reached
<1>13. Staged(t)
  <2> SUFFICES ASSUME NEW k \in Bevs PROVE StageOf(t, k)
    BY DEF Staged
  <2>1. StageOf(s, k)
    BY DEF Lone, Staged
  <2> QED BY <1>1, <1>5, <1>6, <2>1 DEF StageOf, OnWire
<1>14. Wrapped(t, u)
  <2>1. \A k \in Bevs : Unheard(t, k) <=> Unheard(s, k)
    BY <1>1, <1>5, <1>6, <1>10 DEF Unheard
  <2>2. ASSUME NEW k \in Bevs, Unheard(t, k) PROVE ~Owned(t, k) /\ ~Sending(t, k)
    <3>1. ~Owned(s, k) /\ ~Sending(s, k) /\ k \in Wrappers(u)
      BY <2>1, <2>2 DEF Lone, Wrapped, Wrappers
    <3> QED BY <1>8, <1>11, <3>1 DEF Owned
  <2>3. ASSUME NEW w \in Wrappers(u), t.held[w] # NoBev PROVE Holds(t, w)
    <3>1. Holds(s, w) /\ s.held[w] \in Bevs
      BY <1>1, <1>2, <2>3 DEF Lone, Wrapped, Typed
    <3> QED BY <1>1, <1>5, <1>7, <1>11, <3>1 DEF Holds
  <2>4. \A k \in Bevs : Queued(t, "newConnection", k) => t.held[k] = NoBev
    BY <1>1, <1>5, <1>6 DEF Lone, Wrapped
  <2> QED BY <1>1, <2>2, <2>3, <2>4 DEF Wrapped, Lone
<1>15. Kept(t, u)
  <2>1. ASSUME NEW k \in Bevs PROVE KeptOf(t, u, k)
    <3>1. KeptOf(s, u, k)
      BY DEF Lone, Kept
    <3> QED BY <1>1, <1>5, <1>6, <1>10, <1>11, <3>1 DEF KeptOf
  <2>2. t.held[t.bw] # NoBev \/ t.dialled # {} \/ OnWire(t, Dial(u)) => t.known = TRUE
    BY <1>1 DEF Lone, Kept, OnWire
  <2> QED BY <2>1, <2>2 DEF Kept
<1>16. Marked(t, u)
  <2>1. \A k \in s.dialled : k \in Bevs
    BY <1>2 DEF Typed
  <2> QED BY <1>1, <1>5, <1>6, <2>1 DEF Marked, Lone, OnWire
<1>17. Session(t)
  <2>1. ASSUME NEW k \in Bevs PROVE OpenOf(t, k)
    <3>1. OpenOf(s, k)
      BY DEF Lone, Session
    <3>2. /\ Queued(t, "auth", k) <=> Queued(s, "auth", k)
          /\ Queued(t, "quit", k) <=> Queued(s, "quit", k)
          /\ Queued(t, "refused", k) <=> Queued(s, "refused", k)
      BY <1>5, <1>6
    <3> QED BY <1>1, <3>1, <3>2 DEF OpenOf
  <2> QED BY <1>1, <2>1 DEF Session, Lone
<1> QED BY <1>9, <1>12, <1>13, <1>14, <1>15, <1>16, <1>17 DEF Lone

-------------------------------------------------------------------------------
(***************************************************************************)
(* The two have one connection at most, and make no second one.            *)
(***************************************************************************)
\* Connection k is live at one end, or on its way to the other.
Active(s, t, c, k) ==
    \/ Live(s, k) \/ Live(t, k)
    \/ k \in c /\ (s.phase[k] = "unused" \/ t.phase[k] = "unused")

\* A dial has been asked for: an attempt waits that will not be ignored, or the
\* dial is on the wire.
Asked(s, u)  == Attempt(u) \in ToSet(s.inbox) /\ s.connectTo # TRUE
Dialed(s, u) == OnWire(s, Dial(u))
Tries(s, u)  == Asked(s, u) \/ Dialed(s, u)

\* s, with the peer u, and t, with the peer v, between them; c were called.
Solo(s, t, u, v, c) ==
    /\ \A j, k \in Bevs : Active(s, t, c, j) /\ Active(s, t, c, k) => j = k
    /\ Tries(s, u) \/ Tries(t, v) => \A k \in Bevs : ~Active(s, t, c, k)
    /\ ~(Tries(s, u) /\ Tries(t, v))
    /\ ~(Asked(s, u) /\ Dialed(s, u)) /\ ~(Asked(t, v) /\ Dialed(t, v))
    /\ s.dialled \cap t.dialled = {} /\ c \subseteq s.dialled \cup t.dialled
    /\ \A k \in Bevs : s.phase[k] # "unused" \/ t.phase[k] # "unused" =>
          k \in s.dialled \cup t.dialled

\* It is the same seen from the other end.
LEMMA SoloTurned ==
    ASSUME NEW s, NEW t, NEW u, NEW v, NEW c, Solo(s, t, u, v, c)
    PROVE  Solo(t, s, v, u, c)
<1>1. \A k : Active(t, s, c, k) <=> Active(s, t, c, k)
  BY DEF Active
<1> QED BY <1>1 DEF Solo

\* Each end does one thing at a time.
LEMMA SoloAlone ==
    ASSUME NEW s, NEW t, NEW u, NEW v, NEW c, Solo(s, t, u, v, c)
    PROVE  Alone(s, u) /\ Alone(t, v)
BY DEF Solo, Active, Asked, Dialed, Alone

\* A step of one end that makes nothing live that was not, and dials nothing
\* that was not asked for.
LEMMA SoloKept ==
    ASSUME NEW s, NEW t, NEW u, NEW v, NEW c, NEW r, NEW d, Solo(s, t, u, v, c),
           \A k \in Bevs : Live(r, k) => Active(s, t, c, k),
           \A k \in Bevs : r.phase[k] = "unused" => s.phase[k] = "unused",
           \A k \in Bevs : r.phase[k] # "unused" => k \in s.dialled \cup t.dialled,
           r.dialled = s.dialled, d \subseteq Bevs,
           \A k \in d \ c : Active(s, t, c, k) /\ k \in s.dialled \cup t.dialled,
           Asked(r, u) => Asked(s, u),
           Dialed(r, u) => Dialed(s, u) \/ (Asked(s, u) /\ ~Asked(r, u))
    PROVE  Solo(r, t, u, v, d)
<1>1. ASSUME NEW k \in Bevs, Active(r, t, d, k) PROVE Active(s, t, c, k)
  <2>1. CASE Live(r, k)
    BY <2>1
  <2>2. CASE Live(t, k)
    BY <2>2 DEF Active
  <2>3. CASE k \in d /\ (r.phase[k] = "unused" \/ t.phase[k] = "unused")
    <3>1. s.phase[k] = "unused" \/ t.phase[k] = "unused"
      BY <2>3
    <3>2. k \in d \ c => Active(s, t, c, k)
      OBVIOUS
    <3>3. k \in c => Active(s, t, c, k)
      BY <3>1 DEF Active
    <3> QED BY <2>3, <3>2, <3>3
  <2> QED BY <1>1, <2>1, <2>2, <2>3 DEF Active
<1>2. Tries(r, u) => Tries(s, u)
  BY DEF Tries
<1>3. ~(Asked(r, u) /\ Dialed(r, u))
  BY DEF Solo
<1>4. \A j, k \in Bevs : Active(r, t, d, j) /\ Active(r, t, d, k) => j = k
  BY <1>1 DEF Solo
<1>5. Tries(r, u) \/ Tries(t, v) => \A k \in Bevs : ~Active(r, t, d, k)
  BY <1>1, <1>2 DEF Solo
<1>6. d \subseteq r.dialled \cup t.dialled
  BY DEF Solo
<1>7. \A k \in Bevs : r.phase[k] # "unused" \/ t.phase[k] # "unused" =>
         k \in r.dialled \cup t.dialled
  BY DEF Solo
<1> QED BY <1>2, <1>3, <1>4, <1>5, <1>6, <1>7 DEF Solo

\* Only the end of a connection takes the mark away, and only an attempt dials.
LEMMA WorksMark ==
    ASSUME NEW s, NEW r, NEW u, u \notin Bevs, Lone(s, u), Alone(s, u), Works(s, r, u)
    PROVE  /\ \/ r.connectTo = TRUE \/ r.connectTo = s.connectTo
              \/ Takes(s, "quit") \/ Takes(s, "refused")
           /\ Takes(s, "attempt") => TakesAttempt(s, r, u)
<1>1. TakesCall(s, r, u) => r.connectTo = s.connectTo /\ Takes(s, "newConnection")
  BY DEF TakesCall, SameEntry
<1>2. TakesAuth(s, r, u) => r.connectTo = TRUE /\ Takes(s, "auth")
  BY AuthLeaves DEF TakesAuth
<1>3. TakesQuit(s, r, u) => Takes(s, "quit")
  BY DEF TakesQuit
<1>4. TakesAttempt(s, r, u) => r.connectTo = TRUE
  BY DEF TakesAttempt
<1>5. TakesConnected(s, r, u) => r.connectTo = s.connectTo /\ Takes(s, "connected")
  BY DEF TakesConnected, SameEntry
<1>6. TakesRefused(s, r, u) => Takes(s, "refused")
  BY DEF TakesRefused
<1>7. TakesSend(s, r, u) => r.connectTo = s.connectTo /\ Takes(s, "send")
  BY DEF TakesSend, SameEntry
<1>8. TakesPacket(s, r, u) => r.connectTo = s.connectTo /\ \E kind \in Kinds : Takes(s, kind)
  BY DEF TakesPacket, SameEntry
<1>9. \A kind : Takes(s, "attempt") /\ Takes(s, kind) => kind = "attempt"
  BY DEF Takes
<1> QED BY <1>1, <1>2, <1>3, <1>4, <1>5, <1>6, <1>7, <1>8, <1>9 DEF Works, Kinds

\* The worker.
LEMMA SoloWorks ==
    ASSUME NEW s, NEW t, NEW u, u \notin Bevs, NEW v, NEW c, c \subseteq Bevs, NEW r,
           Solo(s, t, u, v, c), Lone(s, u), Works(s, r, u)
    PROVE  Solo(r, t, u, v, c) /\ Lone(r, u)
<1>1. Alone(s, u)
  BY SoloAlone
<1>2. Lone(r, u) /\ r.phase = s.phase /\ r.dialled = s.dialled
  BY <1>1, WorksKeeps DEF Works, SameNet, Handled
<1>3. PICK w \in Wrappers(u), f \in SUBSET Bevs : Handles(s, r, u, w, f)
  BY <1>1, WorksKeeps DEF Handled
<1>4. Asked(r, u) => Asked(s, u)
  <2>1. /\ Attempt(u) \in ToSet(r.inbox) => Attempt(u) \in ToSet(s.inbox)
        /\ Head(s.inbox).kind \in {"quit", "refused"} => Attempt(u) \notin ToSet(r.inbox)
    BY <1>3, QueuedAfter DEF Handles
  <2>2. \/ r.connectTo = TRUE \/ r.connectTo = s.connectTo
        \/ Takes(s, "quit") \/ Takes(s, "refused")
    BY <1>1, WorksMark
  <2> QED BY <2>1, <2>2 DEF Asked, Takes
<1>5. ASSUME Dialed(r, u), ~Dialed(s, u) PROVE Asked(s, u) /\ ~Asked(r, u)
  <2>1. Takes(s, "attempt")
    BY <1>1, <1>3, <1>5, WireAfter DEF Handles, Dialed
  <2>2. TakesAttempt(s, r, u)
    BY <1>1, <2>1, WorksMark
  <2>3. s.connectTo # TRUE /\ r.connectTo = TRUE
    BY <1>5, <2>2 DEF TakesAttempt, Dialed, OnWire
  <2>4. Attempt(u) \in ToSet(s.inbox)
    BY <2>1, TailSet, EventShapes DEF Takes, Lone, Typed
  <2> QED BY <2>3, <2>4 DEF Asked
<1>7. \A k \in Bevs : Live(r, k) => Active(s, t, c, k)
  BY <1>2, <1>3 DEF Handles, Live, Active
<1>8. \A k \in Bevs : r.phase[k] # "unused" => k \in s.dialled \cup t.dialled
  BY <1>2 DEF Solo
<1>9. Solo(r, t, u, v, c)
  BY <1>2, <1>4, <1>5, <1>7, <1>8, SoloKept
<1> QED BY <1>2, <1>9

\* A dial.
LEMMA SoloDials ==
    ASSUME NEW s, NEW t, NEW u, u \notin Bevs, NEW v, NEW c, NEW r,
           Solo(s, t, u, v, c), Lone(s, u), Lone(t, v), Dials(s, r, u),
           \A k \in Bevs : s.phase[k] = "unused" /\ r.phase[k] # "unused" => t.phase[k] = "unused"
    PROVE  Solo(r, t, u, v, c) /\ Lone(r, u)
<1>1. Lone(r, u)
  BY DialsKeeps
<1>2. /\ s.wire # <<>> /\ Head(s.wire).kind = "connectTo"
      /\ r.wire = Tail(s.wire) /\ r.inbox = s.inbox /\ r.freed = s.freed
      /\ r.connectTo = s.connectTo
  BY DEF Dials, SameOwner, SameEntry
<1>3. PICK k \in Bevs : /\ s.phase[k] = "unused"
                        /\ r.phase = [s.phase EXCEPT ![k] = "dialling"]
                        /\ r.dialled = s.dialled \cup {k}
  BY DEF Dials
<1>4. s.phase \in [Bevs -> {"unused", "dialling", "up", "auth", "read", "off"}]
  BY DEF Lone, Typed
<1>5. r.phase[k] = "dialling" /\ \A j \in Bevs \ {k} : r.phase[j] = s.phase[j]
  BY <1>3, <1>4
<1>6. t.phase[k] = "unused" /\ k \notin t.dialled /\ k \notin s.dialled /\ k \notin c
  <2>1. t.phase[k] = "unused"
    BY <1>3, <1>5
  <2>2. k \notin t.dialled /\ k \notin s.dialled
    BY <1>3, <2>1 DEF Lone, Reached
  <2> QED BY <2>1, <2>2 DEF Solo
<1>7. s.wire \in Seq(Messages(u)) /\ IsInjective(s.wire)
  BY DEF Lone, Typed, Once
<1>8. Dialed(s, u) /\ ~Dialed(r, u) /\ (Asked(r, u) <=> Asked(s, u))
  <2>1. /\ Head(s.wire) \in Messages(u) /\ Head(s.wire) \in ToSet(s.wire)
        /\ Head(s.wire) \notin ToSet(Tail(s.wire))
    BY <1>2, <1>7, TailSet, InjectiveTail
  <2>2. Head(s.wire) = Dial(u)
    BY <1>2, <2>1 DEF Messages, Dial
  <2> QED BY <1>2, <2>1, <2>2 DEF Dialed, Asked, OnWire
<1>9. /\ \A j \in Bevs : ~Active(s, t, c, j)
      /\ ~Tries(t, v) /\ ~Asked(s, u)
  BY <1>8 DEF Solo, Tries
<1>10. \A j \in Bevs : Active(r, t, c, j) => j = k
  BY <1>2, <1>5, <1>9 DEF Active, Live
<1>11. ~Tries(r, u)
  BY <1>8, <1>9 DEF Tries
<1>12. /\ r.dialled \cap t.dialled = {} /\ c \subseteq r.dialled \cup t.dialled
       /\ \A j \in Bevs : r.phase[j] # "unused" \/ t.phase[j] # "unused" =>
             j \in r.dialled \cup t.dialled
  BY <1>3, <1>5, <1>6 DEF Solo
<1> QED BY <1>1, <1>8, <1>9, <1>10, <1>11, <1>12 DEF Solo

\* The enabling of a dialled connection.
LEMMA SoloEnables ==
    ASSUME NEW s, NEW t, NEW u, u \notin Bevs, NEW v, NEW c, c \subseteq Bevs, NEW r,
           Solo(s, t, u, v, c), Lone(s, u), Enables(s, r)
    PROVE  Solo(r, t, u, v, c) /\ Lone(r, u)
<1> DEFINE k == Head(s.wire).bev
<1>1. /\ Lone(r, u) /\ k \in Bevs /\ k \in s.dialled
      /\ s.phase[k] = "up" /\ r.phase = [s.phase EXCEPT ![k] = "auth"]
  BY EnablesKeeps
<1> HIDE DEF k
<1>2. /\ s.phase \in [Bevs -> {"unused", "dialling", "up", "auth", "read", "off"}]
      /\ s.wire \in Seq(Messages(u))
  BY DEF Lone, Typed
<1>3. r.phase[k] = "auth" /\ \A j \in Bevs \ {k} : r.phase[j] = s.phase[j]
  BY <1>1, <1>2
<1>4. /\ s.wire # <<>> /\ r.wire = Tail(s.wire) /\ r.inbox = s.inbox
      /\ r.freed = s.freed /\ r.dialled = s.dialled /\ r.connectTo = s.connectTo
  BY DEF Enables, SameOwner, SameEntry
<1>5. (Asked(r, u) <=> Asked(s, u)) /\ (Dialed(r, u) => Dialed(s, u))
  BY <1>2, <1>4, TailSet DEF Asked, Dialed, OnWire
<1>6. \A j \in Bevs : r.phase[j] = "unused" <=> s.phase[j] = "unused"
  BY <1>1, <1>3
<1>7. \A j \in Bevs : Live(r, j) => Active(s, t, c, j)
  BY <1>4, <1>6 DEF Live, Active
<1>8. \A j \in Bevs : r.phase[j] # "unused" => j \in s.dialled \cup t.dialled
  BY <1>6 DEF Solo
<1> QED BY <1>1, <1>4, <1>5, <1>6, <1>7, <1>8, SoloKept

\* A callback, or a call.
LEMMA SoloTells ==
    ASSUME NEW s, NEW t, NEW u, u \notin Bevs, NEW v, NEW c, NEW r, NEW d \in SUBSET Bevs,
           Solo(s, t, u, v, c), Lone(s, u),
           NEW k \in Bevs, NEW p, NEW kind, Tells(s, r, u, k, p, kind), d \subseteq c \cup {k},
           s.phase[k] = "unused" => Active(s, t, c, k) /\ k \in t.dialled
    PROVE  Solo(r, t, u, v, d) /\ Lone(r, u)
<1>1. Lone(r, u)
  BY TellsKeeps
<1>2. /\ k \notin s.freed /\ Moves(s.phase[k], p, kind)
      /\ r.phase = [s.phase EXCEPT ![k] = p]
      /\ r.dialled = s.dialled /\ r.wire = s.wire /\ r.freed = s.freed
      /\ r.connectTo = s.connectTo
  BY DEF Tells, SameOwner, SameEntry
<1>3. s.phase \in [Bevs -> {"unused", "dialling", "up", "auth", "read", "off"}]
  BY DEF Lone, Typed
<1>4. r.phase[k] = p /\ p # "unused" /\ \A j \in Bevs \ {k} : r.phase[j] = s.phase[j]
  BY <1>2, <1>3 DEF Moves
<1>5. Active(s, t, c, k) /\ k \in s.dialled \cup t.dialled
  BY <1>2 DEF Active, Live, Solo
<1>6. \A j \in Bevs : Live(r, j) => Active(s, t, c, j)
  BY <1>2, <1>4, <1>5 DEF Live, Active
<1>7. Asked(r, u) <=> Asked(s, u)
  <2>1. /\ s.inbox \in Seq(Events(u)) /\ kind \in BevKinds
        /\ r.inbox = Append(s.inbox, Signal(kind, k))
    BY DEF Lone, Typed, Tells, Moves, BevKinds
  <2>2. Signal(kind, k) \in Events(u) /\ Signal(kind, k) # Attempt(u)
    BY <2>1, EventShapes, EventKinds
  <2>3. ToSet(r.inbox) = ToSet(s.inbox) \cup {Signal(kind, k)}
    BY <2>1, <2>2, AppendSet
  <2> QED BY <1>2, <2>2, <2>3 DEF Asked
<1>8. Dialed(r, u) <=> Dialed(s, u)
  BY <1>2 DEF Dialed, OnWire
<1>9. \A j \in Bevs : r.phase[j] = "unused" => s.phase[j] = "unused"
  BY <1>4
<1>10. \A j \in Bevs : r.phase[j] # "unused" => j \in s.dialled \cup t.dialled
  BY <1>4, <1>5 DEF Solo
<1>11. \A j \in d \ c : Active(s, t, c, j) /\ j \in s.dialled \cup t.dialled
  BY <1>5
<1> QED BY <1>1, <1>2, <1>6, <1>7, <1>8, <1>9, <1>10, <1>11, SoloKept

\* An attempt that will be ignored.
LEMMA SoloIgnores ==
    ASSUME NEW s, NEW t, NEW u, u \notin Bevs, NEW v, NEW c, c \subseteq Bevs, NEW r,
           Solo(s, t, u, v, c), Lone(s, u), IsGiven(s, r, Attempt(u)),
           s.connectTo = TRUE \/ Attempt(u) \in ToSet(s.inbox), ~Clears(s.inbox)
    PROVE  Solo(r, t, u, v, c) /\ Lone(r, u)
<1>1. Lone(r, u)
  BY GivenKeeps
<1>2. /\ r.phase = s.phase /\ r.dialled = s.dialled /\ r.freed = s.freed /\ r.wire = s.wire
      /\ r.connectTo = s.connectTo
  BY DEF IsGiven, SameNet, SameOwner, SameEntry
<1>3. Asked(r, u) => Asked(s, u)
  BY <1>2 DEF Asked
<1>4. Dialed(r, u) <=> Dialed(s, u)
  BY <1>2 DEF Dialed, OnWire
<1>5. \A k \in Bevs : Live(r, k) => Active(s, t, c, k)
  BY <1>2 DEF Live, Active
<1>6. \A k \in Bevs : r.phase[k] # "unused" => k \in s.dialled \cup t.dialled
  BY <1>2 DEF Solo
<1> QED BY <1>1, <1>2, <1>3, <1>4, <1>5, <1>6, SoloKept

\* An attempt, when the two are apart.
LEMMA SoloAsks ==
    ASSUME NEW s, NEW t, NEW u, u \notin Bevs, NEW v, NEW c, NEW r,
           Solo(s, t, u, v, c), Lone(s, u), IsGiven(s, r, Attempt(u)),
           \A k \in Bevs : ~Active(s, t, c, k), ~Tries(s, u), ~Tries(t, v)
    PROVE  Solo(r, t, u, v, c) /\ Lone(r, u)
<1>a. ~Clears(s.inbox)
  <2>1. SUFFICES ASSUME NEW e \in ToSet(s.inbox), e.kind \in {"quit", "refused"} PROVE FALSE
    BY DEF Clears
  <2>2. e \in Events(u) /\ e.kind \in BevKinds
    BY <2>1 DEF Lone, Typed, ToSet, BevKinds
  <2>3. e.bev \in Bevs /\ e = Signal(e.kind, e.bev)
    BY <2>2, EventShapes
  <2>4. Queued(s, e.kind, e.bev) /\ Settled(s, e.bev)
    BY <2>1, <2>2, <2>3 DEF Queued, Lone, Reached
  <2>5. Live(s, e.bev)
    BY <2>2, <2>3, <2>4 DEF Lone, Staged, StageOf, Live, Settled
  <2> QED BY <2>3, <2>5 DEF Active
<1>1. Lone(r, u)
  BY <1>a, GivenKeeps
<1>2. r.phase = s.phase /\ r.dialled = s.dialled /\ r.freed = s.freed /\ r.wire = s.wire
  BY DEF IsGiven, SameNet, SameOwner
<1>3. \A k \in Bevs : ~Active(r, t, c, k)
  BY <1>2 DEF Active, Live
<1>4. ~Dialed(r, u)
  BY <1>2 DEF Tries, Dialed, OnWire
<1> QED BY <1>1, <1>2, <1>3, <1>4 DEF Solo, Tries

\* What the user writes.
LEMMA SoloWrites ==
    ASSUME NEW s, NEW t, NEW u, u \notin Bevs, NEW v, NEW c, c \subseteq Bevs, NEW r,
           Solo(s, t, u, v, c), Lone(s, u), IsGiven(s, r, SendTo(s.bw))
    PROVE  Solo(r, t, u, v, c) /\ Lone(r, u)
<1>1. Lone(r, u)
  BY GivenKeeps
<1>2. /\ r.phase = s.phase /\ r.dialled = s.dialled /\ r.freed = s.freed /\ r.wire = s.wire
      /\ r.inbox = Append(s.inbox, SendTo(s.bw)) /\ r.connectTo = s.connectTo
  BY DEF IsGiven, SameNet, SameOwner, SameEntry
<1>3. Asked(r, u) => Asked(s, u)
  <2>1. s.inbox \in Seq(Events(u)) /\ SendTo(s.bw) \in Events(u)
    BY EventShapes DEF Lone, Typed
  <2>2. ToSet(r.inbox) = ToSet(s.inbox) \cup {SendTo(s.bw)}
    BY <1>2, <2>1, AppendSet
  <2>3. SendTo(s.bw) # Attempt(u)
    BY EventKinds
  <2> QED BY <1>2, <2>2, <2>3 DEF Asked
<1>4. Dialed(r, u) <=> Dialed(s, u)
  BY <1>2 DEF Dialed, OnWire
<1>5. \A k \in Bevs : Live(r, k) => Active(s, t, c, k)
  BY <1>2 DEF Live, Active
<1>6. \A k \in Bevs : r.phase[k] # "unused" => k \in s.dialled \cup t.dialled
  BY <1>2 DEF Solo
<1> QED BY <1>1, <1>2, <1>3, <1>4, <1>5, <1>6, SoloKept

-------------------------------------------------------------------------------
(***************************************************************************)
(* A step of one end, and what it does to the connections.                 *)
(***************************************************************************)
\* What the ends share, seen from one of them: what its queued sends will
\* write, the packets on their way from it and to it, the calls, the cuts.
AliceLink ==
    [posts |-> aPosts, out |-> toBob, into |-> toAlice, called |-> called, cuts |-> cuts]
BobLink ==
    [posts |-> bPosts, out |-> toAlice, into |-> toBob, called |-> called, cuts |-> cuts]

SameLines(l, m) == m.out = l.out /\ m.into = l.into
SameCalls(l, m) == m.called = l.called /\ m.cuts = l.cuts
Noted(l, m, word) == m.posts = Append(l.posts, word)

\* s becomes r and l becomes m; t, the other end, stays.
StepWorks(s, r, t, u, l, m) ==
    /\ Works(s, r, u)
    /\ m.posts = Posts(l.posts, s.inbox, r.inbox)
    /\ m.out = Written(l.out, s.inbox, l.posts, s.held, s.phase, t.phase, t.freed)
    /\ m.into = l.into /\ SameCalls(l, m)

StepServes(s, r, t, u, l, m) ==
    /\ \/ Enables(s, r)
       \/ /\ Dials(s, r, u)
          /\ \A k \in Bevs : s.phase[k] = "unused" /\ r.phase[k] # "unused" => t.phase[k] = "unused"
    /\ m.posts = l.posts /\ SameLines(l, m) /\ SameCalls(l, m)

StepDials(s, r, l, m, k) ==
    /\ HearsResult(s, r, k)
    /\ \/ m.called = l.called \cup {k} /\ m.cuts = l.cuts /\ r.phase[k] = "up"
       \/ m.called = l.called /\ m.cuts = l.cuts + 1
    /\ Noted(l, m, "none") /\ SameLines(l, m)

StepAccepts(s, r, t, u, l, m, k) ==
    /\ k \in t.dialled /\ (k \in l.called \/ t.phase[k] = "dialling")
    /\ IsCalled(s, r, u, k)
    /\ m.called = l.called \cup {k} /\ m.cuts = l.cuts
    /\ Noted(l, m, "none") /\ SameLines(l, m)

StepReads(s, r, l, m, k) ==
    /\ \/ /\ \/ HearsAuth(s, r, k) /\ First(l.into, k, "auth")
             \/ HearsPacket(s, r, k)
          /\ Noted(l, m, "none")
       \/ r = s /\ s.phase[k] = "read" /\ m.posts = l.posts
    /\ l.into[k] # <<>> /\ m.into = Rest(l.into, k)
    /\ m.out = l.out /\ SameCalls(l, m)

StepLoses(s, r, t, l, m, k) ==
    /\ HearsEnd(s, r, k)
    /\ \/ t.fd[k] \in {"closed", "reclosed"} /\ m.cuts = l.cuts
       \/ s.phase[k] = "auth" /\ l.into[k] # <<>> /\ Head(l.into[k]) # "auth" /\ m.cuts = l.cuts
       \/ m.cuts = l.cuts + 1
    /\ m.into = [l.into EXCEPT ![k] = <<>>] /\ m.out = l.out /\ m.called = l.called
    /\ Noted(l, m, "none")

StepAsks(s, r, t, u, v, l, m) ==
    /\ \/ /\ \A k \in Bevs : ~Active(s, t, l.called, k)
          /\ ~Tries(s, u) /\ ~Tries(t, v)
       \/ (s.connectTo = TRUE \/ Attempt(u) \in ToSet(s.inbox)) /\ ~Clears(s.inbox)
    /\ IsGiven(s, r, Attempt(u))
    /\ Noted(l, m, "none") /\ SameLines(l, m) /\ SameCalls(l, m)

StepWrites(s, r, l, m) ==
    /\ IsGiven(s, r, SendTo(s.bw))
    /\ Noted(l, m, "text") /\ SameLines(l, m) /\ SameCalls(l, m)

Steps(s, r, t, u, v, l, m) ==
    \/ StepWorks(s, r, t, u, l, m) \/ StepServes(s, r, t, u, l, m)
    \/ StepAsks(s, r, t, u, v, l, m) \/ StepWrites(s, r, l, m)
    \/ \E k \in Bevs : \/ StepDials(s, r, l, m, k) \/ StepAccepts(s, r, t, u, l, m, k)
                       \/ StepReads(s, r, l, m, k) \/ StepLoses(s, r, t, l, m, k)

\* A callback tells the worker of a connection that exists.
LEMMA CallbackTells ==
    ASSUME NEW u, NEW s, NEW r, NEW k \in Bevs, Lone(s, u)
    PROVE  /\ HearsResult(s, r, k) =>
                \E p \in {"up", "off"}, kind \in BevKinds : Tells(s, r, u, k, p, kind)
           /\ HearsAuth(s, r, k) => Tells(s, r, u, k, "read", "auth")
           /\ HearsEnd(s, r, k) => Tells(s, r, u, k, "off", "quit")
           /\ HearsPacket(s, r, k) => \E kind \in Kinds : Tells(s, r, u, k, "read", kind)
           /\ IsCalled(s, r, u, k) => Tells(s, r, u, k, "auth", "newConnection")
<1>1. ASSUME NEW p, NEW kind, CallsBack(s, r, k, p, kind), s.phase[k] # "unused",
             Moves(s.phase[k], p, kind)
      PROVE  Tells(s, r, u, k, p, kind)
  BY <1>1 DEF CallsBack, Tells
<1>2. HearsResult(s, r, k) =>
         \E p \in {"up", "off"}, kind \in BevKinds : Tells(s, r, u, k, p, kind)
  <2>1. ASSUME s.phase[k] = "dialling", CallsBack(s, r, k, "up", "connected")
        PROVE  Tells(s, r, u, k, "up", "connected")
    BY <2>1, <1>1 DEF Moves
  <2>2. ASSUME s.phase[k] = "dialling", CallsBack(s, r, k, "off", "refused")
        PROVE  Tells(s, r, u, k, "off", "refused")
    BY <2>2, <1>1 DEF Moves
  <2> QED BY <2>1, <2>2 DEF HearsResult, BevKinds
<1>3. HearsAuth(s, r, k) => Tells(s, r, u, k, "read", "auth")
  BY <1>1 DEF HearsAuth, Moves
<1>4. HearsEnd(s, r, k) => Tells(s, r, u, k, "off", "quit")
  BY <1>1 DEF HearsEnd, Moves
<1>5. HearsPacket(s, r, k) => \E kind \in Kinds : Tells(s, r, u, k, "read", kind)
  BY <1>1 DEF HearsPacket, Moves
<1>6. IsCalled(s, r, u, k) => k \notin s.freed
  BY DEF IsCalled, Lone, Staged, StageOf
<1>7. IsCalled(s, r, u, k) => Tells(s, r, u, k, "auth", "newConnection")
  BY <1>6 DEF IsCalled, Tells, Moves
<1> QED BY <1>2, <1>3, <1>4, <1>5, <1>7

\* A step of one end makes no second connection, and keeps the end as it
\* should be.
LEMMA SoloSteps ==
    ASSUME NEW s, NEW r, NEW t, NEW u, u \notin Bevs, NEW v, NEW l, NEW m,
           l.called \subseteq Bevs,
           Solo(s, t, u, v, l.called), Lone(s, u), Lone(t, v), Steps(s, r, t, u, v, l, m)
    PROVE  Solo(r, t, u, v, m.called) /\ Lone(r, u) /\ m.called \subseteq Bevs
<1>1. CASE StepWorks(s, r, t, u, l, m)
  BY <1>1, SoloWorks DEF StepWorks, SameCalls
<1>2. CASE StepServes(s, r, t, u, l, m)
  BY <1>2, SoloDials, SoloEnables DEF StepServes, SameCalls
<1>3. CASE StepAsks(s, r, t, u, v, l, m)
  BY <1>3, SoloAsks, SoloIgnores DEF StepAsks, SameCalls
<1>4. CASE StepWrites(s, r, l, m)
  BY <1>4, SoloWrites DEF StepWrites, SameCalls
<1>5. ASSUME NEW k \in Bevs, NEW p, NEW kind, Tells(s, r, u, k, p, kind),
             m.called \subseteq l.called \cup {k},
             s.phase[k] = "unused" => Active(s, t, l.called, k) /\ k \in t.dialled
      PROVE  Solo(r, t, u, v, m.called) /\ Lone(r, u) /\ m.called \subseteq Bevs
  <2>1. m.called \in SUBSET Bevs
    BY <1>5
  <2> QED BY <1>5, <2>1, SoloTells
<1>6. ASSUME NEW k \in Bevs, StepDials(s, r, l, m, k)
      PROVE  Solo(r, t, u, v, m.called) /\ Lone(r, u) /\ m.called \subseteq Bevs
  <2>1. PICK p, kind : Tells(s, r, u, k, p, kind)
    BY <1>6, CallbackTells DEF StepDials
  <2>2. s.phase[k] # "unused" /\ m.called \subseteq l.called \cup {k}
    BY <1>6 DEF StepDials, HearsResult
  <2> QED BY <1>5, <2>1, <2>2
<1>7. ASSUME NEW k \in Bevs, StepAccepts(s, r, t, u, l, m, k)
      PROVE  Solo(r, t, u, v, m.called) /\ Lone(r, u) /\ m.called \subseteq Bevs
  <2>1. Tells(s, r, u, k, "auth", "newConnection")
    BY <1>7, CallbackTells DEF StepAccepts
  <2>2. s.phase[k] = "unused" /\ k \in t.dialled /\ m.called \subseteq l.called \cup {k}
    BY <1>7 DEF StepAccepts, IsCalled
  <2>3. t.phase[k] = "dialling" => Live(t, k)
    BY DEF Lone, Staged, StageOf, Live
  <2>4. Active(s, t, l.called, k)
    BY <1>7, <2>2, <2>3 DEF StepAccepts, Active
  <2> QED BY <1>5, <2>1, <2>2, <2>4
<1>8. ASSUME NEW k \in Bevs, StepReads(s, r, l, m, k)
      PROVE  Solo(r, t, u, v, m.called) /\ Lone(r, u) /\ m.called \subseteq Bevs
  <2>1. CASE r = s
    BY <1>8, <2>1 DEF StepReads, SameCalls
  <2>2. CASE HearsAuth(s, r, k) \/ HearsPacket(s, r, k)
    <3>1. PICK p, kind : Tells(s, r, u, k, p, kind)
      BY <2>2, CallbackTells
    <3>2. s.phase[k] # "unused" /\ m.called \subseteq l.called \cup {k}
      BY <1>8, <2>2 DEF StepReads, HearsAuth, HearsPacket, SameCalls
    <3> QED BY <1>5, <3>1, <3>2
  <2> QED BY <1>8, <2>1, <2>2 DEF StepReads
<1>9. ASSUME NEW k \in Bevs, StepLoses(s, r, t, l, m, k)
      PROVE  Solo(r, t, u, v, m.called) /\ Lone(r, u) /\ m.called \subseteq Bevs
  <2>1. Tells(s, r, u, k, "off", "quit")
    BY <1>9, CallbackTells DEF StepLoses
  <2>2. s.phase[k] # "unused" /\ m.called \subseteq l.called \cup {k}
    BY <1>9 DEF StepLoses, HearsEnd
  <2> QED BY <1>5, <2>1, <2>2
<1> QED BY <1>1, <1>2, <1>3, <1>4, <1>6, <1>7, <1>8, <1>9 DEF Steps
AliceEntry ==
    /\ aKnown \subseteq {Bob}
    /\ aConnectTo \in [{Bob} -> BOOLEAN] /\ aIsAuthed \in [{Bob} -> BOOLEAN]
    /\ aSock \in [{Bob} -> Bevs \cup {NoBev}] /\ aBw \in [{Bob} -> Wrappers(Bob)]

AliceSound == Typed(AliceNow, Bob) /\ Reached(AliceNow, Bob) /\ AliceEntry

\* What the parts of Alice's process are.
LEMMA AliceFacts ==
    ASSUME AliceSound
    PROVE  /\ aInbox \in Seq(Events(Bob)) /\ aWire \in Seq(Messages(Bob))
           /\ aPhase \in [Bevs -> {"unused", "dialling", "up", "auth", "read", "off"}]
           /\ aDialled \subseteq Bevs /\ aFreed \subseteq Bevs
           /\ aRemote \in [Bevs -> {Bob, NoPeer}]
           /\ aFd \in [Bevs -> {"none", "open", "closed", "reclosed"}]
           /\ aHeld \in [Wrappers(Bob) -> Bevs \cup {NoBev}]
           /\ aBw \in [{Bob} -> Wrappers(Bob)] /\ aExtra \in Seq(Bevs)
           /\ aKnown \subseteq {Bob}
           /\ aConnectTo \in [{Bob} -> BOOLEAN] /\ aIsAuthed \in [{Bob} -> BOOLEAN]
           /\ aSock \in [{Bob} -> Bevs \cup {NoBev}]
BY DEF AliceSound, AliceEntry, Typed, AliceNow

\* What Alice's worker finds in its queue is about Bob.
LEMMA AliceHead ==
    ASSUME AliceSound, aInbox # <<>>
    PROVE  /\ Head(aInbox) \in Events(Bob)
           /\ Head(aInbox).kind \in BevKinds =>
                /\ Head(aInbox).bev \in Bevs /\ aRemote[Head(aInbox).bev] = Bob
           /\ Head(aInbox).kind = "attempt" => Head(aInbox).peer = Bob
           /\ Head(aInbox).kind = "send" => Head(aInbox).wrapper \in Wrappers(Bob)
<1>1. Head(aInbox) \in Events(Bob) /\ Head(aInbox) \in ToSet(aInbox)
  BY AliceFacts, TailSet
<1>2. /\ Head(aInbox).kind \in BevKinds => Head(aInbox).bev \in Bevs
      /\ Head(aInbox).kind = "attempt" => Head(aInbox).peer = Bob
      /\ Head(aInbox).kind = "send" => Head(aInbox).wrapper \in Wrappers(Bob)
  BY <1>1 DEF Events, BevKinds, Kinds
<1>3. ASSUME Head(aInbox).kind \in BevKinds PROVE aRemote[Head(aInbox).bev] = Bob
  BY <1>1, <1>2, <1>3 DEF AliceSound, Reached, Settled, AliceNow
<1> QED BY <1>1, <1>2, <1>3

\* Alice's process, field by field.
LEMMA AliceFields ==
    /\ AliceNow.inbox = aInbox /\ AliceNow'.inbox = aInbox'
    /\ AliceNow.wire = aWire /\ AliceNow'.wire = aWire'
    /\ AliceNow.phase = aPhase /\ AliceNow'.phase = aPhase'
    /\ AliceNow.dialled = aDialled /\ AliceNow'.dialled = aDialled'
    /\ AliceNow.remote = aRemote /\ AliceNow'.remote = aRemote'
    /\ AliceNow.fd = aFd /\ AliceNow'.fd = aFd'
    /\ AliceNow.held = aHeld /\ AliceNow'.held = aHeld'
    /\ AliceNow.bw = aBw[Bob] /\ AliceNow'.bw = aBw'[Bob]
    /\ AliceNow.extra = aExtra /\ AliceNow'.extra = aExtra'
    /\ AliceNow.freed = aFreed /\ AliceNow'.freed = aFreed'
    /\ AliceNow.known = (Bob \in aKnown) /\ AliceNow'.known = (Bob \in aKnown')
    /\ AliceNow.connectTo = aConnectTo[Bob] /\ AliceNow'.connectTo = aConnectTo'[Bob]
    /\ AliceNow.isAuthed = aIsAuthed[Bob] /\ AliceNow'.isAuthed = aIsAuthed'[Bob]
    /\ AliceNow.sock = aSock[Bob] /\ AliceNow'.sock = aSock'[Bob]
BY DEF AliceNow

\* The end of every handler of Alice's.
LEMMA AliceSettles ==
    ASSUME AliceSound, NEW q, NEW ws \in [{Bob} -> Wrappers(Bob)], NEW ex, NEW hs, NEW gone,
           A!Settle(q, ws, ex, hs, gone)
    PROVE  Settles(AliceNow, AliceNow', Bob, q, ws[Bob], ex, hs, gone) /\ aBw' = ws
<1>1. A!Doomed(q, ws, ex, hs) = Lost(Bob, q, ws[Bob], ex, hs)
  BY DEF A!Doomed, A!Referenced, A!Send, A!Wrappers, A!ToSet, ToSet, Lost, SendTo, Wrappers
<1> QED BY <1>1 DEF A!Settle, A!Wrappers, Settles, AliceNow, Wrappers

BobEntry ==
    /\ bKnown \subseteq {Alice}
    /\ bConnectTo \in [{Alice} -> BOOLEAN] /\ bIsAuthed \in [{Alice} -> BOOLEAN]
    /\ bSock \in [{Alice} -> Bevs \cup {NoBev}] /\ bBw \in [{Alice} -> Wrappers(Alice)]

BobSound == Typed(BobNow, Alice) /\ Reached(BobNow, Alice) /\ BobEntry

\* What the parts of Bob's process are.
LEMMA BobFacts ==
    ASSUME BobSound
    PROVE  /\ bInbox \in Seq(Events(Alice)) /\ bWire \in Seq(Messages(Alice))
           /\ bPhase \in [Bevs -> {"unused", "dialling", "up", "auth", "read", "off"}]
           /\ bDialled \subseteq Bevs /\ bFreed \subseteq Bevs
           /\ bRemote \in [Bevs -> {Alice, NoPeer}]
           /\ bFd \in [Bevs -> {"none", "open", "closed", "reclosed"}]
           /\ bHeld \in [Wrappers(Alice) -> Bevs \cup {NoBev}]
           /\ bBw \in [{Alice} -> Wrappers(Alice)] /\ bExtra \in Seq(Bevs)
           /\ bKnown \subseteq {Alice}
           /\ bConnectTo \in [{Alice} -> BOOLEAN] /\ bIsAuthed \in [{Alice} -> BOOLEAN]
           /\ bSock \in [{Alice} -> Bevs \cup {NoBev}]
BY DEF BobSound, BobEntry, Typed, BobNow

\* What Bob's worker finds in its queue is about Alice.
LEMMA BobHead ==
    ASSUME BobSound, bInbox # <<>>
    PROVE  /\ Head(bInbox) \in Events(Alice)
           /\ Head(bInbox).kind \in BevKinds =>
                /\ Head(bInbox).bev \in Bevs /\ bRemote[Head(bInbox).bev] = Alice
           /\ Head(bInbox).kind = "attempt" => Head(bInbox).peer = Alice
           /\ Head(bInbox).kind = "send" => Head(bInbox).wrapper \in Wrappers(Alice)
<1>1. Head(bInbox) \in Events(Alice) /\ Head(bInbox) \in ToSet(bInbox)
  BY BobFacts, TailSet
<1>2. /\ Head(bInbox).kind \in BevKinds => Head(bInbox).bev \in Bevs
      /\ Head(bInbox).kind = "attempt" => Head(bInbox).peer = Alice
      /\ Head(bInbox).kind = "send" => Head(bInbox).wrapper \in Wrappers(Alice)
  BY <1>1 DEF Events, BevKinds, Kinds
<1>3. ASSUME Head(bInbox).kind \in BevKinds PROVE bRemote[Head(bInbox).bev] = Alice
  BY <1>1, <1>2, <1>3 DEF BobSound, Reached, Settled, BobNow
<1> QED BY <1>1, <1>2, <1>3

\* Bob's process, field by field.
LEMMA BobFields ==
    /\ BobNow.inbox = bInbox /\ BobNow'.inbox = bInbox'
    /\ BobNow.wire = bWire /\ BobNow'.wire = bWire'
    /\ BobNow.phase = bPhase /\ BobNow'.phase = bPhase'
    /\ BobNow.dialled = bDialled /\ BobNow'.dialled = bDialled'
    /\ BobNow.remote = bRemote /\ BobNow'.remote = bRemote'
    /\ BobNow.fd = bFd /\ BobNow'.fd = bFd'
    /\ BobNow.held = bHeld /\ BobNow'.held = bHeld'
    /\ BobNow.bw = bBw[Alice] /\ BobNow'.bw = bBw'[Alice]
    /\ BobNow.extra = bExtra /\ BobNow'.extra = bExtra'
    /\ BobNow.freed = bFreed /\ BobNow'.freed = bFreed'
    /\ BobNow.known = (Alice \in bKnown) /\ BobNow'.known = (Alice \in bKnown')
    /\ BobNow.connectTo = bConnectTo[Alice] /\ BobNow'.connectTo = bConnectTo'[Alice]
    /\ BobNow.isAuthed = bIsAuthed[Alice] /\ BobNow'.isAuthed = bIsAuthed'[Alice]
    /\ BobNow.sock = bSock[Alice] /\ BobNow'.sock = bSock'[Alice]
BY DEF BobNow

\* The end of every handler of Bob's.
LEMMA BobSettles ==
    ASSUME BobSound, NEW q, NEW ws \in [{Alice} -> Wrappers(Alice)], NEW ex, NEW hs, NEW gone,
           B!Settle(q, ws, ex, hs, gone)
    PROVE  Settles(BobNow, BobNow', Alice, q, ws[Alice], ex, hs, gone) /\ bBw' = ws
<1>1. B!Doomed(q, ws, ex, hs) = Lost(Alice, q, ws[Alice], ex, hs)
  BY DEF B!Doomed, B!Referenced, B!Send, B!Wrappers, B!ToSet, ToSet, Lost, SendTo, Wrappers
<1> QED BY <1>1 DEF B!Settle, B!Wrappers, Settles, BobNow, Wrappers

\* What Alice's worker takes.
LEMMA AliceTakes ==
    ASSUME NEW kind, A!Handling(kind)
    PROVE  /\ Takes(AliceNow, kind) /\ Left(AliceNow) = A!Rest
           /\ About(AliceNow) = Head(aInbox).bev
           /\ aInbox # <<>> /\ Head(aInbox).kind = kind
BY AliceFields DEF A!Handling, A!Rest, Takes, About, Left

\* newAcceptedConnection, for Alice.
LEMMA AliceTakesCall ==
    ASSUME AliceSound, A!NewAcceptedConnection
    PROVE  Works(AliceNow, AliceNow', Bob) /\ AliceEntry'
<1> DEFINE b == Head(aInbox).bev
<1>1. /\ Settles(AliceNow, AliceNow', Bob, Append(A!Rest, A!Send(b)), aBw[Bob],
                 Append(aExtra, b), [aHeld EXCEPT ![b] = b], {})
      /\ aBw' = aBw
  BY AliceFacts, AliceSettles DEF A!NewAcceptedConnection
<1>2. /\ Takes(AliceNow, "newConnection") /\ About(AliceNow) = b /\ Left(AliceNow) = A!Rest
      /\ UNCHANGED <<aKnown, aConnectTo, aIsAuthed, aSock, aPhase, aFd, aRemote, aDialled, aWire>>
      /\ A!Send(b) = SendTo(b)
  BY AliceTakes DEF A!NewAcceptedConnection, A!netVars, A!Send, SendTo
<1> HIDE DEF b
<1>3. TakesCall(AliceNow, AliceNow', Bob)
  BY <1>1, <1>2, AliceFields DEF TakesCall, SameEntry
<1> QED BY <1>1, <1>2, <1>3, AliceFields, AliceFacts DEF Works, SameNet, AliceEntry

\* authHandler, where Alice's entry has another bufferevent.
LEMMA AliceReplaces ==
    ASSUME AliceSound, A!AuthReplacing
    PROVE  Works(AliceNow, AliceNow', Bob) /\ AliceEntry'
<1> DEFINE b == Head(aInbox).bev
<1>1. /\ Takes(AliceNow, "auth") /\ About(AliceNow) = b /\ b \in Bevs /\ aRemote[b] = Bob
      /\ aHeld[aBw[Bob]] \notin {NoBev, b}
  BY AliceTakes, AliceHead DEF A!AuthReplacing, BevKinds
<1>2. PICK v \in A!Holders(aHeld[aBw[Bob]]) :
        A!Authenticate(Bob, v, b) /\ \E q, hs, gone : A!Settle(q, aBw, aExtra, hs, gone)
  BY <1>1 DEF A!AuthReplacing
<1>3. v = Bob
  BY AliceFacts DEF A!Holders
<1> HIDE DEF b
<1>4. aBw' = aBw
  BY <1>2 DEF A!Settle
<1>5. UNCHANGED <<aPhase, aRemote, aDialled, aWire>> /\ AliceEntry'
  BY <1>1, <1>2, <1>3, <1>4, AliceFacts
     DEF A!Authenticate, A!Redialable, A!Deauthed, A!NoSocket, AliceEntry
<1> QED BY <1>1, <1>5, AliceFields DEF TakesAuth, Works, SameNet

\* authHandler, where it has none, or this one.
LEMMA AliceAdopts ==
    ASSUME AliceSound, A!AuthAdopting
    PROVE  Works(AliceNow, AliceNow', Bob) /\ AliceEntry'
<1> DEFINE b == Head(aInbox).bev
<1>1. /\ Takes(AliceNow, "auth") /\ About(AliceNow) = b /\ b \in Bevs /\ aRemote[b] = Bob
      /\ Left(AliceNow) = A!Rest
      /\ aHeld[aBw[Bob]] \in {NoBev, b} /\ A!Authenticate(Bob, Bob, b) /\ aFd' = aFd
  BY AliceTakes, AliceHead DEF A!AuthAdopting, BevKinds
<1>2. \A w : A!Send(w) = SendTo(w)
  BY DEF A!Send, SendTo
<1>3. Adopts(AliceNow, AliceNow', Bob) /\ aBw' \in [{Bob} -> Wrappers(Bob)]
  <2>1. ASSUME NEW i \in A!Adoptable(b),
               A!Settle(Append(A!Rest, A!Send(aExtra[i])), [aBw EXCEPT ![Bob] = aExtra[i]],
                        A!ExtraWithout(i), aHeld, {})
        PROVE  Adopts(AliceNow, AliceNow', Bob) /\ aBw' \in [{Bob} -> Wrappers(Bob)]
    <3>1. i \in DOMAIN aExtra /\ aHeld[aExtra[i]] = b
      BY <2>1 DEF A!Adoptable
    <3>2. aExtra[i] \in Wrappers(Bob)
      BY <3>1, AliceFacts, ElementOfSeq, LenProperties DEF Wrappers
    <3>3. [aBw EXCEPT ![Bob] = aExtra[i]] \in [{Bob} -> Wrappers(Bob)]
      BY <3>2, AliceFacts
    <3>4. [aBw EXCEPT ![Bob] = aExtra[i]][Bob] = aExtra[i]
      BY AliceFacts
    <3>5. A!ExtraWithout(i) = RemoveAt(aExtra, i)
      BY DEF A!ExtraWithout, A!RemoveAt, RemoveAt
    <3>6. /\ Settles(AliceNow, AliceNow', Bob, Append(A!Rest, A!Send(aExtra[i])), aExtra[i],
                     A!ExtraWithout(i), aHeld, {})
          /\ aBw' \in [{Bob} -> Wrappers(Bob)]
      BY <2>1, <3>3, <3>4, AliceSettles
    <3> HIDE DEF b
    <3> QED BY <1>1, <1>2, <3>1, <3>5, <3>6, AliceFields DEF Adopts
  <2>2. ASSUME A!Adoptable(b) = {},
               A!Settle(Append(A!Rest, A!Send(aBw[Bob])), aBw, aExtra,
                        [aHeld EXCEPT ![aBw[Bob]] = b], {})
        PROVE  Adopts(AliceNow, AliceNow', Bob) /\ aBw' \in [{Bob} -> Wrappers(Bob)]
    <3>1. /\ Settles(AliceNow, AliceNow', Bob, Append(A!Rest, A!Send(aBw[Bob])), aBw[Bob],
                     aExtra, [aHeld EXCEPT ![aBw[Bob]] = b], {})
          /\ aBw' = aBw
      BY <2>2, AliceFacts, AliceSettles
    <3>2. \A i \in DOMAIN aExtra : aHeld[aExtra[i]] # b
      BY <2>2 DEF A!Adoptable
    <3> HIDE DEF b
    <3> QED BY <1>1, <1>2, <3>1, <3>2, AliceFields, AliceFacts DEF Adopts
  <2> QED BY <1>1, <2>1, <2>2 DEF A!AuthAdopting
<1> HIDE DEF b
<1>4. /\ UNCHANGED <<aPhase, aRemote, aDialled, aWire>> /\ AliceEntry'
      /\ (Bob \in aKnown') = TRUE /\ aConnectTo'[Bob] = TRUE /\ aIsAuthed'[Bob] = TRUE
      /\ aSock'[Bob] = b
  BY <1>1, <1>3, AliceFacts
     DEF A!Authenticate, A!Redialable, A!Deauthed, A!NoSocket, AliceEntry
<1>5. TakesAuth(AliceNow, AliceNow', Bob)
  BY <1>1, <1>3, <1>4, AliceFields DEF TakesAuth
<1> QED BY <1>4, <1>5, AliceFields DEF Works, SameNet

\* peerQuit, for Alice.
LEMMA AliceTakesQuit ==
    ASSUME AliceSound, A!PeerQuit
    PROVE  Works(AliceNow, AliceNow', Bob) /\ AliceEntry'
<1> DEFINE b == Head(aInbox).bev
<1>1. /\ Takes(AliceNow, "quit") /\ About(AliceNow) = b /\ b \in Bevs /\ Left(AliceNow) = A!Rest
      /\ UNCHANGED <<aKnown, aPhase, aRemote, aDialled, aWire>>
  BY AliceTakes, AliceHead DEF A!PeerQuit, BevKinds
<1>2. \A k : A!Closed(k) = ClosedAt(aFd, k)
  BY DEF A!Closed, ClosedAt
<1>3. ASSUME NEW v \in A!Holders(b),
             aConnectTo' = A!Redialable(aConnectTo, v), aIsAuthed' = A!Deauthed(aIsAuthed, v),
             aSock' = A!NoSocket(aSock, v), aFd' = A!Closed(aSock[v]),
             A!Settle(A!Rest, aBw, aExtra, A!Emptied(aHeld, aBw[v]), {b})
      PROVE  LetsGo(AliceNow, AliceNow', Bob) /\ AliceEntry'
  <2>1. v = Bob /\ Bob \in aKnown /\ aHeld[aBw[Bob]] = b
    BY AliceFacts DEF A!Holders
  <2>2. /\ Settles(AliceNow, AliceNow', Bob, A!Rest, aBw[Bob], aExtra,
                   [aHeld EXCEPT ![aBw[Bob]] = NoBev], {b})
        /\ aBw' = aBw
    BY <1>3, <2>1, AliceFacts, AliceSettles DEF A!Emptied
  <2>3. /\ aConnectTo'[Bob] = FALSE /\ aIsAuthed'[Bob] = FALSE /\ aSock'[Bob] = NoBev
        /\ AliceEntry' /\ aFd' = ClosedAt(aFd, aSock[Bob])
    BY <1>1, <1>2, <1>3, <2>1, <2>2, AliceFacts
       DEF A!Redialable, A!Deauthed, A!NoSocket, AliceEntry
  <2> HIDE DEF b
  <2> QED BY <1>1, <2>1, <2>2, <2>3, AliceFields DEF LetsGo
<1>4. ASSUME A!Holders(b) = {}, aFd' = A!Closed(b),
             A!Settle(A!Rest, aBw, A!EveryOther(aExtra), aHeld, {}),
             UNCHANGED <<aConnectTo, aIsAuthed, aSock>>
      PROVE  GivesUp(AliceNow, AliceNow', Bob) /\ AliceEntry'
  <2>1. ~(Bob \in aKnown /\ aHeld[aBw[Bob]] = b)
    BY <1>4 DEF A!Holders
  <2>2. A!EveryOther(aExtra) = HalfOf(aExtra)
    BY DEF A!EveryOther, HalfOf
  <2>3. /\ Settles(AliceNow, AliceNow', Bob, A!Rest, aBw[Bob], HalfOf(aExtra), aHeld, {})
        /\ aBw' = aBw
    BY <1>4, <2>2, AliceFacts, AliceSettles
  <2> HIDE DEF b
  <2>4. AliceEntry' /\ SameEntry(AliceNow, AliceNow')
    BY <1>1, <1>4, <2>3, AliceFacts, AliceFields DEF AliceEntry, SameEntry
  <2> QED BY <1>1, <1>2, <1>4, <2>1, <2>3, <2>4, AliceFields DEF GivesUp
<1> QED BY <1>1, <1>3, <1>4, AliceFields DEF A!PeerQuit, TakesQuit, Works, SameNet

\* attemptConnection, for Alice.
LEMMA AliceTakesAttempt ==
    ASSUME AliceSound, A!AttemptConnection
    PROVE  Works(AliceNow, AliceNow', Bob) /\ AliceEntry'
<1>1. /\ Takes(AliceNow, "attempt") /\ Left(AliceNow) = A!Rest /\ Head(aInbox).peer = Bob
      /\ UNCHANGED <<aIsAuthed, aSock, aPhase, aFd, aRemote, aDialled>>
  BY AliceTakes, AliceHead DEF A!AttemptConnection, A!netVars
<1>2. /\ Settles(AliceNow, AliceNow', Bob, A!Rest, aBw[Bob], aExtra, aHeld, {})
      /\ aBw' = aBw
  BY AliceFacts, AliceSettles DEF A!AttemptConnection
<1>3. IF aConnectTo[Bob] = TRUE
      THEN UNCHANGED <<aKnown, aConnectTo, aWire>>
      ELSE /\ aKnown' = aKnown \cup {Bob} /\ aConnectTo' = [aConnectTo EXCEPT ![Bob] = TRUE]
           /\ aWire' = Append(aWire, Dial(Bob))
  BY <1>1, AliceFacts DEF A!AttemptConnection, A!MayDial, Dial
<1>4. /\ AliceEntry'
      /\ aConnectTo[Bob] # TRUE => aConnectTo'[Bob] = TRUE /\ (Bob \in aKnown') = TRUE
  BY <1>1, <1>2, <1>3, AliceFacts DEF AliceEntry
<1>5. TakesAttempt(AliceNow, AliceNow', Bob)
  BY <1>1, <1>2, <1>3, <1>4, AliceFields DEF TakesAttempt
<1> QED BY <1>1, <1>4, <1>5, AliceFields DEF Works, SameNet

\* resultOfConnectionAttempt, for Alice, of a dial that succeeded.
LEMMA AliceTakesConnected ==
    ASSUME AliceSound, A!ConnectionSucceeded
    PROVE  Works(AliceNow, AliceNow', Bob) /\ AliceEntry'
<1> DEFINE b == Head(aInbox).bev
<1>1. /\ Takes(AliceNow, "connected") /\ Left(AliceNow) = A!Rest /\ About(AliceNow) = b
      /\ b \in Bevs /\ aRemote[b] = Bob
      /\ UNCHANGED <<aKnown, aConnectTo, aIsAuthed, aSock, aPhase, aFd, aRemote, aDialled>>
  BY AliceTakes, AliceHead DEF A!ConnectionSucceeded, A!netVars, BevKinds
<1>2. /\ aWire' = Append(aWire, Enable(b))
      /\ A!Settle(Append(A!Rest, A!Send(aBw[Bob])), aBw, aExtra, [aHeld EXCEPT ![aBw[Bob]] = b],
                  {aHeld[aBw[Bob]]} \ {NoBev, b})
  BY <1>1 DEF A!ConnectionSucceeded, Enable
<1>3. /\ Settles(AliceNow, AliceNow', Bob, Append(A!Rest, A!Send(aBw[Bob])), aBw[Bob],
                 aExtra, [aHeld EXCEPT ![aBw[Bob]] = b], {aHeld[aBw[Bob]]} \ {NoBev, b})
      /\ aBw' = aBw
  BY <1>2, AliceFacts, AliceSettles
<1>4. A!Send(aBw[Bob]) = SendTo(aBw[Bob])
  BY DEF A!Send, SendTo
<1> HIDE DEF b
<1>5. TakesConnected(AliceNow, AliceNow', Bob)
  BY <1>1, <1>2, <1>3, <1>4, AliceFields DEF TakesConnected, SameEntry
<1> QED BY <1>1, <1>3, <1>5, AliceFields, AliceFacts DEF Works, SameNet, AliceEntry

\* And of one that failed.
LEMMA AliceTakesRefused ==
    ASSUME AliceSound, A!ConnectionFailed
    PROVE  Works(AliceNow, AliceNow', Bob) /\ AliceEntry'
<1> DEFINE b == Head(aInbox).bev
<1>1. /\ Takes(AliceNow, "refused") /\ Left(AliceNow) = A!Rest /\ About(AliceNow) = b
      /\ b \in Bevs /\ aRemote[b] = Bob
      /\ UNCHANGED <<aKnown, aPhase, aRemote, aDialled, aWire>>
  BY AliceTakes, AliceHead DEF A!ConnectionFailed, BevKinds
<1>2. /\ aConnectTo' = [aConnectTo EXCEPT ![Bob] = FALSE]
      /\ aIsAuthed' = [aIsAuthed EXCEPT ![Bob] = FALSE]
      /\ aSock' = [aSock EXCEPT ![Bob] = NoBev]
      /\ aFd' = ClosedAt(aFd, b)
      /\ A!Settle(A!Rest, aBw, aExtra, [aHeld EXCEPT ![aBw[Bob]] = NoBev], {b})
  BY <1>1 DEF A!ConnectionFailed, A!Redialable, A!Deauthed, A!NoSocket, A!Emptied,
              A!Closed, ClosedAt
<1>3. /\ Settles(AliceNow, AliceNow', Bob, A!Rest, aBw[Bob], aExtra,
                 [aHeld EXCEPT ![aBw[Bob]] = NoBev], {b})
      /\ aBw' = aBw
  BY <1>2, AliceFacts, AliceSettles
<1> HIDE DEF b
<1>4. /\ aConnectTo'[Bob] = FALSE /\ aIsAuthed'[Bob] = FALSE /\ aSock'[Bob] = NoBev
      /\ AliceEntry'
  BY <1>1, <1>2, <1>3, AliceFacts DEF AliceEntry
<1>5. TakesRefused(AliceNow, AliceNow', Bob)
  BY <1>1, <1>2, <1>3, <1>4, AliceFields DEF TakesRefused
<1> QED BY <1>1, <1>4, <1>5, AliceFields DEF Works, SameNet

\* sendMsg, for Alice.
LEMMA AliceTakesSend ==
    ASSUME AliceSound, A!SendMsg
    PROVE  Works(AliceNow, AliceNow', Bob) /\ AliceEntry'
<1>1. /\ Takes(AliceNow, "send") /\ Left(AliceNow) = A!Rest
      /\ UNCHANGED <<aKnown, aConnectTo, aIsAuthed, aSock, aPhase, aFd, aRemote, aDialled, aWire>>
  BY AliceTakes DEF A!SendMsg, A!netVars
<1>2. /\ aBw' = aBw
      /\ \/ /\ aHeld[Head(aInbox).wrapper] \in aFreed /\ aInbox' = A!Rest
            /\ UNCHANGED <<aExtra, aHeld, aFreed>>
         \/ Settles(AliceNow, AliceNow', Bob, A!Rest, aBw[Bob], aExtra, aHeld, {})
  BY AliceFacts, AliceSettles DEF A!SendMsg
<1>3. TakesSend(AliceNow, AliceNow', Bob)
  BY <1>1, <1>2, AliceFields DEF TakesSend, SameEntry, SameOwner
<1> QED BY <1>1, <1>2, <1>3, AliceFields, AliceFacts DEF Works, SameNet, AliceEntry

\* The handlers of packets, for Alice.
LEMMA AliceTakesPacket ==
    ASSUME AliceSound, A!MsgHandler \/ A!NameHandler \/ A!SyncRequestHandler
    PROVE  Works(AliceNow, AliceNow', Bob) /\ AliceEntry'
<1>1. PICK kind \in {"text", "name", "syncRequest"} : A!Handling(kind)
  BY DEF A!MsgHandler, A!NameHandler, A!SyncRequestHandler
<1>2. /\ Takes(AliceNow, kind) /\ Left(AliceNow) = A!Rest
      /\ aInbox # <<>> /\ Head(aInbox).kind = kind
  BY <1>1, AliceTakes
<1>3. Head(aInbox) \in Events(Bob) /\ kind \in Kinds
  BY <1>2, AliceHead DEF Events, BevKinds, Kinds
<1>4. aRemote[Head(aInbox).bev] = Bob
  BY <1>2, <1>3, AliceHead DEF BevKinds
<1>5. /\ UNCHANGED <<aKnown, aConnectTo, aIsAuthed, aSock, aPhase, aFd, aRemote, aDialled, aWire>>
      /\ \E q \in {A!Rest, Append(A!Rest, A!Send(aBw[Bob]))} :
            /\ q = A!Rest \/ A!Handling("syncRequest")
            /\ A!Settle(q, aBw, aExtra, aHeld, {})
  BY <1>4 DEF A!MsgHandler, A!NameHandler, A!SyncRequestHandler, A!netVars
<1>6. PICK q \in {A!Rest, Append(A!Rest, SendTo(aBw[Bob]))} :
        /\ q = A!Rest \/ Takes(AliceNow, "syncRequest")
        /\ Settles(AliceNow, AliceNow', Bob, q, aBw[Bob], aExtra, aHeld, {})
        /\ aBw' = aBw
  BY <1>5, AliceFacts, AliceSettles, AliceTakes DEF A!Send, SendTo
<1>7. TakesPacket(AliceNow, AliceNow', Bob)
  BY <1>2, <1>3, <1>5, <1>6, AliceFields DEF TakesPacket, SameEntry
<1> QED BY <1>5, <1>6, <1>7, AliceFields, AliceFacts DEF Works, SameNet, AliceEntry

\* Alice's worker does what is said above of any worker.
LEMMA AliceWorksAsSaid ==
    ASSUME AliceSound, A!Worker
    PROVE  Works(AliceNow, AliceNow', Bob) /\ AliceEntry'
BY AliceTakesCall, AliceReplaces, AliceAdopts, AliceTakesQuit, AliceTakesAttempt,
   AliceTakesConnected, AliceTakesRefused, AliceTakesSend, AliceTakesPacket
   DEF A!Worker, A!AuthHandler, A!ResultOfConnectionAttempt

\* What Bob's worker takes.
LEMMA BobTakes ==
    ASSUME NEW kind, B!Handling(kind)
    PROVE  /\ Takes(BobNow, kind) /\ Left(BobNow) = B!Rest
           /\ About(BobNow) = Head(bInbox).bev
           /\ bInbox # <<>> /\ Head(bInbox).kind = kind
BY BobFields DEF B!Handling, B!Rest, Takes, About, Left

\* newAcceptedConnection, for Bob.
LEMMA BobTakesCall ==
    ASSUME BobSound, B!NewAcceptedConnection
    PROVE  Works(BobNow, BobNow', Alice) /\ BobEntry'
<1> DEFINE b == Head(bInbox).bev
<1>1. /\ Settles(BobNow, BobNow', Alice, Append(B!Rest, B!Send(b)), bBw[Alice],
                 Append(bExtra, b), [bHeld EXCEPT ![b] = b], {})
      /\ bBw' = bBw
  BY BobFacts, BobSettles DEF B!NewAcceptedConnection
<1>2. /\ Takes(BobNow, "newConnection") /\ About(BobNow) = b /\ Left(BobNow) = B!Rest
      /\ UNCHANGED <<bKnown, bConnectTo, bIsAuthed, bSock, bPhase, bFd, bRemote, bDialled, bWire>>
      /\ B!Send(b) = SendTo(b)
  BY BobTakes DEF B!NewAcceptedConnection, B!netVars, B!Send, SendTo
<1> HIDE DEF b
<1>3. TakesCall(BobNow, BobNow', Alice)
  BY <1>1, <1>2, BobFields DEF TakesCall, SameEntry
<1> QED BY <1>1, <1>2, <1>3, BobFields, BobFacts DEF Works, SameNet, BobEntry

\* authHandler, where Bob's entry has another bufferevent.
LEMMA BobReplaces ==
    ASSUME BobSound, B!AuthReplacing
    PROVE  Works(BobNow, BobNow', Alice) /\ BobEntry'
<1> DEFINE b == Head(bInbox).bev
<1>1. /\ Takes(BobNow, "auth") /\ About(BobNow) = b /\ b \in Bevs /\ bRemote[b] = Alice
      /\ bHeld[bBw[Alice]] \notin {NoBev, b}
  BY BobTakes, BobHead DEF B!AuthReplacing, BevKinds
<1>2. PICK v \in B!Holders(bHeld[bBw[Alice]]) :
        B!Authenticate(Alice, v, b) /\ \E q, hs, gone : B!Settle(q, bBw, bExtra, hs, gone)
  BY <1>1 DEF B!AuthReplacing
<1>3. v = Alice
  BY BobFacts DEF B!Holders
<1> HIDE DEF b
<1>4. bBw' = bBw
  BY <1>2 DEF B!Settle
<1>5. UNCHANGED <<bPhase, bRemote, bDialled, bWire>> /\ BobEntry'
  BY <1>1, <1>2, <1>3, <1>4, BobFacts
     DEF B!Authenticate, B!Redialable, B!Deauthed, B!NoSocket, BobEntry
<1> QED BY <1>1, <1>5, BobFields DEF TakesAuth, Works, SameNet

\* authHandler, where it has none, or this one.
LEMMA BobAdopts ==
    ASSUME BobSound, B!AuthAdopting
    PROVE  Works(BobNow, BobNow', Alice) /\ BobEntry'
<1> DEFINE b == Head(bInbox).bev
<1>1. /\ Takes(BobNow, "auth") /\ About(BobNow) = b /\ b \in Bevs /\ bRemote[b] = Alice
      /\ Left(BobNow) = B!Rest
      /\ bHeld[bBw[Alice]] \in {NoBev, b} /\ B!Authenticate(Alice, Alice, b) /\ bFd' = bFd
  BY BobTakes, BobHead DEF B!AuthAdopting, BevKinds
<1>2. \A w : B!Send(w) = SendTo(w)
  BY DEF B!Send, SendTo
<1>3. Adopts(BobNow, BobNow', Alice) /\ bBw' \in [{Alice} -> Wrappers(Alice)]
  <2>1. ASSUME NEW i \in B!Adoptable(b),
               B!Settle(Append(B!Rest, B!Send(bExtra[i])), [bBw EXCEPT ![Alice] = bExtra[i]],
                        B!ExtraWithout(i), bHeld, {})
        PROVE  Adopts(BobNow, BobNow', Alice) /\ bBw' \in [{Alice} -> Wrappers(Alice)]
    <3>1. i \in DOMAIN bExtra /\ bHeld[bExtra[i]] = b
      BY <2>1 DEF B!Adoptable
    <3>2. bExtra[i] \in Wrappers(Alice)
      BY <3>1, BobFacts, ElementOfSeq, LenProperties DEF Wrappers
    <3>3. [bBw EXCEPT ![Alice] = bExtra[i]] \in [{Alice} -> Wrappers(Alice)]
      BY <3>2, BobFacts
    <3>4. [bBw EXCEPT ![Alice] = bExtra[i]][Alice] = bExtra[i]
      BY BobFacts
    <3>5. B!ExtraWithout(i) = RemoveAt(bExtra, i)
      BY DEF B!ExtraWithout, B!RemoveAt, RemoveAt
    <3>6. /\ Settles(BobNow, BobNow', Alice, Append(B!Rest, B!Send(bExtra[i])), bExtra[i],
                     B!ExtraWithout(i), bHeld, {})
          /\ bBw' \in [{Alice} -> Wrappers(Alice)]
      BY <2>1, <3>3, <3>4, BobSettles
    <3> HIDE DEF b
    <3> QED BY <1>1, <1>2, <3>1, <3>5, <3>6, BobFields DEF Adopts
  <2>2. ASSUME B!Adoptable(b) = {},
               B!Settle(Append(B!Rest, B!Send(bBw[Alice])), bBw, bExtra,
                        [bHeld EXCEPT ![bBw[Alice]] = b], {})
        PROVE  Adopts(BobNow, BobNow', Alice) /\ bBw' \in [{Alice} -> Wrappers(Alice)]
    <3>1. /\ Settles(BobNow, BobNow', Alice, Append(B!Rest, B!Send(bBw[Alice])), bBw[Alice],
                     bExtra, [bHeld EXCEPT ![bBw[Alice]] = b], {})
          /\ bBw' = bBw
      BY <2>2, BobFacts, BobSettles
    <3>2. \A i \in DOMAIN bExtra : bHeld[bExtra[i]] # b
      BY <2>2 DEF B!Adoptable
    <3> HIDE DEF b
    <3> QED BY <1>1, <1>2, <3>1, <3>2, BobFields, BobFacts DEF Adopts
  <2> QED BY <1>1, <2>1, <2>2 DEF B!AuthAdopting
<1> HIDE DEF b
<1>4. /\ UNCHANGED <<bPhase, bRemote, bDialled, bWire>> /\ BobEntry'
      /\ (Alice \in bKnown') = TRUE /\ bConnectTo'[Alice] = TRUE /\ bIsAuthed'[Alice] = TRUE
      /\ bSock'[Alice] = b
  BY <1>1, <1>3, BobFacts
     DEF B!Authenticate, B!Redialable, B!Deauthed, B!NoSocket, BobEntry
<1>5. TakesAuth(BobNow, BobNow', Alice)
  BY <1>1, <1>3, <1>4, BobFields DEF TakesAuth
<1> QED BY <1>4, <1>5, BobFields DEF Works, SameNet

\* peerQuit, for Bob.
LEMMA BobTakesQuit ==
    ASSUME BobSound, B!PeerQuit
    PROVE  Works(BobNow, BobNow', Alice) /\ BobEntry'
<1> DEFINE b == Head(bInbox).bev
<1>1. /\ Takes(BobNow, "quit") /\ About(BobNow) = b /\ b \in Bevs /\ Left(BobNow) = B!Rest
      /\ UNCHANGED <<bKnown, bPhase, bRemote, bDialled, bWire>>
  BY BobTakes, BobHead DEF B!PeerQuit, BevKinds
<1>2. \A k : B!Closed(k) = ClosedAt(bFd, k)
  BY DEF B!Closed, ClosedAt
<1>3. ASSUME NEW v \in B!Holders(b),
             bConnectTo' = B!Redialable(bConnectTo, v), bIsAuthed' = B!Deauthed(bIsAuthed, v),
             bSock' = B!NoSocket(bSock, v), bFd' = B!Closed(bSock[v]),
             B!Settle(B!Rest, bBw, bExtra, B!Emptied(bHeld, bBw[v]), {b})
      PROVE  LetsGo(BobNow, BobNow', Alice) /\ BobEntry'
  <2>1. v = Alice /\ Alice \in bKnown /\ bHeld[bBw[Alice]] = b
    BY BobFacts DEF B!Holders
  <2>2. /\ Settles(BobNow, BobNow', Alice, B!Rest, bBw[Alice], bExtra,
                   [bHeld EXCEPT ![bBw[Alice]] = NoBev], {b})
        /\ bBw' = bBw
    BY <1>3, <2>1, BobFacts, BobSettles DEF B!Emptied
  <2>3. /\ bConnectTo'[Alice] = FALSE /\ bIsAuthed'[Alice] = FALSE /\ bSock'[Alice] = NoBev
        /\ BobEntry' /\ bFd' = ClosedAt(bFd, bSock[Alice])
    BY <1>1, <1>2, <1>3, <2>1, <2>2, BobFacts
       DEF B!Redialable, B!Deauthed, B!NoSocket, BobEntry
  <2> HIDE DEF b
  <2> QED BY <1>1, <2>1, <2>2, <2>3, BobFields DEF LetsGo
<1>4. ASSUME B!Holders(b) = {}, bFd' = B!Closed(b),
             B!Settle(B!Rest, bBw, B!EveryOther(bExtra), bHeld, {}),
             UNCHANGED <<bConnectTo, bIsAuthed, bSock>>
      PROVE  GivesUp(BobNow, BobNow', Alice) /\ BobEntry'
  <2>1. ~(Alice \in bKnown /\ bHeld[bBw[Alice]] = b)
    BY <1>4 DEF B!Holders
  <2>2. B!EveryOther(bExtra) = HalfOf(bExtra)
    BY DEF B!EveryOther, HalfOf
  <2>3. /\ Settles(BobNow, BobNow', Alice, B!Rest, bBw[Alice], HalfOf(bExtra), bHeld, {})
        /\ bBw' = bBw
    BY <1>4, <2>2, BobFacts, BobSettles
  <2> HIDE DEF b
  <2>4. BobEntry' /\ SameEntry(BobNow, BobNow')
    BY <1>1, <1>4, <2>3, BobFacts, BobFields DEF BobEntry, SameEntry
  <2> QED BY <1>1, <1>2, <1>4, <2>1, <2>3, <2>4, BobFields DEF GivesUp
<1> QED BY <1>1, <1>3, <1>4, BobFields DEF B!PeerQuit, TakesQuit, Works, SameNet

\* attemptConnection, for Bob.
LEMMA BobTakesAttempt ==
    ASSUME BobSound, B!AttemptConnection
    PROVE  Works(BobNow, BobNow', Alice) /\ BobEntry'
<1>1. /\ Takes(BobNow, "attempt") /\ Left(BobNow) = B!Rest /\ Head(bInbox).peer = Alice
      /\ UNCHANGED <<bIsAuthed, bSock, bPhase, bFd, bRemote, bDialled>>
  BY BobTakes, BobHead DEF B!AttemptConnection, B!netVars
<1>2. /\ Settles(BobNow, BobNow', Alice, B!Rest, bBw[Alice], bExtra, bHeld, {})
      /\ bBw' = bBw
  BY BobFacts, BobSettles DEF B!AttemptConnection
<1>3. IF bConnectTo[Alice] = TRUE
      THEN UNCHANGED <<bKnown, bConnectTo, bWire>>
      ELSE /\ bKnown' = bKnown \cup {Alice} /\ bConnectTo' = [bConnectTo EXCEPT ![Alice] = TRUE]
           /\ bWire' = Append(bWire, Dial(Alice))
  BY <1>1, BobFacts DEF B!AttemptConnection, B!MayDial, Dial
<1>4. /\ BobEntry'
      /\ bConnectTo[Alice] # TRUE => bConnectTo'[Alice] = TRUE /\ (Alice \in bKnown') = TRUE
  BY <1>1, <1>2, <1>3, BobFacts DEF BobEntry
<1>5. TakesAttempt(BobNow, BobNow', Alice)
  BY <1>1, <1>2, <1>3, <1>4, BobFields DEF TakesAttempt
<1> QED BY <1>1, <1>4, <1>5, BobFields DEF Works, SameNet

\* resultOfConnectionAttempt, for Bob, of a dial that succeeded.
LEMMA BobTakesConnected ==
    ASSUME BobSound, B!ConnectionSucceeded
    PROVE  Works(BobNow, BobNow', Alice) /\ BobEntry'
<1> DEFINE b == Head(bInbox).bev
<1>1. /\ Takes(BobNow, "connected") /\ Left(BobNow) = B!Rest /\ About(BobNow) = b
      /\ b \in Bevs /\ bRemote[b] = Alice
      /\ UNCHANGED <<bKnown, bConnectTo, bIsAuthed, bSock, bPhase, bFd, bRemote, bDialled>>
  BY BobTakes, BobHead DEF B!ConnectionSucceeded, B!netVars, BevKinds
<1>2. /\ bWire' = Append(bWire, Enable(b))
      /\ B!Settle(Append(B!Rest, B!Send(bBw[Alice])), bBw, bExtra, [bHeld EXCEPT ![bBw[Alice]] = b],
                  {bHeld[bBw[Alice]]} \ {NoBev, b})
  BY <1>1 DEF B!ConnectionSucceeded, Enable
<1>3. /\ Settles(BobNow, BobNow', Alice, Append(B!Rest, B!Send(bBw[Alice])), bBw[Alice],
                 bExtra, [bHeld EXCEPT ![bBw[Alice]] = b], {bHeld[bBw[Alice]]} \ {NoBev, b})
      /\ bBw' = bBw
  BY <1>2, BobFacts, BobSettles
<1>4. B!Send(bBw[Alice]) = SendTo(bBw[Alice])
  BY DEF B!Send, SendTo
<1> HIDE DEF b
<1>5. TakesConnected(BobNow, BobNow', Alice)
  BY <1>1, <1>2, <1>3, <1>4, BobFields DEF TakesConnected, SameEntry
<1> QED BY <1>1, <1>3, <1>5, BobFields, BobFacts DEF Works, SameNet, BobEntry

\* And of one that failed.
LEMMA BobTakesRefused ==
    ASSUME BobSound, B!ConnectionFailed
    PROVE  Works(BobNow, BobNow', Alice) /\ BobEntry'
<1> DEFINE b == Head(bInbox).bev
<1>1. /\ Takes(BobNow, "refused") /\ Left(BobNow) = B!Rest /\ About(BobNow) = b
      /\ b \in Bevs /\ bRemote[b] = Alice
      /\ UNCHANGED <<bKnown, bPhase, bRemote, bDialled, bWire>>
  BY BobTakes, BobHead DEF B!ConnectionFailed, BevKinds
<1>2. /\ bConnectTo' = [bConnectTo EXCEPT ![Alice] = FALSE]
      /\ bIsAuthed' = [bIsAuthed EXCEPT ![Alice] = FALSE]
      /\ bSock' = [bSock EXCEPT ![Alice] = NoBev]
      /\ bFd' = ClosedAt(bFd, b)
      /\ B!Settle(B!Rest, bBw, bExtra, [bHeld EXCEPT ![bBw[Alice]] = NoBev], {b})
  BY <1>1 DEF B!ConnectionFailed, B!Redialable, B!Deauthed, B!NoSocket, B!Emptied,
              B!Closed, ClosedAt
<1>3. /\ Settles(BobNow, BobNow', Alice, B!Rest, bBw[Alice], bExtra,
                 [bHeld EXCEPT ![bBw[Alice]] = NoBev], {b})
      /\ bBw' = bBw
  BY <1>2, BobFacts, BobSettles
<1> HIDE DEF b
<1>4. /\ bConnectTo'[Alice] = FALSE /\ bIsAuthed'[Alice] = FALSE /\ bSock'[Alice] = NoBev
      /\ BobEntry'
  BY <1>1, <1>2, <1>3, BobFacts DEF BobEntry
<1>5. TakesRefused(BobNow, BobNow', Alice)
  BY <1>1, <1>2, <1>3, <1>4, BobFields DEF TakesRefused
<1> QED BY <1>1, <1>4, <1>5, BobFields DEF Works, SameNet

\* sendMsg, for Bob.
LEMMA BobTakesSend ==
    ASSUME BobSound, B!SendMsg
    PROVE  Works(BobNow, BobNow', Alice) /\ BobEntry'
<1>1. /\ Takes(BobNow, "send") /\ Left(BobNow) = B!Rest
      /\ UNCHANGED <<bKnown, bConnectTo, bIsAuthed, bSock, bPhase, bFd, bRemote, bDialled, bWire>>
  BY BobTakes DEF B!SendMsg, B!netVars
<1>2. /\ bBw' = bBw
      /\ \/ /\ bHeld[Head(bInbox).wrapper] \in bFreed /\ bInbox' = B!Rest
            /\ UNCHANGED <<bExtra, bHeld, bFreed>>
         \/ Settles(BobNow, BobNow', Alice, B!Rest, bBw[Alice], bExtra, bHeld, {})
  BY BobFacts, BobSettles DEF B!SendMsg
<1>3. TakesSend(BobNow, BobNow', Alice)
  BY <1>1, <1>2, BobFields DEF TakesSend, SameEntry, SameOwner
<1> QED BY <1>1, <1>2, <1>3, BobFields, BobFacts DEF Works, SameNet, BobEntry

\* The handlers of packets, for Bob.
LEMMA BobTakesPacket ==
    ASSUME BobSound, B!MsgHandler \/ B!NameHandler \/ B!SyncRequestHandler
    PROVE  Works(BobNow, BobNow', Alice) /\ BobEntry'
<1>1. PICK kind \in {"text", "name", "syncRequest"} : B!Handling(kind)
  BY DEF B!MsgHandler, B!NameHandler, B!SyncRequestHandler
<1>2. /\ Takes(BobNow, kind) /\ Left(BobNow) = B!Rest
      /\ bInbox # <<>> /\ Head(bInbox).kind = kind
  BY <1>1, BobTakes
<1>3. Head(bInbox) \in Events(Alice) /\ kind \in Kinds
  BY <1>2, BobHead DEF Events, BevKinds, Kinds
<1>4. bRemote[Head(bInbox).bev] = Alice
  BY <1>2, <1>3, BobHead DEF BevKinds
<1>5. /\ UNCHANGED <<bKnown, bConnectTo, bIsAuthed, bSock, bPhase, bFd, bRemote, bDialled, bWire>>
      /\ \E q \in {B!Rest, Append(B!Rest, B!Send(bBw[Alice]))} :
            /\ q = B!Rest \/ B!Handling("syncRequest")
            /\ B!Settle(q, bBw, bExtra, bHeld, {})
  BY <1>4 DEF B!MsgHandler, B!NameHandler, B!SyncRequestHandler, B!netVars
<1>6. PICK q \in {B!Rest, Append(B!Rest, SendTo(bBw[Alice]))} :
        /\ q = B!Rest \/ Takes(BobNow, "syncRequest")
        /\ Settles(BobNow, BobNow', Alice, q, bBw[Alice], bExtra, bHeld, {})
        /\ bBw' = bBw
  BY <1>5, BobFacts, BobSettles, BobTakes DEF B!Send, SendTo
<1>7. TakesPacket(BobNow, BobNow', Alice)
  BY <1>2, <1>3, <1>5, <1>6, BobFields DEF TakesPacket, SameEntry
<1> QED BY <1>5, <1>6, <1>7, BobFields, BobFacts DEF Works, SameNet, BobEntry

\* Bob's worker does what is said above of any worker.
LEMMA BobWorksAsSaid ==
    ASSUME BobSound, B!Worker
    PROVE  Works(BobNow, BobNow', Alice) /\ BobEntry'
BY BobTakesCall, BobReplaces, BobAdopts, BobTakesQuit, BobTakesAttempt,
   BobTakesConnected, BobTakesRefused, BobTakesSend, BobTakesPacket
   DEF B!Worker, B!AuthHandler, B!ResultOfConnectionAttempt

\* The callbacks of Alice's server thread.
LEMMA AliceCallsBack ==
    ASSUME AliceSound, NEW k, NEW p, NEW kind, A!Callback(k, p, kind)
    PROVE  CallsBack(AliceNow, AliceNow', k, p, kind) /\ AliceEntry'
BY AliceFields DEF A!Callback, A!BevEvent, A!tableVars, CallsBack, Signal, SameEntry, SameOwner,
   AliceEntry, AliceSound

\* Alice's server thread does what is said above of any, and so does what she is given.
LEMMA AliceServesAsSaid ==
    ASSUME AliceSound
    PROVE  /\ A!InternalComms =>
                (Dials(AliceNow, AliceNow', Bob) \/ Enables(AliceNow, AliceNow')) /\ AliceEntry'
           /\ \A k \in Bevs :
                /\ A!ConnectCB(k) => HearsResult(AliceNow, AliceNow', k) /\ AliceEntry'
                /\ A!TcpAuth(k) => HearsAuth(AliceNow, AliceNow', k) /\ AliceEntry'
                /\ A!TcpErr(k) => HearsEnd(AliceNow, AliceNow', k) /\ AliceEntry'
                /\ A!TcpRead(k) => HearsPacket(AliceNow, AliceNow', k) /\ AliceEntry'
                /\ A!AcceptNew(Bob, k) => IsCalled(AliceNow, AliceNow', Bob, k) /\ AliceEntry'
           /\ A!UdpReceive(Bob) => IsGiven(AliceNow, AliceNow', Attempt(Bob)) /\ AliceEntry'
           /\ A!SendMsgAccessor(Bob) =>
                IsGiven(AliceNow, AliceNow', SendTo(aBw[Bob])) /\ AliceEntry'
<1>1. ASSUME A!ConnectToAddr PROVE Dials(AliceNow, AliceNow', Bob) /\ AliceEntry'
  <2>1. aWire # <<>> /\ Head(aWire).kind = "connectTo"
    BY <1>1 DEF A!ConnectToAddr
  <2>2. Head(aWire) \in Messages(Bob)
    BY <2>1, AliceFacts, TailSet
  <2>3. Head(aWire).peer = Bob
    BY <2>1, <2>2 DEF Messages
  <2>4. PICK k \in Bevs :
          /\ aPhase[k] = "unused"
          /\ aPhase' = [aPhase EXCEPT ![k] = "dialling"]
          /\ aFd' = [aFd EXCEPT ![k] = "open"]
          /\ aRemote' = [aRemote EXCEPT ![k] = Bob]
          /\ aDialled' = aDialled \cup {k}
    BY <1>1, <2>3 DEF A!ConnectToAddr, A!Unused
  <2>5. aWire' = Tail(aWire) /\ UNCHANGED <<A!tableVars, aFreed, aInbox>>
    BY <1>1 DEF A!ConnectToAddr
  <2>6. /\ AliceNow'.wire = Tail(AliceNow.wire) /\ AliceNow'.inbox = AliceNow.inbox
        /\ SameEntry(AliceNow, AliceNow') /\ SameOwner(AliceNow, AliceNow') /\ AliceEntry'
    BY <2>5, AliceFields DEF A!tableVars, SameEntry, SameOwner, AliceEntry, AliceSound
  <2>7. /\ AliceNow.phase[k] = "unused"
        /\ AliceNow'.phase = [AliceNow.phase EXCEPT ![k] = "dialling"]
        /\ AliceNow'.fd = [AliceNow.fd EXCEPT ![k] = "open"]
        /\ AliceNow'.remote = [AliceNow.remote EXCEPT ![k] = Bob]
        /\ AliceNow'.dialled = AliceNow.dialled \cup {k}
    BY <2>4, AliceFields
  <2> QED BY <2>1, <2>6, <2>7, AliceFields DEF Dials
<1>2. ASSUME A!AddDefaultBev PROVE Enables(AliceNow, AliceNow') /\ AliceEntry'
  BY <1>2, AliceFields
     DEF A!AddDefaultBev, A!tableVars, Enables, SameEntry, SameOwner, AliceEntry, AliceSound
<1>3. ASSUME NEW k \in Bevs
      PROVE  /\ A!ConnectCB(k) => HearsResult(AliceNow, AliceNow', k) /\ AliceEntry'
             /\ A!TcpAuth(k) => HearsAuth(AliceNow, AliceNow', k) /\ AliceEntry'
             /\ A!TcpErr(k) => HearsEnd(AliceNow, AliceNow', k) /\ AliceEntry'
             /\ A!TcpRead(k) => HearsPacket(AliceNow, AliceNow', k) /\ AliceEntry'
  BY AliceCallsBack, AliceFields
     DEF A!ConnectCB, A!TcpAuth, A!TcpErr, A!TcpRead, A!Readable,
         HearsResult, HearsAuth, HearsEnd, HearsPacket
<1>4. ASSUME NEW k \in Bevs, A!AcceptNew(Bob, k)
      PROVE  IsCalled(AliceNow, AliceNow', Bob, k) /\ AliceEntry'
  BY <1>4, AliceFields
     DEF A!AcceptNew, A!BevEvent, A!tableVars, IsCalled, Signal, SameEntry, SameOwner,
         AliceEntry, AliceSound
<1>5. A!UdpReceive(Bob) => IsGiven(AliceNow, AliceNow', Attempt(Bob)) /\ AliceEntry'
  BY AliceFields
     DEF A!UdpReceive, A!Attempt, A!tableVars, A!netVars, IsGiven, Attempt, SameEntry, SameOwner,
         SameNet, AliceEntry, AliceSound
<1>6. A!SendMsgAccessor(Bob) =>
         IsGiven(AliceNow, AliceNow', SendTo(aBw[Bob])) /\ AliceEntry'
  BY AliceFields
     DEF A!SendMsgAccessor, A!Send, A!tableVars, A!netVars, IsGiven, SendTo, SameEntry, SameOwner,
         SameNet, AliceEntry, AliceSound
<1> QED BY <1>1, <1>2, <1>3, <1>4, <1>5, <1>6 DEF A!InternalComms

\* The callbacks of Bob's server thread.
LEMMA BobCallsBack ==
    ASSUME BobSound, NEW k, NEW p, NEW kind, B!Callback(k, p, kind)
    PROVE  CallsBack(BobNow, BobNow', k, p, kind) /\ BobEntry'
BY BobFields DEF B!Callback, B!BevEvent, B!tableVars, CallsBack, Signal, SameEntry, SameOwner,
   BobEntry, BobSound

\* Bob's server thread does what is said above of any, and so does what he is given.
LEMMA BobServesAsSaid ==
    ASSUME BobSound
    PROVE  /\ B!InternalComms =>
                (Dials(BobNow, BobNow', Alice) \/ Enables(BobNow, BobNow')) /\ BobEntry'
           /\ \A k \in Bevs :
                /\ B!ConnectCB(k) => HearsResult(BobNow, BobNow', k) /\ BobEntry'
                /\ B!TcpAuth(k) => HearsAuth(BobNow, BobNow', k) /\ BobEntry'
                /\ B!TcpErr(k) => HearsEnd(BobNow, BobNow', k) /\ BobEntry'
                /\ B!TcpRead(k) => HearsPacket(BobNow, BobNow', k) /\ BobEntry'
                /\ B!AcceptNew(Alice, k) => IsCalled(BobNow, BobNow', Alice, k) /\ BobEntry'
           /\ B!UdpReceive(Alice) => IsGiven(BobNow, BobNow', Attempt(Alice)) /\ BobEntry'
           /\ B!SendMsgAccessor(Alice) =>
                IsGiven(BobNow, BobNow', SendTo(bBw[Alice])) /\ BobEntry'
<1>1. ASSUME B!ConnectToAddr PROVE Dials(BobNow, BobNow', Alice) /\ BobEntry'
  <2>1. bWire # <<>> /\ Head(bWire).kind = "connectTo"
    BY <1>1 DEF B!ConnectToAddr
  <2>2. Head(bWire) \in Messages(Alice)
    BY <2>1, BobFacts, TailSet
  <2>3. Head(bWire).peer = Alice
    BY <2>1, <2>2 DEF Messages
  <2>4. PICK k \in Bevs :
          /\ bPhase[k] = "unused"
          /\ bPhase' = [bPhase EXCEPT ![k] = "dialling"]
          /\ bFd' = [bFd EXCEPT ![k] = "open"]
          /\ bRemote' = [bRemote EXCEPT ![k] = Alice]
          /\ bDialled' = bDialled \cup {k}
    BY <1>1, <2>3 DEF B!ConnectToAddr, B!Unused
  <2>5. bWire' = Tail(bWire) /\ UNCHANGED <<B!tableVars, bFreed, bInbox>>
    BY <1>1 DEF B!ConnectToAddr
  <2>6. /\ BobNow'.wire = Tail(BobNow.wire) /\ BobNow'.inbox = BobNow.inbox
        /\ SameEntry(BobNow, BobNow') /\ SameOwner(BobNow, BobNow') /\ BobEntry'
    BY <2>5, BobFields DEF B!tableVars, SameEntry, SameOwner, BobEntry, BobSound
  <2>7. /\ BobNow.phase[k] = "unused"
        /\ BobNow'.phase = [BobNow.phase EXCEPT ![k] = "dialling"]
        /\ BobNow'.fd = [BobNow.fd EXCEPT ![k] = "open"]
        /\ BobNow'.remote = [BobNow.remote EXCEPT ![k] = Alice]
        /\ BobNow'.dialled = BobNow.dialled \cup {k}
    BY <2>4, BobFields
  <2> QED BY <2>1, <2>6, <2>7, BobFields DEF Dials
<1>2. ASSUME B!AddDefaultBev PROVE Enables(BobNow, BobNow') /\ BobEntry'
  BY <1>2, BobFields
     DEF B!AddDefaultBev, B!tableVars, Enables, SameEntry, SameOwner, BobEntry, BobSound
<1>3. ASSUME NEW k \in Bevs
      PROVE  /\ B!ConnectCB(k) => HearsResult(BobNow, BobNow', k) /\ BobEntry'
             /\ B!TcpAuth(k) => HearsAuth(BobNow, BobNow', k) /\ BobEntry'
             /\ B!TcpErr(k) => HearsEnd(BobNow, BobNow', k) /\ BobEntry'
             /\ B!TcpRead(k) => HearsPacket(BobNow, BobNow', k) /\ BobEntry'
  BY BobCallsBack, BobFields
     DEF B!ConnectCB, B!TcpAuth, B!TcpErr, B!TcpRead, B!Readable,
         HearsResult, HearsAuth, HearsEnd, HearsPacket
<1>4. ASSUME NEW k \in Bevs, B!AcceptNew(Alice, k)
      PROVE  IsCalled(BobNow, BobNow', Alice, k) /\ BobEntry'
  BY <1>4, BobFields
     DEF B!AcceptNew, B!BevEvent, B!tableVars, IsCalled, Signal, SameEntry, SameOwner,
         BobEntry, BobSound
<1>5. B!UdpReceive(Alice) => IsGiven(BobNow, BobNow', Attempt(Alice)) /\ BobEntry'
  BY BobFields
     DEF B!UdpReceive, B!Attempt, B!tableVars, B!netVars, IsGiven, Attempt, SameEntry, SameOwner,
         SameNet, BobEntry, BobSound
<1>6. B!SendMsgAccessor(Alice) =>
         IsGiven(BobNow, BobNow', SendTo(bBw[Alice])) /\ BobEntry'
  BY BobFields
     DEF B!SendMsgAccessor, B!Send, B!tableVars, B!netVars, IsGiven, SendTo, SameEntry, SameOwner,
         SameNet, BobEntry, BobSound
<1> QED BY <1>1, <1>2, <1>3, <1>4, <1>5, <1>6 DEF B!InternalComms


-------------------------------------------------------------------------------
(***************************************************************************)
(* Alice's steps are such steps, and so are Bob's.                         *)
(***************************************************************************)
AliceActs ==
    \/ AliceWorks \/ AliceServes \/ AliceHearsName \/ AliceWrites
    \/ \E k \in Bevs : AliceDials(k) \/ AliceAccepts(k) \/ AliceReads(k) \/ AliceLoses(k)

\* A step of Alice's is one of the steps above, and Bob stays as he is.
LEMMA AliceStepsAsSaid ==
    ASSUME AliceSound, ~Overlap, AliceActs
    PROVE  /\ Steps(AliceNow, AliceNow', BobNow, Bob, Alice, AliceLink, AliceLink')
           /\ AliceEntry' /\ bob' = bob
<1>1. /\ AliceLink.posts = aPosts /\ AliceLink'.posts = aPosts'
      /\ AliceLink.out = toBob /\ AliceLink'.out = toBob'
      /\ AliceLink.into = toAlice /\ AliceLink'.into = toAlice'
      /\ AliceLink.called = called /\ AliceLink'.called = called'
      /\ AliceLink.cuts = cuts /\ AliceLink'.cuts = cuts'
  BY DEF AliceLink
<1>2. /\ BobNow.phase = bPhase /\ BobNow.freed = bFreed /\ BobNow.dialled = bDialled
      /\ BobNow.fd = bFd /\ BobNow.inbox = bInbox /\ BobNow.wire = bWire
  BY DEF BobNow
<1>3. CASE AliceWorks
  <2>1. Works(AliceNow, AliceNow', Bob) /\ AliceEntry'
    BY <1>3, AliceWorksAsSaid DEF AliceWorks
  <2>2. bob' = bob
    BY <1>3 DEF AliceWorks
  <2>3. StepWorks(AliceNow, AliceNow', BobNow, Bob, AliceLink, AliceLink')
    BY <1>1, <1>2, <1>3, <2>1, AliceFields DEF AliceWorks, StepWorks, SameCalls, counts
  <2> QED BY <2>1, <2>2, <2>3 DEF Steps
<1>4. CASE AliceServes
  <2>1. (Dials(AliceNow, AliceNow', Bob) \/ Enables(AliceNow, AliceNow')) /\ AliceEntry'
    BY <1>4, AliceServesAsSaid DEF AliceServes
  <2>2. bob' = bob
    BY <1>4 DEF AliceServes
  <2>3. \A k \in Bevs : AliceNow.phase[k] = "unused" /\ AliceNow'.phase[k] # "unused"
            => BobNow.phase[k] = "unused"
    BY <1>2, <1>4, AliceFields DEF AliceServes, IsNext, Fresh
  <2>4. StepServes(AliceNow, AliceNow', BobNow, Bob, AliceLink, AliceLink')
    BY <1>1, <1>4, <2>1, <2>3
       DEF AliceServes, StepServes, SameLines, SameCalls, line, counts
  <2> QED BY <2>1, <2>2, <2>4 DEF Steps
<1>5. CASE AliceHearsName
  <2>1. IsGiven(AliceNow, AliceNow', Attempt(Bob)) /\ AliceEntry'
    BY <1>5, AliceServesAsSaid DEF AliceHearsName
  <2>2. bob' = bob
    BY <1>5 DEF AliceHearsName
  <2>3. AliceIgnores \/ Apart
    BY <1>5 DEF AliceHearsName
  <2>8. ASSUME Apart PROVE StepAsks(AliceNow, AliceNow', BobNow, Bob, Alice, AliceLink, AliceLink')
    <3>4. ~Tries(AliceNow, Bob)
      BY <2>8, AliceFields
         DEF Apart, A!Queued, A!Attempt, A!Dialling, A!OnWire, A!ToSet, ToSet, Tries, Asked, Dialed,
             OnWire, Attempt, Dial
    <3>5. ~Tries(BobNow, Alice)
      BY <1>2, <2>8
         DEF Apart, B!Queued, B!Attempt, B!Dialling, B!OnWire, B!ToSet, ToSet, Tries, Asked, Dialed,
             OnWire, Attempt, Dial
    <3>6. \A k \in Bevs : ~Active(AliceNow, BobNow, called, k)
      BY <1>2, <2>8, AliceFields DEF Apart, A!Live, B!Live, Active, Live
    <3> QED BY <1>1, <1>5, <2>1, <3>4, <3>5, <3>6
        DEF AliceHearsName, StepAsks, Noted, SameLines, SameCalls, line
  <2>9. ASSUME AliceIgnores PROVE StepAsks(AliceNow, AliceNow', BobNow, Bob, Alice, AliceLink, AliceLink')
    <3>1. /\ AliceNow.connectTo = TRUE \/ Attempt(Bob) \in ToSet(AliceNow.inbox)
          /\ ~Clears(AliceNow.inbox)
      BY <2>9, AliceFields, AliceFacts DEF AliceIgnores, A!Queued, A!Attempt, A!ToSet, ToSet, Attempt
    <3> QED BY <1>1, <1>5, <2>1, <3>1
        DEF AliceHearsName, StepAsks, Noted, SameLines, SameCalls, line
  <2>7. StepAsks(AliceNow, AliceNow', BobNow, Bob, Alice, AliceLink, AliceLink')
    BY <2>3, <2>8, <2>9
  <2> QED BY <2>1, <2>2, <2>7 DEF Steps
<1>6. CASE AliceWrites
  <2>1. IsGiven(AliceNow, AliceNow', SendTo(AliceNow.bw)) /\ AliceEntry'
    BY <1>6, AliceServesAsSaid, AliceFields DEF AliceWrites
  <2>2. bob' = bob
    BY <1>6 DEF AliceWrites
  <2>3. StepWrites(AliceNow, AliceNow', AliceLink, AliceLink')
    BY <1>1, <1>6, <2>1 DEF AliceWrites, StepWrites, Noted, SameLines, SameCalls, line
  <2> QED BY <2>1, <2>2, <2>3 DEF Steps
<1>7. ASSUME NEW k \in Bevs, AliceDials(k)
      PROVE  StepDials(AliceNow, AliceNow', AliceLink, AliceLink', k) /\ AliceEntry' /\ bob' = bob
  <2>1. HearsResult(AliceNow, AliceNow', k) /\ AliceEntry'
    BY <1>7, AliceServesAsSaid DEF AliceDials
  <2> QED BY <1>1, <1>7, <2>1, AliceFields DEF AliceDials, StepDials, Noted, SameLines
<1>8. ASSUME NEW k \in Bevs, AliceAccepts(k)
      PROVE  /\ StepAccepts(AliceNow, AliceNow', BobNow, Bob, AliceLink, AliceLink', k)
             /\ AliceEntry' /\ bob' = bob
  <2>1. IsCalled(AliceNow, AliceNow', Bob, k) /\ AliceEntry'
    BY <1>8, AliceServesAsSaid DEF AliceAccepts
  <2> QED BY <1>1, <1>2, <1>8, <2>1 DEF AliceAccepts, StepAccepts, Noted, SameLines, counts
<1>9. ASSUME NEW k \in Bevs, AliceReads(k)
      PROVE  StepReads(AliceNow, AliceNow', AliceLink, AliceLink', k) /\ AliceEntry' /\ bob' = bob
  <2>1. /\ toAlice[k] # <<>> /\ toAlice' = Rest(toAlice, k)
        /\ toBob' = toBob /\ called' = called /\ cuts' = cuts /\ bob' = bob
    BY <1>9 DEF AliceReads, First, counts
  <2>2. CASE A!Readable(k) /\ UNCHANGED alice
    <3>1. AliceNow' = AliceNow /\ aPosts' = aPosts /\ AliceNow.phase[k] = "read"
      BY <2>2 DEF alice, AliceNow, A!Readable
    <3>2. AliceEntry'
      BY <2>2 DEF AliceEntry, alice, AliceSound
    <3> QED BY <1>1, <2>1, <3>1, <3>2 DEF StepReads, SameCalls
  <2>3. CASE First(toAlice, k, "auth") /\ A!TcpAuth(k) /\ aPosts' = Append(aPosts, "none")
    <3>1. HearsAuth(AliceNow, AliceNow', k) /\ AliceEntry'
      BY <2>3, AliceServesAsSaid
    <3> QED BY <1>1, <2>1, <2>3, <3>1 DEF StepReads, SameCalls, Noted
  <2>4. CASE A!TcpRead(k) /\ aPosts' = Append(aPosts, "none")
    <3>1. HearsPacket(AliceNow, AliceNow', k) /\ AliceEntry'
      BY <2>4, AliceServesAsSaid
    <3> QED BY <1>1, <2>1, <2>4, <3>1 DEF StepReads, SameCalls, Noted
  <2> QED BY <1>9, <2>2, <2>3, <2>4 DEF AliceReads
<1>10. ASSUME NEW k \in Bevs, AliceLoses(k)
       PROVE  /\ StepLoses(AliceNow, AliceNow', BobNow, AliceLink, AliceLink', k)
              /\ AliceEntry' /\ bob' = bob
  <2>1. HearsEnd(AliceNow, AliceNow', k) /\ AliceEntry'
    BY <1>10, AliceServesAsSaid DEF AliceLoses
  <2> QED BY <1>1, <1>2, <1>10, <2>1, AliceFields DEF AliceLoses, Ends, StepLoses, Noted
<1> QED BY <1>3, <1>4, <1>5, <1>6, <1>7, <1>8, <1>9, <1>10 DEF AliceActs, Steps
BobActs ==
    \/ BobWorks \/ BobServes \/ BobHearsName \/ BobWrites
    \/ \E k \in Bevs : BobDials(k) \/ BobAccepts(k) \/ BobReads(k) \/ BobLoses(k)

\* A step of Bob's is one of the steps above, and Alice stays as she is.
LEMMA BobStepsAsSaid ==
    ASSUME BobSound, ~Overlap, BobActs
    PROVE  /\ Steps(BobNow, BobNow', AliceNow, Alice, Bob, BobLink, BobLink')
           /\ BobEntry' /\ alice' = alice
<1>1. /\ BobLink.posts = bPosts /\ BobLink'.posts = bPosts'
      /\ BobLink.out = toAlice /\ BobLink'.out = toAlice'
      /\ BobLink.into = toBob /\ BobLink'.into = toBob'
      /\ BobLink.called = called /\ BobLink'.called = called'
      /\ BobLink.cuts = cuts /\ BobLink'.cuts = cuts'
  BY DEF BobLink
<1>2. /\ AliceNow.phase = aPhase /\ AliceNow.freed = aFreed /\ AliceNow.dialled = aDialled
      /\ AliceNow.fd = aFd /\ AliceNow.inbox = aInbox /\ AliceNow.wire = aWire
  BY DEF AliceNow
<1>3. CASE BobWorks
  <2>1. Works(BobNow, BobNow', Alice) /\ BobEntry'
    BY <1>3, BobWorksAsSaid DEF BobWorks
  <2>2. alice' = alice
    BY <1>3 DEF BobWorks
  <2>3. StepWorks(BobNow, BobNow', AliceNow, Alice, BobLink, BobLink')
    BY <1>1, <1>2, <1>3, <2>1, BobFields DEF BobWorks, StepWorks, SameCalls, counts
  <2> QED BY <2>1, <2>2, <2>3 DEF Steps
<1>4. CASE BobServes
  <2>1. (Dials(BobNow, BobNow', Alice) \/ Enables(BobNow, BobNow')) /\ BobEntry'
    BY <1>4, BobServesAsSaid DEF BobServes
  <2>2. alice' = alice
    BY <1>4 DEF BobServes
  <2>3. \A k \in Bevs : BobNow.phase[k] = "unused" /\ BobNow'.phase[k] # "unused"
            => AliceNow.phase[k] = "unused"
    BY <1>2, <1>4, BobFields DEF BobServes, IsNext, Fresh
  <2>4. StepServes(BobNow, BobNow', AliceNow, Alice, BobLink, BobLink')
    BY <1>1, <1>4, <2>1, <2>3
       DEF BobServes, StepServes, SameLines, SameCalls, line, counts
  <2> QED BY <2>1, <2>2, <2>4 DEF Steps
<1>5. CASE BobHearsName
  <2>1. IsGiven(BobNow, BobNow', Attempt(Alice)) /\ BobEntry'
    BY <1>5, BobServesAsSaid DEF BobHearsName
  <2>2. alice' = alice
    BY <1>5 DEF BobHearsName
  <2>3. BobIgnores \/ Apart
    BY <1>5 DEF BobHearsName
  <2>8. ASSUME Apart PROVE StepAsks(BobNow, BobNow', AliceNow, Alice, Bob, BobLink, BobLink')
    <3>4. ~Tries(BobNow, Alice)
      BY <2>8, BobFields
         DEF Apart, B!Queued, B!Attempt, B!Dialling, B!OnWire, B!ToSet, ToSet, Tries, Asked, Dialed,
             OnWire, Attempt, Dial
    <3>5. ~Tries(AliceNow, Bob)
      BY <1>2, <2>8
         DEF Apart, A!Queued, A!Attempt, A!Dialling, A!OnWire, A!ToSet, ToSet, Tries, Asked, Dialed,
             OnWire, Attempt, Dial
    <3>6. \A k \in Bevs : ~Active(BobNow, AliceNow, called, k)
      BY <1>2, <2>8, BobFields DEF Apart, B!Live, A!Live, Active, Live
    <3> QED BY <1>1, <1>5, <2>1, <3>4, <3>5, <3>6
        DEF BobHearsName, StepAsks, Noted, SameLines, SameCalls, line
  <2>9. ASSUME BobIgnores PROVE StepAsks(BobNow, BobNow', AliceNow, Alice, Bob, BobLink, BobLink')
    <3>1. /\ BobNow.connectTo = TRUE \/ Attempt(Alice) \in ToSet(BobNow.inbox)
          /\ ~Clears(BobNow.inbox)
      BY <2>9, BobFields, BobFacts DEF BobIgnores, B!Queued, B!Attempt, B!ToSet, ToSet, Attempt
    <3> QED BY <1>1, <1>5, <2>1, <3>1
        DEF BobHearsName, StepAsks, Noted, SameLines, SameCalls, line
  <2>7. StepAsks(BobNow, BobNow', AliceNow, Alice, Bob, BobLink, BobLink')
    BY <2>3, <2>8, <2>9
  <2> QED BY <2>1, <2>2, <2>7 DEF Steps
<1>6. CASE BobWrites
  <2>1. IsGiven(BobNow, BobNow', SendTo(BobNow.bw)) /\ BobEntry'
    BY <1>6, BobServesAsSaid, BobFields DEF BobWrites
  <2>2. alice' = alice
    BY <1>6 DEF BobWrites
  <2>3. StepWrites(BobNow, BobNow', BobLink, BobLink')
    BY <1>1, <1>6, <2>1 DEF BobWrites, StepWrites, Noted, SameLines, SameCalls, line
  <2> QED BY <2>1, <2>2, <2>3 DEF Steps
<1>7. ASSUME NEW k \in Bevs, BobDials(k)
      PROVE  StepDials(BobNow, BobNow', BobLink, BobLink', k) /\ BobEntry' /\ alice' = alice
  <2>1. HearsResult(BobNow, BobNow', k) /\ BobEntry'
    BY <1>7, BobServesAsSaid DEF BobDials
  <2> QED BY <1>1, <1>7, <2>1, BobFields DEF BobDials, StepDials, Noted, SameLines
<1>8. ASSUME NEW k \in Bevs, BobAccepts(k)
      PROVE  /\ StepAccepts(BobNow, BobNow', AliceNow, Alice, BobLink, BobLink', k)
             /\ BobEntry' /\ alice' = alice
  <2>1. IsCalled(BobNow, BobNow', Alice, k) /\ BobEntry'
    BY <1>8, BobServesAsSaid DEF BobAccepts
  <2> QED BY <1>1, <1>2, <1>8, <2>1 DEF BobAccepts, StepAccepts, Noted, SameLines, counts
<1>9. ASSUME NEW k \in Bevs, BobReads(k)
      PROVE  StepReads(BobNow, BobNow', BobLink, BobLink', k) /\ BobEntry' /\ alice' = alice
  <2>1. /\ toBob[k] # <<>> /\ toBob' = Rest(toBob, k)
        /\ toAlice' = toAlice /\ called' = called /\ cuts' = cuts /\ alice' = alice
    BY <1>9 DEF BobReads, First, counts
  <2>2. CASE B!Readable(k) /\ UNCHANGED bob
    <3>1. BobNow' = BobNow /\ bPosts' = bPosts /\ BobNow.phase[k] = "read"
      BY <2>2 DEF bob, BobNow, B!Readable
    <3>2. BobEntry'
      BY <2>2 DEF BobEntry, bob, BobSound
    <3> QED BY <1>1, <2>1, <3>1, <3>2 DEF StepReads, SameCalls
  <2>3. CASE First(toBob, k, "auth") /\ B!TcpAuth(k) /\ bPosts' = Append(bPosts, "none")
    <3>1. HearsAuth(BobNow, BobNow', k) /\ BobEntry'
      BY <2>3, BobServesAsSaid
    <3> QED BY <1>1, <2>1, <2>3, <3>1 DEF StepReads, SameCalls, Noted
  <2>4. CASE B!TcpRead(k) /\ bPosts' = Append(bPosts, "none")
    <3>1. HearsPacket(BobNow, BobNow', k) /\ BobEntry'
      BY <2>4, BobServesAsSaid
    <3> QED BY <1>1, <2>1, <2>4, <3>1 DEF StepReads, SameCalls, Noted
  <2> QED BY <1>9, <2>2, <2>3, <2>4 DEF BobReads
<1>10. ASSUME NEW k \in Bevs, BobLoses(k)
       PROVE  /\ StepLoses(BobNow, BobNow', AliceNow, BobLink, BobLink', k)
              /\ BobEntry' /\ alice' = alice
  <2>1. HearsEnd(BobNow, BobNow', k) /\ BobEntry'
    BY <1>10, BobServesAsSaid DEF BobLoses
  <2> QED BY <1>1, <1>2, <1>10, <2>1, BobFields DEF BobLoses, Ends, StepLoses, Noted
<1> QED BY <1>3, <1>4, <1>5, <1>6, <1>7, <1>8, <1>9, <1>10 DEF BobActs, Steps

-------------------------------------------------------------------------------
(***************************************************************************)
(* At most one connection, and nobody dials while there is one.            *)
(***************************************************************************)
Together ==
    /\ Lone(AliceNow, Bob) /\ AliceEntry
    /\ Lone(BobNow, Alice) /\ BobEntry
    /\ called \subseteq Bevs
    /\ Solo(AliceNow, BobNow, Bob, Alice, called)

\* A process that has just been started is as it should be.
LEMMA StartsLone ==
    ASSUME NEW u, u \notin Bevs, NEW s,
           s.inbox = <<>>, s.wire = <<>>, s.phase = [k \in Bevs |-> "unused"],
           s.dialled = {}, s.freed = {}, s.remote = [k \in Bevs |-> NoPeer],
           s.fd = [k \in Bevs |-> "none"], s.held = [w \in Wrappers(u) |-> NoBev],
           s.bw = u, s.extra = <<>>, s.known = FALSE, s.connectTo = FALSE,
           s.isAuthed = FALSE, s.sock = NoBev
    PROVE  Lone(s, u)
<1>1. /\ ToSet(s.inbox) = {} /\ ToSet(s.wire) = {} /\ ToSet(s.extra) = {}
      /\ DOMAIN s.inbox = {} /\ DOMAIN s.wire = {} /\ DOMAIN s.extra = {}
  BY DEF ToSet
<1>2. /\ \A kind, k : ~Queued(s, kind, k)
      /\ \A w : ~Sending(s, w)
      /\ \A e : ~OnWire(s, e)
  BY <1>1 DEF Queued, Sending, OnWire
<1>3. /\ \A k \in Bevs : s.phase[k] = "unused" /\ s.remote[k] = NoPeer /\ s.fd[k] = "none"
      /\ \A w \in Wrappers(u) : s.held[w] = NoBev
      /\ u \in Wrappers(u)
  BY DEF Wrappers
<1>4. Typed(s, u)
  <2>1. s.inbox \in Seq(Events(u)) /\ s.wire \in Seq(Messages(u)) /\ s.extra \in Seq(Bevs)
    OBVIOUS
  <2> QED BY <1>3, <2>1 DEF Typed
<1>5. Reached(s, u)
  BY <1>1, <1>3 DEF Reached
<1>6. Once(s, u)
  BY <1>1 DEF Once, InOrder, EndsLast, IsInjective
<1>7. Staged(s)
  BY <1>2, <1>3 DEF Staged, StageOf
<1>8. Wrapped(s, u)
  <2>1. IsInjective(s.extra)
    BY <1>1 DEF IsInjective
  <2>2. \A k \in Bevs : ~Owned(s, k)
    BY <1>1 DEF Owned
  <2> QED BY <1>1, <1>2, <1>3, <2>1, <2>2 DEF Wrapped
<1>9. Kept(s, u)
  BY <1>2, <1>3 DEF Kept, KeptOf, Settled
<1>10. Marked(s, u)
  BY DEF Marked
<1>11. Session(s)
  BY <1>2, <1>3 DEF Session, OpenOf
<1> QED BY <1>4, <1>5, <1>6, <1>7, <1>8, <1>9, <1>10, <1>11 DEF Lone

\* Two processes that have just been started.
LEMMA TogetherInitially == Init => Together
<1> SUFFICES ASSUME Init PROVE Together
  OBVIOUS
<1>1. Alice \notin Bevs /\ Bob \notin Bevs
  BY ProcessesAssumption
<1>2. Lone(AliceNow, Bob) /\ AliceEntry
  <2>1. AliceEntry
    BY DEF Init, A!Init, AliceEntry, Wrappers
  <2>2. /\ AliceNow.known = FALSE /\ AliceNow.connectTo = FALSE /\ AliceNow.isAuthed = FALSE
        /\ AliceNow.sock = NoBev /\ AliceNow.bw = Bob
        /\ AliceNow.held = [w \in Wrappers(Bob) |-> NoBev]
    <3>1. (Bob \in aKnown) = FALSE
      BY DEF Init, A!Init
    <3>2. /\ aConnectTo[Bob] = FALSE /\ aIsAuthed[Bob] = FALSE
          /\ aSock[Bob] = NoBev /\ aBw[Bob] = Bob
          /\ aHeld = [w \in Wrappers(Bob) |-> NoBev]
      BY DEF Init, A!Init, A!Wrappers, Wrappers
    <3> QED BY <3>1, <3>2, AliceFields
  <2>3. /\ AliceNow.inbox = <<>> /\ AliceNow.wire = <<>> /\ AliceNow.extra = <<>>
        /\ AliceNow.phase = [k \in Bevs |-> "unused"] /\ AliceNow.fd = [k \in Bevs |-> "none"]
        /\ AliceNow.remote = [k \in Bevs |-> NoPeer]
        /\ AliceNow.dialled = {} /\ AliceNow.freed = {}
    BY AliceFields DEF Init, A!Init
  <2> QED BY <1>1, <2>1, <2>2, <2>3, StartsLone
<1>3. Lone(BobNow, Alice) /\ BobEntry
  <2>1. BobEntry
    BY DEF Init, B!Init, BobEntry, Wrappers
  <2>2. /\ BobNow.known = FALSE /\ BobNow.connectTo = FALSE /\ BobNow.isAuthed = FALSE
        /\ BobNow.sock = NoBev /\ BobNow.bw = Alice
        /\ BobNow.held = [w \in Wrappers(Alice) |-> NoBev]
    <3>1. (Alice \in bKnown) = FALSE
      BY DEF Init, B!Init
    <3>2. /\ bConnectTo[Alice] = FALSE /\ bIsAuthed[Alice] = FALSE
          /\ bSock[Alice] = NoBev /\ bBw[Alice] = Alice
          /\ bHeld = [w \in Wrappers(Alice) |-> NoBev]
      BY DEF Init, B!Init, B!Wrappers, Wrappers
    <3> QED BY <3>1, <3>2, BobFields
  <2>3. /\ BobNow.inbox = <<>> /\ BobNow.wire = <<>> /\ BobNow.extra = <<>>
        /\ BobNow.phase = [k \in Bevs |-> "unused"] /\ BobNow.fd = [k \in Bevs |-> "none"]
        /\ BobNow.remote = [k \in Bevs |-> NoPeer]
        /\ BobNow.dialled = {} /\ BobNow.freed = {}
    BY BobFields DEF Init, B!Init
  <2> QED BY <1>1, <2>1, <2>2, <2>3, StartsLone
<1>4. /\ AliceNow.dialled = {} /\ BobNow.dialled = {} /\ called = {}
      /\ \A k \in Bevs : AliceNow.phase[k] = "unused" /\ BobNow.phase[k] = "unused"
      /\ ToSet(AliceNow.inbox) = {} /\ ToSet(AliceNow.wire) = {}
      /\ ToSet(BobNow.inbox) = {} /\ ToSet(BobNow.wire) = {}
  BY AliceFields, BobFields DEF Init, A!Init, B!Init, ToSet
<1>5. \A k \in Bevs : ~Active(AliceNow, BobNow, called, k)
  BY <1>4 DEF Active, Live
<1>6. ~Tries(AliceNow, Bob) /\ ~Tries(BobNow, Alice)
  BY <1>4 DEF Tries, Asked, Dialed, OnWire
<1>7. Solo(AliceNow, BobNow, Bob, Alice, called)
  BY <1>4, <1>5, <1>6 DEF Solo, Tries
<1> QED BY <1>2, <1>3, <1>4, <1>7 DEF Together

\* Every step is one of Alice's or of Bob's.
LEMMA NextIsOneOfTheirs == Next => AliceActs \/ BobActs
BY DEF Next, Connections, AliceActs, BobActs

\* Alice's steps make no second connection, and are seen as Steps.
LEMMA TogetherAfterAlice ==
    ASSUME Together, ~Overlap, AliceActs
    PROVE  /\ Together'
           /\ Steps(AliceNow, AliceNow', BobNow, Bob, Alice, AliceLink, AliceLink')
           /\ BobNow' = BobNow
<1>1. AliceSound /\ Alice \notin Bevs /\ Bob \notin Bevs
  BY ProcessesAssumption DEF Together, Lone, AliceSound
<1>2. /\ Steps(AliceNow, AliceNow', BobNow, Bob, Alice, AliceLink, AliceLink')
      /\ AliceEntry' /\ bob' = bob
  BY <1>1, AliceStepsAsSaid
<1>3. BobNow' = BobNow /\ BobEntry'
  BY <1>2 DEF BobNow, bob, BobEntry, Together
<1>4. AliceLink.called = called /\ AliceLink'.called = called'
  BY DEF AliceLink
<1>5. /\ Solo(AliceNow, BobNow, Bob, Alice, AliceLink.called) /\ AliceLink.called \subseteq Bevs
      /\ Lone(AliceNow, Bob) /\ Lone(BobNow, Alice)
  BY <1>4 DEF Together
<1>6. /\ Solo(AliceNow', BobNow, Bob, Alice, AliceLink'.called) /\ Lone(AliceNow', Bob)
      /\ AliceLink'.called \subseteq Bevs
  BY <1>1, <1>2, <1>5, SoloSteps
<1> QED BY <1>2, <1>3, <1>4, <1>6 DEF Together

\* Nor do Bob's.
LEMMA TogetherAfterBob ==
    ASSUME Together, ~Overlap, BobActs
    PROVE  /\ Together'
           /\ Steps(BobNow, BobNow', AliceNow, Alice, Bob, BobLink, BobLink')
           /\ AliceNow' = AliceNow
<1>1. BobSound /\ Alice \notin Bevs /\ Bob \notin Bevs
  BY ProcessesAssumption DEF Together, Lone, BobSound
<1>2. /\ Steps(BobNow, BobNow', AliceNow, Alice, Bob, BobLink, BobLink')
      /\ BobEntry' /\ alice' = alice
  BY <1>1, BobStepsAsSaid
<1>3. AliceNow' = AliceNow /\ AliceEntry'
  BY <1>2 DEF AliceNow, alice, AliceEntry, Together
<1>4. BobLink.called = called /\ BobLink'.called = called'
  BY DEF BobLink
<1>5. /\ Solo(BobNow, AliceNow, Alice, Bob, BobLink.called) /\ BobLink.called \subseteq Bevs
      /\ Lone(AliceNow, Bob) /\ Lone(BobNow, Alice)
  BY <1>4, SoloTurned DEF Together
<1>6. /\ Solo(BobNow', AliceNow, Alice, Bob, BobLink'.called) /\ Lone(BobNow', Alice)
      /\ BobLink'.called \subseteq Bevs
  BY <1>1, <1>2, <1>5, SoloSteps
<1>7. Solo(AliceNow, BobNow', Bob, Alice, called')
  BY <1>4, <1>6, SoloTurned
<1> QED BY <1>2, <1>3, <1>4, <1>6, <1>7 DEF Together

\* Nor does a step of neither.
LEMMA TogetherStays == Together /\ ~Overlap /\ [Next]_vars => Together'
<1>1. ASSUME Together, UNCHANGED vars PROVE Together'
  <2>1. UNCHANGED <<AliceNow, BobNow, called, aKnown, aConnectTo, aIsAuthed, aSock, aBw,
                    bKnown, bConnectTo, bIsAuthed, bSock, bBw>>
    BY <1>1 DEF vars, alice, bob, line, AliceNow, BobNow
  <2> QED BY <1>1, <2>1 DEF Together, AliceEntry, BobEntry
<1> QED BY <1>1, NextIsOneOfTheirs, TogetherAfterAlice, TogetherAfterBob

-------------------------------------------------------------------------------
(***************************************************************************)
(* What is on its way from one end to the other.                           *)
(***************************************************************************)
Words == {"none", "text", "auth", "syncRequest", "sync"}

\* Connection k has not been authenticated at t yet.
Unread(t, k) == t.phase[k] \notin {"read", "off"}

\* The first packet that the queue q will write for the event e is an
\* authentication.
Opens(q, posts, e) ==
    \E i \in DOMAIN q : q[i] = e /\ posts[i] = "auth" /\ \A j \in DOMAIN q : j < i => q[j] # e

\* s is yet to write the first packet on connection k.
Greeting(s, posts, k) ==
    \/ Queued(s, "newConnection", k) \/ Queued(s, "connected", k)
    \/ k \notin s.dialled /\ s.held[k] = k /\ Opens(s.inbox, posts, SendTo(k))
    \/ k \in s.dialled /\ s.held[s.bw] = k /\ Sending(s, s.bw)

\* s writes, t reads and l is what is between them, seen from s.  Nobody
\* authenticates itself before the other can hear it; the end that was called
\* opens with its authentication; each end has sent something or will; and
\* without a cut a connection that one end dialled ends by the other's close.
Greets(s, t, l) ==
    \A k \in Bevs : Settled(s, k) /\ s.phase[k] # "off" /\ Unread(t, k) /\ l.out[k] = <<>> =>
        Greeting(s, l.posts, k)
Uncut(s, t, l) ==
    l.cuts = 0 => \A k \in t.dialled : t.phase[k] = "off" => s.fd[k] \in {"closed", "reclosed"}

Between(s, t, l) ==
    /\ l.posts \in Seq(Words) /\ Len(l.posts) = Len(s.inbox)
    /\ l.out \in [Bevs -> Seq(Words)] /\ l.cuts \in Nat
    /\ \A k \in Bevs : s.phase[k] = "unused" => s.fd[k] = "none"
    /\ \A k \in Bevs : l.out[k] # <<>> \/ t.phase[k] = "read" => Settled(s, k)
    /\ \A k \in t.dialled : l.out[k] # <<>> /\ Unread(t, k) => Head(l.out[k]) = "auth"
    /\ Greets(s, t, l) /\ Uncut(s, t, l)

\* What a queue and its posts open with after a head is taken.
LEMMA OpensTail ==
    ASSUME NEW S, NEW q \in Seq(S), NEW posts \in Seq(Words), Len(posts) = Len(q), q # <<>>,
           NEW e
    PROVE  /\ posts # <<>> /\ Head(posts) \in Words
           /\ Tail(posts) \in Seq(Words) /\ Len(Tail(posts)) = Len(Tail(q))
           /\ Opens(q, posts, e) /\ Head(q) # e => Opens(Tail(q), Tail(posts), e)
           /\ Opens(q, posts, e) /\ Head(q) = e => Head(posts) = "auth"
<1>1. Len(q) \in Nat \ {0} /\ DOMAIN q = 1..Len(q) /\ Head(q) = q[1]
  BY EmptySeq, LenProperties
<1>2. /\ Tail(q) \in Seq(S) /\ DOMAIN Tail(q) = 1..(Len(q) - 1) /\ Len(Tail(q)) = Len(q) - 1
      /\ \A i \in 1..(Len(q) - 1) : Tail(q)[i] = q[i + 1]
  BY HeadTailProperties, LenProperties
<1>3. posts # <<>> /\ Head(posts) = posts[1] /\ Head(posts) \in Words
  BY <1>1, HeadTailProperties, EmptySeq
<1>4. /\ Tail(posts) \in Seq(Words) /\ Len(Tail(posts)) = Len(q) - 1
      /\ \A i \in 1..(Len(q) - 1) : Tail(posts)[i] = posts[i + 1]
  BY <1>3, HeadTailProperties, LenProperties
<1>5. ASSUME NEW i \in 1..Len(q), q[i] = e, posts[i] = "auth",
             \A j \in 1..Len(q) : j < i => q[j] # e
      PROVE  /\ Head(q) # e => Opens(Tail(q), Tail(posts), e)
             /\ Head(q) = e => Head(posts) = "auth"
  <2>1. CASE i = 1
    BY <1>1, <1>3, <1>5, <2>1
  <2>2. CASE i # 1
    <3>1. i - 1 \in 1..(Len(q) - 1) /\ 1 \in 1..Len(q) /\ 1 < i
      BY <1>1, <1>5, <2>2
    <3>2. q[1] # e
      BY <1>5, <3>1
    <3>3. Tail(q)[i - 1] = e /\ Tail(posts)[i - 1] = "auth"
      BY <1>2, <1>4, <1>5, <3>1
    <3>4. ASSUME NEW j \in 1..(Len(q) - 1), j < i - 1 PROVE Tail(q)[j] # e
      BY <1>1, <1>2, <1>5, <3>4
    <3> QED BY <1>1, <1>2, <3>1, <3>2, <3>3, <3>4 DEF Opens
  <2> QED BY <2>1, <2>2
<1> QED BY <1>1, <1>2, <1>3, <1>4, <1>5 DEF Opens

\* And after another event is queued.
LEMMA OpensAppend ==
    ASSUME NEW S, NEW q \in Seq(S), NEW posts \in Seq(Words), Len(posts) = Len(q),
           NEW d \in S, NEW w \in Words, NEW e
    PROVE  /\ Append(posts, w) \in Seq(Words) /\ Len(Append(posts, w)) = Len(Append(q, d))
           /\ Opens(q, posts, e) => Opens(Append(q, d), Append(posts, w), e)
           /\ e \notin ToSet(q) /\ d = e /\ w = "auth" => Opens(Append(q, d), Append(posts, w), e)
<1>1. /\ Len(q) \in Nat /\ DOMAIN q = 1..Len(q) /\ DOMAIN Append(q, d) = 1..(Len(q) + 1)
      /\ Len(Append(q, d)) = Len(q) + 1
  BY AppendProperties, LenProperties
<1>2. (\A i \in 1..Len(q) : Append(q, d)[i] = q[i]) /\ Append(q, d)[Len(q) + 1] = d
  BY AppendProperties
<1>3. /\ Append(posts, w) \in Seq(Words) /\ Len(Append(posts, w)) = Len(q) + 1
      /\ \A i \in 1..Len(q) : Append(posts, w)[i] = posts[i]
      /\ Append(posts, w)[Len(q) + 1] = w
  BY AppendProperties
<1> DEFINE a == Append(q, d)
           p == Append(posts, w)
<1> HIDE DEF a, p
<1>4. ASSUME NEW i \in 1..Len(q), q[i] = e, posts[i] = "auth",
             \A j \in 1..Len(q) : j < i => q[j] # e
      PROVE  Opens(a, p, e)
  <2>1. i \in 1..(Len(q) + 1) /\ a[i] = e /\ p[i] = "auth"
    BY <1>1, <1>2, <1>3, <1>4 DEF a, p
  <2>2. \A j \in 1..(Len(q) + 1) : j < i => a[j] # e
    BY <1>1, <1>2, <1>4 DEF a
  <2> QED BY <1>1, <2>1, <2>2 DEF Opens, a
<1>5. ASSUME e \notin ToSet(q), d = e, w = "auth" PROVE Opens(a, p, e)
  <2>1. Len(q) + 1 \in 1..(Len(q) + 1) /\ a[Len(q) + 1] = e /\ p[Len(q) + 1] = "auth"
    BY <1>1, <1>2, <1>3, <1>5 DEF a, p
  <2>2. ASSUME NEW j \in 1..(Len(q) + 1), j < Len(q) + 1 PROVE a[j] # e
    BY <1>1, <1>2, <1>5, <2>2 DEF a, ToSet
  <2> QED BY <1>1, <2>1, <2>2 DEF Opens, a
<1>6. Opens(q, posts, e) => Opens(a, p, e)
  BY <1>1, <1>4 DEF Opens
<1> QED BY <1>1, <1>3, <1>5, <1>6 DEF a, p

-------------------------------------------------------------------------------
(***************************************************************************)
(* A step of the end that writes.                                          *)
(***************************************************************************)
\* A step that takes nothing from the queue.
Grows(s, r, u, l, m) ==
    /\ \/ r.inbox = s.inbox /\ m.posts = l.posts
       \/ \E e \in Events(u), w \in Words :
             r.inbox = Append(s.inbox, e) /\ m.posts = Append(l.posts, w)
    /\ r.held = s.held /\ r.bw = s.bw /\ m.out = l.out
    /\ m.cuts \in Nat /\ m.cuts >= l.cuts
    /\ \A k \in Bevs :
         /\ r.phase[k] = "unused" => s.phase[k] = "unused" /\ r.fd[k] = s.fd[k]
         /\ s.phase[k] # "unused" => r.fd[k] = s.fd[k]
         /\ Settled(s, k) => Settled(r, k) /\ (k \in r.dialled <=> k \in s.dialled)
         /\ Settled(r, k) /\ r.phase[k] # "off" =>
              \/ Settled(s, k) /\ s.phase[k] # "off"
              \/ Queued(r, "newConnection", k) \/ Queued(r, "connected", k)

\* Such a step keeps what is between the two.
LEMMA GrowsBetween ==
    ASSUME NEW u, NEW s, NEW r, NEW t, NEW l, NEW m, Lone(s, u), t.dialled \subseteq Bevs,
           Between(s, t, l), Grows(s, r, u, l, m)
    PROVE  Between(r, t, m)
<1>1. s.inbox \in Seq(Events(u)) /\ l.posts \in Seq(Words) /\ Len(l.posts) = Len(s.inbox)
  BY DEF Lone, Typed, Between
<1>2. /\ m.posts \in Seq(Words) /\ Len(m.posts) = Len(r.inbox)
      /\ ToSet(s.inbox) \subseteq ToSet(r.inbox)
      /\ \A e : Opens(s.inbox, l.posts, e) => Opens(r.inbox, m.posts, e)
  <2>1. CASE r.inbox = s.inbox /\ m.posts = l.posts
    BY <1>1, <2>1
  <2>2. ASSUME NEW e \in Events(u), NEW w \in Words, r.inbox = Append(s.inbox, e),
               m.posts = Append(l.posts, w)
        PROVE  /\ m.posts \in Seq(Words) /\ Len(m.posts) = Len(r.inbox)
               /\ ToSet(s.inbox) \subseteq ToSet(r.inbox)
               /\ \A d : Opens(s.inbox, l.posts, d) => Opens(r.inbox, m.posts, d)
    BY <1>1, <2>2, OpensAppend, AppendSet
  <2> QED BY <2>1, <2>2 DEF Grows
<1>3. Greets(r, t, m)
  <2>1. ASSUME NEW k \in Bevs, Settled(r, k), r.phase[k] # "off", Unread(t, k), m.out[k] = <<>>,
               ~Queued(r, "newConnection", k), ~Queued(r, "connected", k)
        PROVE  Greeting(r, m.posts, k)
    <3>1. Settled(s, k) /\ s.phase[k] # "off"
      BY <2>1 DEF Grows
    <3>2. Greeting(s, l.posts, k)
      BY <2>1, <3>1 DEF Grows, Between, Greets
    <3>3. k \in r.dialled <=> k \in s.dialled
      BY <3>1 DEF Grows
    <3>4. ~Queued(s, "newConnection", k) /\ ~Queued(s, "connected", k)
      BY <1>2, <2>1 DEF Queued
    <3> QED BY <1>2, <3>2, <3>3, <3>4 DEF Greeting, Grows, Sending
  <2> QED BY <2>1 DEF Greets, Greeting
<1>4. Uncut(r, t, m)
  <2>1. ASSUME m.cuts = 0, NEW k \in t.dialled, t.phase[k] = "off"
        PROVE  r.fd[k] \in {"closed", "reclosed"}
    <3>1. l.cuts = 0
      BY <2>1 DEF Grows, Between
    <3>2. s.fd[k] \in {"closed", "reclosed"} /\ k \in Bevs
      BY <2>1, <3>1 DEF Between, Uncut
    <3>3. s.phase[k] # "unused"
      BY <3>2 DEF Between
    <3> QED BY <3>2, <3>3 DEF Grows
  <2> QED BY <2>1 DEF Uncut
<1>5. /\ \A k \in Bevs : r.phase[k] = "unused" => r.fd[k] = "none"
      /\ \A k \in Bevs : m.out[k] # <<>> \/ t.phase[k] = "read" => Settled(r, k)
      /\ \A k \in t.dialled : m.out[k] # <<>> /\ Unread(t, k) => Head(m.out[k]) = "auth"
      /\ m.out \in [Bevs -> Seq(Words)] /\ m.cuts \in Nat
  BY DEF Grows, Between
<1> QED BY <1>2, <1>3, <1>4, <1>5 DEF Between

\* A callback, or a call.
LEMMA TellsGrow ==
    ASSUME NEW u, NEW s, NEW r, NEW l, NEW m, Lone(s, u), NEW k \in Bevs, NEW p, NEW kind,
           Tells(s, r, u, k, p, kind), Noted(l, m, "none"), m.out = l.out,
           m.cuts \in Nat, m.cuts >= l.cuts
    PROVE  Grows(s, r, u, l, m)
<1>1. /\ Moves(s.phase[k], p, kind) /\ r.phase = [s.phase EXCEPT ![k] = p]
      /\ r.inbox = Append(s.inbox, Signal(kind, k))
      /\ r.dialled = s.dialled /\ r.held = s.held /\ r.bw = s.bw
  BY DEF Tells, SameOwner
<1>2. /\ s.phase \in [Bevs -> {"unused", "dialling", "up", "auth", "read", "off"}]
      /\ s.fd \in [Bevs -> {"none", "open", "closed", "reclosed"}]
      /\ s.inbox \in Seq(Events(u))
  BY DEF Lone, Typed
<1>3. r.phase[k] = p /\ p # "unused" /\ \A j \in Bevs \ {k} : r.phase[j] = s.phase[j]
  BY <1>1, <1>2 DEF Moves
<1>4. /\ \A j \in Bevs \ {k} : r.fd[j] = s.fd[j]
      /\ s.phase[k] # "unused" => r.fd[k] = s.fd[k]
  BY <1>2 DEF Tells
<1>5. kind \in BevKinds /\ Signal(kind, k) \in Events(u)
  BY <1>1, EventShapes DEF Moves, BevKinds
<1>6. Queued(r, kind, k)
  BY <1>1, <1>2, <1>5, AppendSet DEF Queued
<1>7. \/ p = "off"
      \/ kind \in {"connected", "newConnection"}
      \/ Settled(s, k) /\ s.phase[k] # "off"
  BY <1>1 DEF Moves, Settled
<1>8. Settled(s, k) => Settled(r, k)
  BY <1>1, <1>3 DEF Moves, Settled
<1>9. \A j \in Bevs \ {k} : Settled(r, j) <=> Settled(s, j)
  BY <1>3 DEF Settled
<1>10. "none" \in Words
  BY DEF Words
<1> QED BY <1>1, <1>3, <1>4, <1>5, <1>6, <1>7, <1>8, <1>9, <1>10 DEF Grows, Noted

\* Every step of the writing end but those of its worker.
LEMMA StepsGrow ==
    ASSUME NEW u, NEW s, NEW r, NEW t, NEW v, NEW l, NEW m, u \notin Bevs, Lone(s, u),
           l.cuts \in Nat, Steps(s, r, t, u, v, l, m), ~StepWorks(s, r, t, u, l, m)
    PROVE  Grows(s, r, u, l, m)
<1>1. /\ s.phase \in [Bevs -> {"unused", "dialling", "up", "auth", "read", "off"}]
      /\ s.fd \in [Bevs -> {"none", "open", "closed", "reclosed"}]
      /\ s.dialled \subseteq Bevs /\ s.bw \in Wrappers(u)
  BY DEF Lone, Typed
<1>2. l.cuts >= l.cuts /\ l.cuts + 1 \in Nat /\ l.cuts + 1 >= l.cuts
  OBVIOUS
<1>3. CASE Dials(s, r, u) /\ StepServes(s, r, t, u, l, m)
  <2>1. PICK k \in Bevs : /\ s.phase[k] = "unused"
                          /\ r.phase = [s.phase EXCEPT ![k] = "dialling"]
                          /\ r.fd = [s.fd EXCEPT ![k] = "open"]
                          /\ r.dialled = s.dialled \cup {k}
    BY <1>3 DEF Dials
  <2>2. /\ r.phase[k] = "dialling"
        /\ \A j \in Bevs \ {k} : r.phase[j] = s.phase[j] /\ r.fd[j] = s.fd[j]
    BY <1>1, <2>1
  <2>3. /\ r.inbox = s.inbox /\ r.held = s.held /\ r.bw = s.bw
        /\ m.posts = l.posts /\ m.out = l.out /\ m.cuts = l.cuts
    BY <1>3 DEF Dials, SameOwner, StepServes, SameLines, SameCalls
  <2> QED BY <1>2, <2>1, <2>2, <2>3 DEF Grows, Settled
<1>4. CASE Enables(s, r) /\ StepServes(s, r, t, u, l, m)
  <2> DEFINE k == Head(s.wire).bev
  <2>1. k \in Bevs /\ s.phase[k] = "up" /\ r.phase = [s.phase EXCEPT ![k] = "auth"]
    BY <1>4, EnablesKeeps
  <2> HIDE DEF k
  <2>2. r.phase[k] = "auth" /\ \A j \in Bevs \ {k} : r.phase[j] = s.phase[j]
    BY <1>1, <2>1
  <2>3. /\ r.inbox = s.inbox /\ r.held = s.held /\ r.bw = s.bw /\ r.fd = s.fd
        /\ r.dialled = s.dialled
        /\ m.posts = l.posts /\ m.out = l.out /\ m.cuts = l.cuts
    BY <1>4 DEF Enables, SameOwner, StepServes, SameLines, SameCalls
  <2> QED BY <1>2, <2>1, <2>2, <2>3 DEF Grows, Settled
<1>5. ASSUME NEW e \in Events(u), IsGiven(s, r, e), NEW w \in Words, Noted(l, m, w),
             SameLines(l, m), SameCalls(l, m)
      PROVE  Grows(s, r, u, l, m)
  <2>1. /\ r.phase = s.phase /\ r.dialled = s.dialled /\ r.fd = s.fd
        /\ r.held = s.held /\ r.bw = s.bw /\ m.out = l.out /\ m.cuts = l.cuts
        /\ r.inbox = Append(s.inbox, e) /\ m.posts = Append(l.posts, w)
    BY <1>5 DEF IsGiven, SameNet, SameOwner, SameLines, SameCalls, Noted
  <2> QED BY <1>2, <2>1 DEF Grows, Settled
<1>6. /\ Attempt(u) \in Events(u) /\ SendTo(s.bw) \in Events(u)
      /\ "none" \in Words /\ "text" \in Words
  BY <1>1, EventShapes DEF Words, Events, Attempt
<1>7. CASE StepAsks(s, r, t, u, v, l, m)
  BY <1>5, <1>6, <1>7 DEF StepAsks
<1>8. CASE StepWrites(s, r, l, m)
  BY <1>5, <1>6, <1>8 DEF StepWrites
<1>9. ASSUME NEW k \in Bevs, StepDials(s, r, l, m, k) PROVE Grows(s, r, u, l, m)
  <2>1. PICK p, kind : Tells(s, r, u, k, p, kind)
    BY <1>9, CallbackTells DEF StepDials
  <2> QED BY <1>2, <1>9, <2>1, TellsGrow DEF StepDials, SameLines
<1>10. ASSUME NEW k \in Bevs, StepAccepts(s, r, t, u, l, m, k) PROVE Grows(s, r, u, l, m)
  <2>1. Tells(s, r, u, k, "auth", "newConnection")
    BY <1>10, CallbackTells DEF StepAccepts
  <2> QED BY <1>2, <1>10, <2>1, TellsGrow DEF StepAccepts, SameLines
<1>11. ASSUME NEW k \in Bevs, StepReads(s, r, l, m, k) PROVE Grows(s, r, u, l, m)
  <2>1. CASE r = s /\ m.posts = l.posts
    BY <1>2, <1>11, <2>1 DEF StepReads, SameCalls, Grows
  <2>2. CASE (HearsAuth(s, r, k) \/ HearsPacket(s, r, k)) /\ Noted(l, m, "none")
    <3>1. PICK p, kind : Tells(s, r, u, k, p, kind)
      BY <2>2, CallbackTells
    <3> QED BY <1>2, <1>11, <2>2, <3>1, TellsGrow DEF StepReads, SameCalls
  <2> QED BY <1>11, <2>1, <2>2 DEF StepReads
<1>12. ASSUME NEW k \in Bevs, StepLoses(s, r, t, l, m, k) PROVE Grows(s, r, u, l, m)
  <2>1. Tells(s, r, u, k, "off", "quit")
    BY <1>12, CallbackTells DEF StepLoses
  <2> QED BY <1>2, <1>12, <2>1, TellsGrow DEF StepLoses
<1> QED BY <1>3, <1>4, <1>7, <1>8, <1>9, <1>10, <1>11, <1>12 DEF Steps, StepServes

-------------------------------------------------------------------------------
(***************************************************************************)
(* The worker of the end that writes.                                      *)
(***************************************************************************)
\* While a connection is up, the worker hears of no other, and of no end.
LEMMA HearsOfIt ==
    ASSUME NEW u, NEW s, Lone(s, u), Alone(s, u), NEW k \in Bevs, Live(s, k), s.phase[k] # "off"
    PROVE  /\ \A kind \in BevKinds : Takes(s, kind) => About(s) = k
           /\ ~Takes(s, "quit") /\ ~Takes(s, "refused")
           /\ Takes(s, "auth") => s.held[s.bw] \in {NoBev, k}
<1>1. \A kind \in BevKinds : Takes(s, kind) => About(s) = k /\ StageOf(s, k) /\ Queued(s, kind, k)
  BY HeadOf DEF Alone
<1>2. ~Takes(s, "quit") /\ ~Takes(s, "refused")
  BY <1>1 DEF BevKinds, StageOf
<1>3. s.held[s.bw] \in {NoBev, k}
  BY DEF Lone, Typed, Reached, Settled, Wrapped, Holds, Alone, Live
<1> QED BY <1>1, <1>2, <1>3

\* The connection stays in its wrapper, and the entry keeps that wrapper.
LEMMA HeldStays ==
    ASSUME NEW u, NEW s, NEW r, Lone(s, u), Alone(s, u), Works(s, r, u),
           NEW k \in Bevs, Live(s, k), s.phase[k] # "off",
           NEW x \in Wrappers(u), s.held[x] = k, x = s.bw \/ Sending(r, x)
    PROVE  r.held[x] = k /\ (x = s.bw => r.bw = s.bw)
<1>1. /\ \A kind \in BevKinds : Takes(s, kind) => About(s) = k
      /\ ~Takes(s, "quit") /\ ~Takes(s, "refused")
      /\ Takes(s, "auth") => s.held[s.bw] \in {NoBev, k}
  BY HearsOfIt
<1>2. k # NoBev /\ s.bw \in Wrappers(u) /\ s.held \in [Wrappers(u) -> Bevs \cup {NoBev}]
  BY ConnectionsAssumption DEF Lone, Typed
<1>3. ASSUME NEW q, NEW ws, NEW ex, NEW hs, NEW gone, Settles(s, r, u, q, ws, ex, hs, gone),
             hs[x] = k, x = s.bw => ws = s.bw
      PROVE  r.held[x] = k /\ (x = s.bw => r.bw = s.bw)
  <2>1. /\ r.held = [w \in Wrappers(u) |-> IF w \in Lost(u, q, ws, ex, hs) THEN NoBev ELSE hs[w]]
        /\ r.inbox = q /\ r.bw = ws
    BY <1>3 DEF Settles
  <2>2. x \notin Lost(u, q, ws, ex, hs)
    BY <1>3, <2>1 DEF Lost, Sending
  <2> QED BY <1>3, <2>1, <2>2
<1>4. ASSUME NEW y \in Wrappers(u) PROVE [s.held EXCEPT ![y] = k][x] = k
  BY <1>2
<1>5. CASE TakesCall(s, r, u)
  <2>1. About(s) = k
    BY <1>1, <1>5 DEF TakesCall, BevKinds
  <2>2. [s.held EXCEPT ![About(s)] = About(s)][x] = k
    BY <1>4, <2>1 DEF Wrappers
  <2> QED BY <1>3, <1>5, <2>2 DEF TakesCall
<1>6. CASE TakesAuth(s, r, u)
  <2>1. About(s) = k /\ Adopts(s, r, u)
    BY <1>1, <1>6 DEF TakesAuth, BevKinds
  <2>2. ASSUME NEW i \in DOMAIN s.extra, s.held[s.extra[i]] = k,
               Settles(s, r, u, Append(Left(s), SendTo(s.extra[i])), s.extra[i],
                       RemoveAt(s.extra, i), s.held, {})
        PROVE  r.held[x] = k /\ (x = s.bw => r.bw = s.bw)
    <3>1. s.extra[i] \in Wrappers(u)
      BY ElementOfSeq, LenProperties DEF Lone, Typed, Wrappers
    <3>2. x = s.bw => s.extra[i] = s.bw
      BY <1>2, <2>2, <3>1 DEF Lone, Wrapped, Holds
    <3> QED BY <1>3, <2>2, <3>2
  <2>3. ASSUME Settles(s, r, u, Append(Left(s), SendTo(s.bw)), s.bw, s.extra,
                       [s.held EXCEPT ![s.bw] = k], {})
        PROVE  r.held[x] = k /\ (x = s.bw => r.bw = s.bw)
    BY <1>2, <1>3, <1>4, <2>3
  <2> QED BY <2>1, <2>2, <2>3 DEF Adopts
<1>7. CASE TakesConnected(s, r, u)
  <2>1. About(s) = k
    BY <1>1, <1>7 DEF TakesConnected, BevKinds
  <2>2. [s.held EXCEPT ![s.bw] = About(s)][x] = k
    BY <1>2, <1>4, <2>1
  <2> QED BY <1>3, <1>7, <2>2 DEF TakesConnected
<1>8. CASE TakesAttempt(s, r, u) \/ TakesSend(s, r, u) \/ TakesPacket(s, r, u)
  BY <1>3, <1>8 DEF TakesAttempt, TakesSend, TakesPacket, SameOwner
<1> QED BY <1>1, <1>5, <1>6, <1>7, <1>8 DEF Works, TakesQuit, TakesRefused

\* What the worker closes had been made, and is not opened again.
LEMMA ClosesMade ==
    ASSUME NEW u, NEW s, NEW r, Lone(s, u), Alone(s, u), Works(s, r, u), NEW j \in Bevs
    PROVE  /\ s.phase[j] = "unused" => r.fd[j] = s.fd[j]
           /\ s.fd[j] \in {"closed", "reclosed"} => r.fd[j] \in {"closed", "reclosed"}
<1>1. s.fd \in [Bevs -> {"none", "open", "closed", "reclosed"}]
  BY DEF Lone, Typed
<1>2. ASSUME NEW c \in Bevs \cup {NoBev}, c = j => s.phase[j] # "unused", r.fd = ClosedAt(s.fd, c)
      PROVE  /\ s.phase[j] = "unused" => r.fd[j] = s.fd[j]
             /\ s.fd[j] \in {"closed", "reclosed"} => r.fd[j] \in {"closed", "reclosed"}
  BY <1>1, <1>2, Closing
<1>3. \A kind \in BevKinds : Takes(s, kind) => About(s) \in Bevs /\ s.phase[About(s)] # "unused"
  BY HeadOf DEF Settled
<1>4. s.sock \in Bevs \cup {NoBev} /\ (s.sock # NoBev => s.phase[s.sock] # "unused")
  BY DEF Lone, Typed, Session
<1>5. CASE TakesQuit(s, r, u)
  <2>1. About(s) \in Bevs /\ s.phase[About(s)] # "unused"
    BY <1>3, <1>5 DEF TakesQuit, BevKinds
  <2>2. r.fd = ClosedAt(s.fd, s.sock) \/ r.fd = ClosedAt(s.fd, About(s))
    BY <1>5 DEF TakesQuit, LetsGo, GivesUp
  <2> QED BY <1>2, <1>4, <2>1, <2>2, ConnectionsAssumption
<1>6. CASE TakesRefused(s, r, u)
  <2>1. About(s) \in Bevs /\ s.phase[About(s)] # "unused"
    BY <1>3, <1>6 DEF TakesRefused, BevKinds
  <2> QED BY <1>2, <1>6, <2>1 DEF TakesRefused
<1>7. CASE TakesAuth(s, r, u)
  <2>1. Takes(s, "auth") /\ Live(s, About(s)) /\ About(s) \in Bevs
    BY <1>7, HeadOf DEF TakesAuth, BevKinds
  <2>2. s.held[s.bw] \in {NoBev, About(s)}
    BY <2>1 DEF Lone, Typed, Reached, Settled, Wrapped, Holds, Alone, Live
  <2> QED BY <1>7, <2>2 DEF TakesAuth
<1>8. CASE \/ TakesCall(s, r, u) \/ TakesAttempt(s, r, u) \/ TakesConnected(s, r, u)
           \/ TakesSend(s, r, u) \/ TakesPacket(s, r, u)
  BY <1>8 DEF TakesCall, TakesAttempt, TakesConnected, TakesSend, TakesPacket
<1> QED BY <1>5, <1>6, <1>7, <1>8 DEF Works

\* What the worker posts after taking the head of its queue.
LEMMA PostsAfter ==
    ASSUME NEW u, NEW s, NEW r, Lone(s, u), Alone(s, u), Works(s, r, u)
    PROVE  \/ r.inbox = Left(s)
           \/ \E w \in Wrappers(u) :
                 /\ r.inbox = Append(Left(s), SendTo(w)) /\ Post(Head(s.inbox).kind) \in Words
                 /\ Takes(s, "newConnection") => w = About(s)
<1>1. s.bw \in Wrappers(u) /\ s.extra \in Seq(Bevs)
  BY DEF Lone, Typed
<1>2. \A kind \in {"newConnection", "connected", "auth", "syncRequest"} :
         Takes(s, kind) => Post(Head(s.inbox).kind) \in Words
  BY DEF Takes, Post, Words
<1>3. CASE TakesCall(s, r, u)
  <2>1. Takes(s, "newConnection") /\ About(s) \in Wrappers(u)
    BY <1>3, HeadOf DEF TakesCall, BevKinds, Wrappers
  <2> QED BY <1>2, <1>3, <2>1 DEF TakesCall, Settles
<1>4. CASE TakesAuth(s, r, u)
  <2>1. Takes(s, "auth") /\ ~Takes(s, "newConnection") /\ Live(s, About(s)) /\ About(s) \in Bevs
    BY <1>4, HeadOf DEF TakesAuth, BevKinds, Takes
  <2>2. s.held[s.bw] \in {NoBev, About(s)}
    BY <2>1 DEF Lone, Typed, Reached, Settled, Wrapped, Holds, Alone, Live
  <2>3. Adopts(s, r, u)
    BY <1>4, <2>2 DEF TakesAuth
  <2>4. \A i \in DOMAIN s.extra : s.extra[i] \in Wrappers(u)
    BY <1>1, ElementOfSeq, LenProperties DEF Wrappers
  <2> QED BY <1>1, <1>2, <2>1, <2>3, <2>4 DEF Adopts, Settles
<1>5. CASE TakesConnected(s, r, u)
  <2>1. Takes(s, "connected") /\ ~Takes(s, "newConnection")
    BY <1>5 DEF TakesConnected, Takes
  <2> QED BY <1>1, <1>2, <1>5, <2>1 DEF TakesConnected, Settles
<1>6. CASE TakesPacket(s, r, u)
  <2>1. ~Takes(s, "newConnection")
    BY <1>6 DEF TakesPacket, Takes, Kinds
  <2> QED BY <1>1, <1>2, <1>6, <2>1 DEF TakesPacket, Settles
<1>7. CASE \/ TakesQuit(s, r, u) \/ TakesAttempt(s, r, u) \/ TakesRefused(s, r, u)
           \/ TakesSend(s, r, u)
  BY <1>7 DEF TakesQuit, LetsGo, GivesUp, TakesAttempt, TakesRefused, TakesSend, Settles
<1> QED BY <1>3, <1>4, <1>5, <1>6, <1>7 DEF Works

\* What the end that writes puts on a connection.
WritesTo(s, t, u, l, m) ==
    /\ m.out \in [Bevs -> Seq(Words)]
    /\ \A k \in Bevs :
         \/ m.out[k] = l.out[k]
         \/ /\ m.out[k] = Append(l.out[k], Head(l.posts))
            /\ s.phase[k] \in {"up", "auth", "read"}
            /\ \E x \in Wrappers(u) : Head(s.inbox) = SendTo(x) /\ s.held[x] = k
    /\ \A k \in Bevs, x \in Wrappers(u) :
         /\ Head(s.inbox) = SendTo(x) /\ s.held[x] = k
         /\ s.phase[k] \in {"up", "auth", "read"} /\ Hears(t.phase, t.freed, k)
         => m.out[k] = Append(l.out[k], Head(l.posts))

\* A send is written to the connection its wrapper holds, if anyone reads it.
LEMMA WritesOnce ==
    ASSUME NEW u, NEW s, NEW t, NEW l, Lone(s, u), s.inbox # <<>>,
           l.out \in [Bevs -> Seq(Words)], Head(l.posts) \in Words, NEW m,
           m.out = Written(l.out, s.inbox, l.posts, s.held, s.phase, t.phase, t.freed)
    PROVE  WritesTo(s, t, u, l, m)
<1>1. Head(s.inbox) \in Events(u)
  BY TailSet DEF Lone, Typed
<1>2. s.held \in [Wrappers(u) -> Bevs \cup {NoBev}] /\ NoBev \notin Bevs
  BY ConnectionsAssumption DEF Lone, Typed
<1>3. \A k \in Bevs : Append(l.out[k], Head(l.posts)) \in Seq(Words)
  BY AppendProperties
<1>4. CASE Head(s.inbox).kind # "send"
  <2>1. m.out = l.out
    BY <1>4 DEF Written
  <2>2. \A x : Head(s.inbox) # SendTo(x)
    BY <1>4 DEF SendTo
  <2> QED BY <2>1, <2>2 DEF WritesTo
<1>5. CASE Head(s.inbox).kind = "send"
  <2>1. PICK x \in Wrappers(u) : Head(s.inbox) = SendTo(x)
    BY <1>1, <1>5, EventShapes
  <2>2. Head(s.inbox).wrapper = x /\ \A y : Head(s.inbox) = SendTo(y) => y = x
    BY <2>1 DEF SendTo
  <2>3. m.out = IF /\ s.held[x] # NoBev /\ s.phase[s.held[x]] \in {"up", "auth", "read"}
                 /\ Hears(t.phase, t.freed, s.held[x])
              THEN [l.out EXCEPT ![s.held[x]] = Append(@, Head(l.posts))]
              ELSE l.out
    BY <1>5, <2>2 DEF Written
  <2> DEFINE k0 == s.held[x]
             w  == Append(l.out[k0], Head(l.posts))
  <2>4. CASE k0 # NoBev /\ s.phase[k0] \in {"up", "auth", "read"} /\ Hears(t.phase, t.freed, k0)
    <3>1. k0 \in Bevs /\ w \in Seq(Words) /\ m.out = [l.out EXCEPT ![k0] = w]
      BY <1>2, <1>3, <2>1, <2>3, <2>4
    <3> HIDE DEF w
    <3>2. /\ m.out \in [Bevs -> Seq(Words)] /\ m.out[k0] = w
          /\ \A k \in Bevs : k # k0 => m.out[k] = l.out[k]
      BY <3>1
    <3> QED BY <2>1, <2>2, <2>4, <3>1, <3>2 DEF w, WritesTo
  <2>5. CASE ~(k0 # NoBev /\ s.phase[k0] \in {"up", "auth", "read"} /\ Hears(t.phase, t.freed, k0))
    <3>1. m.out = l.out
      BY <2>3, <2>5
    <3>2. ASSUME NEW k \in Bevs, NEW y \in Wrappers(u), Head(s.inbox) = SendTo(y), s.held[y] = k,
                 s.phase[k] \in {"up", "auth", "read"}, Hears(t.phase, t.freed, k)
          PROVE  FALSE
      <4>1. y = x /\ k0 = k
        BY <2>2, <3>2
      <4> QED BY <1>2, <2>5, <3>2, <4>1
    <3> QED BY <3>1, <3>2 DEF WritesTo
  <2> QED BY <2>4, <2>5
<1> QED BY <1>4, <1>5

\* The worker of the writing end keeps what is between the two.
LEMMA WorksBetween ==
    ASSUME NEW u, u \notin Bevs, NEW s, NEW r, NEW t, NEW v, NEW c, NEW l, NEW m,
           Lone(s, u), Lone(t, v), Solo(s, t, u, v, c), Between(s, t, l),
           StepWorks(s, r, t, u, l, m)
    PROVE  Between(r, t, m)
<1>1. /\ Alone(s, u) /\ Works(s, r, u) /\ s.inbox # <<>>
      /\ r.phase = s.phase /\ r.dialled = s.dialled
  <2>1. Alone(s, u) /\ Works(s, r, u)
    BY SoloAlone DEF StepWorks
  <2> QED BY <2>1, WorksKeeps DEF Handled, Handles, Turns, Works, SameNet
<1>2. /\ s.inbox \in Seq(Events(u)) /\ Left(s) \in Seq(Events(u))
      /\ s.held \in [Wrappers(u) -> Bevs \cup {NoBev}] /\ s.bw \in Wrappers(u)
      /\ NoBev \notin Bevs /\ t.dialled \subseteq Bevs
  BY <1>1, TailSet, ConnectionsAssumption DEF Lone, Typed, Left
<1>3. /\ l.posts \in Seq(Words) /\ Len(l.posts) = Len(s.inbox)
      /\ Head(l.posts) \in Words
      /\ Tail(l.posts) \in Seq(Words) /\ Len(Tail(l.posts)) = Len(Left(s))
      /\ \A e : Opens(s.inbox, l.posts, e) /\ Head(s.inbox) # e
                   => Opens(Left(s), Tail(l.posts), e)
      /\ \A e : Opens(s.inbox, l.posts, e) /\ Head(s.inbox) = e => Head(l.posts) = "auth"
  BY <1>1, <1>2, OpensTail DEF Between, Left
<1>4. /\ m.posts \in Seq(Words) /\ Len(m.posts) = Len(r.inbox)
      /\ \A e : Opens(Left(s), Tail(l.posts), e) => Opens(r.inbox, m.posts, e)
      /\ Takes(s, "newConnection") /\ SendTo(About(s)) \notin ToSet(Left(s))
         /\ r.inbox # Left(s) => Opens(r.inbox, m.posts, SendTo(About(s)))
  <2>1. m.posts = Posts(l.posts, s.inbox, r.inbox)
    BY DEF StepWorks
  <2>2. CASE r.inbox = Left(s)
    BY <1>3, <2>1, <2>2 DEF Posts, Left
  <2>3. ASSUME NEW w \in Wrappers(u), r.inbox = Append(Left(s), SendTo(w)),
               Post(Head(s.inbox).kind) \in Words, Takes(s, "newConnection") => w = About(s)
        PROVE  /\ m.posts \in Seq(Words) /\ Len(m.posts) = Len(r.inbox)
               /\ \A e : Opens(Left(s), Tail(l.posts), e) => Opens(r.inbox, m.posts, e)
               /\ Takes(s, "newConnection") /\ SendTo(About(s)) \notin ToSet(Left(s))
                  => Opens(r.inbox, m.posts, SendTo(About(s)))
    <3>1. SendTo(w) \in Events(u)
      BY EventShapes
    <3>2. r.inbox # Left(s)
      BY <1>2, <2>3, <3>1, AppendProperties, LenProperties
    <3>3. m.posts = Append(Tail(l.posts), Post(Head(s.inbox).kind))
      BY <2>1, <3>2 DEF Posts, Left
    <3>4. Takes(s, "newConnection") => Post(Head(s.inbox).kind) = "auth"
      BY DEF Takes, Post
    <3> DEFINE q == Left(s)
               p == Tail(l.posts)
               w1 == Post(Head(s.inbox).kind)
    <3>5. /\ q \in Seq(Events(u)) /\ p \in Seq(Words) /\ Len(p) = Len(q) /\ w1 \in Words
          /\ r.inbox = Append(q, SendTo(w)) /\ m.posts = Append(p, w1)
      BY <1>2, <1>3, <2>3, <3>3
    <3> HIDE DEF q, p, w1
    <3>6. /\ m.posts \in Seq(Words) /\ Len(m.posts) = Len(r.inbox)
          /\ \A e : Opens(q, p, e) => Opens(r.inbox, m.posts, e)
      BY <3>1, <3>5, OpensAppend
    <3>7. SendTo(w) \notin ToSet(q) /\ w1 = "auth" => Opens(r.inbox, m.posts, SendTo(w))
      BY <3>1, <3>5, OpensAppend
    <3> QED BY <2>3, <3>4, <3>6, <3>7 DEF q, p, w1
  <2> QED BY <1>1, <2>2, <2>3, PostsAfter
<1>5. WritesTo(s, t, u, l, m)
  <2>1. /\ m.out = Written(l.out, s.inbox, l.posts, s.held, s.phase, t.phase, t.freed)
        /\ l.out \in [Bevs -> Seq(Words)]
    BY DEF StepWorks, Between
  <2>2. s.inbox # <<>> /\ Head(l.posts) \in Words
    BY <1>1, <1>3
  <2> QED BY <2>1, <2>2, WritesOnce
<1>6. \A k \in Bevs : /\ l.out[k] \in Seq(Words) /\ Append(l.out[k], Head(l.posts)) # <<>>
                      /\ l.out[k] = <<>> => Head(Append(l.out[k], Head(l.posts))) = Head(l.posts)
                      /\ l.out[k] # <<>> =>
                            Head(Append(l.out[k], Head(l.posts))) = Head(l.out[k])
  <2>1. ASSUME NEW S, NEW q \in Seq(S), NEW e \in S
        PROVE  /\ Append(q, e) # <<>> /\ (q = <<>> => Head(Append(q, e)) = e)
               /\ q # <<>> => Head(Append(q, e)) = Head(q)
    <3>1. Append(q, e) \in Seq(S) /\ Len(Append(q, e)) = Len(q) + 1 /\ Len(q) \in Nat
      BY AppendProperties, LenProperties
    <3>a. Len(<<>>) = 0
      BY EmptySeq
    <3>b. Append(q, e) # <<>>
      BY <3>a, <3>1
    <3>2. Append(q, e) # <<>> /\ Head(Append(q, e)) = Append(q, e)[1]
      BY <3>1, <3>b
    <3>3. q # <<>> => Head(q) = q[1] /\ 1 \in 1..Len(q)
      BY <3>1, EmptySeq, HeadTailProperties
    <3>4. q # <<>> => Append(q, e)[1] = q[1]
      BY <3>3, AppendProperties
    <3>5. q = <<>> => Append(q, e)[1] = e
      BY <3>1, EmptySeq, AppendProperties
    <3> QED BY <3>2, <3>3, <3>4, <3>5
  <2> QED BY <1>3, <2>1 DEF Between
<1>7. \A k \in Bevs : s.phase[k] = "unused" => r.fd[k] = "none" /\ r.phase[k] = "unused"
  BY <1>1, ClosesMade DEF Between
<1>8. \A k \in Bevs : m.out[k] # <<>> \/ t.phase[k] = "read" => Settled(r, k)
  BY <1>1, <1>5 DEF WritesTo, Between, Settled
<1>9. \A k \in Bevs : k \in t.dialled => k \notin s.dialled
  BY DEF Solo
<1>10. ASSUME NEW k \in t.dialled, m.out[k] # <<>>, Unread(t, k) PROVE Head(m.out[k]) = "auth"
  <2>1. CASE l.out[k] # <<>>
    <3>1. Head(l.out[k]) = "auth"
      BY <1>10, <2>1 DEF Between
    <3> QED BY <1>2, <1>5, <1>6, <2>1, <3>1 DEF WritesTo
  <2>2. CASE l.out[k] = <<>>
    <3>1. /\ k \in Bevs /\ m.out[k] = Append(l.out[k], Head(l.posts))
          /\ s.phase[k] \in {"up", "auth", "read"}
      BY <1>2, <1>5, <1>10, <2>2 DEF WritesTo
    <3>2. PICK x \in Wrappers(u) : Head(s.inbox) = SendTo(x) /\ s.held[x] = k
      BY <1>2, <1>5, <1>10, <2>2 DEF WritesTo
    <3>3. k \notin s.dialled
      BY <1>9, <3>1
    <3>4. x = k
      BY <1>2, <3>1, <3>2, <3>3 DEF Lone, Wrapped, Holds
    <3>5. ~Queued(s, "newConnection", k) /\ ~Queued(s, "connected", k)
      BY <1>2, <3>1, <3>2, <3>3, <3>4 DEF Lone, Wrapped, Staged, StageOf
    <3>6. Greeting(s, l.posts, k)
      BY <1>10, <2>2, <3>1 DEF Between, Greets, Settled
    <3>7. Head(l.posts) = "auth"
      BY <1>3, <3>2, <3>3, <3>4, <3>5, <3>6 DEF Greeting
    <3> QED BY <1>6, <2>2, <3>1, <3>7
  <2> QED BY <2>1, <2>2
<1>11. ASSUME NEW k \in Bevs, Settled(r, k), r.phase[k] # "off", Unread(t, k), m.out[k] = <<>>
       PROVE  Greeting(r, m.posts, k)
  <2>1. /\ Settled(s, k) /\ s.phase[k] # "off" /\ l.out[k] = <<>>
        /\ s.phase[k] \in {"up", "auth", "read"}
    <3>1. s.phase \in [Bevs -> {"unused", "dialling", "up", "auth", "read", "off"}]
      BY DEF Lone, Typed
    <3> QED BY <1>1, <1>5, <1>6, <1>11, <3>1 DEF WritesTo, Settled
  <2>2. Live(s, k)
    BY <2>1 DEF Live, Settled, Lone, Staged, StageOf
  <2>3. Hears(t.phase, t.freed, k)
    BY <1>11 DEF Unread, Hears, Lone, Staged, StageOf
  <2>4. \A x \in Wrappers(u) : s.held[x] = k => Head(s.inbox) # SendTo(x)
    BY <1>5, <1>6, <1>11, <2>1, <2>3 DEF WritesTo
  <2>5. PICK w \in Wrappers(u), f \in SUBSET Bevs : Handles(s, r, u, w, f)
    BY <1>1, WorksKeeps DEF Handled
  <2>6. /\ \A kind \in BevKinds : Queued(s, kind, k) =>
             Queued(r, kind, k) \/ (Takes(s, kind) /\ About(s) = k)
        /\ \A x \in Wrappers(u) : Sending(s, x) => Sending(r, x) \/ Head(s.inbox) = SendTo(x)
    BY <2>5, QueuedAfter DEF Handles
  <2>7. CASE Queued(s, "newConnection", k) /\ ~Queued(r, "newConnection", k)
    <3>1. Takes(s, "newConnection") /\ About(s) = k
      BY <2>6, <2>7 DEF BevKinds
    <3>2. TakesCall(s, r, u)
      BY <1>1, <3>1 DEF Works, Takes, TakesAuth, TakesQuit, TakesAttempt, TakesConnected,
                        TakesRefused, TakesSend, TakesPacket, Kinds
    <3>3. /\ r.inbox = Append(Left(s), SendTo(k)) /\ k \in Wrappers(u)
          /\ r.held = [x \in Wrappers(u) |->
                         IF x \in Lost(u, r.inbox, s.bw, Append(s.extra, k), [s.held EXCEPT ![k] = k])
                         THEN NoBev ELSE [s.held EXCEPT ![k] = k][x]]
      BY <3>1, <3>2 DEF TakesCall, Settles, Wrappers
    <3>4. SendTo(k) \in Events(u) /\ SendTo(k) \in ToSet(r.inbox) /\ r.inbox # Left(s)
      <4>1. SendTo(k) \in Events(u)
        BY <3>3, EventShapes
      <4> QED BY <1>2, <3>3, <4>1, AppendSet, AppendProperties, LenProperties
    <3>5. r.held[k] = k
      BY <1>2, <3>3, <3>4 DEF Lost
    <3>6. SendTo(k) \notin ToSet(Left(s)) /\ k \notin s.dialled
      <4>1. ~Sending(s, k) /\ k \notin s.dialled
        BY <2>7 DEF Lone, Wrapped, Unheard, Staged, StageOf
      <4> QED BY <1>1, <1>2, <4>1, TailSet DEF Sending, Left
    <3>7. Opens(r.inbox, m.posts, SendTo(k))
      BY <1>4, <3>1, <3>4, <3>6
    <3> QED BY <1>1, <3>5, <3>6, <3>7 DEF Greeting
  <2>8. CASE Queued(s, "connected", k) /\ ~Queued(r, "connected", k)
    <3>1. Takes(s, "connected") /\ About(s) = k
      BY <2>6, <2>8 DEF BevKinds
    <3>2. TakesConnected(s, r, u)
      BY <1>1, <3>1 DEF Works, Takes, TakesAuth, TakesQuit, TakesAttempt, TakesCall,
                        TakesRefused, TakesSend, TakesPacket, Kinds
    <3>3. /\ r.inbox = Append(Left(s), SendTo(s.bw)) /\ r.bw = s.bw
          /\ r.held = [x \in Wrappers(u) |->
                         IF x \in Lost(u, r.inbox, s.bw, s.extra, [s.held EXCEPT ![s.bw] = k])
                         THEN NoBev ELSE [s.held EXCEPT ![s.bw] = k][x]]
      BY <3>1, <3>2 DEF TakesConnected, Settles
    <3>4. r.held[r.bw] = k
      BY <1>2, <3>3 DEF Lost
    <3>5. Sending(r, r.bw)
      <4>1. SendTo(s.bw) \in Events(u)
        BY <1>2, EventShapes
      <4> QED BY <1>2, <3>3, <4>1, AppendSet DEF Sending
    <3>6. k \in s.dialled
      BY <2>8 DEF Lone, Staged, StageOf
    <3> QED BY <1>1, <3>4, <3>5, <3>6 DEF Greeting
  <2>9. CASE k \notin s.dialled /\ s.held[k] = k /\ Opens(s.inbox, l.posts, SendTo(k))
    <3>1. k \in Wrappers(u) /\ Head(s.inbox) # SendTo(k)
      BY <2>4, <2>9 DEF Wrappers
    <3>2. Opens(r.inbox, m.posts, SendTo(k))
      BY <1>3, <1>4, <2>9, <3>1
    <3>3. Sending(r, k)
      BY <3>2 DEF Opens, Sending, ToSet
    <3>4. r.held[k] = k
      BY <1>1, <2>1, <2>2, <2>9, <3>1, <3>3, HeldStays
    <3> QED BY <1>1, <2>9, <3>2, <3>4 DEF Greeting
  <2>10. CASE k \in s.dialled /\ s.held[s.bw] = k /\ Sending(s, s.bw)
    <3>1. Sending(r, s.bw)
      BY <1>2, <2>4, <2>6, <2>10
    <3>2. r.bw = s.bw /\ r.held[s.bw] = k
      BY <1>1, <1>2, <2>1, <2>2, <2>10, HeldStays
    <3> QED BY <1>1, <2>10, <3>1, <3>2 DEF Greeting
  <2>11. Greeting(s, l.posts, k)
    BY <1>11, <2>1 DEF Between, Greets
  <2> QED BY <2>7, <2>8, <2>9, <2>10, <2>11 DEF Greeting
<1>12. Uncut(r, t, m)
  <2>1. m.cuts = l.cuts
    BY DEF StepWorks, SameCalls
  <2>2. \A k \in Bevs :
           s.fd[k] \in {"closed", "reclosed"} => r.fd[k] \in {"closed", "reclosed"}
    BY <1>1, ClosesMade
  <2> QED BY <1>2, <2>1, <2>2 DEF Between, Uncut
<1> QED BY <1>1, <1>4, <1>5, <1>7, <1>8, <1>10, <1>11, <1>12
        DEF Between, Greets, StepWorks, SameCalls, WritesTo

-------------------------------------------------------------------------------
(***************************************************************************)
(* A step of the end that reads.                                           *)
(***************************************************************************)
\* t becomes r, s writes; what was between them, l, becomes m.
Reads(s, t, r, l, m) ==
    /\ m.posts = l.posts /\ m.out \in [Bevs -> Seq(Words)]
    /\ m.cuts \in Nat /\ m.cuts >= l.cuts
    /\ \A k \in Bevs : /\ Unread(r, k) => Unread(t, k) /\ m.out[k] = l.out[k]
                       /\ m.out[k] # <<>> => l.out[k] # <<>>
                       /\ r.phase[k] = "read" => t.phase[k] = "read" \/ l.out[k] # <<>>
    /\ r.dialled \subseteq Bevs
    /\ \A k \in r.dialled : /\ k \in t.dialled \/ (s.phase[k] = "unused" /\ r.phase[k] # "off")
                            /\ m.cuts = 0 /\ r.phase[k] = "off" =>
                                 t.phase[k] = "off" \/ s.fd[k] \in {"closed", "reclosed"}

\* Reading keeps what is between the two.
LEMMA ReadsBetween ==
    ASSUME NEW s, NEW t, NEW r, NEW l, NEW m, Between(s, t, l), Reads(s, t, r, l, m)
    PROVE  Between(s, r, m)
<1>1. \A k \in Bevs : m.out[k] # <<>> \/ r.phase[k] = "read" => Settled(s, k)
  BY DEF Between, Reads
<1>2. ASSUME NEW k \in r.dialled, m.out[k] # <<>>, Unread(r, k) PROVE Head(m.out[k]) = "auth"
  <2>1. k \in Bevs /\ Unread(t, k) /\ m.out[k] = l.out[k]
    BY <1>2 DEF Reads
  <2>2. k \in t.dialled
    BY <1>2, <2>1 DEF Reads, Between, Settled
  <2> QED BY <1>2, <2>1, <2>2 DEF Between
<1>3. Greets(s, r, m)
  BY DEF Between, Reads, Greets
<1>4. Uncut(s, r, m)
  <2>1. ASSUME m.cuts = 0, NEW k \in r.dialled, r.phase[k] = "off"
        PROVE  s.fd[k] \in {"closed", "reclosed"}
    <3>1. l.cuts = 0
      BY <2>1 DEF Reads, Between
    <3> QED BY <2>1, <3>1 DEF Reads, Between, Uncut
  <2> QED BY <2>1 DEF Uncut
<1> QED BY <1>1, <1>2, <1>3, <1>4 DEF Between, Reads

\* Every step of an end is a step of a reader.
LEMMA StepsRead ==
    ASSUME NEW u, NEW s, NEW v, v \notin Bevs, NEW t, NEW r, NEW n, NEW o, NEW l, NEW m,
           Lone(t, v), Solo(t, s, v, u, n.called), Between(s, t, l),
           Steps(t, r, s, v, u, n, o),
           l.out = n.into, l.cuts = n.cuts, m.out = o.into, m.cuts = o.cuts, m.posts = l.posts
    PROVE  Reads(s, t, r, l, m)
<1>1. /\ t.phase \in [Bevs -> {"unused", "dialling", "up", "auth", "read", "off"}]
      /\ t.dialled \subseteq Bevs
  BY DEF Lone, Typed
<1>2. l.out \in [Bevs -> Seq(Words)] /\ l.cuts \in Nat
  BY DEF Between
<1>3. l.cuts >= l.cuts /\ l.cuts + 1 \in Nat /\ l.cuts + 1 >= l.cuts /\ l.cuts + 1 # 0
  BY <1>2
\* What is read, or lost, on one connection, and what is not on any other.
<1>4. ASSUME r.phase = t.phase, r.dialled = t.dialled, m.out = l.out, m.cuts = l.cuts
      PROVE  Reads(s, t, r, l, m)
  <2>1. \A k : Unread(r, k) <=> Unread(t, k)
    BY <1>4 DEF Unread
  <2>2. /\ \A k \in Bevs : m.out[k] = l.out[k] /\ r.phase[k] = t.phase[k]
        /\ m.out \in [Bevs -> Seq(Words)] /\ m.cuts \in Nat /\ m.cuts >= l.cuts
    BY <1>2, <1>3, <1>4
  <2>3. \A k \in r.dialled : k \in Bevs /\ k \in t.dialled
    BY <1>1, <1>4
  <2> QED BY <2>1, <2>2, <2>3 DEF Reads
<1>5. ASSUME NEW k \in Bevs, NEW p, NEW kind, Tells(t, r, v, k, p, kind),
             m.out \in [Bevs -> Seq(Words)], \A j \in Bevs : j # k => m.out[j] = l.out[j],
             m.out[k] = l.out[k] \/ p \in {"read", "off"}, m.out[k] # <<>> => l.out[k] # <<>>,
             p = "read" => t.phase[k] = "read" \/ l.out[k] # <<>>,
             p = "off" /\ m.cuts = 0 /\ k \in t.dialled =>
                t.phase[k] = "off" \/ s.fd[k] \in {"closed", "reclosed"},
             m.cuts \in Nat, m.cuts >= l.cuts
      PROVE  Reads(s, t, r, l, m)
  <2>1. /\ Moves(t.phase[k], p, kind) /\ r.phase = [t.phase EXCEPT ![k] = p]
        /\ r.dialled = t.dialled
    BY <1>5 DEF Tells
  <2>2. r.phase[k] = p /\ \A j \in Bevs : j # k => r.phase[j] = t.phase[j]
    BY <1>1, <2>1
  <2>3. Unread(r, k) => Unread(t, k)
    BY <2>1, <2>2 DEF Moves, Unread
  <2>4. \A j \in Bevs : j # k => (Unread(r, j) <=> Unread(t, j))
    BY <2>2 DEF Unread
  <2>5. Unread(r, k) => m.out[k] = l.out[k]
    BY <1>5, <2>2 DEF Unread
  <2> QED BY <1>1, <1>5, <2>1, <2>2, <2>3, <2>4, <2>5 DEF Reads
<1>6. CASE StepWorks(t, r, s, v, n, o)
  <2>1. r.phase = t.phase /\ r.dialled = t.dialled
    BY <1>6 DEF StepWorks, Works, SameNet
  <2> QED BY <1>4, <1>6, <2>1 DEF StepWorks, SameCalls
<1>7. CASE StepAsks(t, r, s, v, u, n, o) \/ StepWrites(t, r, n, o)
  <2>1. r.phase = t.phase /\ r.dialled = t.dialled
    BY <1>7 DEF StepAsks, StepWrites, IsGiven, SameNet
  <2> QED BY <1>4, <1>7, <2>1 DEF StepAsks, StepWrites, SameCalls, SameLines
<1>8. CASE StepServes(t, r, s, v, n, o)
  <2>1. m.out = l.out /\ m.cuts = l.cuts
    BY <1>8 DEF StepServes, SameLines, SameCalls
  <2>2. CASE Enables(t, r)
    <3>1. PICK k \in Bevs : t.phase[k] = "up" /\ r.phase = [t.phase EXCEPT ![k] = "auth"]
      <4> DEFINE c == Head(t.wire).bev
      <4>1. c \in Bevs /\ t.phase[c] = "up" /\ r.phase = [t.phase EXCEPT ![c] = "auth"]
        BY <2>2, EnablesKeeps
      <4> QED BY <4>1
    <3>2. r.phase[k] = "auth" /\ \A j \in Bevs : j # k => r.phase[j] = t.phase[j]
      BY <1>1, <3>1
    <3>3. r.dialled = t.dialled
      BY <2>2 DEF Enables
    <3> QED BY <1>1, <1>2, <1>3, <2>1, <3>1, <3>2, <3>3 DEF Reads, Unread
  <2>3. CASE Dials(t, r, v)
    <3>1. PICK k \in Bevs : /\ t.phase[k] = "unused"
                            /\ r.phase = [t.phase EXCEPT ![k] = "dialling"]
                            /\ r.dialled = t.dialled \cup {k}
      BY <2>3 DEF Dials
    <3>2. r.phase[k] = "dialling" /\ \A j \in Bevs : j # k => r.phase[j] = t.phase[j]
      BY <1>1, <3>1
    <3>3. s.phase[k] = "unused"
      BY <1>8, <2>3, <3>1, <3>2 DEF StepServes, Enables, Dials
    <3> QED BY <1>1, <1>2, <1>3, <2>1, <3>1, <3>2, <3>3 DEF Reads, Unread
  <2> QED BY <1>8, <2>2, <2>3 DEF StepServes
<1>9. ASSUME NEW k \in Bevs, StepDials(t, r, n, o, k) PROVE Reads(s, t, r, l, m)
  <2>1. PICK p \in {"up", "off"}, kind \in BevKinds : Tells(t, r, v, k, p, kind)
    BY <1>9, CallbackTells DEF StepDials
  <2>2. r.phase[k] = p
    BY <1>1, <2>1 DEF Tells
  <2>3. m.out = l.out /\ (m.cuts = l.cuts + 1 \/ (m.cuts = l.cuts /\ r.phase[k] = "up"))
    BY <1>9 DEF StepDials, SameLines
  <2> QED BY <1>2, <1>3, <1>5, <2>1, <2>2, <2>3
<1>10. ASSUME NEW k \in Bevs, StepAccepts(t, r, s, v, n, o, k) PROVE Reads(s, t, r, l, m)
  <2>1. Tells(t, r, v, k, "auth", "newConnection")
    BY <1>10, CallbackTells DEF StepAccepts
  <2>2. m.out = l.out /\ m.cuts = l.cuts
    BY <1>10 DEF StepAccepts, SameLines
  <2> QED BY <1>2, <1>3, <1>5, <2>1, <2>2
<1>11. ASSUME NEW k \in Bevs, NEW w \in Seq(Words), w # <<>> => l.out[k] # <<>>,
              m.out = [l.out EXCEPT ![k] = w]
       PROVE  /\ m.out \in [Bevs -> Seq(Words)] /\ (m.out[k] # <<>> => l.out[k] # <<>>)
              /\ \A j \in Bevs : j # k => m.out[j] = l.out[j]
  BY <1>2, <1>11
<1>12. ASSUME NEW k \in Bevs, StepReads(t, r, n, o, k) PROVE Reads(s, t, r, l, m)
  <2>1. /\ l.out[k] # <<>> /\ m.out = [l.out EXCEPT ![k] = Tail(l.out[k])] /\ m.cuts = l.cuts
    BY <1>12 DEF StepReads, SameCalls, Rest
  <2>2. Tail(l.out[k]) \in Seq(Words)
    BY <1>2, <2>1, HeadTailProperties
  <2>3. /\ m.out \in [Bevs -> Seq(Words)] /\ (m.out[k] # <<>> => l.out[k] # <<>>)
        /\ \A j \in Bevs : j # k => m.out[j] = l.out[j]
    BY <1>11, <2>1, <2>2
  <2>4. CASE r = t /\ t.phase[k] = "read"
    BY <1>1, <1>2, <1>3, <2>1, <2>3, <2>4 DEF Reads, Unread
  <2>5. CASE HearsAuth(t, r, k) \/ HearsPacket(t, r, k)
    <3>1. PICK kind : Tells(t, r, v, k, "read", kind)
      BY <2>5, CallbackTells
    <3> QED BY <1>2, <1>3, <1>5, <2>1, <2>3, <3>1
  <2> QED BY <1>12, <2>4, <2>5 DEF StepReads
<1>13. ASSUME NEW k \in Bevs, StepLoses(t, r, s, n, o, k) PROVE Reads(s, t, r, l, m)
  <2>1. Tells(t, r, v, k, "off", "quit")
    BY <1>13, CallbackTells DEF StepLoses
  <2>2. m.out = [l.out EXCEPT ![k] = <<>>]
    BY <1>13 DEF StepLoses
  <2>0. <<>> \in Seq(Words)
    BY EmptySeq
  <2>3. /\ m.out \in [Bevs -> Seq(Words)] /\ (m.out[k] # <<>> => l.out[k] # <<>>)
        /\ \A j \in Bevs : j # k => m.out[j] = l.out[j]
    BY <1>2, <2>0, <2>2
  <2>4. \/ s.fd[k] \in {"closed", "reclosed"} /\ m.cuts = l.cuts
        \/ t.phase[k] = "auth" /\ l.out[k] # <<>> /\ Head(l.out[k]) # "auth" /\ m.cuts = l.cuts
        \/ m.cuts = l.cuts + 1
    BY <1>13 DEF StepLoses
  <2>5. k \in t.dialled /\ t.phase[k] = "auth" /\ l.out[k] # <<>> => Head(l.out[k]) = "auth"
    BY DEF Between, Unread
  <2>6. m.cuts \in Nat /\ m.cuts >= l.cuts
    BY <1>2, <1>3, <2>4
  <2>7. m.cuts = 0 /\ k \in t.dialled => s.fd[k] \in {"closed", "reclosed"}
    BY <1>3, <2>4, <2>5
  <2> QED BY <1>5, <2>1, <2>3, <2>6, <2>7
<1> QED BY <1>6, <1>7, <1>8, <1>9, <1>10, <1>12, <1>13 DEF Steps

-------------------------------------------------------------------------------
(***************************************************************************)
(* What is on its way, in every state.                                     *)
(***************************************************************************)
\* A step of one end keeps what is between the two, both ways: l and m are
\* the connections seen from that end, n and o from the other.
LEMMA BetweenStays ==
    ASSUME NEW u, u \notin Bevs, NEW s, NEW r, NEW v, v \notin Bevs, NEW t,
           NEW l, NEW m, NEW n, NEW o,
           Lone(s, u), Lone(t, v), Solo(s, t, u, v, l.called), Steps(s, r, t, u, v, l, m),
           Between(s, t, l), Between(t, s, n),
           n.out = l.into, n.cuts = l.cuts, o.out = m.into, o.cuts = m.cuts, o.posts = n.posts
    PROVE  Between(r, t, m) /\ Between(t, r, o)
<1>1. Between(t, r, o)
  <2>1. Reads(t, s, r, n, o)
    BY StepsRead
  <2> QED BY <2>1, ReadsBetween
<1>2. CASE StepWorks(s, r, t, u, l, m)
  BY <1>1, <1>2, WorksBetween
<1>3. CASE ~StepWorks(s, r, t, u, l, m)
  <2>1. t.dialled \subseteq Bevs /\ l.cuts \in Nat
    BY DEF Lone, Typed, Between
  <2>2. Grows(s, r, u, l, m)
    BY <1>3, <2>1, StepsGrow
  <2>3. Between(r, t, m)
    BY <2>1, <2>2, GrowsBetween
  <2> QED BY <1>1, <2>3
<1> QED BY <1>2, <1>3

Sound ==
    /\ Together
    /\ Between(AliceNow, BobNow, AliceLink)
    /\ Between(BobNow, AliceNow, BobLink)

\* Nothing is on its way between two processes that have just been started.
LEMMA SoundInitially == Init => Sound
<1> SUFFICES ASSUME Init PROVE Sound
  OBVIOUS
<1>1. Together
  BY TogetherInitially
<1>2. /\ AliceNow.inbox = <<>> /\ BobNow.inbox = <<>>
      /\ AliceNow.dialled = {} /\ BobNow.dialled = {}
      /\ \A k \in Bevs : /\ AliceNow.phase[k] = "unused" /\ AliceNow.fd[k] = "none"
                         /\ BobNow.phase[k] = "unused" /\ BobNow.fd[k] = "none"
  BY AliceFields, BobFields DEF Init, A!Init, B!Init
<1>3. /\ AliceLink.posts = <<>> /\ AliceLink.out = [k \in Bevs |-> <<>>] /\ AliceLink.cuts = 0
      /\ BobLink.posts = <<>> /\ BobLink.out = [k \in Bevs |-> <<>>] /\ BobLink.cuts = 0
  BY DEF Init, AliceLink, BobLink
<1>4. ASSUME NEW s, NEW t, NEW l, s.inbox = <<>>, t.dialled = {},
             \A k \in Bevs : /\ s.phase[k] = "unused" /\ s.fd[k] = "none"
                             /\ t.phase[k] = "unused",
             l.posts = <<>>, l.out = [k \in Bevs |-> <<>>], l.cuts = 0
      PROVE  Between(s, t, l)
  <2>1. <<>> \in Seq(Words)
    BY EmptySeq
  <2>2. \A k \in Bevs : l.out[k] = <<>> /\ ~Settled(s, k)
    BY <1>4 DEF Settled
  <2>3. Greets(s, t, l) /\ Uncut(s, t, l)
    BY <1>4, <2>2 DEF Greets, Uncut
  <2> QED BY <1>4, <2>1, <2>2, <2>3 DEF Between
<1> QED BY <1>1, <1>2, <1>3, <1>4 DEF Sound

\* The two links have their ends swapped.
LEMMA LinkFields ==
    /\ AliceLink.posts = aPosts /\ AliceLink.out = toBob /\ AliceLink.into = toAlice
    /\ AliceLink.called = called /\ AliceLink.cuts = cuts
    /\ BobLink.posts = bPosts /\ BobLink.out = toAlice /\ BobLink.into = toBob
    /\ BobLink.called = called /\ BobLink.cuts = cuts
    /\ AliceLink'.posts = aPosts' /\ AliceLink'.out = toBob' /\ AliceLink'.into = toAlice'
    /\ AliceLink'.called = called' /\ AliceLink'.cuts = cuts'
    /\ BobLink'.posts = bPosts' /\ BobLink'.out = toAlice' /\ BobLink'.into = toBob'
    /\ BobLink'.called = called' /\ BobLink'.cuts = cuts'
BY DEF AliceLink, BobLink

\* The steps of either process, and of neither.
LEMMA SoundStays == Sound /\ ~Overlap /\ [Next]_vars => Sound'
<1>0. Alice \notin Bevs /\ Bob \notin Bevs
  BY ProcessesAssumption
<1>1. ASSUME Sound, ~Overlap, AliceActs PROVE Sound'
  <2>1. /\ Together /\ Together' /\ BobNow' = BobNow
        /\ Steps(AliceNow, AliceNow', BobNow, Bob, Alice, AliceLink, AliceLink')
    BY <1>1, TogetherAfterAlice DEF Sound
  <2>2. bPosts' = bPosts
    BY <1>1 DEF AliceActs, AliceWorks, AliceServes, AliceHearsName, AliceWrites, AliceDials,
                AliceAccepts, AliceReads, AliceLoses, bob
  <2>3. /\ Lone(AliceNow, Bob) /\ Lone(BobNow, Alice)
        /\ Solo(AliceNow, BobNow, Bob, Alice, AliceLink.called)
        /\ Between(AliceNow, BobNow, AliceLink) /\ Between(BobNow, AliceNow, BobLink)
    BY <1>1, LinkFields DEF Sound, Together
  <2>4. /\ BobLink.out = AliceLink.into /\ BobLink.cuts = AliceLink.cuts
        /\ BobLink'.out = AliceLink'.into /\ BobLink'.cuts = AliceLink'.cuts
        /\ BobLink'.posts = BobLink.posts
    BY <2>2, LinkFields
  <2>5. /\ Between(AliceNow', BobNow, AliceLink') /\ Between(BobNow, AliceNow', BobLink')
    BY <1>0, <2>1, <2>3, <2>4, BetweenStays
  <2> QED BY <2>1, <2>5 DEF Sound
<1>2. ASSUME Sound, ~Overlap, BobActs PROVE Sound'
  <2>1. /\ Together /\ Together' /\ AliceNow' = AliceNow
        /\ Steps(BobNow, BobNow', AliceNow, Alice, Bob, BobLink, BobLink')
    BY <1>2, TogetherAfterBob DEF Sound
  <2>2. aPosts' = aPosts
    BY <1>2 DEF BobActs, BobWorks, BobServes, BobHearsName, BobWrites, BobDials,
                BobAccepts, BobReads, BobLoses, alice
  <2>3. /\ Lone(AliceNow, Bob) /\ Lone(BobNow, Alice)
        /\ Solo(BobNow, AliceNow, Alice, Bob, BobLink.called)
        /\ Between(AliceNow, BobNow, AliceLink) /\ Between(BobNow, AliceNow, BobLink)
    BY <1>2, LinkFields, SoloTurned DEF Sound, Together
  <2>4. /\ AliceLink.out = BobLink.into /\ AliceLink.cuts = BobLink.cuts
        /\ AliceLink'.out = BobLink'.into /\ AliceLink'.cuts = BobLink'.cuts
        /\ AliceLink'.posts = AliceLink.posts
    BY <2>2, LinkFields
  <2>5. /\ Between(BobNow', AliceNow, BobLink') /\ Between(AliceNow, BobNow', AliceLink')
    BY <1>0, <2>1, <2>3, <2>4, BetweenStays
  <2> QED BY <2>1, <2>5 DEF Sound
<1>3. ASSUME Sound, ~Overlap, UNCHANGED vars PROVE Sound'
  <2>1. Together'
    BY <1>3, TogetherStays DEF Sound
  <2>2. AliceNow' = AliceNow /\ BobNow' = BobNow /\ AliceLink' = AliceLink /\ BobLink' = BobLink
    BY <1>3 DEF vars, alice, bob, line, counts, AliceNow, BobNow, AliceLink, BobLink
  <2> QED BY <1>3, <2>1, <2>2 DEF Sound
<1> QED BY <1>1, <1>2, <1>3, NextIsOneOfTheirs

-------------------------------------------------------------------------------
(***************************************************************************)
(* The two agree.                                                          *)
(***************************************************************************)
\* Nothing is on its way, seen from the end s.
Resting(s, t, l) ==
    /\ s.inbox = <<>> /\ s.wire = <<>>
    /\ \A k \in Bevs : s.phase[k] # "dialling" /\ Quiet(k, s.phase, s.freed, l.into, t.fd)

\* A resting process that has not given up a connection has it in use.
LEMMA RestsInUse ==
    ASSUME NEW u, NEW s, NEW t, NEW l, Lone(s, u), Resting(s, t, l), NEW k \in Bevs
    PROVE  /\ \A kind : ~Queued(s, kind, k)
           /\ s.phase[k] = "off" => k \in s.freed
           /\ k \in s.freed => s.phase[k] = "off"
           /\ s.phase[k] # "up"
<1>1. /\ \A kind : ~Queued(s, kind, k)
      /\ \A w : ~Sending(s, w)
      /\ ~OnWire(s, Enable(k))
  BY DEF Resting, Queued, Sending, OnWire, ToSet
<1>2. StageOf(s, k)
  BY DEF Lone, Staged
<1>3. KeptOf(s, u, k) /\ k # NoBev
  BY ConnectionsAssumption DEF Lone, Kept
<1>4. \A w \in Wrappers(u) : s.held[w] = k => Owned(s, w)
  BY <1>1, <1>3 DEF Lone, Wrapped, Holds
<1> QED BY <1>1, <1>2, <1>3, <1>4 DEF StageOf, KeptOf

\* What one end is connected over, the other is connected over too.
LEMMA RestsConnected ==
    ASSUME NEW u, NEW s, NEW v, NEW t, NEW l, NEW n,
           Lone(s, u), Lone(t, v), Between(s, t, l), Between(t, s, n),
           n.out = l.into, n.into = l.out, Resting(s, t, l), Resting(t, s, n),
           l.cuts = 0 \/ \A k \in t.dialled \cap t.freed : t.fd[k] # "open",
           s.sock # NoBev
    PROVE  t.sock = s.sock
<1> DEFINE k == s.sock
<1>1. /\ k \in Bevs /\ s.held[s.bw] = k /\ s.fd[k] = "open"
      /\ s.phase[k] \in {"read", "off"} /\ s.bw \in Wrappers(u)
  BY DEF Lone, Session, Typed
<1> HIDE DEF k
<1>2. k \notin s.freed
  BY <1>1, ConnectionsAssumption DEF Lone, Wrapped, Holds
<1>3. s.phase[k] = "read"
  BY <1>1, <1>2, RestsInUse
<1>4. /\ n.out[k] = <<>> /\ t.fd[k] \notin {"closed", "reclosed"}
  BY <1>1, <1>2, <1>3 DEF Resting, Quiet
<1>5. Settled(t, k)
  BY <1>1, <1>3 DEF Between
<1>6. /\ \A kind : ~Queued(t, kind, k)
      /\ t.phase[k] = "off" => k \in t.freed
      /\ k \in t.freed => t.phase[k] = "off"
      /\ t.phase[k] # "up"
  BY <1>1, RestsInUse
<1>7. t.phase[k] # "auth"
  <2>1. SUFFICES ASSUME t.phase[k] = "auth" PROVE FALSE
    OBVIOUS
  <2>2. l.out[k] = <<>>
    BY <1>1, <1>6, <2>1 DEF Resting, Quiet
  <2>3. Greeting(s, l.posts, k)
    BY <1>1, <1>3, <2>1, <2>2 DEF Between, Greets, Settled, Unread
  <2>4. ToSet(s.inbox) = {} /\ DOMAIN s.inbox = {}
    BY DEF Resting, ToSet
  <2> QED BY <2>3, <2>4 DEF Greeting, Queued, Sending, Opens
<1>8. t.phase[k] # "off"
  <2>1. SUFFICES ASSUME t.phase[k] = "off" PROVE FALSE
    OBVIOUS
  <2>2. k \in t.freed /\ t.fd[k] = "open"
    <3>1. t.fd[k] # "none" /\ t.fd[k] \in {"none", "open", "closed", "reclosed"}
      BY <1>1, <2>1 DEF Lone, Reached, Typed
    <3> QED BY <1>4, <1>6, <2>1, <3>1
  <2>3. k \in t.dialled
    BY <1>1, <1>6, <2>1, <2>2 DEF Lone, Session, OpenOf
  <2> QED BY <1>1, <2>1, <2>2, <2>3 DEF Between, Uncut
<1>9. t.phase[k] = "read"
  BY <1>1, <1>5, <1>6, <1>7, <1>8 DEF Settled, Lone, Typed
<1> QED BY <1>1, <1>6, <1>9 DEF Lone, Session, OpenOf, k

\* The invariant says enough of states in which nothing is on its way.
LEMMA SoundAgree == Sound => Agree
<1> SUFFICES ASSUME Sound, AtRest, cuts = 0 \/ Stranded = {}
             PROVE  /\ aIsAuthed[Bob] <=> bIsAuthed[Alice]
                    /\ aSock[Bob] = bSock[Alice]
  BY DEF Agree
<1>1. /\ Lone(AliceNow, Bob) /\ Lone(BobNow, Alice)
      /\ Between(AliceNow, BobNow, AliceLink) /\ Between(BobNow, AliceNow, BobLink)
  BY DEF Sound, Together
<1>2. /\ BobLink.out = AliceLink.into /\ BobLink.into = AliceLink.out
      /\ AliceLink.cuts = cuts /\ BobLink.cuts = cuts
      /\ AliceLink.into = toAlice /\ BobLink.into = toBob
  BY LinkFields
<1>3. Resting(AliceNow, BobNow, AliceLink) /\ Resting(BobNow, AliceNow, BobLink)
  <2>1. /\ AliceNow.inbox = aInbox /\ AliceNow.wire = aWire /\ AliceNow.phase = aPhase
        /\ AliceNow.freed = aFreed /\ AliceNow.fd = aFd
        /\ BobNow.inbox = bInbox /\ BobNow.wire = bWire /\ BobNow.phase = bPhase
        /\ BobNow.freed = bFreed /\ BobNow.fd = bFd
    BY DEF AliceNow, BobNow
  <2> QED BY <1>2, <2>1 DEF AtRest, Resting
<1>4. /\ BobLink.cuts = 0 \/ \A k \in AliceNow.dialled \cap AliceNow.freed :
                                 AliceNow.fd[k] # "open"
      /\ AliceLink.cuts = 0 \/ \A k \in BobNow.dialled \cap BobNow.freed :
                                 BobNow.fd[k] # "open"
  BY <1>2 DEF Stranded, AliceNow, BobNow
<1>5. /\ AliceNow.sock # NoBev => BobNow.sock = AliceNow.sock
      /\ BobNow.sock # NoBev => AliceNow.sock = BobNow.sock
  <2>1. ASSUME AliceNow.sock # NoBev PROVE BobNow.sock = AliceNow.sock
    BY <1>1, <1>2, <1>3, <1>4, <2>1, RestsConnected
  <2>2. ASSUME BobNow.sock # NoBev PROVE AliceNow.sock = BobNow.sock
    BY <1>1, <1>2, <1>3, <1>4, <2>2, RestsConnected
  <2> QED BY <2>1, <2>2
<1>6. /\ AliceNow.isAuthed = TRUE <=> AliceNow.sock # NoBev
      /\ BobNow.isAuthed = TRUE <=> BobNow.sock # NoBev
      /\ AliceNow.isAuthed \in BOOLEAN /\ BobNow.isAuthed \in BOOLEAN
  BY <1>1 DEF Lone, Session, Typed
<1>7. /\ AliceNow.isAuthed = aIsAuthed[Bob] /\ AliceNow.sock = aSock[Bob]
      /\ BobNow.isAuthed = bIsAuthed[Alice] /\ BobNow.sock = bSock[Alice]
  BY DEF AliceNow, BobNow
<1> QED BY <1>5, <1>6, <1>7

\* When nothing is on its way each process has the other as connected, over
\* the same connection, or neither does; only a failure of the network that
\* strands a connection may come in between.
THEOREM TheTwoAgree == ~Overlap => (Spec => []Agree)
<1> SUFFICES ASSUME ~Overlap PROVE Spec => []Agree
  OBVIOUS
<1>1. Init => Sound
  BY SoundInitially
<1>2. Sound /\ [Next]_vars => Sound'
  BY SoundStays
<1>3. Sound => Agree
  BY SoundAgree
<1> QED BY <1>1, <1>2, <1>3, PTL DEF Spec

===============================================================================
