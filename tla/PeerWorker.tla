------------------------------ MODULE PeerWorker ------------------------------
(***************************************************************************)
(* The connection bookkeeping of one PXMessenger process.                  *)
(*                                                                         *)
(* Two threads take part.  The server thread runs libevent: it accepts and *)
(* dials TCP connections and turns what happens on them into Qt signals.   *)
(* The worker thread runs PXMPeerWorker, which owns the peer table         *)
(* (peersHash) and the wrappers of connections accepted but not yet        *)
(* authenticated (extraBevs).  The signals reach the worker through the    *)
(* event queue of its thread, one FIFO queue that also carries the sends   *)
(* the worker posts to PXMClient; the worker reaches the server through an *)
(* internal pair of bufferevents.  Between a callback and the handler of   *)
(* its signal the table can change, which is what this module is about.    *)
(*                                                                         *)
(* A connection is named by its bufferevent; the bufferevent and its file  *)
(* descriptor are different resources, released by different calls.        *)
(***************************************************************************)
EXTENDS Naturals, FiniteSets, Sequences, SequencesExt

CONSTANTS
    Peers,        \* the uuids of the other processes on the network
    Bevs,         \* the bufferevents the process may create in a run
    NoPeer,       \* no uuid: the peer of an unused bufferevent
    NoBev,        \* nullptr, and the descriptor -1
    PacketKinds,  \* which packets authenticated peers send in a run
    Overlap,      \* may a peer open a connection while it has another one?
    MaxCallers,   \* bound: accepted connections waiting for authentication
    MaxInbox      \* bound: the outside world stays quiet above this length

ASSUME PeersAssumption == NoPeer \notin Peers
ASSUME BevsAssumption ==
    /\ NoBev \notin Bevs /\ Peers \cap Bevs = {} /\ NoBev \notin Peers
    /\ IsFiniteSet(Bevs)
ASSUME KindsAssumption == PacketKinds \subseteq {"text", "name", "syncRequest"}
ASSUME BoundsAssumption == Overlap \in BOOLEAN /\ MaxCallers \in Nat /\ MaxInbox \in Nat

VARIABLES
    known,      \* the uuids that have an entry in peersHash
    connectTo,  \* PeerData::connectTo, do not dial this peer again
    isAuthed,   \* PeerData::isAuthed
    bw,         \* PeerData::bw, the wrapper the entry refers to
    sock,       \* PeerData::socket
    held,       \* BevWrapper::bev of every wrapper
    extra,      \* extraBevs
    phase,      \* what libevent does with a bufferevent and who is called
    freed,      \* the bufferevents given to bufferevent_free
    fd,         \* the state of the descriptor of a bufferevent
    remote,     \* the process at the other end
    dialled,    \* the bufferevents this process dialled
    inbox,      \* event queue of the worker thread
    wire,       \* messages on the internal pair, worker to server
    fault,      \* the first use of memory that is no longer there
    shown,      \* connection status the window was last told
    warned      \* the conversations a spoofing warning was printed in

tableVars == <<known, connectTo, isAuthed, bw, sock, held, extra, shown, warned>>
netVars   == <<phase, fd, remote, dialled>>
vars      == <<tableVars, netVars, freed, inbox, wire, fault>>

(***************************************************************************)
(* A wrapper is created with the PeerData of a peer, or for an accepted    *)
(* connection: it is named by that peer or by that bufferevent.            *)
(***************************************************************************)
Wrappers == Peers \cup Bevs

BevEvents == {"newConnection", "auth", "quit", "connected", "refused"} \cup PacketKinds

Events ==
    [kind : BevEvents, bev : Bevs]
        \cup [kind : {"attempt"}, peer : Peers]
        \cup [kind : {"send"}, wrapper : Wrappers]

Messages == [kind : {"connectTo"}, peer : Peers] \cup [kind : {"addDefault"}, bev : Bevs]

BevEvent(k, b) == [kind |-> k, bev |-> b]
Attempt(u)     == [kind |-> "attempt", peer |-> u]
Send(w)        == [kind |-> "send", wrapper |-> w]

Queued(e) == e \in ToSet(inbox)
OnWire(m) == m \in ToSet(wire)

Unused    == {b \in Bevs : phase[b] = "unused"}
Live(b)   == phase[b] # "unused" /\ b \notin freed

\* Forms of the helpers below that a slip in the code would give them; the
\* specification does not use them.
Mutant_Doomed(q, ws, ex, hs) == {}
Mutant_MayDial(u) == TRUE
Mutant_Redialable(f, u) == f
Mutant_Deauthed(f, u) == f
Mutant_NoSocket(f, u) == f
Mutant_ToldGone(u) == shown
Mutant_Adoptable(b) == DOMAIN extra
Mutant_Readable(b) == phase[b] \in {"auth", "read"}

\* peersHash entries whose wrapper holds b.
Holders(b) == {v \in known : held[bw[v]] = b}

\* Accepted connections no peer entry has taken over yet.
Callers == {b \in Bevs \ dialled : Live(b) /\ \A u \in Peers : held[bw[u]] # b}

\* The worker has asked for a connection to u and has not heard the result.
Dialling(u) ==
    \/ OnWire([kind |-> "connectTo", peer |-> u])
    \/ \E b \in dialled : /\ remote[b] = u
                          /\ \/ phase[b] = "dialling"
                             \/ Queued(BevEvent("connected", b))
                             \/ Queued(BevEvent("refused", b))

-------------------------------------------------------------------------------
(***************************************************************************)
(* Ownership.  QSharedPointer destroys a wrapper when the last reference   *)
(* goes: a peer entry, extraBevs, or a send that is still queued.  The     *)
(* destructor frees the bufferevent the wrapper holds.  Settle ends every  *)
(* handler: it installs the new references q, ws, ex and wrapper contents  *)
(* hs, destroys the wrappers nothing refers to any more and records a      *)
(* fault.  explicitly is the set of bufferevents the handler itself freed. *)
(***************************************************************************)
Referenced(w, q, ws, ex) ==
    \/ \E u \in Peers : ws[u] = w
    \/ w \in ToSet(ex)
    \/ Send(w) \in ToSet(q)

Doomed(q, ws, ex, hs) ==
    {w \in Wrappers : hs[w] # NoBev /\ ~Referenced(w, q, ws, ex)}

FreedTwice(dead, hs, explicitly) ==
    \/ explicitly \cap freed # {}
    \/ \E w \in dead : hs[w] \in freed \cup explicitly
    \/ \E w1, w2 \in dead : w1 # w2 /\ hs[w1] = hs[w2]

Settle(q, ws, ex, hs, explicitly) ==
    LET dead == Doomed(q, ws, ex, hs) IN
    /\ inbox' = q
    /\ bw' = ws
    /\ extra' = ex
    /\ held' = [w \in Wrappers |-> IF w \in dead THEN NoBev ELSE hs[w]]
    /\ freed' = freed \cup explicitly \cup {hs[w] : w \in dead}
    /\ fault' = IF FreedTwice(dead, hs, explicitly) THEN "doubleFree" ELSE fault

\* evutil_closesocket on the descriptor of s; on -1 it does nothing.
Closed(s) ==
    IF s = NoBev THEN fd
    ELSE [fd EXCEPT ![s] = IF @ = "open" THEN "closed" ELSE "reclosed"]

-------------------------------------------------------------------------------
(***************************************************************************)
(* What the handlers do to a peer entry, and the sets they search.         *)
(***************************************************************************)
MayDial(u) == ~connectTo[u]

Redialable(f, u) == [f EXCEPT ![u] = FALSE]
Deauthed(f, u)   == [f EXCEPT ![u] = FALSE]
NoSocket(f, u)   == [f EXCEPT ![u] = NoBev]
Emptied(f, w)    == [f EXCEPT ![w] = NoBev]

\* connectionStatusChange: a peer the window does not list is left alone.
ToldGone(u) == [shown EXCEPT ![u] = IF @ = "none" THEN @ ELSE "down"]

\* Where extraBevs has the wrapper of connection b, if b was accepted; and
\* extraBevs without that wrapper, which is in it once.
Adoptable(b)    == {i \in DOMAIN extra : held[extra[i]] = b}
ExtraWithout(i) == RemoveAt(extra, i)

\* Removing every element from the list being walked skips the next one each
\* time: the wrappers at even positions stay.
EveryOther(s) == [i \in 1..(Len(s) \div 2) |-> s[2 * i]]

\* Whose conversation gets the warning about a text from b in the name of u.
Accused(u, b) == IF Holders(b) = {} THEN {u} ELSE Holders(b)

-------------------------------------------------------------------------------
(***************************************************************************)
(* The handlers of the worker thread.  Each takes the head of the queue.   *)
(***************************************************************************)
Handling(k) == inbox # <<>> /\ Head(inbox).kind = k /\ fault = "none"
Rest     == Tail(inbox)

NewAcceptedConnection ==
    /\ Handling("newConnection")
    /\ LET b == Head(inbox).bev IN
         Settle(Append(Rest, Send(b)), bw, Append(extra, b), [held EXCEPT ![b] = b], {})
    /\ UNCHANGED <<known, connectTo, isAuthed, sock, shown, warned, netVars, wire>>

\* The common tail of authHandler; v is the peer whose old connection was
\* closed on the way, or u itself when none was.
Authenticate(u, v, b) ==
    /\ known' = known \cup {u}
    /\ connectTo' = [Redialable(connectTo, v) EXCEPT ![u] = TRUE]
    /\ isAuthed' = [Deauthed(isAuthed, v) EXCEPT ![u] = TRUE]
    /\ sock' = [NoSocket(sock, v) EXCEPT ![u] = b]
    /\ shown' = [ToldGone(v) EXCEPT ![u] = "up"]
    /\ UNCHANGED <<warned, phase, remote, dialled, wire>>

\* The entry of u holds another connection: that one is closed, and the
\* wrapper of the new one is left in extraBevs.
AuthReplacing ==
    /\ Handling("auth")
    /\ LET b   == Head(inbox).bev
           u   == remote[b]
           old == held[bw[u]]
       IN  /\ old \notin {NoBev, b}
           /\ \E v \in Holders(old) :
                /\ Authenticate(u, v, b)
                /\ fd' = Closed(sock[v])
                /\ Settle(Append(Rest, Send(bw[u])), bw, extra,
                          [Emptied(held, bw[v]) EXCEPT ![bw[u]] = b], {old})

\* The entry holds nothing, or this very connection: if the connection was
\* accepted, its wrapper moves from extraBevs into the entry.
AuthAdopting ==
    /\ Handling("auth")
    /\ LET b  == Head(inbox).bev
           u  == remote[b]
       IN  /\ held[bw[u]] \in {NoBev, b}
           /\ \/ \E i \in Adoptable(b) :
                   Settle(Append(Rest, Send(extra[i])), [bw EXCEPT ![u] = extra[i]],
                          ExtraWithout(i), held, {})
              \/ /\ Adoptable(b) = {}
                 /\ Settle(Append(Rest, Send(bw[u])), bw, extra, [held EXCEPT ![bw[u]] = b], {})
           /\ Authenticate(u, u, b)
           /\ UNCHANGED fd

AuthHandler == AuthReplacing \/ AuthAdopting

PeerQuit ==
    /\ Handling("quit")
    /\ LET b == Head(inbox).bev IN
         \/ \E v \in Holders(b) :
              /\ connectTo' = Redialable(connectTo, v)
              /\ isAuthed' = Deauthed(isAuthed, v)
              /\ sock' = NoSocket(sock, v)
              /\ shown' = ToldGone(v)
              /\ fd' = Closed(sock[v])
              /\ Settle(Rest, bw, extra, Emptied(held, bw[v]), {b})
         \/ /\ Holders(b) = {}
            /\ fd' = Closed(b)
            /\ Settle(Rest, bw, EveryOther(extra), held, {})
            /\ UNCHANGED <<connectTo, isAuthed, sock, shown>>
    /\ UNCHANGED <<known, warned, phase, remote, dialled, wire>>

AttemptConnection ==
    /\ Handling("attempt")
    /\ LET u == Head(inbox).peer IN
         IF MayDial(u)
         THEN /\ known' = known \cup {u}
              /\ connectTo' = [connectTo EXCEPT ![u] = TRUE]
              /\ wire' = Append(wire, [kind |-> "connectTo", peer |-> u])
         ELSE UNCHANGED <<known, connectTo, wire>>
    /\ Settle(Rest, bw, extra, held, {})
    /\ UNCHANGED <<isAuthed, sock, shown, warned, netVars>>

ConnectionSucceeded ==
    /\ Handling("connected")
    /\ LET b   == Head(inbox).bev
           u   == remote[b]
           old == held[bw[u]]
       IN  /\ wire' = Append(wire, [kind |-> "addDefault", bev |-> b])
           /\ Settle(Append(Rest, Send(bw[u])), bw, extra, [held EXCEPT ![bw[u]] = b],
                     {old} \ {NoBev, b})
    /\ UNCHANGED <<known, connectTo, isAuthed, sock, shown, warned, netVars>>

ConnectionFailed ==
    /\ Handling("refused")
    /\ LET b == Head(inbox).bev
           u == remote[b]
       IN  /\ connectTo' = Redialable(connectTo, u)
           /\ isAuthed' = Deauthed(isAuthed, u)
           /\ sock' = NoSocket(sock, u)
           /\ fd' = Closed(b)
           /\ Settle(Rest, bw, extra, Emptied(held, bw[u]), {b})
    /\ UNCHANGED <<known, shown, warned, phase, remote, dialled, wire>>

ResultOfConnectionAttempt == ConnectionSucceeded \/ ConnectionFailed

\* PXMClient: with a bufferevent in the wrapper its flags are read, then the
\* packet is written; neither is allowed once it has been freed.
SendMsg ==
    /\ Handling("send")
    /\ LET b == held[Head(inbox).wrapper] IN
         IF b \in freed
         THEN /\ fault' = "useAfterFree"
              /\ inbox' = Rest
              /\ UNCHANGED <<bw, extra, held, freed>>
         ELSE Settle(Rest, bw, extra, held, {})
    /\ UNCHANGED <<known, connectTo, isAuthed, sock, shown, warned, netVars, wire>>

\* A text is shown only when it came over the connection its sender's entry
\* holds; otherwise somebody is accused of spoofing.
MsgHandler ==
    /\ Handling("text")
    /\ LET b == Head(inbox).bev
           u == remote[b]
       IN  IF u \notin known \/ held[bw[u]] = b
           THEN UNCHANGED warned
           ELSE \E v \in Accused(u, b) : warned' = warned \cup {v}
    /\ Settle(Rest, bw, extra, held, {})
    /\ UNCHANGED <<known, connectTo, isAuthed, sock, shown, netVars, wire>>

NameHandler ==
    /\ Handling("name")
    /\ LET u == remote[Head(inbox).bev] IN
         shown' = IF u \in known THEN [shown EXCEPT ![u] = "up"] ELSE shown
    /\ Settle(Rest, bw, extra, held, {})
    /\ UNCHANGED <<known, connectTo, isAuthed, sock, warned, netVars, wire>>

SyncRequestHandler ==
    /\ Handling("syncRequest")
    /\ LET b       == Head(inbox).bev
           u       == remote[b]
           answers == /\ u \in known
                      /\ held[bw[u]] = b
                      /\ \E v \in Peers : isAuthed[v]
       IN  Settle(IF answers THEN Append(Rest, Send(bw[u])) ELSE Rest, bw, extra, held, {})
    /\ UNCHANGED <<known, connectTo, isAuthed, sock, shown, warned, netVars, wire>>

Worker ==
    \/ NewAcceptedConnection \/ AuthHandler \/ PeerQuit \/ AttemptConnection
    \/ ResultOfConnectionAttempt \/ SendMsg \/ MsgHandler \/ NameHandler
    \/ SyncRequestHandler

-------------------------------------------------------------------------------
(***************************************************************************)
(* The server thread: messages of the worker, and libevent callbacks.      *)
(***************************************************************************)
ConnectToAddr ==
    /\ wire # <<>> /\ Head(wire).kind = "connectTo"
    /\ \E b \in Unused :
         /\ phase' = [phase EXCEPT ![b] = "dialling"]
         /\ fd' = [fd EXCEPT ![b] = "open"]
         /\ remote' = [remote EXCEPT ![b] = Head(wire).peer]
         /\ dialled' = dialled \cup {b}
    /\ wire' = Tail(wire)
    /\ UNCHANGED <<tableVars, freed, inbox, fault>>

AddDefaultBev ==
    /\ wire # <<>> /\ Head(wire).kind = "addDefault"
    /\ LET b == Head(wire).bev IN
         IF b \in freed
         THEN fault' = "useAfterFree" /\ UNCHANGED phase
         ELSE phase' = [phase EXCEPT ![b] = "auth"] /\ UNCHANGED fault
    /\ wire' = Tail(wire)
    /\ UNCHANGED <<tableVars, fd, remote, dialled, freed, inbox>>

InternalComms == fault = "none" /\ (ConnectToAddr \/ AddDefaultBev)

\* A callback of b is run, b is then in phase p and the worker is sent k.
Callback(b, p, k) ==
    /\ fault = "none"
    /\ b \notin freed
    /\ phase' = [phase EXCEPT ![b] = p]
    /\ inbox' = Append(inbox, BevEvent(k, b))
    /\ UNCHANGED <<tableVars, fd, remote, dialled, freed, wire, fault>>

ConnectCB(b) ==
    /\ phase[b] = "dialling"
    /\ Callback(b, "up", "connected") \/ Callback(b, "off", "refused")

TcpAuth(b) == phase[b] = "auth" /\ Callback(b, "read", "auth")

\* The connection ends, or what it sent in place of an auth packet is bad.
TcpErr(b) == phase[b] \in {"auth", "read"} /\ Callback(b, "off", "quit")

\* Nothing else arrives while the queue is long, and the run's connections
\* last for every dial that is already on its way.
Quiet == Len(inbox) >= MaxInbox
Spare == Cardinality(Unused) >
             Cardinality({i \in DOMAIN inbox : inbox[i].kind = "attempt"})
           + Cardinality({i \in DOMAIN wire : wire[i].kind = "connectTo"})

\* tcpRead is installed in place of tcpAuth once the auth packet is in.
Readable(b) == phase[b] = "read"

TcpRead(b) ==
    /\ Readable(b) /\ ~Quiet
    /\ \E k \in PacketKinds : Callback(b, "read", k)

\* Without Overlap a peer neither calls while it is being dialled or is
\* connected, nor makes itself known while its call is not authenticated.
MayCall(u) ==
    Overlap \/ /\ ~connectTo[u]
               /\ ~Queued(Attempt(u))
               /\ \A b \in Bevs : remote[b] = u => ~Live(b)
MayName(u) == Overlap \/ \A b \in Callers : remote[b] # u

AcceptNew(u, b) ==
    /\ fault = "none" /\ ~Quiet /\ Spare /\ MayCall(u)
    /\ Cardinality(Callers) < MaxCallers
    /\ phase[b] = "unused"
    /\ phase' = [phase EXCEPT ![b] = "auth"]
    /\ fd' = [fd EXCEPT ![b] = "open"]
    /\ remote' = [remote EXCEPT ![b] = u]
    /\ inbox' = Append(inbox, BevEvent("newConnection", b))
    /\ UNCHANGED <<tableVars, dialled, freed, wire, fault>>

\* A /name: datagram, or an entry of a sync packet, names u.
UdpReceive(u) ==
    /\ fault = "none" /\ ~Quiet /\ Spare /\ MayName(u)
    /\ inbox' = Append(inbox, Attempt(u))
    /\ UNCHANGED <<tableVars, netVars, freed, wire, fault>>

\* The user writes to u.
SendMsgAccessor(u) ==
    /\ fault = "none" /\ ~Quiet /\ u \in known
    /\ inbox' = Append(inbox, Send(bw[u]))
    /\ UNCHANGED <<tableVars, netVars, freed, wire, fault>>

-------------------------------------------------------------------------------
Init ==
    /\ known = {}
    /\ connectTo = [u \in Peers |-> FALSE]
    /\ isAuthed = [u \in Peers |-> FALSE]
    /\ bw = [u \in Peers |-> u]
    /\ sock = [u \in Peers |-> NoBev]
    /\ held = [w \in Wrappers |-> NoBev]
    /\ extra = <<>>
    /\ phase = [b \in Bevs |-> "unused"]
    /\ freed = {}
    /\ fd = [b \in Bevs |-> "none"]
    /\ remote = [b \in Bevs |-> NoPeer]
    /\ dialled = {}
    /\ inbox = <<>>
    /\ wire = <<>>
    /\ fault = "none"
    /\ shown = [u \in Peers |-> "none"]
    /\ warned = {}

Server == InternalComms \/ \E b \in Bevs : ConnectCB(b) \/ TcpAuth(b) \/ TcpErr(b)

World ==
    \/ \E b \in Bevs : TcpRead(b)
    \/ \E u \in Peers, b \in Bevs : AcceptNew(u, b)
    \/ \E u \in Peers : UdpReceive(u) \/ SendMsgAccessor(u)

Next == Worker \/ Server \/ World

Spec == Init /\ [][Next]_vars

-------------------------------------------------------------------------------
Phases == {"unused", "dialling", "up", "auth", "read", "off"}

\* The variables have their types; in particular a spoofing warning is filed
\* in the conversation of a peer, never under the null uuid (msgHandler).
TypeOK ==
    /\ known \subseteq Peers /\ warned \subseteq Peers
    /\ connectTo \in [Peers -> BOOLEAN] /\ isAuthed \in [Peers -> BOOLEAN]
    /\ bw \in [Peers -> Wrappers]
    /\ sock \in [Peers -> Bevs \cup {NoBev}]
    /\ held \in [Wrappers -> Bevs \cup {NoBev}]
    /\ extra \in Seq(Bevs)
    /\ phase \in [Bevs -> Phases]
    /\ freed \subseteq Bevs /\ dialled \subseteq Bevs
    /\ fd \in [Bevs -> {"none", "open", "closed", "reclosed"}]
    /\ remote \in [Bevs -> Peers \cup {NoPeer}]
    /\ inbox \in Seq(Events)
    /\ wire \in Seq(Messages)
    /\ fault \in {"none", "useAfterFree", "doubleFree"}
    /\ shown \in [Peers -> {"none", "up", "down"}]

(***************************************************************************)
(* What holds however the calls of the two threads and of the peers        *)
(* interleave.                                                             *)
(***************************************************************************)

\* An authenticated entry is one not to dial, and the only kind with a
\* connection's descriptor recorded.
AuthedHasSocket ==
    \A u \in Peers : /\ isAuthed[u] <=> sock[u] # NoBev
                     /\ isAuthed[u] => connectTo[u]

\* No two peers share a wrapper, and none is also waiting in extraBevs: what
\* one entry does to its connection cannot touch another's.
NoSharedWrapper ==
    /\ \A u, v \in Peers : bw[u] = bw[v] => u = v
    /\ \A u \in Peers : bw[u] \notin ToSet(extra)
    /\ IsInjective(extra)

\* The three together: the table and its wrappers are sound.
TableSound == TypeOK /\ AuthedHasSocket /\ NoSharedWrapper

\* The process a wrapper was made for: that of the entry, or the caller.
Owner(w) == IF w \in Peers THEN w ELSE remote[w]

\* What is written to a peer goes to that peer: the wrapper of its entry and
\* every other wrapper, those of sends that wait included, hold a connection
\* with the process they were made for, and the descriptor an entry records is
\* of one too, whichever dials, calls and quits overlapped (authHandler takes
\* over the wrapper that holds the connection of its signal, and no other).
SentToItsPeer ==
    /\ \A w \in Wrappers : held[w] # NoBev => remote[held[w]] = Owner(w)
    /\ \A u \in Peers : Owner(bw[u]) = u /\ (sock[u] # NoBev => remote[sock[u]] = u)

\* The entry of a packet's sender exists when the packet is handled: the auth
\* signal of a connection is ahead of all its packets.
SenderKnown ==
    inbox # <<>> /\ Head(inbox).kind \in PacketKinds => remote[Head(inbox).bev] \in known

(***************************************************************************)
(* What holds as long as connections of one peer do not overlap.           *)
(***************************************************************************)

\* No freed bufferevent is written to, enabled or freed again.
NoFault == fault = "none"

\* An authenticated entry is the session with that very peer, over a
\* bufferevent that still exists and a descriptor that is still open; and
\* nobody honest is accused of spoofing (msgHandler).
SessionSound ==
    /\ \A u \in Peers : isAuthed[u] =>
         /\ sock[u] \in Bevs \ freed
         /\ held[bw[u]] = sock[u]
         /\ remote[sock[u]] = u
         /\ fd[sock[u]] = "open"
    /\ warned = {}

\* A bufferevent is held by one wrapper at most: the lock in the wrapper is
\* the only protection of the bufferevent.
OneWrapperPerBev ==
    \A b \in Bevs : Cardinality({w \in Wrappers : held[w] = b}) <= 1

\* A connection that exists is not forgotten: a wrapper refers to it, or the
\* worker has yet to hear of it.
NoOrphan ==
    \A b \in Bevs : Live(b) /\ phase[b] # "dialling" =>
        \/ \E w \in Wrappers : held[w] = b /\ Referenced(w, inbox, bw, extra)
        \/ \E k \in {"newConnection", "connected", "refused"} : Queued(BevEvent(k, b))

\* The three together: who owns a bufferevent is never in doubt.
OwnershipExact == NoFault /\ OneWrapperPerBev /\ NoOrphan

\* Descriptors are closed once.  (One is never closed: a dialled connection
\* lost before authentication, because the entry does not know it yet.)
DescriptorsClosedOnce ==
    \A b \in Bevs : /\ fd[b] # "reclosed"
                    /\ b \in freed /\ b \notin dialled /\ ~Queued(BevEvent("quit", b))
                         => fd[b] = "closed"

\* The worker will hear when connection b ends: libevent reads it, or is told to
\* by a message on its way, or the quit of b waits; and b still exists.
WillBeHeard(b) ==
    /\ b \notin freed
    /\ \/ phase[b] \in {"auth", "read"}
       \/ OnWire([kind |-> "addDefault", bev |-> b])
       \/ Queued(BevEvent("quit", b))

\* attemptConnection dials a peer only while connectTo is false, so a peer
\* with connectTo true must have a dial whose result is to come, or a
\* connection in its entry whose end will be heard: else it could never be
\* reached again.
NeverWedged ==
    \A u \in Peers : connectTo[u] =>
        \/ Dialling(u)
        \/ \E b \in Bevs : held[bw[u]] = b /\ remote[b] = u /\ WillBeHeard(b)

\* What the window shows of a peer is what the table says.
WindowTellsTheTruth == \A u \in Peers : shown[u] = "up" <=> isAuthed[u]

\* A session ends only by the end of its own connection.
SessionsEndByTheirOwnQuit ==
    [][\A u \in Peers : isAuthed[u] /\ ~isAuthed'[u]
            => inbox # <<>> /\ Head(inbox) = BevEvent("quit", sock[u])]_vars

\* A connection that has ended is given back to libevent.
EndedConnectionFreed ==
    \A b \in Bevs : phase[b] = "off" ~> b \in freed

\* A peer marked as not to dial is authenticated in the end or may be dialled
\* again.
DialResolves ==
    \A u \in Peers : connectTo[u] ~> isAuthed[u] \/ ~connectTo[u]
===============================================================================
