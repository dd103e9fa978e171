------------------------------- MODULE Network -------------------------------
(***************************************************************************)
(* Two PXMessenger processes and the connections between them.             *)
(*                                                                         *)
(* PeerWorker has one process, and whatever its peers might do to it.      *)
(* Here the peer is another PeerWorker: a connection that one dials is the *)
(* call the other accepts, what one writes is what the other reads, and    *)
(* when one closes its descriptor the other hears of the end.  Neither end *)
(* hears of a bufferevent that is freed while its descriptor stays open.   *)
(*                                                                         *)
(* A connection has the same name at both ends.                            *)
(***************************************************************************)
EXTENDS Naturals, FiniteSets, Sequences, SequencesExt

CONSTANTS
    Alice, Bob,   \* the uuids of the two
    Bevs,         \* the connections that may be made in a run, numbered
    NoPeer, NoBev,
    Overlap,      \* may a dial begin in spite of another, or of what is left of one?
    MaxInbox,     \* bound: no name, text or call arrives above this length
    MaxNames,     \* bound: /name: datagrams that arrive in a run
    MaxTexts,     \* bound: what the users write
    MaxCuts       \* bound: dials and connections the network fails

ASSUME ConnectionsAssumption == Bevs \subseteq Nat /\ IsFiniteSet(Bevs) /\ NoBev \notin Bevs
ASSUME ProcessesAssumption ==
    /\ {Alice, Bob} \cap Bevs = {}
    /\ NoPeer \notin {Alice, Bob} /\ NoBev \notin {Alice, Bob}
ASSUME LimitsAssumption ==
    /\ Overlap \in BOOLEAN
    /\ MaxInbox \in Nat /\ MaxNames \in Nat /\ MaxTexts \in Nat /\ MaxCuts \in Nat

VARIABLES
    \* Alice's process; see PeerWorker
    aKnown, aConnectTo, aIsAuthed, aBw, aSock, aHeld, aExtra, aPhase, aFreed, aFd,
    aRemote, aDialled, aInbox, aWire, aFault, aShown, aWarned,
    \* Bob's
    bKnown, bConnectTo, bIsAuthed, bBw, bSock, bHeld, bExtra, bPhase, bFreed, bFd,
    bRemote, bDialled, bInbox, bWire, bFault, bShown, bWarned,
    aPosts, bPosts,   \* what each event in an inbox will write, if it is a send
    toAlice, toBob,   \* the packets on each connection, to either end
    called,           \* the dials that have reached the other's computer
    names, texts, cuts

alice  == <<aKnown, aConnectTo, aIsAuthed, aBw, aSock, aHeld, aExtra, aPhase, aFreed, aFd,
            aRemote, aDialled, aInbox, aWire, aFault, aShown, aWarned, aPosts>>
bob    == <<bKnown, bConnectTo, bIsAuthed, bBw, bSock, bHeld, bExtra, bPhase, bFreed, bFd,
            bRemote, bDialled, bInbox, bWire, bFault, bShown, bWarned, bPosts>>
line   == <<toAlice, toBob, called>>
counts == <<names, texts, cuts>>
vars   == <<alice, bob, line, counts>>

Kinds == {"text", "syncRequest"}

A == INSTANCE PeerWorker WITH
    Peers <- {Bob}, PacketKinds <- Kinds, Overlap <- TRUE, MaxCallers <- Cardinality(Bevs),
    known <- aKnown, connectTo <- aConnectTo, isAuthed <- aIsAuthed, bw <- aBw, sock <- aSock,
    held <- aHeld, extra <- aExtra, phase <- aPhase, freed <- aFreed, fd <- aFd,
    remote <- aRemote, dialled <- aDialled, inbox <- aInbox, wire <- aWire, fault <- aFault,
    shown <- aShown, warned <- aWarned

B == INSTANCE PeerWorker WITH
    Peers <- {Alice}, PacketKinds <- Kinds, Overlap <- TRUE, MaxCallers <- Cardinality(Bevs),
    known <- bKnown, connectTo <- bConnectTo, isAuthed <- bIsAuthed, bw <- bBw, sock <- bSock,
    held <- bHeld, extra <- bExtra, phase <- bPhase, freed <- bFreed, fd <- bFd,
    remote <- bRemote, dialled <- bDialled, inbox <- bInbox, wire <- bWire, fault <- bFault,
    shown <- bShown, warned <- bWarned

-------------------------------------------------------------------------------
(***************************************************************************)
(* What a step of one process puts on the connections.                     *)
(***************************************************************************)

\* The packet a handler posts: sendAuthPacket, requestSyncPacket, the answer
\* of syncRequestHandler.
Post(handled) ==
    CASE handled \in {"newConnection", "connected"} -> "auth"
      [] handled = "auth" -> "syncRequest"
      [] handled = "syncRequest" -> "sync"

\* The posts of a process whose worker turned the queue q into r.
Posts(posts, q, r) ==
    IF r = Tail(q) THEN Tail(posts) ELSE Append(Tail(posts), Post(Head(q).kind))

\* sendMsg writes if the wrapper has a bufferevent and that is enabled; what
\* the other end will not read is left out.
Hears(phase, freed, k) == phase[k] # "off" /\ k \notin freed

Written(stream, q, posts, held, phase, theirPhase, theirFreed) ==
    IF Head(q).kind # "send" THEN stream
    ELSE LET k == held[Head(q).wrapper] IN
         IF k # NoBev /\ phase[k] \in {"up", "auth", "read"} /\ Hears(theirPhase, theirFreed, k)
         THEN [stream EXCEPT ![k] = Append(@, Head(posts))]
         ELSE stream

\* Connections are used in the order of their numbers.
Fresh == {k \in Bevs : aPhase[k] = "unused" /\ bPhase[k] = "unused"}
IsNext(k) == k \in Fresh /\ \A j \in Fresh : k <= j

AliceWorks ==
    /\ A!Worker
    /\ aPosts' = Posts(aPosts, aInbox, aInbox')
    /\ toBob' = Written(toBob, aInbox, aPosts, aHeld, aPhase, bPhase, bFreed)
    /\ UNCHANGED <<bob, toAlice, called, counts>>

BobWorks ==
    /\ B!Worker
    /\ bPosts' = Posts(bPosts, bInbox, bInbox')
    /\ toAlice' = Written(toAlice, bInbox, bPosts, bHeld, bPhase, aPhase, aFreed)
    /\ UNCHANGED <<alice, toBob, called, counts>>

AliceServes ==
    /\ A!InternalComms
    /\ \A k \in Bevs : aPhase[k] = "unused" /\ aPhase'[k] # "unused" => IsNext(k)
    /\ UNCHANGED <<aPosts, bob, line, counts>>

BobServes ==
    /\ B!InternalComms
    /\ \A k \in Bevs : bPhase[k] = "unused" /\ bPhase'[k] # "unused" => IsNext(k)
    /\ UNCHANGED <<bPosts, alice, line, counts>>

-------------------------------------------------------------------------------
(***************************************************************************)
(* Dials and calls.                                                        *)
(***************************************************************************)
\* The network fails a dial that has not reached the other computer.
MayFail(k) == k \notin called /\ cuts < MaxCuts

AliceDials(k) ==
    /\ A!ConnectCB(k)
    /\ \/ aPhase'[k] = "up" /\ called' = called \cup {k} /\ UNCHANGED cuts
       \/ aPhase'[k] = "off" /\ MayFail(k) /\ cuts' = cuts + 1 /\ UNCHANGED called
    /\ aPosts' = Append(aPosts, "none")
    /\ UNCHANGED <<bob, toAlice, toBob, names, texts>>

BobDials(k) ==
    /\ B!ConnectCB(k)
    /\ \/ bPhase'[k] = "up" /\ called' = called \cup {k} /\ UNCHANGED cuts
       \/ bPhase'[k] = "off" /\ MayFail(k) /\ cuts' = cuts + 1 /\ UNCHANGED called
    /\ bPosts' = Append(bPosts, "none")
    /\ UNCHANGED <<alice, toAlice, toBob, names, texts>>

\* The kernel completes a dial before or after accept returns it.
AliceAccepts(k) ==
    /\ k \in bDialled /\ (k \in called \/ bPhase[k] = "dialling")
    /\ A!AcceptNew(Bob, k)
    /\ called' = called \cup {k}
    /\ aPosts' = Append(aPosts, "none")
    /\ UNCHANGED <<bob, toAlice, toBob, counts>>

BobAccepts(k) ==
    /\ k \in aDialled /\ (k \in called \/ aPhase[k] = "dialling")
    /\ B!AcceptNew(Alice, k)
    /\ called' = called \cup {k}
    /\ bPosts' = Append(bPosts, "none")
    /\ UNCHANGED <<alice, toAlice, toBob, counts>>

-------------------------------------------------------------------------------
(***************************************************************************)
(* Packets, and the ends of connections.                                   *)
(***************************************************************************)
First(stream, k, kind) == stream[k] # <<>> /\ Head(stream[k]) = kind
Rest(stream, k) == [stream EXCEPT ![k] = Tail(@)]

\* The other end is closed, or the first packet is no authentication, or the
\* network fails the connection.
Ends(k, stream, phase, theirFd) ==
    \/ theirFd[k] \in {"closed", "reclosed"} /\ UNCHANGED cuts
    \/ /\ phase[k] = "auth" /\ stream[k] # <<>> /\ Head(stream[k]) # "auth"
       /\ UNCHANGED cuts
    \/ cuts < MaxCuts /\ cuts' = cuts + 1

\* tcpRead: the worker is told of a text and a request for a list of peers.
\* A list names nobody new here, and an authentication comes too late.
AliceReads(k) ==
    /\ \/ /\ \/ First(toAlice, k, "auth") /\ A!TcpAuth(k)
             \/ /\ A!TcpRead(k)
                /\ \E kind \in Kinds :
                      First(toAlice, k, kind) /\ Last(aInbox') = A!BevEvent(kind, k)
          /\ aPosts' = Append(aPosts, "none")
       \/ /\ \E kind \in {"auth", "sync"} : First(toAlice, k, kind)
          /\ A!Readable(k) /\ k \notin aFreed
          /\ UNCHANGED alice
    /\ toAlice' = Rest(toAlice, k)
    /\ UNCHANGED <<bob, toBob, called, counts>>

BobReads(k) ==
    /\ \/ /\ \/ First(toBob, k, "auth") /\ B!TcpAuth(k)
             \/ /\ B!TcpRead(k)
                /\ \E kind \in Kinds :
                      First(toBob, k, kind) /\ Last(bInbox') = B!BevEvent(kind, k)
          /\ bPosts' = Append(bPosts, "none")
       \/ /\ \E kind \in {"auth", "sync"} : First(toBob, k, kind)
          /\ B!Readable(k) /\ k \notin bFreed
          /\ UNCHANGED bob
    /\ toBob' = Rest(toBob, k)
    /\ UNCHANGED <<alice, toAlice, called, counts>>

AliceLoses(k) ==
    /\ A!TcpErr(k)
    /\ Ends(k, toAlice, aPhase, bFd)
    /\ toAlice' = [toAlice EXCEPT ![k] = <<>>]
    /\ aPosts' = Append(aPosts, "none")
    /\ UNCHANGED <<bob, toBob, called, names, texts>>

BobLoses(k) ==
    /\ B!TcpErr(k)
    /\ Ends(k, toBob, bPhase, aFd)
    /\ toBob' = [toBob EXCEPT ![k] = <<>>]
    /\ bPosts' = Append(bPosts, "none")
    /\ UNCHANGED <<alice, toAlice, called, names, texts>>

-------------------------------------------------------------------------------
(***************************************************************************)
(* The users, and the datagrams by which the two learn of each other.      *)
(***************************************************************************)
\* Neither dials or is about to, and nothing is left of an earlier connection
\* at either end.
Apart ==
    /\ ~A!Queued(A!Attempt(Bob)) /\ ~B!Queued(B!Attempt(Alice))
    /\ ~A!Dialling(Bob) /\ ~B!Dialling(Alice)
    /\ \A k \in Bevs : ~A!Live(k) /\ ~B!Live(k)
    /\ \A k \in called : aPhase[k] # "unused" /\ bPhase[k] # "unused"

\* attemptConnection will do nothing about a name that arrives now: the peer is
\* marked, or an attempt ahead will mark it, and nothing ahead clears the mark.
Clears(q) == \E e \in ToSet(q) : e.kind \in {"quit", "refused"}
AliceIgnores == (aConnectTo[Bob] \/ A!Queued(A!Attempt(Bob))) /\ ~Clears(aInbox)
BobIgnores   == (bConnectTo[Alice] \/ B!Queued(B!Attempt(Alice))) /\ ~Clears(bInbox)

\* Without Overlap a name that makes its hearer dial comes when they are apart.
AliceHearsName ==
    /\ names < MaxNames /\ names' = names + 1
    /\ Overlap \/ AliceIgnores \/ Apart
    /\ A!UdpReceive(Bob)
    /\ aPosts' = Append(aPosts, "none")
    /\ UNCHANGED <<bob, line, texts, cuts>>

BobHearsName ==
    /\ names < MaxNames /\ names' = names + 1
    /\ Overlap \/ BobIgnores \/ Apart
    /\ B!UdpReceive(Alice)
    /\ bPosts' = Append(bPosts, "none")
    /\ UNCHANGED <<alice, line, texts, cuts>>

AliceWrites ==
    /\ texts < MaxTexts /\ texts' = texts + 1
    /\ A!SendMsgAccessor(Bob)
    /\ aPosts' = Append(aPosts, "text")
    /\ UNCHANGED <<bob, line, names, cuts>>

BobWrites ==
    /\ texts < MaxTexts /\ texts' = texts + 1
    /\ B!SendMsgAccessor(Alice)
    /\ bPosts' = Append(bPosts, "text")
    /\ UNCHANGED <<alice, line, names, cuts>>

-------------------------------------------------------------------------------
Init ==
    /\ A!Init /\ B!Init
    /\ aPosts = <<>> /\ bPosts = <<>>
    /\ toAlice = [k \in Bevs |-> <<>>] /\ toBob = [k \in Bevs |-> <<>>]
    /\ called = {}
    /\ names = 0 /\ texts = 0 /\ cuts = 0

Connections(k) ==
    \/ AliceDials(k) \/ AliceAccepts(k) \/ AliceReads(k) \/ AliceLoses(k)
    \/ BobDials(k) \/ BobAccepts(k) \/ BobReads(k) \/ BobLoses(k)

Next ==
    \/ AliceWorks \/ AliceServes \/ AliceHearsName \/ AliceWrites
    \/ BobWorks \/ BobServes \/ BobHearsName \/ BobWrites
    \/ \E k \in Bevs : Connections(k)

Spec == Init /\ [][Next]_vars

\* Both threads of both processes run, and so does the network, but nothing
\* makes it fail.
FairSpec ==
    /\ Spec
    /\ WF_vars(AliceWorks) /\ WF_vars(BobWorks)
    /\ WF_vars(AliceServes) /\ WF_vars(BobServes)
    /\ \A k \in Bevs : WF_vars(cuts' = cuts /\ Connections(k))

-------------------------------------------------------------------------------
\* Nothing is left to be done unless the users or the network begin something.
Quiet(k, phase, freed, stream, theirFd) ==
    phase[k] \in {"auth", "read"} /\ k \notin freed =>
        stream[k] = <<>> /\ theirFd[k] \notin {"closed", "reclosed"}

AtRest ==
    /\ aInbox = <<>> /\ bInbox = <<>> /\ aWire = <<>> /\ bWire = <<>>
    /\ \A k \in Bevs :
         /\ aPhase[k] # "dialling" /\ bPhase[k] # "dialling"
         /\ k \in called => aPhase[k] # "unused" /\ bPhase[k] # "unused"
         /\ Quiet(k, aPhase, aFreed, toAlice, bFd)
         /\ Quiet(k, bPhase, bFreed, toBob, aFd)

\* Dialled connections that ended before they were authenticated: nothing
\* closes their descriptors.
Stranded == {k \in aDialled \cap aFreed : aFd[k] = "open"}
                \cup {k \in bDialled \cap bFreed : bFd[k] = "open"}

\* When nothing is on its way, the two agree: each has the other as connected,
\* over the same connection, or neither does.  (The one thing that may come in
\* between is a failure of the network that strands a connection.)
Agree ==
    AtRest /\ (cuts = 0 \/ Stranded = {}) =>
        /\ aIsAuthed[Bob] <=> bIsAuthed[Alice]
        /\ aSock[Bob] = bSock[Alice]

\* "It will automatically discover other users of the client": when nothing
\* was cut and nothing is on its way, a process that has heard of another is
\* connected to it.
Discovered ==
    AtRest /\ cuts = 0 /\ names > 0 => aIsAuthed[Bob] /\ bIsAuthed[Alice]

\* A peer that is not to be dialled is connected in the end or may be dialled
\* again, and a connection that has ended is given back, at both ends, with
\* nothing assumed of the peer but that it is a process like this one.
DialsResolve ==
    /\ A!DialResolves /\ B!DialResolves
    /\ A!EndedConnectionFreed /\ B!EndedConnectionFreed
===============================================================================
