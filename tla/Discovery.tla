------------------------------ MODULE Discovery ------------------------------
(***************************************************************************)
(* How processes find each other: "/discover" goes to the multicast group, *)
(* whoever hears it answers "/name:" to the computer that asked, and who   *)
(* reads the answer dials.  Two timers repeat the question while nobody is *)
(* in the table of peers.                                                  *)
(*                                                                         *)
(* Datagrams are lost, delayed and duplicated.  What becomes of a dial at  *)
(* its two ends is left open here, and so is when a connection is lost:    *)
(* PeerWorker and Network have them in detail, and dials that cross may    *)
(* leave neither end connected.  A peer list is a single step; PeerSync    *)
(* says when it is believed.                                               *)
(***************************************************************************)
EXTENDS Naturals, Sequences, FiniteSets, SequencesExt

CONSTANTS
    Nodes,       \* the processes
    Host,        \* the computer of each
    MaxUdp,      \* bound on the datagrams on their way
    MaxStarts    \* bound on the starts in a run

ASSUME NodesAssumption == IsFiniteSet(Nodes) /\ Host \in [Nodes -> Nodes]
ASSUME BoundsAssumption == MaxUdp \in Nat /\ MaxStarts \in Nat

VARIABLES
    phase,       \* of the server thread of each process
    bound,       \* the processes with a UDP socket, in the order they bound it
    udp,         \* datagrams on their way
    table,       \* the peers in peersHash, but for the own entry and the chat
    dialing,     \* of those, the ones that are being dialled
    linked,      \* <<n, m>> if n has m as authenticated
    single,      \* is discoveryTimerSingle active?
    repeat,      \* is discoveryTimer?
    starts

timers == <<single, repeat>>
peers  == <<table, dialing, linked>>
vars   == <<phase, bound, udp, peers, timers, starts>>

Bound == ToSet(bound)
Linked(n) == {m \in Nodes : <<n, m>> \in linked}

\* Forms of the helpers below that a slip in the code would give them; the
\* specification does not use them.
Mutant_Dialable(n, m) == m \notin dialing[n] /\ m \notin Linked(n)
Mutant_Alone(n) == FALSE
Mutant_Discover(n) ==
    {[kind |-> "discover", from |-> n, to |-> m] : m \in {k \in Bound : Host[k] # Host[n]}}

-------------------------------------------------------------------------------
(***************************************************************************)
(* Datagrams.                                                              *)
(***************************************************************************)
Packets == [kind : {"discover", "name"}, from : Nodes, to : Nodes]

\* Multicast reaches every socket in the group, the sender's own too.
Discover(n) == {[kind |-> "discover", from |-> n, to |-> m] : m \in Bound}

\* An answer to a computer reaches the socket that was bound there last.
Answerers(h) ==
    LET on == {i \in DOMAIN bound : Host[bound[i]] = h}
    IN  {bound[i] : i \in {k \in on : \A j \in on : j <= k}}

Name(n, m) == {[kind |-> "name", from |-> n, to |-> k] : k \in Answerers(Host[m])}

\* Some of the datagrams that are sent get on their way.
Send(left, sent) ==
    \E got \in SUBSET sent :
        /\ Cardinality(left \cup got) <= MaxUdp
        /\ udp' = left \cup got

\* A datagram that is read may come once more.
Read(p) == {udp, udp \ {p}}

-------------------------------------------------------------------------------
(***************************************************************************)
(* The worker's table.                                                     *)
(***************************************************************************)
\* The own entry says connectTo, as those of connected peers do.
Dialable(n, m) == m # n /\ m \notin dialing[n] /\ m \notin Linked(n)

AttemptConnections(n, ms) ==
    LET new == {m \in ms : Dialable(n, m)} IN
    /\ table' = [table EXCEPT ![n] = @ \cup new]
    /\ dialing' = [dialing EXCEPT ![n] = @ \cup new]

Alone(n) == table[n] = {}

Stopped(timer, n) == [timer EXCEPT ![n] = FALSE]

-------------------------------------------------------------------------------
\* run, once its sockets are bound; nothing gives multicastIsFunctioning a
\* value before.
Start(n) ==
    /\ phase[n] = "off" /\ starts < MaxStarts
    /\ starts' = starts + 1
    /\ phase' = [phase EXCEPT ![n] = "up"]
    /\ bound' = Append(bound, n)
    /\ Send(udp, {[kind |-> "discover", from |-> n, to |-> m] : m \in Bound \cup {n}})
    /\ single' = [single EXCEPT ![n] = TRUE]
    /\ UNCHANGED <<peers, repeat>>

\* run, if a socket cannot be bound; the worker hears of it later.
StartFails(n) ==
    /\ phase[n] = "off" /\ starts < MaxStarts
    /\ starts' = starts + 1
    /\ phase' = [phase EXCEPT ![n] = "failing"]
    /\ single' = [single EXCEPT ![n] = TRUE]
    /\ UNCHANGED <<bound, udp, peers, repeat>>

ServerSetupFailure(n) ==
    /\ phase[n] = "failing"
    /\ phase' = [phase EXCEPT ![n] = "failed"]
    /\ single' = Stopped(single, n) /\ repeat' = Stopped(repeat, n)
    /\ UNCHANGED <<bound, udp, peers, starts>>

\* udpRecieve: somebody asks.
HearDiscover(n, m) ==
    LET p == [kind |-> "discover", from |-> m, to |-> n] IN
    /\ p \in udp /\ phase[n] = "up"
    /\ \E left \in Read(p) : Send(left, Name(n, m))
    /\ UNCHANGED <<phase, bound, peers, timers, starts>>

\* udpRecieve: somebody answers.
HearName(n, m) ==
    LET p == [kind |-> "name", from |-> m, to |-> n] IN
    /\ p \in udp /\ phase[n] = "up"
    /\ AttemptConnections(n, {m})
    /\ udp' \in Read(p)
    /\ UNCHANGED <<phase, bound, linked, timers, starts>>

DiscoveryTimerSingleShot(n) ==
    /\ single[n]
    /\ single' = [single EXCEPT ![n] = FALSE]
    /\ IF Alone(n)
       THEN repeat' = [repeat EXCEPT ![n] = TRUE] /\ Send(udp, Discover(n))
       ELSE UNCHANGED <<repeat, udp>>
    /\ UNCHANGED <<phase, bound, peers, starts>>

DiscoveryTimerPersistent(n) ==
    /\ repeat[n]
    /\ IF Alone(n)
       THEN Send(udp, Discover(n)) /\ UNCHANGED repeat
       ELSE repeat' = [repeat EXCEPT ![n] = FALSE] /\ UNCHANGED udp
    /\ UNCHANGED <<phase, bound, peers, single, starts>>

\* The user asks for it.
Bloom(n) ==
    /\ phase[n] # "off"
    /\ Send(udp, Discover(n))
    /\ UNCHANGED <<phase, bound, peers, timers, starts>>

\* A list of the peers of m arrives.
Sync(n, m) ==
    /\ m \in Linked(n) /\ phase[m] = "up"
    /\ AttemptConnections(n, Linked(m))
    /\ UNCHANGED <<phase, bound, udp, linked, timers, starts>>

\* A listener takes the call.  Either end authenticates the connection, in its
\* own time and in place of the one it has; a dial the other way, or what is
\* left of an earlier connection, may be replaced by it or replace it, at one
\* end or at both.
DialSucceeds(n, m) ==
    /\ m \in dialing[n] /\ phase[m] = "up"
    /\ dialing' = [dialing EXCEPT ![n] = @ \ {m}]
    /\ \E ends \in SUBSET {<<n, m>>, <<m, n>>} :
          linked' = (linked \ {<<n, m>>, <<m, n>>}) \cup ends
    /\ \E known \in SUBSET {n} :
          /\ <<m, n>> \in linked' => known = {n}
          /\ table' = [table EXCEPT ![m] = @ \cup known]
    /\ UNCHANGED <<phase, bound, udp, timers, starts>>

\* The entry stays, but says that there is no connection.
DialFails(n, m) ==
    /\ m \in dialing[n]
    /\ dialing' = [dialing EXCEPT ![n] = @ \ {m}]
    /\ linked' = linked \ {<<n, m>>}
    /\ UNCHANGED <<phase, bound, udp, table, timers, starts>>

\* The other end is gone, or the network between the two.  The entry stays.
LosesPeer(n, m) ==
    /\ <<n, m>> \in linked
    /\ linked' = linked \ {<<n, m>>}
    /\ UNCHANGED <<phase, bound, udp, table, dialing, timers, starts>>

Quit(n) ==
    /\ phase[n] # "off" /\ starts < MaxStarts
    /\ phase' = [phase EXCEPT ![n] = "off"]
    /\ \/ n \notin Bound /\ UNCHANGED bound
       \/ \E i \in DOMAIN bound : bound[i] = n /\ bound' = RemoveAt(bound, i)
    /\ udp' = {p \in udp : p.to # n}
    /\ table' = [table EXCEPT ![n] = {}]
    /\ dialing' = [dialing EXCEPT ![n] = {}]
    /\ linked' = {l \in linked : l[1] # n}
    /\ single' = Stopped(single, n) /\ repeat' = Stopped(repeat, n)
    /\ UNCHANGED starts

-------------------------------------------------------------------------------
Init ==
    /\ phase = [n \in Nodes |-> "off"]
    /\ bound = <<>> /\ udp = {} /\ linked = {}
    /\ table = [n \in Nodes |-> {}] /\ dialing = [n \in Nodes |-> {}]
    /\ single = [n \in Nodes |-> FALSE] /\ repeat = [n \in Nodes |-> FALSE]
    /\ starts = 0

Next == \E n \in Nodes :
    \/ Start(n) \/ StartFails(n) \/ ServerSetupFailure(n)
    \/ DiscoveryTimerSingleShot(n) \/ DiscoveryTimerPersistent(n) \/ Bloom(n) \/ Quit(n)
    \/ \E m \in Nodes : \/ HearDiscover(n, m) \/ HearName(n, m) \/ Sync(n, m)
                        \/ DialSucceeds(n, m) \/ DialFails(n, m) \/ LosesPeer(n, m)

Spec == Init /\ [][Next]_vars

\* Timers fire, and of questions and answers that are repeated for ever some get
\* through.
Fairness ==
    \A n \in Nodes :
        /\ WF_vars(DiscoveryTimerSingleShot(n))
        /\ SF_vars(DiscoveryTimerPersistent(n) /\ (Alone(n) => Discover(n) \subseteq udp'))
        /\ WF_vars(ServerSetupFailure(n))
        /\ \A m \in Nodes :
             /\ SF_vars(HearDiscover(n, m) /\ Name(n, m) \subseteq udp')
             /\ WF_vars(HearName(n, m))

FairSpec == Spec /\ Fairness

-------------------------------------------------------------------------------
\* The variables have their types; the processes that run have bound their
\* sockets once, and only they dial and are connected.
TypeOK ==
    /\ phase \in [Nodes -> {"off", "up", "failing", "failed"}]
    /\ bound \in Seq(Nodes) /\ IsInjective(bound) /\ Bound = {n \in Nodes : phase[n] = "up"}
    /\ udp \subseteq Packets
    /\ table \in [Nodes -> SUBSET Nodes] /\ dialing \in [Nodes -> SUBSET Nodes]
    /\ \A n \in Nodes : dialing[n] # {} => phase[n] = "up"
    /\ linked \subseteq {n \in Nodes : phase[n] = "up"} \X Nodes
    /\ single \in [Nodes -> BOOLEAN] /\ repeat \in [Nodes -> BOOLEAN]
    /\ starts \in 0..MaxStarts

\* A process that no longer looks for others has somebody in its table, or
\* could not be set up.
QuietKnows ==
    \A n \in Nodes : phase[n] = "up" /\ ~single[n] /\ ~repeat[n] => table[n] # {}

\* A process hears its own question, answers it, and does not dial itself.
NoSelfDial == \A n \in Nodes : n \notin dialing[n] /\ n \notin table[n]

\* The three together: who looks for others, and for whom.
DiscoverySound == TypeOK /\ QuietKnows /\ NoSelfDial

\* Where a process runs beside another one, of the same computer or not, one of
\* its computer in the end has heard of somebody, whatever becomes of dials and
\* of the first questions.
SomebodyIsHeard ==
    \A n \in Nodes :
        (\E m \in Nodes \ {n} : <>[](phase[n] = "up" /\ phase[m] = "up"))
            => <>[](\E k \in Nodes : Host[k] = Host[n] /\ table[k] # {})
===============================================================================
