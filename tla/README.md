# PXMessenger: specifications, model checking and proofs

PXMessenger is a serverless LAN messenger (C++/Qt/libevent).  Processes find
each other with UDP multicast, keep one TCP connection per peer, exchange
texts, names and peer lists, and show conversations in a Qt window.  This
directory holds TLA+ modules of its core logic, TLC configurations that check
them on small instances, and TLAPS proofs for all instances.

## 1. The system

| part | state | operations |
|---|---|---|
| `PXMServer::ServerThread` (pxmserver.cpp) | libevent base, bufferevents and their callbacks, sockets | `accept_new`, `addDefaultBev`, `connectCB`, `tcpAuth`, `tcpRead`, `tcpErr`, `internalCommsRead`, `udpRecieve` |
| `PXMPeerWorker` (pxmpeerworker.cpp) | `peersHash`, `extraBevs`, `syncablePeers`, timers | one queued slot per server signal: `newAcceptedConnection`, `authHandler`, `peerQuit`, `attemptConnection`, `resultOfConnectionAttempt`, `packetHandler` |
| `Peers::BevWrapper`, `PeerData` (pxmpeers.*) | bufferevent pointer, mutex; entry of a peer | lock, replace, free in the destructor |
| `PXMClient` (pxmclient.cpp) | packed local uuid | `sendMsg`, `sendSingleType`, `sendUDP` |
| `PXMSync`, `TimedVector` (pxmsync.cpp, timedvector.h) | snapshot of the table and an iterator; uuids asked for a list, with an expiry | `beginPeerSync`, `syncNext`, `syncHandler`, `append`, `contains`, `remove` |
| `StackedWidget`, `TextWidget` (pxmstackwidget.cpp) | at most ten conversation widgets, the rest as saved text; typing line | `newHistory`, `append`, `switchToUuid`, `showTyping`, `showEntered`, `clearInfoLine`, timer |
| `PXMWindow` (pxmmainwindow.cpp) | list of peers, current item, text box, timer | `updateListWidget`, `setItalicsOnItem`, `printToTextBrowser`, `currentItemChanged`, `sendButtonClicked`, typing handlers |
| `PXMAgent`, `PXMIniReader` | configuration file, lock file, uuid in use; the threads | start-up, `getUUID`, `resetUUID`, `getPort`, the destructors |
| console, logger, settings dialog, `QSimpleUpdater` | | presentation and vendored code |

Threads: the server thread runs libevent; the worker thread owns the table and
receives the server's signals through its Qt event queue (all connections are
`Qt::QueuedConnection`), together with the sends it posts to `PXMClient`, which
lives in the same thread; the window runs in the main thread.  The worker talks
to the server through an internal bufferevent pair.

What is hard: a callback posts a signal and the table changes before the
handler runs; both ends of a connection can dial at once; bufferevents are
freed by handlers while sends, quits and internal messages naming them are
still queued; descriptors and bufferevents are released by different calls;
packets are cut from a stream by watermarks and a timer; three threads go down
waiting for each other; the list of the window changes its current item by
itself, and one of its items has a uuid that is no conversation's.
The full list, with lines, is under `hazards` in PROJECT.json.

## 2. Modules

| module | models | state and actions against the code |
|---|---|---|
| `PeerWorker` | `PXMPeerWorker`'s table and connections, the server's callbacks, sends | see 2.1 |
| `Network` | two `PeerWorker`s and the connections between them | see 2.2 |
| `MessageView`, `Conversations` | `StackedWidget` and its histories; what it promises the user | see 2.3 |
| `PeerList` | the window's list, extending `MessageView` | see 2.4 |
| `TcpFraming`, `PacketChannel` | packets in a stream of bytes; what the handlers expect of it | see 2.5 |
| `PeerSync` | `PXMSync`, `nextSyncTimer`, `TimedVector` | see 2.6 |
| `TypingLine` | "is typing", "has entered text" from text box to the other window | see 2.7 |
| `Identity` | slots of the ini file, lock file, port | see 2.8 |
| `Discovery` | multicast questions, answers and their timers | see 2.9 |
| `Lifecycle` | start and end of the three threads | see 2.10 |
| `QueueLemmas` | lemmas about sequences used as queues and stacks | proofs only |
| `NetworkProofs` | theorems about two processes | section 4 |
| `ProcessProofs` | theorems about `Identity` and `Lifecycle` | section 4 |
| `DiscoveryProofs` | theorems about `Discovery` and `PeerSync` | section 4 |
| `PeerListProofs` | theorems about `MessageView` and `PeerList` | section 4 |
| other `*Proofs` | theorems about the module of that name | section 4 |
| `MC*` | a definition or two that the configurations need | section 3 |

Definitions named `Mutant_...` are forms a helper would have after a plausible
slip in the code; no specification uses them.  They serve to see that each
property notices something.

### 2.1 PeerWorker

One process.  The variables `known`, `connectTo`, `isAuthed`, `bw`, `sock` are
`peersHash` and the fields of `PeerData`; `held` is the pointer inside each
`BevWrapper`; `extra` is `extraBevs`.  A connection is named by its
bufferevent; `phase` says which callback libevent would run on it, `freed`
whether it was given to `bufferevent_free`, `fd` what became of its descriptor.
`inbox` is the event queue of the worker thread, which carries the server's
signals and the worker's own posts to `PXMClient`; `wire` is the internal
bufferevent pair.  `shown` and `warned` are what the window was told.

Each worker action handles the head of `inbox` (`NewAcceptedConnection`,
`AuthHandler` in its two branches, `PeerQuit`, `AttemptConnection`,
`ResultOfConnectionAttempt`, `MsgHandler`, ...); each server action is a
libevent callback that changes a phase and appends a signal.  The destructor of
a wrapper, which frees the bufferevent, runs when the last reference goes:
`Doomed` finds the wrappers no entry, queue or list refers to any more.

Left out: packets are whole and well-formed; a dialled address answers with
the uuid it was dialled for; a bufferevent's memory is not used again for
another one; the entries of the process itself and of the global chat; failures
of `socket` and `accept`; an error between the end of a dial and the read of
`ADD_DEFAULT_BEV`.

### 2.2 Network

Two instances of `PeerWorker`, `A` and `B`.  A connection has one name at both
ends.  `AliceDials` is `connectCB` of one process, and what it dials is what
`BobAccepts`; a handler that writes puts a packet on `toBob` or `toAlice`
(`Written`), which is what `BobReads` or `AliceReads` in that order (`aPosts` and
`bPosts` say beside each queued send what it will write); a descriptor
closed at one end, or a first packet that is no authentication, ends the
connection at the other (`Ends`).  A bufferevent that is freed while its
descriptor stays open is heard of by nobody: `bufferevent_free` does not close
it, the options lack `BEV_OPT_CLOSE_ON_FREE`.  What `PeerWorker` leaves to its
environment is thereby decided: authentications, texts and requests for lists
arrive because the other process sent them.

`Overlap` says whether a dial may begin at any time.  Without it a `/name:`
still arrives at any time, also twice and between connected processes
(`AliceIgnores`: `attemptConnection` will return at once, since the mark is set
and nothing in the queue takes it back).  A name that makes its hearer dial
comes only when neither process dials or is about to and no bufferevent of an
earlier connection exists at either end (`Apart`).  This is a restriction of the
environment, not something the code sees to: nothing keeps two processes from
dialling each other at once, or one from dialling again before the other has
noticed that the last connection is gone.  What the code does then is in run
`network_duel` and under the disagreements.

### 2.3 MessageView and Conversations

`stack` is the order of the widgets, `page` their documents, `history` and
`stored` the hash.  `NewHistory`, `AppendText` and `SwitchToUuid` are the
methods of `StackedWidget`, with `removeLastWidget` inside the two that call
it.  A hash that is asked for the null uuid always seems to have it: the value
it returns for a missing key is a default `History`, whose uuid is null
(pxmstackwidget.h:25).  `Listed` therefore contains `Null`, and switching to it
makes a blank page that takes a place on the stack like any other; a
conversation may give way for it, and the page is saved and restored in its
turn.  `Conversations` has only `listed`, `log` and `open`, with the null uuid
listed from the start; `MessageView` implements it with the text taken from
wherever it is (`KeepsConversations`).  `Cap` is 10 in the code.

### 2.4 PeerList

`rows`, `hostname`, `red` and `italic` are the items of the list, `current` its
current item, `known` and `status` what the worker thinks.  `inbox` and `outbox`
are the Qt queues between the two threads.  The slots of the window are actions
with the calls they make: `currentItemChanged` runs inside whatever changes the
current item, with the switch of the viewer in it.  `updateListWidget` is cut in
two at the moment the global chat is out of the list (`taken`), where no other
slot runs.  Which item `QListWidget::takeItem` makes current is external: the
separator, which cannot be chosen but can be current, or the first peer.  For the
separator `currentItemChanged` switches the viewer to its uuid, the null uuid
(`Displays`), so that the blank page of 2.3 is on display until the user selects
something; nothing can be sent from there, for `sendButtonClicked` asks for a
peer or the global chat.
`std::sort` is not stable, so peers of one name come in any order.

### 2.5 TcpFraming and PacketChannel

One direction of a connection.  The bytes are positions in the stream: `pos` is
how far they were taken from the input buffer, `arrived` how far they have
reached it, `written` how far the sender got.  `low` is the low watermark (the
high one is the same number), `timer` the read time-out in force, `reader` the
callback that is installed.  `SendMsg` is `sendMsg`; `TcpAuthLength`,
`TcpAuthPacket`, `PacketLenRecv`, `TcpRead`, `TcpErrTimeout` and `TcpErrEof` are
the branches of the callbacks.  `greeting` is what the first packet says, as far
as `tcpAuth` looks at it: its type, whether its uuid is null, in how many parts
`:::` cuts its text, and the port (`Welcome`); whatever else it says ends the
connection.  Two bytes that are not a header may say any
length of `OtherLens`.  `PacketChannel` is what the handlers above take for
granted: the next packet, or, after a stall inside one, packets nobody sent
until the reader finds the beginning of one (`FramesPackets`).

Left out: what follows when the length of a message wraps around (the reader
is then `wild`); the other direction; the pair a process uses to talk to itself.

### 2.6 PeerSync

`syncing` is `areWeSyncing` (`Counts` is `TimedVector::contains`, `StoppedTimer`
what the last step of a round leaves of `nextSyncTimer`), `todo` what is left of the snapshot ahead of the
iterator, `timer` `nextSyncTimer`, `syncable` the `TimedVector` as the ages of
each peer's entries.  `waiting` and `last` are of the environment: the requests
a peer still has to answer and the list handled last.  Time is a `Tick` that
ages everything by one, and lists arrive
between ticks.  Definitions that `Discovery` has, too, begin with `Round`.

### 2.7 TypingLine

The writer's `box`, `ticking` (`textEnteredTimer`), `told` and the half-second
throttle `due`; the connection's queue `transit`; the readers' flags `typing`
and `entered`, `fresh` (is `typingTime` recent?), `visible`, `line`.  Actions
are the Qt slots of the window, the two timer callbacks, and the arrival of an
alert.  The Qt queue of the window, the worker and the connection keep their
order and are one queue.

### 2.8 Identity

`file` is the ini file, `view` what each process' `QSettings` read of it, and
`dirty` the keys it will write at its next `Flush`.  `PostInit`, `Quit`,
`OpenSettings` and `Accept` are the code's handlers; `Flush` is external, it is
what `QSettings` does when the event loop gets to it.  Ports are 16 bits wide.
The last slot (`MaxSlot`) and the set of uuids are bounds.

### 2.9 Discovery

All processes of a network: `bound` are the UDP sockets in the order they were
bound, `udp` the datagrams, `table` and `dialing` the entries of each process
and which of them are being dialled, `single` and `repeat` the two discovery
timers; `linked` has a pair for each entry that says authenticated, and the two
ends may differ.  A question reaches any of the group, an answer the socket of the
computer that was bound last, which is how `SO_REUSEADDR` sockets share a port
here.  Any datagram may be lost, late or doubled.  `DialSucceeds` leaves any
outcome at the two ends: `authHandler` replaces the connection an entry has, so
dials that cross may leave both connected, one, or neither.  A dial may fail and
a connected peer may be lost (`LosesPeer`) at any time, any number of times.
`PeerWorker`, `Network` and `PeerSync` have the detail.  A start is one
step, since the sockets are bound long before the first timer fires.

### 2.10 Lifecycle

`main`, `worker` and `server` say where each thread is; `inbox` is the worker's
event queue, filled before its thread runs, `pipe` the internal pair of
bufferevents, `internal` what `internalBev` points to.  The actions are the
stretches of `postInit`, `run`, the destructors and `main` between two points
where threads meet.  `WorkerLate` and `ServerLate` are the waits of three and
five seconds that give up.  `fault` is the first thing that ends the process
there and then: a write through a pointer nobody set, a use of a freed pair, a
`QThread` destroyed while it runs.  Definitions that
`Identity` has, too, begin with `Life`.

## 3. Runs

Every run finishes within a few minutes on two workers.

| run | configuration | what it shows |
|---|---|---|
| `overlap` | 2 peers, 3 bufferevents, 2 waiting callers, dials and calls of one peer may overlap | flags and wrappers agree, what is written to a peer goes to that peer (also by sends that wait), packets come after their authentication |
| `calm` | 2 peers, 4 bufferevents, connections of one peer do not overlap, 1 waiting caller | ownership is exact: nothing is used after it was freed, freed twice or forgotten; nobody is accused of spoofing; sessions belong to their peers and end by their own quit; nobody is left undialable |
| `network` | 2 processes, 2 connections, 2 datagrams, 1 text, 2 cuts, fair, a dial begins when nothing of another is left | at rest both ends agree; dials and ended connections are settled |
| `network_duel` | 2 connections, 2 datagrams, nothing cut, dials may begin at any time | counterexample: two processes that found each other stay unconnected |
| `peer_list` | 2 peers, the global chat and the separator, 3 widgets, 2 names, 4 events | what is typed goes to what is displayed, marks are unread texts, italics and notices are true, no text is lost |
| `framing` | 4 packets of 3 or 4 bytes, one length that is refused, 5 greetings, 2 stalls, 5 values of what is no header, fair | packets are handed on whole, in order and once; after a stall the reader finds its place and never rests inside a packet; whoever greets as `tcpAuth` wants is heard |
| `lifecycle` | 3 datagrams, fair | no write before the pair is known, the uuid is given back last, the process ends, failures are told |
| `sync` | 2 peers, 3 entries each, life and interval of 2 ticks, fair | late lists are refused, rounds keep their timer and end |
| `sync_timely` | 1 peer | counterexample: a list that comes in time is refused |
| `typing` | 2 peers, 2 alerts on the way to each, fair | readers believe what was said last or what is about to be taken back; no line outlives its reason for ever |
| `identity` | 3 processes, 4 slots, 5 uuids, both settings of the switch, port 65535 | identities are unique, and marks in the file are taken back by who set them, over starts, refusals, quits, crashes and dialogs |
| `discovery` | 2 processes on 1 computer, 3 starts, 4 datagrams, fair | nobody who knows nobody gives up, nobody dials itself, and of two processes that stay one has heard of the other in the end |

### Why the bounds are enough

* `PeerWorker`: what can go wrong takes a connection, its replacement and one
  more that is drawn in (a caller that has not authenticated), hence three or
  four bufferevents; two peers are needed for one entry to disturb another's.
  `Quiet` keeps the world from starting anything while `inbox` holds
  `MaxInbox` events; the worker's and the server's own steps have no such
  guard, so no handler is kept from posting.  `MaxCallers` bounds unanswered
  calls.
* `Network`: a connection that is cut, and one that replaces it; two datagrams let
  either side dial first and again, or be told what it knows; one text can meet
  every stage of a connection, the one ahead of its authentication included.
  What a third connection may do to `Agree` is settled by the proof.
* `PeerList`: four events of two peers let one leave and come back under
  another's name while the global chat is current; with room for three widgets
  the three conversations, the greeting and the separator's blank page evict and
  restore each other.
  `Cap` enters the code in one comparison only.
* `TcpFraming`: the uuid is one byte long, the type two, so that lengths below,
  at and between the two borders of `tcpRead` occur, as real packets or as
  bytes taken for a header; four packets and two stalls suffice to lose the
  place, find it, and lose it again.
* `Lifecycle`: datagrams matter before, between and after the other notices.
* `PeerSync`: an entry older than, as old as and younger than the limit; three
  entries make a first, a middle and a last.
* `TypingLine`: two peers, since the box is handed from one conversation to
  another; "typing", "entered" and "end" fit on the way in pairs, which is what
  their order is about.
* `Identity`: three processes can hold three slots, leave one by a crash and
  one by a quit; 65535 is where adding a slot number wraps around.  `Room`
  keeps free slots and uuids to choose from; `NotWrapped` ends the growth of
  the port by dialogs.
* `Discovery`: a second process on one computer makes answers go astray; four
  datagrams are a question and an answer of each process.  What a third
  process may do to the invariant is settled by the proof.

### Fairness

* `Network`: the event loops of both processes run, and what was sent arrives;
  nothing makes the network fail.  That a caller authenticates or goes is not
  assumed: it follows from its being such a process.  The code alone does not
  give it, for there is no time-out before authentication, and a silent caller
  of another kind keeps its wrapper for ever.
* `TcpFraming`: the event loop runs, bytes that were written arrive, timers fire.
* `Lifecycle`: each thread goes on; nobody has to close the window, and no wait
  has to give up.
* `PeerSync`: timers fire and time passes.  Peers need not answer.
* `TypingLine`: timers fire, time passes, alerts that were sent arrive while
  there is a connection.
* `Discovery`: timers fire, and of questions and answers that are
  repeated for ever some get through (strong fairness of the steps that deliver
  them).  Nothing is assumed of dials: they may fail, cross, or never end.
  `SomebodyIsHeard` is what such timers give.  More is not true of the code: both
  timers stop for good once the table has an entry, and a dial is not repeated,
  so two processes that know each other may stay apart; and where two share a
  computer the answers go to the one that was bound last, so the other hears of
  it only when it is dialled.

### Disagreements between the code and what it says

Both counterexamples are listed as findings, with the lines they quote.
`network_duel`: when two processes dial each other at once, `authHandler` of
each ends the connection it holds in favour of the other one, and `peerQuit`
closes a descriptor the other end counts on.  (`Agree` and `DialsResolve` fail
there, too, and also if a process may dial again while the other end still has
what is left of the last connection.)  `sync_timely`: `TimedVector::contains`
judges a list by the oldest request.  Others were met while modelling, and the
models leave them as they are:

* Where the connections of one peer overlap (`Overlap` TRUE), every property of
  run `calm` fails: a second connection has its peer accused of spoofing its own
  uuid for texts still queued from the first (pxmpeerworker.cpp:661-684); replacing
  a connection leaves its bufferevent in two wrappers (628-644); a dial that is
  refused clears the session that came by a call, and does not tell the window
  (575-583).
* Where two callers wait, `peerQuit` of a connection that has not authenticated
  frees the wrapper of the other (pxmpeerworker.cpp:505-507).  If the signal of the
  other's authentication is already queued, `authHandler` puts the freed bufferevent
  into its entry with `connectTo` set: no callback will ever come of it, and the
  peer is not dialled again.
  With `MaxCallers` at 2 TLC finds `NeverWedged`, `SessionSound`,
  `DescriptorsClosedOnce`, and `NoFault` and `OneWrapperPerBev` of
  `OwnershipExact` violated.  (`NoOrphan`, `WindowTellsTheTruth` and
  `SessionsEndByTheirOwnQuit` hold.)
* Once the user has switched to more than one instance, a process that started
  alone has not marked its slot, and the next one takes the same uuid
  (pxminireader.cpp:55-58, `MayToggle` TRUE); `UniqueIdentity` is checked for a
  switch that stays.
* "Timing out should not cause a problem" (pxmserver.cpp:285-288): after a
  silence of a second inside a packet, the rest of it is read from a header that
  is none, and a packet nobody sent may be handed on (`MadeUp`).
  `PacketChannel` says how far that goes.  The "1 day" of the same comment is
  an hour (pxmserver.h:29), and the branch for one byte (line 244) is never
  run, since the low watermark is two: half a header waits out that hour.
* The limit of an authentication counts the characters of the names, not their
  bytes (pxmconsts.h:51-55): a long name in another script is refused by
  every peer (`TooLong`).
* The settings dialog takes any name (pxmmainwindow.cpp:878), an authentication is
  split at `:::` (pxmserver.cpp:195): the connections of a user with that in the
  name are ended by every peer (`Welcome`).
* A user who quits before the server's set-up was heard of makes the worker
  write through `internalBev` before anybody set it (pxmpeerworker.cpp:87);
  `EndsInOrder` names that case (`hasty`).
* The main thread waits three seconds for a worker that may itself wait five
  (pxmagent.cpp:82, pxmpeerworker.cpp:88); `SlotGivenBackLast` holds until one
  of the waits gives up.
* The box that tells of a failed set-up is opened by the worker thread, since
  the lambda it is connected to has no receiver (pxmagent.cpp:257).
* While the list is sorted its current item may change from the global chat to
  a peer, whom a half-written text then goes to (pxmmainwindow.cpp:429), or to
  the separator, for which a blank page of no conversation is opened that takes a
  place of the ten (pxmmainwindow.cpp:396-401, pxmstackwidget.cpp:118-128).
* A process that was refused ("PXMessenger is already running") writes the null
  uuid over slot 0 as it leaves (pxmagent.cpp:86): the uuid of before is
  forgotten, and the next process is a new peer to everybody.
* A uuid may also be forgotten while several processes are allowed: a port that
  wraps around to the zero that stands for "none" makes a process leave the next
  slot empty, and two settings dialogs may then fill it at once
  (pxminireader.cpp:76-78).  That uuids are found again is therefore not a
  property.
* Two processes that start together take one slot, since each looks in the view
  it read at its start: `identity` starts them one after the other where
  several are allowed, and at any time where the lock file keeps them apart.
* `getPort` adds the first slot that is free now, not the slot of the process:
  two processes may get one port, and a settings dialog that is accepted as it
  came moves the port (pxminireader.cpp:76, pxmmainwindow.cpp:885).
* `multicastIsFunctioning` is read before it has a value if no question was
  heard, so the warning that nobody was found may be missing.

## 4. Proofs

All theorems hold for every value of the constants that the modules' named
assumptions allow.  Each is an invariant with the usual argument, or follows
from one: it holds in `Init`, each action keeps it (one step per action, under
it one per conjunct the action disturbs), and it implies the property.

* **`PeerWorkerProofs`.**  `TypeOK` is not inductive: a handler takes the
  process behind a bufferevent from an event in its queue, and only if that
  bufferevent has been created is there one.  `TypeInv` adds that every queued
  event and internal message names a created bufferevent.  On it rest
  `AuthedEntriesHaveSockets` (an entry is authenticated exactly when it has a
  descriptor, and is then not dialled) and, with `NewOnce`,
  `WrappersNotShared`: a connection is announced once and before its wrapper is
  used, therefore it enters `extraBevs` once and is adopted by one entry.
  `TableIsSound` is the three together.
  Two more hold whatever overlaps.  `EverythingGoesToItsPeer`: a wrapper is made
  for a process, by its entry or by its call, and whichever handler puts a
  connection into it, or moves it into an entry, that connection is with that
  process.  `PeersKept` adds that a connection in use was created, so that its
  process does not change.
  `SendersAreKnown` compares positions in the queue: a packet waits behind the
  auth signal of its connection, or its sender has an entry (`SenderInv`).

  The rest is proved under `Calm`, which is `~Overlap` and one waiting caller at
  most, for all peers, bufferevents and queue lengths.  The hypothesis is the
  regime of the `calm` run and not a convenience: with either half dropped TLC
  finds counterexamples, and they are what the code does (see the
  disagreements).  It is an assumption about who calls and when, and the code does
  not see to it: it says what the handlers do right when nothing overlaps.
  None of the properties is inductive, for
  each speaks of the table while steps depend on what waits in the queue.
  `CalmInv` therefore follows a connection through its life.  `Ordered` says in
  which order its signals may wait; `DialStages` and `CallStages` say, for every
  phase, which signals wait and which wrapper holds it; `SessionStages` ties a
  session's entry to its descriptor and its wrapper; `OneEach` is that a peer
  has one connection.  `HandlerSignals` says once what a handler does to the
  queue, and there is a lemma for each action.  `OwnershipIsExact`,
  `SessionsAreSound`, `DescriptorsAreClosedOnce` and `TheWindowTellsTheTruth` are
  read off the invariant; `SessionsEndByThemselves` is a property of steps, proved
  from it.  `NobodyIsWedged` needs two invariants more: who is marked has a request
  to dial on its way or a connection that exists (`MarkedHaveOne`), and of what
  has happened to a connection the news is on its way (`NewsToCome`).
* **`NetworkProofs`.**  Theorems about two processes and what is between them,
  for any finite set of connections and any number of datagrams, texts and failures,
  without `Overlap` (with it `Agree` fails, see above).
  What is said of both ends is said once, of a process as a value: `AliceNow`
  and `BobNow` are records, `TakesCall`, `IsCalled`, ... relations of two of them,
  and `AliceStepsAsSaid`, `BobStepsAsSaid` show that the two instances do just
  those steps.

  `Lone` is what one process keeps to while it has one live connection at most:
  what is marked, queued and held is about that one.  `Solo` says between two
  processes that whatever one of them has under way, a request to dial, a dial
  or a connection, is all there is.  Their conjunction at both ends, `Together`,
  is inductive: a name that is heard while a connection is up changes nothing
  (`SoloIgnores`), one that is heard when they are apart starts the only dial
  (`SoloAsks`).  That much is near to what `Apart` assumes, and is a lemma.  The
  theorem is `TheTwoAgree`.

  `Agree` speaks of the moments at which nothing is on its way, and so the
  invariant has to say at all others what is.  `Between` does, for each direction
  of a connection: a connection that the other end has not authenticated and
  that carries nothing has its first packet still to be written, as a post
  (`Greets`), and to the end that dialled that packet is an authentication;
  without a failure of the network a connection ends at the end that dialled
  only because the other closed it (`Uncut`).  At rest no packet is to come and
  no end unheard of, so both ends are authenticated over the connection they
  share, or neither is.
* **`PeerListProofs`.**  The viewer first: `ViewInv` (types, each conversation
  has its text in one place, the stack is within its limit) is inductive;
  `GivingWay` says what `removeLastWidget` leaves.  `KeepsEveryText` is the
  refinement: initial states map to initial states of `Conversations`, and each
  step to one of its steps or to none.  Every step of the window is a step of
  the viewer or leaves it alone (`ListDrivesView`), with `ListInv` saying that a
  half-done update is always that of the signal at the head of the queue.  The
  viewer's theorems carry over, and the conversation on display is the current
  item's.

  `ListIsSound` and `MarksAreTrue` come from `AllInv`.  Rows are only in order
  while no update is half-done (`Shown`), and the mark of a conversation
  compares how much of its text was seen with its length (`ReadUp`): the current
  one is read to the end, so a red one is not current.

  `StatusIsShown` is about three places a notice may be in: the text, the
  window's queue and the worker's.  `StatusInv` looks at them as one sequence.
  `Turns`: in it "gone" and "back" take turns, and the last is what the italics
  say; `Addressed`: a notice is to a peer that is listed; `NewsTrue`: the
  last news in the window's queue is the state of the peer, and without news
  the italics are.  A
  notice that moves from one queue to the next leaves the sequence as it was,
  and a change of the italics adds to its end.  TLC checked `StatusInv` on all
  states of `peer_list` before it was proved.
* **`ProcessProofs`, Identity.**  `IdentityIsSound` needs that only the process
  that holds a slot is about to write that it is in use (`Writers`).
  `IdentityIsUnique` assumes `Careful`: nobody changes the switch, and where
  several processes may run none starts before the others have written what
  they know.  The code keeps to neither by itself, and without either two
  processes do get one uuid (see the disagreements).  With one process allowed
  the lock file is the argument (`OneLock`).  With several, a uuid may be in
  the file, in what a process has read, in what it is about to write, and in
  use: `Own` says which of these exclude each other.  A uuid somebody uses is
  in the file only until that process has written (`AboutToLeave`), one about
  to be written is nowhere else (`SeedsAreNew`), and what a starting process has
  read is free (`OpenedSees`).
* **`ProcessProofs`, Lifecycle.**  `LifeInv`: the pair is there as long as the
  worker knows of it and the event loop runs (`PairStands`), a request that needs the
  pair waits behind its notice (`AttemptsFollow`), and where each thread stands
  goes with where the others do (`InStep`).  After a fault nothing but the two
  properties is claimed.
* **`TcpFramingProofs`.**  `FramingInv` says that packets lie end to end in the
  stream, the first of them an authentication, and that a reader no silence has
  disturbed stands at the beginning of the packet after the last it handed on.
  `FramingImplementsChannel` is the refinement of `PacketChannel`: whatever a
  silence did, `pos` only grows, and the packet after the last one begun is one
  more than before exactly when a whole packet was read.
* **`DiscoveryProofs`, PeerSync.**  That a believed list answers a young request relates
  two queues, the entries kept here and the requests still to be answered
  there.  `Fit` says how: the requests are the youngest of the entries, in
  order.  It is kept when a peer is asked, answers, leaves or grows older
  (`FitAsked`, `FitAnswered`, `FitAlone`, `FitAged`).
* **`TypingLineProofs`.**  A reader that is not told of text may believe in it
  as long as an "end" is on its way.  `Settled` says this of a queue and a
  belief; it is kept by every alert that is added or read.
* **`DiscoveryProofs`, Discovery.**  `QuietKnows` and `NoSelfDial` are inductive together
  with the types: tables never shrink while a process runs, only a start makes
  it run, and no process is bound twice.

Only model-checked:

* Everything that must happen in the end, since the prover has no rules for
  fairness: `DialsResolve`, `RoundEnds`, `TimerStops`, `ForgottenText`,
  `ForgottenTyping`, `SomebodyIsHeard`, `Recovers`, `Arrives`, `ShutsDown`,
  `FailureIsTold`.  Modules that state fairness do so in a specification of its
  own (`FairSpec`, `RoundFairSpec`), so that the theorems speak of `Spec`.

## 5. Plan

In the order of their importance to the user, all built: connections
(`PeerWorker`), two processes (`Network`), packets (`TcpFraming`), conversations
(`MessageView`), the window's list (`PeerList`), peer lists (`PeerSync`), the
typing line, identity, discovery, start and end (`Lifecycle`).  What would come
next:

1. A statement of what still holds of sessions and ownership when calls and dials
   of a peer overlap or several callers wait, and its proof; with it, `Network`
   for three processes.
2. `Network` with `Overlap`: an invariant of what dials that cross leave behind.
3. The memory behind a bufferevent used again for another one, so that
   comparing pointers can be wrong.
4. The names and numbers of a settings dialog on their way to peers
   (`MSG_NAME`, `setLocalHostname`).

## 6. Not modelled

* The console, the logger, the updater, the menus, the tray icon, focus, sounds,
  fonts and colours: presentation, or vendored code, without a part in the
  protocol.
* `NetCompression`'s bytes, the texts' HTML and `removeBodyFormatting`:
  conversions that keep no state.
* The prune that printing the table triggers (timedvector.h:83) and a listener
  that cannot be bound (pxmserver.cpp:524): what they do is undefined in C++.
* `multicastIsFunctional` and the warning that nobody was found: one flag, read
  once, with no effect on the protocol.
