------------------------------- MODULE PeerList -------------------------------
(***************************************************************************)
(* The list of conversations in the window, beside the viewer that shows   *)
(* one of them.                                                            *)
(*                                                                         *)
(* The worker thread tells the window of peers that authenticate or change *)
(* their names, of peers that go, and of texts; the window posts the       *)
(* notices it wants printed back to the worker, so that a notice takes a   *)
(* trip through both queues before it is in the conversation.  The list    *)
(* holds the global chat, a separator that cannot be selected, whose uuid  *)
(* is null, and the peers by name.  To sort it, the window takes the       *)
(* global chat out and puts it back; while it is out, and it was the       *)
(* current item, the list makes another item the current one, with all     *)
(* that follows from that.                                                 *)
(***************************************************************************)
EXTENDS MessageView

CONSTANTS
    Names,      \* the host names peers have, as numbers in their order
    NoItem,     \* no current item
    MaxEvents   \* bound: what the peers and the user do in a run

Peers == Convs \ {Global, Null}
Chats == Peers \cup {Global}

ASSUME NamesAssumption == Names \subseteq Nat
ASSUME ItemsAssumption == NoItem \notin Convs
ASSUME TextsAssumption == Texts = {"said", "mine", "date", "gone", "back", "renamed"}
ASSUME MaxEventsAssumption == MaxEvents \in Nat /\ 2 * MaxEvents <= MaxTexts

VARIABLES
    rows,      \* the peers in the list, in its order
    hostname,  \* the text of the item of each
    current,   \* QListWidget::currentItem
    red,       \* conversations marked in the list
    italic,    \* peers shown in italics
    taken,     \* the global chat is out of the list
    inbox,     \* from the worker to the window
    outbox,    \* from the window to the worker
    known,     \* the peers in peersHash
    status,    \* what the worker last told the window of each
    seen,      \* how many texts a conversation had when it was last current
    events

listVars   == <<rows, hostname, current, red, italic, taken>>
workerVars == <<known, status>>
allVars    == <<vars, listVars, workerVars, inbox, outbox, seen, events>>

\* Forms of the helpers below that a slip in the code would give them; the
\* specification does not use them.
Mutant_Unmarked(c) == red
Mutant_Restyles(p, on) == on
Mutant_Displays(c) == UNCHANGED vars
Mutant_Sorted(ps) == {rows \o s : s \in SetToSeqs(ps \ ToSet(rows))}

Text(c, t, alert) == [kind |-> "text", conv |-> c, text |-> t, alert |-> alert]
Authed(p, n)      == [kind |-> "authed", peer |-> p, name |-> n]
Gone(p)           == [kind |-> "gone", peer |-> p]
Notice(p, t)      == [kind |-> "notice", conv |-> p, text |-> t]
Typed(c)          == [kind |-> "typed", conv |-> c]

Signals == [kind : {"text"}, conv : Chats, text : Texts, alert : BOOLEAN]
              \cup [kind : {"authed"}, peer : Peers, name : Names]
              \cup [kind : {"gone"}, peer : Peers]
Posts   == [kind : {"notice"}, conv : Peers, text : Texts] \cup [kind : {"typed"}, conv : Chats]

InList == ToSet(rows)

\* The texts of a conversation, wherever the viewer keeps them.
Log(c) == IF c \in OnStack THEN page[c] ELSE Restored(c)

-------------------------------------------------------------------------------
(***************************************************************************)
(* The worker thread, as far as the window hears of it.                    *)
(***************************************************************************)
Tell(s) ==
    /\ inbox' = inbox \o s
    /\ UNCHANGED <<vars, listVars>>

Happens == events < MaxEvents /\ events' = events + 1

\* An entry of the table, by a datagram or a list of peers.
LearnOf(p) ==
    /\ p \notin known
    /\ known' = known \cup {p}
    /\ Tell(<<>>)
    /\ UNCHANGED <<status, outbox, events>>

\* authHandler and, of a peer that changed its name, nameHandler.
NewAuthedPeer(p, n) ==
    /\ Happens
    /\ p \in known
    /\ status' = [status EXCEPT ![p] = "up"]
    /\ Tell(<<Authed(p, n)>>)
    /\ UNCHANGED <<known, outbox>>

\* peerQuit, which may be of a connection that was never authenticated.
ConnectionStatusChange(p) ==
    /\ Happens
    /\ p \in known
    /\ status' = [status EXCEPT ![p] = "gone"]
    /\ Tell(<<Gone(p)>>)
    /\ UNCHANGED <<known, outbox>>

\* msgHandler.  What is said to all comes back to whoever said it.
MsgRecieved(c) ==
    /\ Happens
    /\ c \in {Global} \cup {p \in Peers : status[p] = "up"}
    /\ Tell(<<Text(c, "said", TRUE)>>)
    /\ UNCHANGED <<workerVars, outbox>>

\* The date, to everybody in the table, where the global chat has an entry too.
MidnightTimerPersistent ==
    /\ Happens
    /\ \E order \in SetToSeqs(known \cup {Global}) :
         Tell([i \in DOMAIN order |-> Text(order[i], "date", FALSE)])
    /\ UNCHANGED <<workerVars, outbox>>

\* addMessageToPeer, and resultOfTCPSend of what the user wrote.
Printed(posted) ==
    CASE posted.kind = "notice" /\ posted.conv \in known ->
            <<Text(posted.conv, posted.text, FALSE)>>
      [] posted.kind = "typed" /\ posted.conv \in known ->
            <<Text(posted.conv, "mine", FALSE)>>
      [] OTHER -> <<>>

AddMessageToPeer ==
    /\ outbox # <<>>
    /\ outbox' = Tail(outbox)
    /\ Tell(Printed(Head(outbox)))
    /\ UNCHANGED <<workerVars, events>>

Worker ==
    \/ \E p \in Peers : LearnOf(p) \/ ConnectionStatusChange(p)
                        \/ \E n \in Names : NewAuthedPeer(p, n)
    \/ \E c \in Chats : MsgRecieved(c)
    \/ MidnightTimerPersistent
    \/ AddMessageToPeer

-------------------------------------------------------------------------------
(***************************************************************************)
(* The main thread.  currentItemChanged runs inside the call that changes  *)
(* the current item.                                                       *)
(***************************************************************************)
Unmarked(c) == red \ {c}

\* The separator's uuid is null, and the viewer opens a blank page for it.
Displays(c) == SwitchToUuid(c)

CurrentItemChanged(c) ==
    /\ current' = c
    /\ red' = Unmarked(c)
    /\ Displays(c)

\* The user selects an item.
Select(c) ==
    /\ ~taken
    /\ c \in InList \cup {Global} /\ c # current
    /\ CurrentItemChanged(c)
    /\ UNCHANGED <<rows, hostname, italic, taken, workerVars, inbox, outbox, events>>

\* Nothing is sent from the separator.
SendButtonClicked ==
    /\ Happens
    /\ ~taken
    /\ current \in Chats
    /\ outbox' = Append(outbox, Typed(current))
    /\ UNCHANGED <<vars, listVars, workerVars, inbox>>

Signalled(kind) == ~taken /\ inbox # <<>> /\ Head(inbox).kind = kind
Handled == inbox' = Tail(inbox) /\ UNCHANGED <<workerVars, events>>

\* The item is in the other style.
Restyles(p, on) == p \in InList /\ (p \in italic) # on

SetItalics(p, on) ==
    IF Restyles(p, on)
    THEN /\ italic' = IF on THEN italic \cup {p} ELSE italic \ {p}
         /\ outbox' = Append(outbox, Notice(p, IF on THEN "gone" ELSE "back"))
    ELSE UNCHANGED <<italic, outbox>>

SetItalicsOnItem ==
    /\ Signalled("gone")
    /\ SetItalics(Head(inbox).peer, TRUE)
    /\ Handled
    /\ UNCHANGED <<vars, rows, hostname, current, red, taken>>

\* What QListWidget makes current when the first item is taken.
Neighbours == {Null} \cup (IF rows = <<>> THEN {} ELSE {Head(rows)})

\* Does updateListWidget touch the order of the list?
Reorders(p, n) == p \notin InList \/ hostname[p] # n

\* updateListWidget up to takeItem(0).
UpdateListWidget ==
    /\ Signalled("authed")
    /\ LET p == Head(inbox).peer
           n == Head(inbox).name
       IN  /\ Reorders(p, n)
           /\ hostname' = [hostname EXCEPT ![p] = n]
           /\ outbox' = IF p \in InList THEN Append(outbox, Notice(p, "renamed")) ELSE outbox
    /\ taken' = TRUE
    /\ IF current = Global
       THEN \E c \in Neighbours : CurrentItemChanged(c)
       ELSE UNCHANGED <<vars, current, red>>
    /\ UNCHANGED <<rows, italic, workerVars, inbox, events>>

\* sortItems; peers of one name may come in any order.
Sorted(ps) ==
    {s \in SetToSeqs(ps) :
        \A i, j \in DOMAIN s : i < j => hostname[s[i]] <= hostname[s[j]]}

\* The rest of it, up to insertItem(0).
ListUpdated ==
    /\ taken
    /\ taken' = FALSE
    /\ LET p == Head(inbox).peer IN
         /\ rows' \in Sorted(InList \cup {p})
         /\ IF p \in InList
            THEN SetItalics(p, FALSE) /\ UNCHANGED vars
            ELSE NewHistory(p) /\ UNCHANGED <<italic, outbox>>
    /\ Handled
    /\ UNCHANGED <<hostname, current, red>>

UpdateUnchanged ==
    /\ Signalled("authed")
    /\ ~Reorders(Head(inbox).peer, Head(inbox).name)
    /\ SetItalics(Head(inbox).peer, FALSE)
    /\ Handled
    /\ UNCHANGED <<vars, rows, hostname, current, red, taken>>

\* A text of a conversation that is not listed is dropped.
Appended(c, t) == IF c \in Listed THEN AppendText(c, t) ELSE UNCHANGED vars

PrintToTextBrowser ==
    /\ Signalled("text")
    /\ LET m == Head(inbox) IN
         /\ red' = IF m.alert /\ current # m.conv
                   THEN red \cup ({m.conv} \cap (InList \cup {Global}))
                   ELSE red
         /\ Appended(m.conv, m.text)
    /\ Handled
    /\ UNCHANGED <<rows, hostname, current, italic, taken, outbox>>

Window ==
    \/ \E c \in Chats : Select(c)
    \/ SendButtonClicked
    \/ SetItalicsOnItem
    \/ UpdateListWidget \/ ListUpdated \/ UpdateUnchanged
    \/ PrintToTextBrowser

-------------------------------------------------------------------------------
ListInit ==
    /\ Init
    /\ rows = <<>>
    /\ hostname = [p \in Peers |-> 0]
    /\ current = NoItem
    /\ red = {} /\ italic = {}
    /\ taken = FALSE
    /\ inbox = <<>> /\ outbox = <<>>
    /\ known = {}
    /\ status = [p \in Peers |-> "none"]
    /\ seen = [c \in Convs |-> 0]
    /\ events = 0

ListNext ==
    /\ Worker \/ Window
    /\ seen' = [c \in Convs |-> IF current' = c THEN Len(Log(c)') ELSE seen[c]]

ListSpec == ListInit /\ [][ListNext]_allVars

-------------------------------------------------------------------------------
\* What the list shows is what there is: the items are the listed peers, in
\* the order of their names, and the variables have their types.
ListSound ==
    /\ IsInjective(rows) /\ InList = Listed \ {Global, Null}
    /\ ~taken => \A i, j \in DOMAIN rows : i < j => hostname[rows[i]] <= hostname[rows[j]]
    /\ current \in Convs \cup {NoItem}
    /\ red \subseteq Chats /\ italic \subseteq InList
    /\ inbox \in Seq(Signals) /\ outbox \in Seq(Posts)

\* What is typed goes to the conversation on display, also after the list has
\* made another item current by itself; it goes nowhere from the separator, and
\* then the page on display is the blank one.
DisplayMatchesList == current \in Convs => stack[1] = current

\* A conversation is marked exactly when somebody has said something in it
\* since it was last the current one.
MarksAreUnread ==
    \A c \in Convs :
        c \in red <=> \E i \in (seen[c] + 1)..Len(Log(c)) : Log(c)[i] = "said"

StatusTexts == {"gone", "back"}

\* What an element of a queue is to say in the conversation of p.
SaysTo(p, m) == IF m.kind \in {"text", "notice"} /\ m.conv = p THEN m.text ELSE "nothing"
OnTheWay(p, q) == [i \in DOMAIN q |-> SaysTo(p, q[i])]

\* The last of the first n texts that is a notice says that the peer went.
SaidGone(s, n) ==
    \E i \in 1..n : s[i] = "gone" /\ \A j \in (i + 1)..n : s[j] \notin StatusTexts

\* The notices in a conversation, with those still in a queue, say by turns
\* that the peer went and came back, and the last one agrees with the list.
ByTurns(s) ==
    \A n \in DOMAIN s : s[n] \in StatusTexts => (s[n] = "back" <=> SaidGone(s, n - 1))

NoticesTellTheTruth ==
    \A p \in InList :
        LET told == Log(p) \o OnTheWay(p, inbox) \o OnTheWay(p, outbox) IN
          ByTurns(told) /\ (p \in italic <=> SaidGone(told, Len(told)))

\* A listed peer the worker has no more news of is in italics exactly when the
\* last news were that it went.
ItalicsTellStatus ==
    \A p \in InList :
        (\A i \in DOMAIN inbox : inbox[i] # Gone(p) /\ inbox[i] \notin {Authed(p, n) : n \in Names})
            => (p \in italic <=> status[p] = "gone")

\* What the user is told of a peer's connection, in the list and in the
\* conversation, is so.
StatusShown == NoticesTellTheTruth /\ ItalicsTellStatus
===============================================================================
