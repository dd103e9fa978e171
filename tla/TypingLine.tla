------------------------------ MODULE TypingLine ------------------------------
(***************************************************************************)
(* "is typing..." and "has entered text.": what a process tells its peers  *)
(* about the text box of its window, and what their windows make of it.    *)
(*                                                                         *)
(* The writer has one text box for all conversations.  Changing it tells   *)
(* the peer of the current conversation "typing" and, if the timer is not  *)
(* running yet, "entered"; the timer says "end" once it finds the box      *)
(* empty.  The signals of the window, the worker's queue and the           *)
(* connection keep their order and are one queue here.  The reader shows a *)
(* line under the conversation, if that has a widget, and a timer of its   *)
(* own takes lines down that nobody renews.                                *)
(***************************************************************************)
EXTENDS Naturals, Sequences

CONSTANTS
    Peers,     \* the peers the writer has conversations with
    Global,    \* the global chat, in which nobody is told anything
    NoItem,    \* no current item in the list
    MaxTransit \* bound: the writer is idle while so much is on its way

ASSUME ItemsAssumption == Global \notin Peers /\ NoItem \notin Peers \cup {Global}
ASSUME MaxTransitAssumption == MaxTransit \in Nat

VARIABLES
    \* the writer
    current,  \* the current item of the list
    box,      \* is there text in the text box?
    ticking,  \* is textEnteredTimer active?
    due,      \* peers not told "typing" in the last half second
    told,     \* peers the last word to was "entered" and not "end"
    \* on the way
    up,       \* the peers there is a connection to
    transit,  \* what is on its way to each
    \* the windows of the readers
    widget,   \* readers whose conversation with the writer has a widget
    typing,   \* TextWidget::typing
    entered,  \* TextWidget::textEntered
    fresh,    \* readers that were told "typing" in the last half second
    line,     \* what the line says
    visible   \* is it shown?

writerVars == <<current, box, ticking, due, told>>
readerVars == <<widget, typing, entered, fresh, line, visible>>
vars       == <<writerVars, up, transit, readerVars>>

Alerts == {"typing", "entered", "end"}

\* Forms of the helpers below that a slip in the code would give them; the
\* specification does not use them.
Mutant_Leaving(t, i) == t
Mutant_Watched(on) == on
Mutant_Announced(i) == told \cup {i}
Mutant_AfterTyping(p) == line
Mutant_Stale(p) == FALSE

-------------------------------------------------------------------------------
(***************************************************************************)
(* Telling.  t is the queues so far; nobody is told over no connection.    *)
(***************************************************************************)
Post(t, i, k) == IF i \in up THEN [t EXCEPT ![i] = Append(@, k)] ELSE t

\* PXMPeerWorker::typing
Typing(t, i) == IF i \in due THEN Post(t, i, "typing") ELSE t

\* typingHandler: is the timer running after it?
Watched(on) == current # NoItem \/ on

\* typingHandler, with what it tells the peer of item i.
Changed(t, i) == IF ticking THEN Typing(t, i) ELSE Post(Typing(t, i), i, "entered")

\* Only peers can be told, of which the global chat is none.
Announced(i) == told \cup ({i} \cap Peers)

\* currentItemChanged says goodbye to the peer of the item before.
Leaving(t, i) == Post(t, i, "end")

Idle == \A p \in Peers : Len(transit[p]) < MaxTransit

-------------------------------------------------------------------------------
\* The text box changes, but not from empty to empty.
Type ==
    /\ Idle
    /\ box' \in BOOLEAN /\ (box \/ box')
    /\ ticking' = Watched(ticking)
    /\ transit' = Changed(transit, current)
    /\ due' = due \ {current}
    /\ told' = IF ticking THEN told ELSE Announced(current)
    /\ UNCHANGED <<current, up, readerVars>>

\* sendButtonClicked: "end" is said to a peer, then the box is emptied, which
\* is a change like any other.
SendButtonClicked ==
    /\ Idle /\ box /\ current # NoItem
    /\ box' = FALSE
    /\ ticking' = Watched(ticking)
    /\ transit' = Changed(Post(transit, current, "end"), current)
    /\ due' = due \ {current}
    /\ told' = IF ticking THEN told \ {current} ELSE Announced(current)
    /\ UNCHANGED <<current, up, readerVars>>

CurrentItemChanged(i) ==
    /\ Idle /\ i # current
    /\ current' = i
    /\ LET left == Leaving(transit, current) IN
         IF box
         THEN /\ transit' = Post(Typing(left, i), i, "entered")
              /\ due' = due \ {i}
              /\ told' = Announced(i) \ {current}
         ELSE /\ transit' = left
              /\ told' = told \ {current}
              /\ UNCHANGED due
    /\ UNCHANGED <<box, ticking, up, readerVars>>

TextEnteredCallback ==
    /\ ticking /\ ~box /\ current # NoItem
    /\ ticking' = FALSE
    /\ transit' = Post(transit, current, "end")
    /\ told' = told \ {current}
    /\ UNCHANGED <<current, box, due, up, readerVars>>

HalfSecondPasses(p) ==
    /\ due' = due \cup {p}
    /\ UNCHANGED <<current, box, ticking, told, up, transit, readerVars>>

-------------------------------------------------------------------------------
\* clearInfoLine
ClearInfoLine(p) ==
    /\ typing' = typing \ {p}
    /\ entered' = entered \ {p}
    /\ visible' = visible \ {p}
    /\ UNCHANGED <<line, fresh>>

ShowTyping(p) ==
    /\ typing' = typing \cup {p}
    /\ fresh' = fresh \cup {p}
    /\ line' = [line EXCEPT ![p] = "typing"]
    /\ visible' = visible \cup {p}
    /\ UNCHANGED entered

\* While somebody is typing the line is left as it is.
ShowEntered(p) ==
    /\ entered' = entered \cup {p}
    /\ IF p \in typing
       THEN UNCHANGED <<line, visible>>
       ELSE /\ line' = [line EXCEPT ![p] = "entered"]
            /\ visible' = visible \cup {p}
    /\ UNCHANGED <<typing, fresh>>

\* An alert arrives; without a widget nothing is done about it.
Alert(p) ==
    /\ transit[p] # <<>>
    /\ transit' = [transit EXCEPT ![p] = Tail(@)]
    /\ IF p \in widget
       THEN \/ Head(transit[p]) = "typing" /\ ShowTyping(p)
            \/ Head(transit[p]) = "entered" /\ ShowEntered(p)
            \/ Head(transit[p]) = "end" /\ ClearInfoLine(p)
       ELSE UNCHANGED <<typing, entered, fresh, line, visible>>
    /\ UNCHANGED <<writerVars, up, widget>>

Stale(p) == p \notin fresh

\* showEntered, once typing is over
AfterTyping(p) == [line EXCEPT ![p] = IF @ = "typing" THEN "entered" ELSE @]

TimerCallback(p) ==
    /\ p \in widget /\ Stale(p)
    /\ IF p \in entered
       THEN /\ typing' = typing \ {p}
            /\ line' = AfterTyping(p)
            /\ visible' = IF line[p] = "typing" THEN visible \cup {p} ELSE visible
            /\ UNCHANGED <<entered, fresh>>
       ELSE ClearInfoLine(p)
    /\ UNCHANGED <<writerVars, up, transit, widget>>

GrowsStale(p) ==
    /\ fresh' = fresh \ {p}
    /\ UNCHANGED <<writerVars, up, transit, widget, typing, entered, line, visible>>

\* The conversation gives its widget away, and gets a new one, whose
\* typingTime nobody has set.
RemoveLastWidget(p) ==
    /\ p \in widget
    /\ widget' = widget \ {p}
    /\ typing' = typing \ {p} /\ entered' = entered \ {p} /\ visible' = visible \ {p}
    /\ line' = [line EXCEPT ![p] = "none"]
    /\ UNCHANGED <<writerVars, up, transit, fresh>>

SwitchToUuid(p) ==
    /\ p \notin widget
    /\ widget' = widget \cup {p}
    /\ fresh' \in {fresh \cup {p}, fresh \ {p}}
    /\ UNCHANGED <<writerVars, up, transit, typing, entered, line, visible>>

\* setItalicsOnItem, when the reader's window hears that the writer is gone;
\* what had arrived by then is handled before.
Disconnected(p) ==
    /\ p \in up
    /\ up' = up \ {p}
    /\ transit' = [transit EXCEPT ![p] = <<>>]
    /\ IF p \in widget THEN ClearInfoLine(p)
                       ELSE UNCHANGED <<typing, entered, fresh, line, visible>>
    /\ UNCHANGED <<writerVars, widget>>

Reconnected(p) ==
    /\ up' = up \cup {p}
    /\ UNCHANGED <<writerVars, transit, readerVars>>

-------------------------------------------------------------------------------
Init ==
    /\ current = NoItem /\ box = FALSE /\ ticking = FALSE
    /\ due = {} /\ told = {}
    /\ up = Peers /\ transit = [p \in Peers |-> <<>>]
    /\ widget \in SUBSET Peers
    /\ typing = {} /\ entered = {} /\ visible = {}
    /\ fresh \in SUBSET Peers
    /\ line = [p \in Peers |-> "none"]

Writer == \/ Type \/ SendButtonClicked \/ TextEnteredCallback
          \/ \E i \in Peers \cup {Global} : CurrentItemChanged(i)
          \/ \E p \in Peers : HalfSecondPasses(p)

Reader(p) == \/ Alert(p) \/ TimerCallback(p) \/ GrowsStale(p) \/ RemoveLastWidget(p)
             \/ SwitchToUuid(p) \/ Disconnected(p) \/ Reconnected(p)

Next == Writer \/ \E p \in Peers : Reader(p)

Spec == Init /\ [][Next]_vars

\* The timers run, time passes, and what was sent arrives.
Fairness ==
    /\ WF_vars(TextEnteredCallback)
    /\ \A p \in Peers : WF_vars(Alert(p)) /\ WF_vars(TimerCallback(p)) /\ WF_vars(GrowsStale(p))

FairSpec == Spec /\ Fairness

-------------------------------------------------------------------------------
\* The variables have their types.
TypeOK ==
    /\ current \in Peers \cup {Global, NoItem}
    /\ box \in BOOLEAN /\ ticking \in BOOLEAN
    /\ due \subseteq Peers /\ told \subseteq Peers /\ up \subseteq Peers
    /\ widget \subseteq Peers /\ typing \subseteq Peers /\ entered \subseteq Peers
    /\ fresh \subseteq Peers /\ visible \subseteq Peers
    /\ transit \in [Peers -> Seq(Alerts)]
    /\ line \in [Peers -> {"none", "typing", "entered"}]

\* A peer told of entered text is the one of the current conversation, and
\* either the text is there or the timer is, to take the word back.
ToldIsWatched == \A p \in told : current = p /\ (box \/ ticking)

\* The two together: the writer's side.
TypingSound == TypeOK /\ ToldIsWatched

\* A reader that believes text is entered, or is about to, was told so last,
\* or the word that takes it back is on its way after it.
BeliefIsRecent ==
    \A p \in Peers \ told :
        LET ends == {i \in DOMAIN transit[p] : transit[p][i] = "end"} IN
        /\ p \in entered => ends # {}
        /\ \A i \in DOMAIN transit[p] :
             transit[p][i] = "entered" => \E j \in ends : j > i

\* The line that is shown is explained by the flags that get it taken down.
LineHasReason ==
    \A p \in visible : /\ p \in widget
                       /\ line[p] = "typing" => p \in typing
                       /\ line[p] = "entered" => p \in entered \ typing

\* A peer is not shown "has entered text" for ever when there is no text for
\* it, whichever way the text went.
ForgottenText ==
    \A p \in Peers : <>[](current # p \/ ~box) => <>[](~(p \in visible /\ line[p] = "entered"))

\* Nor "is typing" when nothing more is said.
ForgottenTyping ==
    \A p \in Peers : <>[](transit[p] = <<>>) => <>[](~(p \in visible /\ line[p] = "typing"))
===============================================================================
