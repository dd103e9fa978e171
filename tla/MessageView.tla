----------------------------- MODULE MessageView -----------------------------
(***************************************************************************)
(* The conversations of the message viewer: StackedWidget, the documents   *)
(* of its TextWidgets and its saved histories.                             *)
(*                                                                         *)
(* Only so many conversations have a widget; the text of the others is     *)
(* saved in a hash under their uuid.  The widget on display is the first   *)
(* of the stack.  Selecting a conversation moves its widget there, or      *)
(* makes it a new one from the saved text, and the last widget gives way   *)
(* when the stack is full, whoever it belongs to.  A search of the hash    *)
(* finds the null uuid even if nothing is kept under it, for that is the   *)
(* uuid of a default History; the page it then makes is one of no          *)
(* conversation, and takes a place of the stack like any other.            *)
(***************************************************************************)
EXTENDS Naturals, Sequences, SequencesExt

CONSTANTS
    Convs,    \* the uuids pages are kept under
    Global,   \* the uuid of the global chat
    Null,     \* the null uuid, of no conversation
    Label,    \* the widget with the greeting, which is no conversation
    Texts,    \* what can be said
    Cap,      \* the number of widgets from which the last one gives way
    MaxTexts  \* bound: texts of one conversation in a run

ASSUME GlobalAssumption == Global \in Convs
ASSUME NullAssumption == Null \in Convs \ {Global}
ASSUME LabelAssumption == Label \notin Convs
ASSUME CapAssumption == Cap \in Nat /\ Cap >= 2
ASSUME MaxTextsAssumption == MaxTexts \in Nat

VARIABLES
    stack,    \* the widgets, in the order of the stacked widget
    page,     \* the document of the widget of a conversation
    history,  \* the uuids in the hash of saved histories
    stored    \* History::text of each

vars == <<stack, page, history, stored>>

\* Forms of the helpers below that a slip in the code would give them; the
\* specification does not use them.
Mutant_Full(s) == Len(s) > Cap
Mutant_Evicted(s) == IF Len(s) >= Cap THEN {Last(s)} ELSE {}
Mutant_Forgotten(kept, c) == kept
Mutant_Restored(c) == <<>>

OnStack == {c \in Convs : c \in ToSet(stack)}

\* What switchToUuid and append find.
Listed == OnStack \cup history \cup {Null}

(***************************************************************************)
(* removeLastWidget: the stack after it, the conversation whose text it    *)
(* saved (the greeting has none), and the saved texts.                     *)
(***************************************************************************)
Full(s)    == Len(s) >= Cap
Trimmed(s) == IF Full(s) THEN Front(s) ELSE s
Evicted(s) == IF Full(s) THEN {Last(s)} \ {Label} ELSE {}
Saved(s)   == [c \in Convs |-> IF c \in Evicted(s) THEN page[c] ELSE stored[c]]

\* history.remove(c)
Forgotten(kept, c) == kept \ {c}

\* history[c].text, which operator[] makes empty if nothing was kept.
Restored(c) == IF c \in history THEN stored[c] ELSE <<>>

\* History::append
Filed(c, t) == [stored EXCEPT ![c] = Append(Restored(c), t)]

-------------------------------------------------------------------------------
\* updateListWidget calls it for a peer that is not in the list yet.
NewHistory(c) ==
    /\ c \notin Listed
    /\ IF Full(stack)
       THEN /\ history' = history \cup {c}
            /\ stored' = [stored EXCEPT ![c] = <<>>]
            /\ UNCHANGED <<stack, page>>
       ELSE /\ stack' = Append(stack, c)
            /\ page' = [page EXCEPT ![c] = <<>>]
            /\ UNCHANGED <<history, stored>>

\* switchToUuid, of a conversation that has a widget and of one that has not.
SwitchToWidget(c) ==
    /\ \E i \in DOMAIN stack :
         /\ stack[i] = c
         /\ LET s == <<c>> \o RemoveAt(stack, i) IN
              /\ stack' = Trimmed(s)
              /\ history' = history \cup Evicted(s)
              /\ stored' = Saved(s)
    /\ UNCHANGED page

SwitchToHistory(c) ==
    /\ c \in Listed \ OnStack
    /\ LET s == <<c>> \o stack IN
         /\ stack' = Trimmed(s)
         /\ history' = Forgotten(history \cup Evicted(s), c)
         /\ stored' = Saved(s)
    /\ page' = [page EXCEPT ![c] = Restored(c)]

SwitchToUuid(c) == SwitchToWidget(c) \/ SwitchToHistory(c)

\* StackedWidget::append: a text of no listed conversation is dropped.
AppendText(c, t) ==
    \/ /\ c \in OnStack
       /\ Len(page[c]) < MaxTexts
       /\ page' = [page EXCEPT ![c] = Append(@, t)]
       /\ UNCHANGED <<stack, history, stored>>
    \/ /\ c \in Listed \ OnStack
       /\ Len(Restored(c)) < MaxTexts
       /\ history' = history \cup {c}
       /\ stored' = Filed(c, t)
       /\ UNCHANGED <<stack, page>>

-------------------------------------------------------------------------------
Init ==
    /\ stack = <<Label, Global>>
    /\ page = [c \in Convs |-> <<>>]
    /\ history = {}
    /\ stored = [c \in Convs |-> <<>>]

Next == \E c \in Convs : \/ NewHistory(c) \/ SwitchToUuid(c)
                         \/ \E t \in Texts : AppendText(c, t)

Spec == Init /\ [][Next]_vars

-------------------------------------------------------------------------------
\* The variables have their types; the stack always has a widget to display.
TypeOK ==
    /\ stack \in Seq(Convs \cup {Label}) /\ stack # <<>>
    /\ page \in [Convs -> Seq(Texts)]
    /\ history \subseteq Convs
    /\ stored \in [Convs -> Seq(Texts)]

\* A conversation has one home.  With two widgets, or a widget and a saved
\* history, its texts would be told apart by the order of a search.
OneHome == IsInjective(stack) /\ OnStack \cap history = {}

\* newHistory, switchToUuid and removeLastWidget each compare the number of
\* widgets with the limit at another moment; together they keep it.
StackBounded == Len(stack) <= Cap

\* The three together: where the texts are.
ViewSound == TypeOK /\ OneHome /\ StackBounded

(***************************************************************************)
(* Wherever a conversation is kept, its texts are there in the order they  *)
(* came, and selecting it displays them: the viewer implements             *)
(* Conversations.                                                          *)
(***************************************************************************)
C == INSTANCE Conversations WITH
        listed <- Listed,
        log    <- [c \in Convs |-> IF c \in OnStack THEN page[c] ELSE Restored(c)],
        open   <- stack[1]

KeepsConversations == C!Spec
===============================================================================
