CONSTANTS
    Convs = {global, null, anna, ben}
    Global = global
    Null = null
    Label = label
    Texts = {"said", "mine", "date", "gone", "back", "renamed"}
    Cap = 3
    MaxTexts = 12
    Names = {1, 2}
    NoItem = noItem
    MaxEvents = 4
SYMMETRY Symmetry
SPECIFICATION ListSpec
INVARIANTS ViewSound ListSound DisplayMatchesList MarksAreUnread StatusShown
PROPERTY KeepsConversations
CHECK_DEADLOCK FALSE
