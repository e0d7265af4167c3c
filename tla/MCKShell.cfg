CONSTANTS
    len = 3
    hist_len = 2
    Typed = {"A", "B", "NUL"}
    Block = {"b1", "b2", "b3"}
SPECIFICATION Spec
INVARIANTS CursorAtEnd EntriesOwned InputSaved
PROPERTIES HistoryOfLines
