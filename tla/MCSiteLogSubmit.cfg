\* One capture with its inline text and one photo; two accounts; two faults.
SPECIFICATION Spec
CONSTANTS
    Attachments = {text, photo}
    Inline = text
    Users = {author, other}
    Author = author
    Nobody = nobody
    MaxFaults = 2
INVARIANTS
    NothingIsLost
    OnlyTheAuthorWrites
    NotSentIsTrue
PROPERTIES
    NoResurrection
    QuietRunCompletes
    RunAdvances
CHECK_DEADLOCK FALSE
