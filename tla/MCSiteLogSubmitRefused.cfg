\* One capture with its inline text and one photo; two accounts; two faults.
SPECIFICATION Spec
CONSTANTS
    Attachments = {text, photo}
    Inline = text
    Users = {author, other}
    Author = author
    Nobody = nobody
    MaxFaults = 2
INVARIANT
    RefusalSettles
CHECK_DEADLOCK FALSE
