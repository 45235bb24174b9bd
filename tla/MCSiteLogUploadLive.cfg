SPECIFICATION FairSpec
CONSTANTS
    None = None
    Attachments = {photo, inline}
    Inline = inline
    Contents = {text}
    BodyText = text
    Jobs = {}
    EvidenceIds = {e1, e2}
    Requests = {r1, r2}
    MaxFaults = 2
PROPERTIES
    PendingIsLeft
    EventuallyComplete
