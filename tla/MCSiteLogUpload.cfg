SPECIFICATION Spec
CONSTANTS
    None = None
    Attachments = {photo, inline}
    Inline = inline
    Contents = {text, bytes}
    BodyText = text
    Jobs = {j1, j2}
    EvidenceIds = {e1, e2}
    Requests = {r1, r2}
    MaxFaults = 3
SYMMETRY Interchangeable
INVARIANTS
    ManifestMirrorsEvidence
    StoredObjectExists
    AttemptsAreFenced
    EvidenceFollowsJob
    RepliesHold
PROPERTIES
    SupersededIsInert
    ImplementsCapture
