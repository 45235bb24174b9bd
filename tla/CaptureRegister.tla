--------------------------- MODULE CaptureRegister ---------------------------
(***************************************************************************)
(* What a Site Log capture promises, with no transaction, request, attempt *)
(* number or storage key in it: a register per declared attachment that is *)
(* written at most once, a status that becomes complete only over a full   *)
(* register and then stays, and a job that is confirmed once and never     *)
(* forgotten.  SiteLogUpload implements it.                                *)
(***************************************************************************)
CONSTANTS Attachments, Inline, Contents, BodyText, Jobs, None

VARIABLES
    value,      \* what each attachment permanently holds, None until stored
    status,     \* capture_status
    job         \* the confirmed job, None while unassigned

vars == <<value, status, job>>

Full == \A a \in Attachments : value[a] # None

Init ==
    /\ value = [a \in Attachments |-> None]
    /\ status = "pending_upload"
    /\ job \in Jobs \cup {None}

\* The inline row accepts nothing but revision 1's text.
Store(a, c) ==
    /\ value[a] = None
    /\ a = Inline => c = BodyText
    /\ value' = [value EXCEPT ![a] = c]
    /\ UNCHANGED <<status, job>>

Complete ==
    /\ Full
    /\ status # "complete"
    /\ status' = "complete"
    /\ UNCHANGED <<value, job>>

FallShort ==
    /\ ~Full
    /\ status = "pending_upload"
    /\ status' = "partial_failed"
    /\ UNCHANGED <<value, job>>

Attribute(j) ==
    /\ j # job
    /\ job' = j
    /\ UNCHANGED <<value, status>>

Next ==
    \/ \E a \in Attachments, c \in Contents : Store(a, c)
    \/ Complete
    \/ FallShort
    \/ \E j \in Jobs : Attribute(j)

Spec == Init /\ [][Next]_vars
=============================================================================
