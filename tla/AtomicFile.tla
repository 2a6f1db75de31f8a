----------------------------- MODULE AtomicFile -----------------------------
(***************************************************************************)
(* What storage.JSONFile promises: a file whose content is replaced by one *)
(* save at a time, and at once.  A reader finds what it held before the    *)
(* save or what it holds after, whenever the program ends; only when the   *)
(* power fails may it find one of the contents since the directory was     *)
(* last flushed.  Nothing is promised of a file that was tampered with     *)
(* until a save has replaced it.                                           *)
(***************************************************************************)
CONSTANTS
    Readable,     \* what a reader may find
    Nothing       \* no save is under way

VARIABLES
    content,      \* what a reader finds
    possible,     \* what it may find when the power fails now
    writing,      \* the content being saved, or Nothing
    tampered

vars == <<content, possible, writing, tampered>>

Init ==
    /\ content \in Readable /\ possible = {content}
    /\ writing = Nothing /\ tampered = FALSE

Begins ==
    /\ writing = Nothing /\ writing' \in Readable
    /\ UNCHANGED <<content, possible, tampered>>

Replaces ==
    /\ content' = writing /\ possible' = possible \cup {writing}
    /\ UNCHANGED <<writing, tampered>>

\* It succeeded, or failed before or after it had replaced the content. Once
\* the directory is flushed nothing older comes back.
Ends ==
    /\ writing # Nothing /\ writing' = Nothing
    /\ possible' \in {possible, {content}}
    /\ tampered' \in {tampered, FALSE}
    /\ UNCHANGED content

Crash == writing' = Nothing /\ UNCHANGED <<content, possible, tampered>>

PowerFails ==
    /\ content' \in possible /\ possible' = {content'}
    /\ writing' = Nothing
    /\ UNCHANGED tampered

Tampering ==
    /\ tampered \/ tampered'
    /\ content' \in Readable /\ possible' \subseteq Readable

Next ==
    \/ Begins
    \/ writing # Nothing /\ Replaces
    \/ Ends \/ Crash \/ PowerFails
    \/ Tampering

Spec == Init /\ [][Next]_vars
=============================================================================
