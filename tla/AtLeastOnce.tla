----------------------------- MODULE AtLeastOnce -----------------------------
(***************************************************************************)
(* What langstash promises its hooks (exporter/docs/20250606-langstash-    *)
(* buffered-export-spec.md, section 7.6): a trace it accepted is held      *)
(* until Langfuse has answered for it.  It may reach Langfuse more than    *)
(* once, and even before the hook hears that it was accepted.  In trouble  *)
(* it takes no more traces under this promise, and only a step in trouble  *)
(* may give one up.                                                        *)
(***************************************************************************)
CONSTANT Traces

VARIABLES
    accepted,  \* traces langstash has taken and answers for
    held,      \* traces that a restart would still find and send
    settled,   \* traces Langfuse stored, or refused for good
    trouble    \* something happened that langstash is not built for

vars == <<accepted, held, settled, trouble>>

Init == accepted = {} /\ held = {} /\ settled = {} /\ trouble = FALSE

\* Taking a trace means holding it, unless it is already settled.
Accept(t) ==
    /\ t \in Traces \ accepted
    /\ ~ trouble
    /\ accepted' = accepted \cup {t}
    /\ held' = held \cup {t} \/ (t \in settled /\ held' = held)
    /\ UNCHANGED <<settled, trouble>>

Settle(t) ==
    /\ t \in Traces
    /\ settled' = settled \cup {t}
    /\ UNCHANGED <<accepted, held, trouble>>

\* Only what is settled may be let go.
Release ==
    /\ UNCHANGED <<accepted, settled, trouble>>
    /\ held' \subseteq held /\ held \ held' \subseteq settled

\* What is given up is no longer accepted; what is still accepted stays held.
GetIntoTrouble ==
    /\ trouble' = TRUE
    /\ UNCHANGED settled
    /\ accepted' \subseteq accepted
    /\ held' = held \cap accepted'

Next ==
    \/ \E t \in Traces : Accept(t) \/ Settle(t)
    \/ Release
    \/ GetIntoTrouble

Spec == Init /\ [][Next]_vars

\* With Langfuse reachable in the end, everything held is settled.
FairSpec == Spec /\ \A t \in Traces : WF_vars(t \in held /\ Settle(t))
=============================================================================
