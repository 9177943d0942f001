--------------------------- MODULE AppendOnlyLog ---------------------------
(***************************************************************************)
(* What the event store promises its callers: a log of events that only    *)
(* grows, in which no event id and no idempotency key occurs twice, and    *)
(* which holds every event whose append was reported as "appended".        *)
(***************************************************************************)
EXTENDS Sequences, Naturals

CONSTANT Events     \* records with the fields id and key

VARIABLES
    log,            \* the events stored, in append order
    acknowledged    \* the events append_event has reported as appended

Clash(e, f) == e.id = f.id \/ e.key = f.key

Stored == {log[i] : i \in 1..Len(log)}

Init ==
    /\ log = <<>>
    /\ acknowledged = {}

Store(e) ==
    /\ \A f \in Stored : ~Clash(e, f)
    /\ log' = Append(log, e)
    /\ UNCHANGED acknowledged

Acknowledge(e) ==
    /\ e \in Stored
    /\ acknowledged' = acknowledged \cup {e}
    /\ UNCHANGED log

Next == \E e \in Events : Store(e) \/ Acknowledge(e)

Spec == Init /\ [][Next]_<<log, acknowledged>>
=============================================================================
