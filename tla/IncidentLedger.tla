---------------------------- MODULE IncidentLedger ----------------------------
(***************************************************************************)
(* What the event pipeline promises of an event, with no API, broker or    *)
(* worker: it is stored, then handled; handling it opens an incident in    *)
(* the same step if something was detected in it; only an opened incident  *)
(* is announced downstream; and nothing of this is ever taken back.        *)
(***************************************************************************)
CONSTANTS Events, Detected

VARIABLES
    stored,    \* events with a row in the event store
    handled,   \* events whose result was committed
    opened,    \* events that have an incident
    notified   \* events a downstream system was told about

vars == <<stored, handled, opened, notified>>

Init ==
    /\ stored = {}
    /\ handled = {}
    /\ opened = {}
    /\ notified = {}

Store(e) ==
    /\ stored' = stored \cup {e}
    /\ UNCHANGED <<handled, opened, notified>>

Handle(e) ==
    /\ e \in stored
    /\ handled' = handled \cup {e}
    /\ opened' = opened \cup ({e} \cap Detected)
    /\ UNCHANGED <<stored, notified>>

Notify(e) ==
    /\ e \in opened
    /\ notified' = notified \cup {e}
    /\ UNCHANGED <<stored, handled, opened>>

Next == \E e \in Events : Store(e) \/ Handle(e) \/ Notify(e)

Spec == Init /\ [][Next]_vars

===============================================================================
