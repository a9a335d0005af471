----------------------------- MODULE MCListeners -----------------------------
(* Instances of Listeners for TLC. *)
EXTENDS Listeners, TLC

CONSTANTS w, a, b, c, none

Watcher == {w}

\* With TLS on both; then the proxy moves, and so does the control plane, to the port it left,
\* or the control plane is closed and the proxy gives TLS up; and then back to TLS.
Both    == [listen |-> a, admin |-> b, tls |-> TRUE]
Swapped == [listen |-> c, admin |-> a, tls |-> TRUE]
Alone   == [listen |-> c, admin |-> none, tls |-> FALSE]

MCSettings == <<{Both}, {Swapped, Alone}, {Swapped}>>
=============================================================================
