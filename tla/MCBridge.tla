------------------------------ MODULE MCBridge ------------------------------
(* Instances of Bridge for TLC. *)
EXTENDS Bridge, TLC

CONSTANTS c1, c2

El(call, id) == [call |-> call, id |-> id]

\* A call, a notification, an answer to the server, and a batch of a call and a
\* notification.
MCMessages ==
  {[batch |-> FALSE, elements |-> <<El(c1, TRUE)>>],
   [batch |-> FALSE, elements |-> <<El(c1, FALSE)>>],
   [batch |-> FALSE, elements |-> <<El(None, FALSE)>>],
   [batch |-> TRUE,  elements |-> <<El(c1, TRUE), El(c2, FALSE)>>]}

Pol(mode, known, reach, one, two, life) ==
  [mode |-> mode, known |-> known, reach |-> reach, rules |-> (c1 :> one) @@ (c2 :> two), life |-> life]

\* A token outlives the margin, or does not; the second call of the batch is refused.
MCPolicies ==
  {Pol("optional", TRUE, TRUE, "allow", "deny", 3), Pol("required", TRUE, TRUE, "ask", "allow", 4),
   Pol("off", TRUE, TRUE, "allow", "allow", 3), Pol("optional", FALSE, TRUE, "allow", "allow", 4),
   Pol("required", TRUE, FALSE, "allow", "allow", 4)}
=============================================================================
