---------------------------- MODULE MCEnrolment ----------------------------
(* Instances of Enrolment for TLC. *)
EXTENDS Enrolment

CONSTANTS w1, w2, a1, a2, u1, u2, v1, v2, k1, k2, k3, open, payload, other

MCSlug == (u1 :> k1) @@ (u2 :> k2)

Rl(agent, target, action, spelled, meant) ==
  [agent |-> agent, target |-> target, action |-> action, calls |-> Calls, spelled |-> spelled, meant |-> meant]

\* Everything but the payload, as Secret Manager's level to read has it.
MCLevel == <<[action |-> "deny", calls |-> {payload}], [action |-> "allow", calls |-> {payload, other}]>>

MCProfiles == {[kind |-> "mcp", ref |-> v1, agent |-> a1, level |-> MCLevel],
               [kind |-> "upstream", ref |-> k1, agent |-> All, level |-> MCLevel]}

\* One that names a service, one with an empty list, one that allows everything unasked.
MCRuleSpecs == {Rl(a1, u1, "deny", TRUE, FALSE), Rl(All, u2, "ask", FALSE, FALSE),
                Rl(All, All, "allow", TRUE, FALSE)}

\* An agent limited to the first service and one to both; the rules that name either stand
\* around one that names neither.
MCStart ==
  {[agents |-> (a1 :> [targets |-> t, token |-> "hash"]) @@ (a2 :> [targets |-> {u1, u2}, token |-> "reference"]),
    services |-> (u1 :> [kind |-> "upstream", ref |-> v1]) @@ (u2 :> [kind |-> "mcp", ref |-> r]),
    rules |-> <<Rl(a1, u1, "allow", TRUE, FALSE), Rl(All, u2, "ask", TRUE, FALSE), Rl(All, u1, "deny", TRUE, FALSE)>>,
    default |-> "ask"] : t \in {{u1}}, r \in {v1, v2, k1, k2}}

\* The agents go before the service that both of them, or one, may use, and behind it.
MCLayouts == {<<a1, u1, "default", "rules", a2, u2>>}

\* And one that only has the first service, and no rules.
MCStarts ==
  MCStart \cup
  {[agents |-> (a1 :> [targets |-> {u1}, token |-> "hash"]) @@ (a2 :> None),
    services |-> (u1 :> [kind |-> "upstream", ref |-> v1]) @@ (u2 :> None), rules |-> <<>>, default |-> "ask"]}

Symmetric == Permutations(Writers)

\* What a writer no longer uses is not told apart.
Used == <<files, pc, moves, left, rest, commands, history,
          [w \in Writers |-> IF pc[w] \in {"edit", "save", "write"} THEN draft[w] ELSE Empty],
          [w \in Writers |-> IF pc[w] \in {"temp", "fill", "rename"} THEN hand[w] ELSE NoStore]>>
=============================================================================
