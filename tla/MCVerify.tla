----------------------------- MODULE MCVerify -----------------------------
(* Every way a verification can go, against two policies; and one that     *)
(* gives up at once, against every policy of two rules.                    *)
EXTENDS Verify
CONSTANTS ana, bob, svc, initialize, other, path

AllNames == {ana, bob, svc}
TheAgents == {ana, bob}
AllMethods == {initialize, other}
AllPaths == {path}

Anything == [matches |-> {path}, unconstrained |-> TRUE]
Some == [matches |-> {path}, unconstrained |-> FALSE]

Rules == [agent : {{ana}, AllNames}, kinds : {{"mcp"}, Kinds}, target : {{svc}, AllNames},
          methods : {{AllMethods}}, paths : {{Anything}, {Some}}, action : Actions, expires : {1, Never},
          pattern : BOOLEAN]
\* What matches more than one name is a pattern, and here what matches one is not.
Sensible == {r \in Rules : r.pattern <=> r.target = AllNames}
Opener == [agent |-> AllNames, kinds |-> {"mcp"}, target |-> {svc}, methods |-> {{initialize}},
           paths |-> {Anything}, action |-> "allow", expires |-> 1, pattern |-> FALSE]

TwoRules == {<<>>} \cup {<<r>> : r \in Sensible} \cup {<<q, r>> : q, r \in Sensible}
           \cup {<<Opener, r>> : r \in Sensible}
AllPolicies == [rules : TwoRules, default : Actions]
Plain == {[rules |-> <<>>, default |-> "deny"], [rules |-> <<Opener>>, default |-> "ask"]}

At(transports, policies, well, flags, facts) ==
  [name : {svc}, transport : transports, policy : policies, wellFormed : well, headers : flags,
   signed : flags, probe : flags, resolves : flags, good : facts, entitled : facts, blunt : facts]
\* What a child is (its credential, a signature, a probe) tells no two of its ways apart.
Every == At({"upstream"}, Plain, BOOLEAN, BOOLEAN, BOOLEAN)
           \cup At({"remote"}, Plain, BOOLEAN, BOOLEAN, BOOLEAN)
           \cup At({"child"}, Plain, {TRUE}, {TRUE}, {TRUE})
           \cup At({"child"}, Plain, {FALSE}, {FALSE}, {FALSE})
           \cup At({"child"}, Plain, {TRUE}, {FALSE}, {TRUE})
           \cup At({"upstream", "remote"}, AllPolicies, {FALSE}, {TRUE}, {TRUE})
=============================================================================
