--------------------------------- MODULE Acl ---------------------------------
(***************************************************************************)
(* The access-control engine of src/src/acl.rs, as operators on a policy's *)
(* compiled rules, and what src/src/skills.rs tells an agent about them.   *)
(*                                                                         *)
(* A glob is the set of names it matches.  A policy is its rules in order  *)
(* and a default; a rule that never expires has the deadline Never, and    *)
(* times are naturals below it.  The empty path, of a request that names   *)
(* no tool, is NoPath.                                                     *)
(*                                                                         *)
(* An operator named Slip... is the definition after it gone wrong: what   *)
(* the property it names would catch.                                      *)
(***************************************************************************)
EXTENDS Integers, Sequences

CONSTANTS
  Names,    \* agents and targets
  Methods,
  Paths,    \* URL paths and tool names
  NoPath,   \* the empty one
  Never     \* the deadline of a rule without one: past every time

ASSUME NoPathIsNone == NoPath \notin Paths
ASSUME NeverIsLate == Never \in Nat

Kinds == {"http", "mcp"}
Actions == {"allow", "deny", "ask"}

Request == [agent : Names, kind : Kinds, target : Names,
            method : Methods, path : Paths \cup {NoPath}]

\* A pattern over paths: the paths it matches, and whether it was written `*`, `**` or
\* `/**`, which places no constraint.
PathPattern == [matches : SUBSET Paths, unconstrained : BOOLEAN]

Rule == [agent : SUBSET Names, kinds : SUBSET Kinds, target : SUBSET Names,
         methods : SUBSET (SUBSET Methods), paths : SUBSET PathPattern,
         action : Actions, expires : Nat]

Policy == [rules : Seq(Rule), default : Actions]

-----------------------------------------------------------------------------
(* Deciding. *)

\* path_matches: a request without a path is covered only by a rule that asks for none.
PathMatches(patterns, path) ==
  IF path = NoPath THEN \E p \in patterns : p.unconstrained
  ELSE \E p \in patterns : path \in p.matches

\* CompiledRule::matches
Expired(rule, now) == rule.expires # Never /\ now >= rule.expires

Matches(rule, request, now) ==
  /\ ~Expired(rule, now)
  /\ request.kind \in rule.kinds
  /\ request.agent \in rule.agent
  /\ request.target \in rule.target
  /\ \E m \in rule.methods : request.method \in m
  /\ PathMatches(rule.paths, request.path)

Matching(policy, request, now) ==
  {i \in DOMAIN policy.rules : Matches(policy.rules[i], request, now)}

\* Slip for OnlyThePermittedIsSent: the last rule that matches decides.
SlipDeciding(matching) == CHOOSE i \in matching : \A j \in matching : j <= i

\* The first one decides.
Deciding(matching) == CHOOSE i \in matching : \A j \in matching : i <= j

\* What is no rule's position: the default decided, or lockdown did.
ByDefault == 0
ByLockdown == -1

\* Acl::evaluate
Evaluate(policy, lockdown, request, now) ==
  LET matching == Matching(policy, request, now)
      first    == Deciding(matching)
  IN IF lockdown THEN [action |-> "deny", rule |-> ByLockdown]
     ELSE IF matching = {} THEN [action |-> policy.default, rule |-> ByDefault]
     ELSE [action |-> policy.rules[first].action, rule |-> first]

-----------------------------------------------------------------------------
(* Asking about the rules without a request. *)

ExpiredRules(policy, now) == {i \in DOMAIN policy.rules : Expired(policy.rules[i], now)}

RulesMentioning(policy, target) == {i \in DOMAIN policy.rules : target \in policy.rules[i].target}

RuleIndicesForAgent(policy, agent) == {i \in DOMAIN policy.rules : agent \in policy.rules[i].agent}

\* Slip for NothingReachableIsHidden: the kind of a rule must be named.
SlipRulesFor(policy, agent, kind, target) ==
  {i \in RuleIndicesForAgent(policy, agent) \cap RulesMentioning(policy, target) :
     policy.rules[i].kinds = {kind}}

RulesFor(policy, agent, kind, target) ==
  {i \in RuleIndicesForAgent(policy, agent) \cap RulesMentioning(policy, target) :
     kind \in policy.rules[i].kinds}

\* Slip for AsksOnlyWhenItCan: a default of `ask` is forgotten.
SlipCanAsk(policy, lockdown) ==
  ~lockdown /\ \E i \in DOMAIN policy.rules : policy.rules[i].action = "ask"

CanAsk(policy, lockdown) ==
  /\ ~lockdown
  /\ \/ policy.default = "ask"
     \/ \E i \in DOMAIN policy.rules : policy.rules[i].action = "ask"

-----------------------------------------------------------------------------
(* skills.rs: what an agent is told it can reach. *)

\* agent_may_address: no list of targets is any target.
MayAddress(targets, target) == targets = {} \/ target \in targets

\* access_for
AccessFor(policy, targets, agent, upstream) ==
  CASE ~MayAddress(targets, upstream) -> "none"
    [] MayAddress(targets, upstream) /\ RulesFor(policy, agent, "http", upstream) # {} -> "rules"
    [] OTHER -> IF policy.default = "deny" THEN "none" ELSE policy.default

\* reachable_upstreams
Reachable(policy, targets, agent, upstreams) ==
  {u \in upstreams : AccessFor(policy, targets, agent, u) # "none"}

\* rules_table: positions in the rules in force, looked up in the list of the config.
RulesTold(policy, listed, agent, upstream) ==
  {i \in RuleIndicesForAgent(policy, agent) \cap DOMAIN listed :
     /\ "http" \in listed[i].kinds
     /\ upstream \in listed[i].target}
=============================================================================
