------------------------------ MODULE Pipeline ------------------------------
(***************************************************************************)
(* A call through the proxy, from its token to its answer, on each of the  *)
(* three surfaces that decide: the HTTP proxy (src/src/proxy.rs), the MCP  *)
(* gateway's `iap_request` (src/src/gateway.rs) and the control plane's    *)
(* `authorize` (src/src/admin.rs), with the gate they share                *)
(* (src/src/gate.rs), who the caller is (src/src/state.rs and              *)
(* src/src/identity.rs) and the rules (module Acl).  Below it runs what    *)
(* changes under a call: a reload, part by part, lockdown, the clock, a    *)
(* log that cannot be written.  The human is the broker of module          *)
(* ApprovalPromise, whose call is the same call.                           *)
(*                                                                         *)
(* Each lock or await a call passes ends a step.                           *)
(*                                                                         *)
(* An operator named Slip... is the definition after it gone wrong: what   *)
(* the property it names would catch.                                      *)
(***************************************************************************)
EXTENDS Acl

CONSTANTS
  Calls,
  Requests,     \* the access requests calls are about
  Surfaces,     \* of "http", "gateway", "authorize"
  Policies,     \* the policies the file has held, in order: rules, default, roster,
                \* the targets of each agent, upstreams, workload mode
  MaxTime       \* bound on the clock

ASSUME RequestsAreRequests == Requests \subseteq Request
ASSUME SurfacesAreTheThree == Surfaces \subseteq {"http", "gateway", "authorize"}
ASSUME PoliciesArePolicies ==
  /\ Len(Policies) \in Nat \ {0} /\ DOMAIN Policies = 1..Len(Policies)
  /\ \A e \in DOMAIN Policies : Policies[e].rules \in Seq(Rule) /\ Policies[e].default \in Actions
ASSUME TimeIsBeforeNever == MaxTime \in Nat /\ MaxTime < Never

VARIABLES
  about, status, standing,  \* the broker's promise: see ApprovalPromise
  served,     \* the edition in force of each part of the policy
  loading,    \* the edition a reload is installing; 0 for none
  lockdown,
  now,
  writable,   \* whether the log can be written
  pc,         \* what each call does next
  surface,    \* where it came in
  cred,       \* what it presented
  covered,    \* whether the scope of its workload token covers it
  caller,     \* the edition of the roster its agent was read from; 0 before
  config,     \* the edition of its snapshot of the config; 0 before
  weighed,    \* history: what it was weighed against, and what came of it
  logged,     \* what the log says of it
  sent,       \* the calls their upstream may have seen
  open,       \* history: there was a moment since it arrived without lockdown
  lost        \* history: a record of it could not be written

broker == <<about, status, standing>>
force == <<served, loading, lockdown, now, writable>>
origin == <<surface, cred, covered>>
read == <<caller, config, weighed>>
calls == <<pc, origin, read, logged, sent, lost>>
vars == <<broker, force, calls, open>>

Broker == INSTANCE ApprovalPromise WITH Asks <- Calls

\* install, in its order; "settings" holds the workload mode.
Parts == <<"acl", "agents", "settings", "config">>
PartNames == {"acl", "agents", "settings", "config"}

Unweighed == [acl |-> 0, lockdown |-> FALSE, now |-> 0, action |-> "none", rule |-> 0]

\* What a call ends as: refused, answered with what it asked for, answered with the news
\* that something failed, told its answer is withheld, or gone with its client.
Ended == {"refused", "given", "failed", "withheld", "gone"}

Init ==
  /\ about \in [Calls -> Requests]
  /\ status = [c \in Calls |-> "new"]
  /\ standing = [r \in Requests |-> "none"]
  /\ served = [p \in PartNames |-> 1]
  /\ loading = 0
  /\ lockdown \in BOOLEAN       \* `run --lockdown`
  /\ now = 0
  /\ writable = TRUE
  /\ pc = [c \in Calls |-> "out"]
  /\ surface \in [Calls -> Surfaces]
  /\ cred \in [Calls -> {"none", "unknown", "agent", "workload"}]
  /\ covered \in [Calls -> BOOLEAN]
  /\ \A c \in Calls :
       /\ cred[c] # "workload" => covered[c]
       /\ surface[c] # "authorize" => about[c].kind = "http"
  /\ caller = [c \in Calls |-> 0]
  /\ config = [c \in Calls |-> 0]
  /\ weighed = [c \in Calls |-> Unweighed]
  /\ logged = [c \in Calls |-> "nothing"]
  /\ sent = {}
  /\ open = [c \in Calls |-> FALSE]
  /\ lost = [c \in Calls |-> FALSE]

-----------------------------------------------------------------------------
(* What changes under a call. *)

\* AppState::reload has accepted an edition, one newer than what is in force, ...
Reload(e) ==
  /\ loading = 0
  /\ e > served["config"]
  /\ loading' = e
  /\ UNCHANGED <<broker, served, lockdown, now, writable, calls, open>>

\* Slip for ToldRulesAreInForce: the snapshot is not replaced.
SlipLast == 3
Last == 4

\* ... and puts its parts in charge one lock at a time.
Install(k) ==
  /\ loading # 0 /\ k <= Last
  /\ served[Parts[k]] # loading
  /\ \A j \in 1..(k - 1) : served[Parts[j]] = loading
  /\ served' = [served EXCEPT ![Parts[k]] = loading]
  /\ loading' = IF k = Last THEN 0 ELSE loading
  /\ UNCHANGED <<broker, lockdown, now, writable, calls, open>>

\* The operator's switch.
SetLockdown(on) ==
  /\ lockdown # on
  /\ lockdown' = on
  /\ open' = [c \in Calls |-> open[c] \/ (pc[c] # "out" /\ ~on)]
  /\ UNCHANGED <<broker, served, loading, now, writable, calls>>

Tick ==
  /\ now < MaxTime
  /\ now' = now + 1
  /\ UNCHANGED <<broker, served, loading, lockdown, writable, calls, open>>

\* The disk the log is on fills up, or is given room.
Disk(works) ==
  /\ writable # works
  /\ writable' = works
  /\ UNCHANGED <<broker, served, loading, lockdown, now, calls, open>>

\* The human: an answer, or one that stands for a request somebody makes, or none any more.
Answer(v, c) == Broker!Say(v, {c}) /\ UNCHANGED <<force, calls, open>>
StandBy(v, r) == Broker!Stand(v, {r}) /\ UNCHANGED <<force, calls, open>>
Forget == Broker!Forget /\ UNCHANGED <<force, calls, open>>

-----------------------------------------------------------------------------
(* Steps that end a call. *)

\* write_best_effort, and then the answer, which does not wait on it.
Note(c, what, end) ==
  /\ logged' = [logged EXCEPT ![c] = IF writable THEN what ELSE @]
  /\ lost' = [lost EXCEPT ![c] = @ \/ ~writable]
  /\ pc' = [pc EXCEPT ![c] = end]

\* The answer alone.
Unnoted(c, end) == pc' = [pc EXCEPT ![c] = end] /\ UNCHANGED <<logged, lost>>

\* Slip for DecisionsAreRecorded: the refusal is rendered without its record.
SlipRefuse(c) == Unnoted(c, "refused")
Refuse(c) == Note(c, "refused", "refused")

Pass(c, next) == pc' = [pc EXCEPT ![c] = next] /\ UNCHANGED <<logged, lost>>

\* A caller who was not accepted: the control plane says so and writes nothing, and the
\* gateway nothing of a call that brought no token.
Reject(c) ==
  IF surface[c] = "authorize" \/ (surface[c] = "gateway" /\ cred[c] = "none")
  THEN Unnoted(c, "refused") ELSE Refuse(c)

-----------------------------------------------------------------------------
(* Who is calling: AppState::authenticate. *)

Arrive(c) ==
  /\ pc[c] = "out"
  /\ Pass(c, "new")
  /\ open' = [open EXCEPT ![c] = ~lockdown]
  /\ UNCHANGED <<broker, force, origin, read, sent>>

Mode == Policies[served["settings"]].mode

\* A token of the ledger's is tried first, when there are any; `good` is its word.
Verify(c, good) ==
  /\ pc[c] = "new"
  /\ IF cred[c] = "none" \/ (cred[c] = "workload" /\ Mode # "off" /\ ~good)
     THEN Reject(c) ELSE Pass(c, "who")
  /\ UNCHANGED <<broker, force, origin, read, sent, open>>

\* Then the roster: the agent a workload token names, or the holder of an agent token,
\* who in required mode is turned away.  Any other token is nobody's.
Known(c) ==
  /\ cred[c] \in {"workload", "agent"}
  /\ cred[c] = "workload" => Mode # "off"
  /\ about[c].agent \in Policies[served["agents"]].roster

Accepted(c) == Known(c) /\ (cred[c] = "agent" => Mode # "required")

LookUp(c) ==
  /\ pc[c] = "who"
  /\ IF Accepted(c)
     THEN /\ caller' = [caller EXCEPT ![c] = served["agents"]]
          /\ Pass(c, IF surface[c] = "authorize" THEN "weigh" ELSE "route")
     ELSE Reject(c) /\ UNCHANGED caller
  /\ UNCHANGED <<broker, force, origin, config, weighed, sent, open>>

-----------------------------------------------------------------------------
(* Where to: `proxy` and `request`, up to the gate. *)

\* The proxy takes one snapshot of the config, the gateway looks its upstream up in it.
\* A request with a bad shape, an upstream the file does not name, and one its scheme
\* cannot sign are refused and recorded; tool arguments that are missing are not.
Route(c) ==
  /\ pc[c] = "route"
  /\ config' = [config EXCEPT ![c] = served["config"]]
  /\ \/ /\ about[c].target \in Policies[served["config"]].upstreams
        /\ Pass(c, "weigh")
     \/ Refuse(c)
     \/ surface[c] = "gateway" /\ Unnoted(c, "refused")
  /\ UNCHANGED <<broker, force, origin, caller, weighed, sent, open>>

-----------------------------------------------------------------------------
(* May it: gate::clear. *)

Granted(c) == MayAddress(Policies[caller[c]].targets[about[c].agent], about[c].target)

\* Caller::permits
Permits(c) == cred[c] = "workload" => covered[c]

\* Lockdown is looked at before the rules, and no rule can come before it.
Verdict(c) ==
  Evaluate(Policies[served["acl"]], lockdown, about[c], now)

\* An allow goes on; `authorize` has nothing left to do but write it down.
Cleared(c) == IF surface[c] = "authorize" THEN "record" ELSE "prepare"

\* Slip for NothingUnderLockdown: an `ask` is put to a human whatever else holds.
SlipNext(c, action) == IF action = "deny" /\ ~lockdown THEN "deny" ELSE "ask"
\* Slip for EveryCallEnds: nobody waits for a refusal.
SlipIdle(c, action) == IF action = "deny" THEN "weigh" ELSE action
What(c, action) == action

Weigh(c) ==
  /\ pc[c] = "weigh"
  /\ LET v    == Verdict(c)
         what == What(c, v.action)
     IN IF ~Granted(c) \/ ~Permits(c)
        THEN Refuse(c) /\ UNCHANGED weighed
        ELSE /\ weighed' = [weighed EXCEPT ![c] =
                  [acl |-> served["acl"], lockdown |-> lockdown, now |-> now,
                   action |-> v.action, rule |-> v.rule]]
             /\ CASE what = "allow" -> Pass(c, Cleared(c))
                  [] what = "ask" -> Pass(c, "ask")
                  [] what = "deny" -> IF surface[c] = "authorize" THEN Pass(c, "record")
                                      ELSE Refuse(c)
                  [] OTHER -> Pass(c, what)
  /\ UNCHANGED <<broker, force, origin, caller, config, sent, open>>

\* broker.ask, from the look at the standing answers to the verdict.
Ask(c) ==
  /\ pc[c] = "ask"
  /\ Broker!Arrive(c) \/ Broker!Hear(c) \/ Broker!GiveUp(c)
  /\ UNCHANGED <<force, calls, open>>

\* Slip for OnlyThePermittedIsSent: a wait that is over is a yes.
SlipSaidYes(c) == TRUE
SaidYes(c) == status[c] = "allowed"

Heard(c) ==
  /\ pc[c] = "ask"
  /\ status[c] \in {"allowed", "denied"}
  /\ IF SaidYes(c) THEN Pass(c, Cleared(c))
     ELSE IF surface[c] = "authorize" THEN Pass(c, "record") ELSE Refuse(c)
  /\ UNCHANGED <<broker, force, origin, read, sent, open>>

-----------------------------------------------------------------------------
(* Doing it. *)

\* The body, the URL, the credential.  A body over the limit, a URL that would not be
\* the path that was approved and a credential that cannot be had end the call, which
\* the log is told; the gateway does not tell it of the URL or of a query it cannot spell.
Prepare(c) ==
  /\ pc[c] = "prepare"
  /\ \/ Pass(c, "send")
     \/ Note(c, "failed", "failed")
     \/ surface[c] = "gateway" /\ Unnoted(c, "failed")
  /\ UNCHANGED <<broker, force, origin, read, sent, open>>

\* The upstream is called; no answer is a failed call.
Send(c) ==
  /\ pc[c] = "send"
  /\ sent' = sent \cup {c}
  /\ \/ Pass(c, IF surface[c] = "gateway" THEN "body" ELSE "record")
     \/ Note(c, "failed", "failed")
  /\ UNCHANGED <<broker, force, origin, read, open>>

\* read_capped: the gateway holds the whole answer before it goes on.
ReadBody(c) ==
  /\ pc[c] = "body"
  /\ Pass(c, "record") \/ Unnoted(c, "failed")
  /\ UNCHANGED <<broker, force, origin, read, sent, open>>

\* Slip for GivenIsRecorded: the answer does not wait for the log.
SlipAnswers(c) == TRUE
Answers(c) == writable

\* Whether what is recorded was allowed: always, except on the control plane.
Allowed(c) == weighed[c].action = "allow" \/ (weighed[c].action = "ask" /\ SaidYes(c))

\* audit.write: an answer that cannot be recorded is not given.
Record(c) ==
  /\ pc[c] = "record"
  /\ Note(c, IF Allowed(c) THEN "performed" ELSE "refused",
             IF ~Allowed(c) THEN "refused" ELSE IF Answers(c) THEN "given" ELSE "withheld")
  /\ UNCHANGED <<broker, force, origin, read, sent, open>>

\* The client goes away while the call is waiting for something, and the call with it.
HangUp(c) ==
  /\ pc[c] \in {"ask", "prepare", "send", "body"}
  /\ Pass(c, "gone")
  /\ IF pc[c] = "ask" /\ status[c] \notin {"allowed", "denied"} THEN Broker!GiveUp(c)
     ELSE UNCHANGED broker
  /\ sent' = IF pc[c] = "send" THEN sent \cup {c} ELSE sent
  /\ UNCHANGED <<force, origin, read, open>>

-----------------------------------------------------------------------------
Step(c) ==
  \/ \E good \in BOOLEAN : Verify(c, good)
  \/ LookUp(c) \/ Route(c) \/ Weigh(c) \/ Heard(c)
  \/ Prepare(c) \/ Send(c) \/ ReadBody(c) \/ Record(c)

Environment ==
  \/ \E e \in DOMAIN Policies : Reload(e)
  \/ \E k \in 1..4 : Install(k)
  \/ \E on \in BOOLEAN : SetLockdown(on)
  \/ Tick
  \/ \E works \in BOOLEAN : Disk(works)
  \/ \E v \in Broker!Verdict : (\E c \in Calls : Answer(v, c)) \/ (\E r \in {about[c] : c \in Calls} : StandBy(v, r))
  \/ Forget

Next ==
  \/ \E c \in Calls : Arrive(c) \/ Step(c) \/ Ask(c) \/ HangUp(c)
  \/ Environment

Spec == Init /\ [][Next]_vars

\* A call goes on; the broker lets nobody wait past the timeout.
FairSpec == Spec /\ \A c \in Calls : WF_vars(Step(c)) /\ WF_vars(Ask(c))

-----------------------------------------------------------------------------
(* Properties. *)

TypeOK ==
  /\ Broker!TypeOK
  /\ served \in [PartNames -> DOMAIN Policies]
  /\ loading \in {0} \cup DOMAIN Policies
  /\ lockdown \in BOOLEAN /\ now \in 0..MaxTime /\ writable \in BOOLEAN
  /\ pc \in [Calls -> {"out", "new", "who", "route", "weigh", "ask", "prepare", "send", "body",
                       "record"} \cup Ended]
  /\ surface \in [Calls -> Surfaces]
  /\ cred \in [Calls -> {"none", "unknown", "agent", "workload"}]
  /\ covered \in [Calls -> BOOLEAN]
  /\ caller \in [Calls -> {0} \cup DOMAIN Policies]
  /\ config \in [Calls -> {0} \cup DOMAIN Policies]
  /\ \A c \in Calls : weighed[c].action \in Actions \cup {"none"}
  /\ logged \in [Calls -> {"nothing", "refused", "failed", "performed"}]
  /\ sent \subseteq Calls
  /\ open \in [Calls -> BOOLEAN] /\ lost \in [Calls -> BOOLEAN]

\* What a list of rules says of a request, as the policy file's documentation has it: the
\* first rule that applies, or the default when there is none.
Says(policy, action, request, time) ==
  \/ \E i \in DOMAIN policy.rules :
       /\ policy.rules[i].action = action
       /\ Matches(policy.rules[i], request, time)
       /\ \A j \in 1..(i - 1) : ~Matches(policy.rules[j], request, time)
  \/ policy.default = action /\ Matching(policy, request, time) = {}

\* A call that did something: an upstream may have seen it, or the control plane allowed it.
Done == sent \cup {c \in Calls : surface[c] = "authorize" /\ pc[c] = "given"}

\* Whatever is reloaded, switched or remembered around it, what gets through was an
\* agent's of the roster it was looked up in, to a target that agent was granted, inside
\* its token's scope, and either allowed by the rules in force when it was weighed or
\* asked about and answered yes.
OnlyThePermittedIsSent ==
  \A c \in Done :
    LET a == about[c].agent IN
    /\ cred[c] \in {"agent", "workload"}
    /\ {caller[c], weighed[c].acl} \subseteq DOMAIN Policies
    /\ a \in Policies[caller[c]].roster
    /\ MayAddress(Policies[caller[c]].targets[a], about[c].target)
    /\ surface[c] # "authorize" =>
         config[c] \in DOMAIN Policies /\ about[c].target \in Policies[config[c]].upstreams
    /\ cred[c] = "workload" => covered[c]
    /\ \/ Says(Policies[weighed[c].acl], "allow", about[c], weighed[c].now)
       \/ Says(Policies[weighed[c].acl], "ask", about[c], weighed[c].now) /\ status[c] = "allowed"

\* docs/audit-log.md: "a request the proxy permitted but could not record does not reach
\* the agent".
GivenIsRecorded == \A c \in Calls : pc[c] = "given" => logged[c] = "performed"

Weighed(c) == weighed[c].action # "none"

\* Every call the rules were asked about leaves a record of how it ended, whoever
\* refused it and whatever failed: unless its record was refused by the disk, or the
\* client did not wait.  (The gateway loses some: README.)
DecisionsAreRecorded ==
  \A c \in Calls :
    Weighed(c) /\ surface[c] # "gateway" /\ pc[c] \in Ended \ {"gone"} /\ ~lost[c] =>
      logged[c] # "nothing"

\* A call that has known nothing but lockdown gets nothing through and puts nothing to a
\* human, whichever rule or standing answer is there for it.
NothingUnderLockdown ==
  \A c \in Calls : ~open[c] => c \notin Done /\ pc[c] # "ask"

\* A policy that `can_ask` calls one that never stops on a human never does: a proxy
\* started without a console goes by its word.
AsksOnlyWhenItCan ==
  [][\A c \in Calls : pc[c] = "weigh" /\ pc'[c] = "ask" => CanAsk(Policies[served["acl"]], lockdown)]_vars

\* The catalogue never hides what would work: a call that was let through was to an
\* upstream its agent was told of by the same rules and grants.
NothingReachableIsHidden ==
  \A c \in sent :
    LET a == about[c].agent IN
    AccessFor(Policies[weighed[c].acl], Policies[caller[c]].targets[a], a, about[c].target) # "none"

\* What an agent is shown of the rules are rules in force, in their places, between
\* reloads: rules_table reads positions under one lock and the rules under another.
ToldRulesAreInForce ==
  loading = 0 =>
    \A c \in Calls :
      \A i \in RulesTold(Policies[served["acl"]], Policies[served["config"]].rules,
                         about[c].agent, about[c].target) :
        i \in RulesFor(Policies[served["acl"]], about[c].agent, "http", about[c].target)

\* Every call that came in ends: no lock is held over a wait, no human has to answer.
EveryCallEnds == \A c \in Calls : pc[c] = "new" ~> pc[c] \in Ended

\* What reaches an upstream was permitted, by a policy in force and by whoever was asked.
OnlyThePermitted == TypeOK /\ OnlyThePermittedIsSent /\ NothingUnderLockdown

\* The log has every decision, and nobody has an answer it does not have.
TheLogHasIt == GivenIsRecorded /\ DecisionsAreRecorded

\* What the catalogue, the skills and `can_ask` say of the policy is what the proxy goes by.
TheCatalogueIsTrue == [](NothingReachableIsHidden /\ ToldRulesAreInForce) /\ AsksOnlyWhenItCan
=============================================================================
