--------------------------- MODULE PipelineProofs ---------------------------
(***************************************************************************)
(* That only what is permitted gets through, for any number of calls at    *)
(* once, any policies and any reloads: the invariant behind                *)
(* OnlyThePermitted, TheLogHasIt and TheCatalogueIsTrue, and that what a   *)
(* call sees of the human is the broker's promise.                         *)
(***************************************************************************)
EXTENDS Pipeline, WellFoundedInduction, TLAPS

-----------------------------------------------------------------------------
(* What is known of a call from how far it has come. *)

Working == {"ask", "prepare", "send", "body", "record"}
Placed == {"weigh"} \cup Working

\* Its agent was on the roster it was looked up in.
Identified(c) ==
  /\ cred[c] \in {"agent", "workload"}
  /\ caller[c] \in DOMAIN Policies /\ about[c].agent \in Policies[caller[c]].roster

\* Its upstream was in the snapshot it goes by.
Routed(c) ==
  surface[c] # "authorize" =>
    config[c] \in DOMAIN Policies /\ about[c].target \in Policies[config[c]].upstreams

\* What came of weighing it is what the rules it was weighed against say.
Judged(c) ==
  /\ weighed[c].acl \in DOMAIN Policies
  /\ weighed[c].action \in {"allow", "ask"} =>
       Says(Policies[weighed[c].acl], weighed[c].action, about[c], weighed[c].now)

\* Nothing it passed on the way is undone by what is reloaded meanwhile.
OnItsWay(c) ==
  /\ (pc[c] \in {"route"} \cup Placed \/ Weighed(c)) => Identified(c)
  /\ (pc[c] \in Placed \/ Weighed(c)) => Routed(c)
  /\ pc[c] \in Working => Weighed(c)
  /\ Weighed(c) => pc[c] \in Working \cup Ended /\ Granted(c) /\ Permits(c) /\ Judged(c)

\* It goes no further than what it was told.
Through(c) ==
  /\ pc[c] = "ask" => weighed[c].action = "ask"
  /\ pc[c] \in {"prepare", "send", "body"} \/ c \in sent => surface[c] # "authorize" /\ Allowed(c)
  /\ pc[c] = "record" => surface[c] = "authorize" \/ Allowed(c)
  /\ pc[c] = "given" => Allowed(c)
  /\ pc[c] = "body" => surface[c] = "gateway"
  /\ surface[c] # "authorize" => about[c].kind = "http"

\* One that has known nothing but lockdown has not got past the rules.
Sheltered(c) ==
  ~open[c] =>
    /\ c \notin sent
    /\ pc[c] \in {"out", "new", "who", "route", "weigh", "record", "refused"}
    /\ pc[c] # "out" => lockdown
    /\ pc[c] = "record" => weighed[c].action = "deny"

\* What the log has of it.
Written(c) ==
  /\ pc[c] = "given" => logged[c] = "performed"
  /\ Weighed(c) /\ surface[c] # "gateway" /\ pc[c] \in Ended \ {"gone"} =>
       lost[c] \/ logged[c] # "nothing"

CallInv(c) == OnItsWay(c) /\ Through(c) /\ Sheltered(c) /\ Written(c)

\* No reload under way: one edition is in force, whole.
OneEdition == loading = 0 => \A p, q \in PartNames : served[p] = served[q]

WeighedOK ==
  weighed \in [Calls -> [acl : {0} \cup DOMAIN Policies, lockdown : BOOLEAN, now : 0..MaxTime,
                         action : Actions \cup {"none"}, rule : Int]]

Inv == TypeOK /\ WeighedOK /\ OneEdition /\ \A c \in Calls : CallInv(c)

-----------------------------------------------------------------------------
(* The rules. *)

Less == {pair \in Nat \X Nat : pair[1] < pair[2]}

\* Of any rules there are, one is the first.
LEMMA FirstOf ==
  ASSUME NEW S \in SUBSET Nat, S # {}
  PROVE  /\ Deciding(S) \in S
         /\ \A j \in S : Deciding(S) <= j
<1>1. IsWellFoundedOn(Less, Nat)
  BY NatLessThanWellFounded DEF OpToRel, Less
<1>2. PICK x \in S : \A y \in S : ~(<<y, x>> \in Less)
  BY <1>1, WFMin
<1>3. \A y \in S : x <= y
  <2>1. ASSUME NEW y \in S, y < x PROVE FALSE
    <3>1. <<y, x>> \in Less
      BY <2>1 DEF Less
    <3> QED
      BY <1>2, <3>1
  <2> QED
    BY <2>1
<1> QED
  BY <1>3 DEF Deciding

Judgement(policy, action, request, time, locked) ==
  /\ action \in Actions
  /\ locked => action = "deny"
  /\ ~locked => Says(policy, action, request, time)
  /\ action = "ask" => CanAsk(policy, locked)

\* Acl::evaluate says what the documentation of a policy file has it say.
LEMMA EvaluateSays ==
  ASSUME NEW policy, policy.rules \in Seq(Rule), policy.default \in Actions,
         NEW request, NEW time, NEW locked \in BOOLEAN
  PROVE  /\ Judgement(policy, Evaluate(policy, locked, request, time).action, request, time, locked)
         /\ Evaluate(policy, locked, request, time).rule \in Int
<1> DEFINE verdict == Evaluate(policy, locked, request, time)
           matching == Matching(policy, request, time)
           first == Deciding(matching)
<1>1. matching \subseteq DOMAIN policy.rules /\ DOMAIN policy.rules = 1..Len(policy.rules)
      /\ Len(policy.rules) \in Nat
  BY DEF Matching
<1>2. CASE locked
  <2>1. verdict = [action |-> "deny", rule |-> ByLockdown]
    BY <1>2 DEF Evaluate
  <2>2. verdict.action = "deny" /\ verdict.rule = ByLockdown
    BY <2>1
  <2>3. "deny" \in Actions /\ "deny" # "ask" /\ ByLockdown \in Int
    BY DEF Actions, ByLockdown
  <2> HIDE DEF verdict
  <2>4. Judgement(policy, verdict.action, request, time, locked) /\ verdict.rule \in Int
    BY <1>2, <2>2, <2>3 DEF Judgement
  <2> QED
    BY <2>4 DEF verdict
<1>3. CASE ~locked /\ matching = {}
  <2>1. verdict = [action |-> policy.default, rule |-> ByDefault]
    BY <1>3 DEF Evaluate
  <2>2. Says(policy, policy.default, request, time)
    BY <1>3 DEF Says
  <2> QED
    BY <1>3, <2>1, <2>2 DEF Judgement, CanAsk, ByDefault
<1>4. CASE ~locked /\ matching # {}
  <2>1. matching \in SUBSET Nat
    BY <1>1
  <2>2. first \in matching /\ \A j \in matching : first <= j
    BY <1>4, <2>1, FirstOf
  <2>3. verdict = [action |-> policy.rules[first].action, rule |-> first]
    BY <1>4 DEF Evaluate
  <2>4. first \in DOMAIN policy.rules /\ Matches(policy.rules[first], request, time)
    BY <2>2 DEF Matching
  <2>5. \A j \in 1..(first - 1) : ~Matches(policy.rules[j], request, time)
    <3>1. ASSUME NEW j \in 1..(first - 1), Matches(policy.rules[j], request, time) PROVE FALSE
      <4>1. first \in 1..Len(policy.rules) /\ j \in 1..Len(policy.rules) /\ j < first
        BY <1>1, <2>4
      <4>2. j \in matching
        BY <1>1, <3>1, <4>1 DEF Matching
      <4> QED
        BY <2>2, <4>1, <4>2
    <3> QED
      BY <3>1
  <2>6. Says(policy, policy.rules[first].action, request, time)
    BY <2>4, <2>5 DEF Says
  <2>7. policy.rules[first] \in Rule
    BY <1>1, <2>4
  <2>8. policy.rules[first].action \in Actions
    BY <2>7 DEF Rule
  <2>9. policy.rules[first].action = "ask" => CanAsk(policy, locked)
    BY <1>4, <2>4 DEF CanAsk
  <2>10. first \in Int
    BY <1>1, <2>4
  <2> HIDE DEF first, matching
  <2> QED
    BY <1>4, <2>3, <2>6, <2>8, <2>9, <2>10 DEF Judgement
<1> QED
  BY <1>2, <1>3, <1>4

\* skills.rs hides nothing the rules or their default let through.
LEMMA SaysReachable ==
  ASSUME NEW policy, policy.default \in Actions, NEW targets, NEW request, NEW time, NEW action,
         request.kind = "http", MayAddress(targets, request.target), action # "deny",
         Says(policy, action, request, time)
  PROVE  AccessFor(policy, targets, request.agent, request.target) # "none"
<1> DEFINE rules == RulesFor(policy, request.agent, "http", request.target)
<1>1. CASE rules # {}
  BY <1>1 DEF AccessFor
<1>2. CASE rules = {}
  <2>1. ASSUME NEW i \in DOMAIN policy.rules, Matches(policy.rules[i], request, time) PROVE FALSE
    <3>1. i \in rules
      BY <2>1 DEF Matches, RulesFor, RuleIndicesForAgent, RulesMentioning
    <3> QED
      BY <1>2, <3>1
  <2>2. policy.default = action
    BY <2>1 DEF Says
  <2>3. policy.default \in {"allow", "ask"}
    BY <2>2 DEF Actions
  <2> HIDE DEF rules
  <2>4. AccessFor(policy, targets, request.agent, request.target) = policy.default
    BY <1>2, <2>3 DEF AccessFor, rules
  <2> QED
    BY <2>3, <2>4
<1> QED
  BY <1>1, <1>2

\* Positions looked up in the list of the config are the rules' while both are one edition's.
LEMMA ToldIsThere ==
  ASSUME NEW policy, NEW agent, NEW upstream
  PROVE  RulesTold(policy, policy.rules, agent, upstream) \subseteq RulesFor(policy, agent, "http", upstream)
BY DEF RulesTold, RulesFor, RuleIndicesForAgent, RulesMentioning

-----------------------------------------------------------------------------
\* Before any call, nothing is known of any.
LEMMA InitOK == Init => Inv
<1> SUFFICES ASSUME Init PROVE Inv
  OBVIOUS
<1>1. 1 \in DOMAIN Policies
  BY PoliciesArePolicies
<1>2. TypeOK
  <2>1. Broker!TypeOK
    BY DEF Init, Broker!TypeOK, Broker!Status, Broker!Verdict
  <2>2. served \in [PartNames -> DOMAIN Policies] /\ loading \in {0} \cup DOMAIN Policies
    BY <1>1 DEF Init
  <2>3. now \in 0..MaxTime
    BY TimeIsBeforeNever DEF Init
  <2>4. \A c \in Calls : weighed[c].action \in Actions \cup {"none"}
    BY DEF Init, Unweighed
  <2>5. /\ lockdown \in BOOLEAN /\ writable \in BOOLEAN
        /\ pc \in [Calls -> {"out", "new", "who", "route", "weigh", "ask", "prepare", "send", "body",
                             "record"} \cup Ended]
        /\ surface \in [Calls -> Surfaces]
        /\ cred \in [Calls -> {"none", "unknown", "agent", "workload"}]
        /\ covered \in [Calls -> BOOLEAN]
    BY DEF Init
  <2>6. /\ caller \in [Calls -> {0} \cup DOMAIN Policies]
        /\ config \in [Calls -> {0} \cup DOMAIN Policies]
        /\ logged \in [Calls -> {"nothing", "refused", "failed", "performed"}]
        /\ sent \subseteq Calls
        /\ open \in [Calls -> BOOLEAN] /\ lost \in [Calls -> BOOLEAN]
    BY DEF Init
  <2> QED
    BY <2>1, <2>2, <2>3, <2>4, <2>5, <2>6 DEF TypeOK
<1>3. WeighedOK
  <2>1. 0 \in 0..MaxTime
    BY TimeIsBeforeNever
  <2>2. Unweighed \in [acl : {0} \cup DOMAIN Policies, lockdown : BOOLEAN, now : 0..MaxTime,
                       action : Actions \cup {"none"}, rule : Int]
    BY <2>1 DEF Unweighed
  <2> QED
    BY <2>2 DEF Init, WeighedOK
<1>4. OneEdition
  BY DEF Init, OneEdition
<1>5. ASSUME NEW c \in Calls PROVE CallInv(c)
  <2>1. pc[c] = "out" /\ ~Weighed(c) /\ c \notin sent /\ (surface[c] # "authorize" => about[c].kind = "http")
    BY DEF Init, Weighed, Unweighed
  <2>2. OnItsWay(c)
    BY <2>1 DEF OnItsWay, Placed, Working
  <2>3. Through(c)
    BY <2>1 DEF Through
  <2>4. Sheltered(c) /\ Written(c)
    BY <2>1 DEF Sheltered, Written
  <2> QED
    BY <2>2, <2>3, <2>4 DEF CallInv
<1> QED
  BY <1>2, <1>3, <1>4, <1>5 DEF Inv

-----------------------------------------------------------------------------
(* Types. *)

Stages == {"out", "new", "who", "route", "weigh", "ask", "prepare", "send", "body", "record"} \cup Ended

ForceOK ==
  /\ served \in [PartNames -> DOMAIN Policies]
  /\ loading \in {0} \cup DOMAIN Policies
  /\ lockdown \in BOOLEAN /\ now \in 0..MaxTime /\ writable \in BOOLEAN

OriginOK ==
  /\ surface \in [Calls -> Surfaces]
  /\ cred \in [Calls -> {"none", "unknown", "agent", "workload"}]
  /\ covered \in [Calls -> BOOLEAN]

ReadOK ==
  /\ caller \in [Calls -> {0} \cup DOMAIN Policies]
  /\ config \in [Calls -> {0} \cup DOMAIN Policies]

NotedOK ==
  /\ pc \in [Calls -> Stages]
  /\ logged \in [Calls -> {"nothing", "refused", "failed", "performed"}]
  /\ lost \in [Calls -> BOOLEAN]

RestOK == sent \subseteq Calls /\ open \in [Calls -> BOOLEAN]

\* The type invariant, by who writes what.
LEMMA Types == TypeOK /\ WeighedOK <=>
  Broker!TypeOK /\ ForceOK /\ OriginOK /\ ReadOK /\ NotedOK /\ RestOK /\ WeighedOK
<1>1. WeighedOK => \A c \in Calls : weighed[c].action \in Actions \cup {"none"}
  BY DEF WeighedOK
<1> QED
  BY <1>1 DEF TypeOK, ForceOK, OriginOK, ReadOK, NotedOK, RestOK, Stages

\* A step of the broker's keeps its types.
LEMMA BrokerTypes == Broker!TypeOK /\ [Broker!Next]_broker => Broker!TypeOK'
<1> SUFFICES ASSUME Broker!TypeOK, [Broker!Next]_broker PROVE Broker!TypeOK'
  OBVIOUS
<1> USE DEF Broker!TypeOK, Broker!Status, Broker!Verdict, broker
<1>1. ASSUME NEW c \in Calls, Broker!Arrive(c) \/ Broker!Hear(c) \/ Broker!GiveUp(c) PROVE Broker!TypeOK'
  BY <1>1 DEF Broker!Arrive, Broker!Hear, Broker!GiveUp, Broker!FinalOf, Broker!ToldOf
<1>2. ASSUME NEW v \in Broker!Verdict, NEW A \in SUBSET Calls, Broker!Say(v, A) PROVE Broker!TypeOK'
  BY <1>2 DEF Broker!Say, Broker!ToldOf
<1>3. ASSUME NEW v \in Broker!Verdict, NEW S \in SUBSET Requests, Broker!Stand(v, S) PROVE Broker!TypeOK'
  BY <1>3 DEF Broker!Stand
<1>4. CASE Broker!Forget
  BY <1>4 DEF Broker!Forget
<1> QED
  BY <1>1, <1>2, <1>3, <1>4 DEF Broker!Next

\* What a call sees of the human is the broker's: a step of the pipeline is one of the
\* promise, or none.
LEMMA BrokerStep == Broker!TypeOK /\ [Next]_vars => [Broker!Next]_broker
<1> SUFFICES ASSUME Broker!TypeOK, [Next]_vars PROVE [Broker!Next]_broker
  OBVIOUS
<1>1. ASSUME NEW c \in Calls, Ask(c) PROVE Broker!Next
  BY <1>1 DEF Ask, Broker!Next
<1>2. ASSUME NEW c \in Calls, HangUp(c) PROVE [Broker!Next]_broker
  BY <1>2 DEF HangUp, Broker!Next
<1>3. ASSUME NEW c \in Calls, Arrive(c) \/ Step(c) PROVE UNCHANGED broker
  BY <1>3 DEF Arrive, Step, Verify, LookUp, Route, Weigh, Heard, Prepare, Send, ReadBody, Record
<1>4. ASSUME NEW v \in Broker!Verdict, NEW c \in Calls, Answer(v, c) PROVE Broker!Next
  <2>1. Broker!Say(v, {c}) /\ {c} \in SUBSET Calls
    BY <1>4 DEF Answer
  <2> QED
    BY <2>1 DEF Broker!Next
<1>5. ASSUME NEW v \in Broker!Verdict, NEW r \in {about[c] : c \in Calls}, StandBy(v, r) PROVE Broker!Next
  <2>1. Broker!Stand(v, {r}) /\ {r} \in SUBSET Requests
    BY <1>5 DEF StandBy, Broker!TypeOK
  <2> QED
    BY <2>1 DEF Broker!Next
<1>6. CASE Forget
  BY <1>6 DEF Forget, Broker!Next
<1>7. CASE \/ \E e \in DOMAIN Policies : Reload(e)
           \/ \E k \in 1..4 : Install(k)
           \/ \E on \in BOOLEAN : SetLockdown(on)
           \/ Tick
           \/ \E works \in BOOLEAN : Disk(works)
  BY <1>7 DEF Reload, Install, SetLockdown, Tick, Disk
<1>8. CASE UNCHANGED vars
  BY <1>8 DEF vars
<1> QED
  BY <1>1, <1>2, <1>3, <1>4, <1>5, <1>6, <1>7, <1>8 DEF Next, Environment

\* What a call is weighed against, and what comes of it.
LEMMA VerdictSays ==
  ASSUME ForceOK, NEW c \in Calls
  PROVE  /\ Judgement(Policies[served["acl"]], Verdict(c).action, about[c], now, lockdown)
         /\ Verdict(c).rule \in Int
<1>1. served["acl"] \in DOMAIN Policies /\ lockdown \in BOOLEAN
  BY DEF ForceOK, PartNames
<1>2. Policies[served["acl"]].rules \in Seq(Rule) /\ Policies[served["acl"]].default \in Actions
  BY <1>1, PoliciesArePolicies
<1> QED
  BY <1>1, <1>2, EvaluateSays DEF Verdict

\* The policies in force are of the file's.
LEMMA ForceStep == ForceOK /\ [Next]_vars => ForceOK'
<1> SUFFICES ASSUME ForceOK, [Next]_vars PROVE ForceOK'
  OBVIOUS
<1>1. ASSUME NEW e \in DOMAIN Policies, Reload(e) PROVE ForceOK'
  BY <1>1 DEF ForceOK, Reload
<1>2. ASSUME NEW k \in 1..4, Install(k) PROVE ForceOK'
  <2>1. Parts[k] \in PartNames
    BY DEF Parts, PartNames
  <2>2. loading \in DOMAIN Policies
    BY <1>2 DEF Install, ForceOK
  <2>3. served' \in [PartNames -> DOMAIN Policies]
    BY <1>2, <2>1, <2>2 DEF Install, ForceOK
  <2>4. loading' \in {0} \cup DOMAIN Policies
    BY <1>2, <2>2 DEF Install
  <2> QED
    BY <1>2, <2>3, <2>4 DEF Install, ForceOK
<1>3. ASSUME NEW on \in BOOLEAN, SetLockdown(on) PROVE ForceOK'
  BY <1>3 DEF ForceOK, SetLockdown
<1>4. CASE Tick
  <2>1. now' \in 0..MaxTime
    BY <1>4, TimeIsBeforeNever DEF ForceOK, Tick
  <2> QED
    BY <1>4, <2>1 DEF ForceOK, Tick
<1>5. ASSUME NEW works \in BOOLEAN, Disk(works) PROVE ForceOK'
  BY <1>5 DEF ForceOK, Disk
<1>6. ASSUME UNCHANGED force PROVE ForceOK'
  BY <1>6 DEF ForceOK, force
<1>7. ASSUME NEW c \in Calls, Arrive(c) \/ Step(c) \/ Ask(c) \/ HangUp(c) PROVE UNCHANGED force
  BY <1>7 DEF Arrive, Step, Verify, LookUp, Route, Weigh, Heard, Prepare, Send, ReadBody, Record, Ask, HangUp
<1>8. ASSUME NEW v \in Broker!Verdict, (\E c \in Calls : Answer(v, c)) \/ (\E r \in {about[c] : c \in Calls} : StandBy(v, r))
      PROVE  UNCHANGED force
  BY <1>8 DEF Answer, StandBy
<1>9. CASE Forget \/ UNCHANGED vars
  BY <1>6, <1>9 DEF Forget, vars
<1> QED
  BY <1>1, <1>2, <1>3, <1>4, <1>5, <1>6, <1>7, <1>8, <1>9 DEF Next, Environment

\* Between reloads one edition is in force, whole: a reload ends with its last part.
LEMMA EditionStep == ForceOK /\ OneEdition /\ [Next]_vars => OneEdition'
<1> SUFFICES ASSUME ForceOK, OneEdition, [Next]_vars PROVE OneEdition'
  OBVIOUS
<1>1. ASSUME NEW e \in DOMAIN Policies, Reload(e) PROVE OneEdition'
  <2>1. loading' # 0
    BY <1>1, PoliciesArePolicies DEF Reload
  <2> QED
    BY <2>1 DEF OneEdition
<1>2. ASSUME NEW k \in 1..4, Install(k) PROVE OneEdition'
  <2>1. CASE k # Last
    <3>1. loading' # 0
      BY <1>2, <2>1 DEF Install
    <3> QED
      BY <3>1 DEF OneEdition
  <2>2. CASE k = Last
    <3>1. Parts[1] = "acl" /\ Parts[2] = "agents" /\ Parts[3] = "settings" /\ Parts[4] = "config" /\ k = 4
      BY <2>2 DEF Parts, Last
    <3>2. \A j \in 1..3 : served[Parts[j]] = loading
      BY <1>2, <3>1 DEF Install
    <3>3. served["acl"] = loading /\ served["agents"] = loading /\ served["settings"] = loading
      BY <3>1, <3>2
    <3>4. served' = [served EXCEPT !["config"] = loading]
      BY <1>2, <3>1 DEF Install
    <3>5. \A p \in PartNames : served'[p] = loading
      BY <3>3, <3>4 DEF ForceOK, PartNames
    <3> QED
      BY <3>5 DEF OneEdition
  <2> QED
    BY <2>1, <2>2
<1>3. ASSUME UNCHANGED <<served, loading>> PROVE OneEdition'
  BY <1>3 DEF OneEdition
<1>4. CASE (\E on \in BOOLEAN : SetLockdown(on)) \/ Tick \/ (\E works \in BOOLEAN : Disk(works))
  BY <1>3, <1>4 DEF SetLockdown, Tick, Disk
<1>5. ASSUME NEW c \in Calls, Arrive(c) \/ Step(c) \/ Ask(c) \/ HangUp(c) PROVE UNCHANGED force
  BY <1>5 DEF Arrive, Step, Verify, LookUp, Route, Weigh, Heard, Prepare, Send, ReadBody, Record, Ask, HangUp
<1>6. ASSUME NEW v \in Broker!Verdict, (\E c \in Calls : Answer(v, c)) \/ (\E r \in {about[c] : c \in Calls} : StandBy(v, r))
      PROVE  UNCHANGED force
  BY <1>6 DEF Answer, StandBy
<1>7. CASE Forget \/ UNCHANGED vars
  BY <1>3, <1>7 DEF Forget, vars, force
<1>8. UNCHANGED force => UNCHANGED <<served, loading>>
  BY DEF force
<1> QED
  BY <1>1, <1>2, <1>3, <1>4, <1>5, <1>6, <1>7, <1>8 DEF Next, Environment

\* The ways in which a call goes on, or ends.
LEMMA NoteTypes ==
  ASSUME NotedOK, NEW c \in Calls, NEW end \in Stages
  PROVE  /\ \A what \in {"refused", "failed", "performed"} : Note(c, what, end) => NotedOK'
         /\ Unnoted(c, end) => NotedOK'
         /\ Pass(c, end) => NotedOK'
<1>1. ASSUME NEW what \in {"refused", "failed", "performed"}, Note(c, what, end) PROVE NotedOK'
  BY <1>1 DEF NotedOK, Note
<1>2. ASSUME Unnoted(c, end) PROVE NotedOK'
  BY <1>2 DEF NotedOK, Unnoted
<1>3. ASSUME Pass(c, end) PROVE NotedOK'
  BY <1>3 DEF NotedOK, Pass
<1> QED
  BY <1>1, <1>2, <1>3

\* Whatever a call does is at some stage and of some outcome.
LEMMA NotedStep == TypeOK /\ WeighedOK /\ [Next]_vars => NotedOK'
<1> SUFFICES ASSUME TypeOK, WeighedOK, [Next]_vars PROVE NotedOK'
  OBVIOUS
<1>1. NotedOK /\ ForceOK /\ OriginOK
  BY Types
<1>2. /\ {"out", "new", "who", "route", "weigh", "ask", "prepare", "send", "body", "record"} \subseteq Stages
      /\ {"refused", "given", "failed", "withheld", "gone"} \subseteq Stages
  BY DEF Stages, Ended
<1>3. ASSUME NEW c \in Calls, Arrive(c) \/ HangUp(c) PROVE NotedOK'
  BY <1>1, <1>2, <1>3, NoteTypes DEF Arrive, HangUp
<1>4. ASSUME NEW c \in Calls, Reject(c) PROVE NotedOK'
  BY <1>1, <1>2, <1>4, NoteTypes DEF Reject, Refuse
<1>5. ASSUME NEW c \in Calls, NEW good \in BOOLEAN, Verify(c, good) PROVE NotedOK'
  BY <1>1, <1>2, <1>4, <1>5, NoteTypes DEF Verify
<1>6. ASSUME NEW c \in Calls, LookUp(c) PROVE NotedOK'
  BY <1>1, <1>2, <1>4, <1>6, NoteTypes DEF LookUp
<1>7. ASSUME NEW c \in Calls, Route(c) PROVE NotedOK'
  BY <1>1, <1>2, <1>7, NoteTypes DEF Route, Refuse
<1>8. ASSUME NEW c \in Calls, Weigh(c) PROVE NotedOK'
  <2>1. Verdict(c).action \in Actions
    BY <1>1, VerdictSays DEF Judgement
  <2>2. Verdict(c).action \in {"allow", "ask", "deny"} /\ What(c, Verdict(c).action) = Verdict(c).action
    BY <2>1 DEF Actions, What
  <2> HIDE DEF Verdict
  <2>3. \/ Refuse(c) \/ Pass(c, Cleared(c)) \/ Pass(c, "ask") \/ Pass(c, "record")
    BY <1>8, <2>2 DEF Weigh
  <2> QED
    BY <1>1, <1>2, <2>3, NoteTypes DEF Refuse, Cleared
<1>9. ASSUME NEW c \in Calls, Heard(c) \/ Prepare(c) \/ Send(c) \/ ReadBody(c) PROVE NotedOK'
  BY <1>1, <1>2, <1>9, NoteTypes DEF Heard, Cleared, Refuse, Prepare, Send, ReadBody
<1>10. ASSUME NEW c \in Calls, Record(c) PROVE NotedOK'
  BY <1>1, <1>2, <1>10, NoteTypes DEF Record
<1>11. ASSUME NEW c \in Calls, Ask(c) PROVE NotedOK'
  BY <1>1, <1>11 DEF Ask, calls, NotedOK
<1>12. CASE Environment \/ UNCHANGED vars
  BY <1>1, <1>12 DEF Environment, Reload, Install, SetLockdown, Tick, Disk, Answer, StandBy, Forget,
                     vars, calls, NotedOK
<1> QED
  BY <1>3, <1>5, <1>6, <1>7, <1>8, <1>9, <1>10, <1>11, <1>12 DEF Next, Step

\* Where a call came in and what it presented never change.
LEMMA OriginStays == [Next]_vars => UNCHANGED <<about, origin>>
<1> SUFFICES ASSUME [Next]_vars PROVE UNCHANGED <<about, origin>>
  OBVIOUS
<1>1. ASSUME NEW c \in Calls, Arrive(c) \/ Step(c) PROVE UNCHANGED <<about, origin>>
  BY <1>1 DEF Arrive, Step, Verify, LookUp, Route, Weigh, Heard, Prepare, Send, ReadBody, Record, broker
<1>2. ASSUME NEW c \in Calls, Ask(c) \/ HangUp(c) PROVE UNCHANGED <<about, origin>>
  BY <1>2 DEF Ask, HangUp, Broker!Arrive, Broker!Hear, Broker!GiveUp, calls, broker
<1>3. CASE Environment \/ UNCHANGED vars
  BY <1>3 DEF Environment, Reload, Install, SetLockdown, Tick, Disk, Answer, StandBy, Forget,
              Broker!Say, Broker!Stand, Broker!Forget, vars, calls, broker
<1> QED
  BY <1>1, <1>2, <1>3 DEF Next

\* What is read of the policy is of editions there are.
LEMMA ReadStep == TypeOK /\ WeighedOK /\ [Next]_vars => (ReadOK /\ RestOK /\ WeighedOK)'
<1> SUFFICES ASSUME TypeOK, WeighedOK, [Next]_vars PROVE (ReadOK /\ RestOK /\ WeighedOK)'
  OBVIOUS
<1>1. ForceOK /\ ReadOK /\ RestOK
  BY Types
<1>2. ASSUME UNCHANGED read, sent' \subseteq Calls, open' \in [Calls -> BOOLEAN]
      PROVE  (ReadOK /\ RestOK /\ WeighedOK)'
  BY <1>1, <1>2 DEF ReadOK, RestOK, WeighedOK, read
<1>3. ASSUME NEW c \in Calls, Arrive(c) PROVE (ReadOK /\ RestOK /\ WeighedOK)'
  <2>1. UNCHANGED read /\ sent' \subseteq Calls /\ open' \in [Calls -> BOOLEAN]
    BY <1>1, <1>3 DEF Arrive, RestOK, ForceOK
  <2> QED
    BY <1>2, <2>1
<1>4. ASSUME NEW c \in Calls, (\E good \in BOOLEAN : Verify(c, good)) \/ Heard(c) \/ Prepare(c) \/ Send(c) \/ ReadBody(c)
                              \/ Record(c) \/ Ask(c) \/ HangUp(c)
      PROVE  (ReadOK /\ RestOK /\ WeighedOK)'
  <2>1. UNCHANGED <<read, open>> /\ sent' \subseteq Calls
    BY <1>1, <1>4 DEF Verify, Heard, Prepare, Send, ReadBody, Record, Ask, HangUp, calls, RestOK
  <2> QED
    BY <1>1, <1>2, <2>1 DEF RestOK
<1>5. ASSUME NEW c \in Calls, LookUp(c) PROVE (ReadOK /\ RestOK /\ WeighedOK)'
  <2>1. served["agents"] \in DOMAIN Policies
    BY <1>1 DEF ForceOK, PartNames
  <2>2. UNCHANGED <<config, weighed, sent, open>> /\ caller' \in [Calls -> {0} \cup DOMAIN Policies]
    BY <1>1, <1>5, <2>1 DEF LookUp, ReadOK
  <2> QED
    BY <1>1, <2>2 DEF ReadOK, RestOK, WeighedOK
<1>6. ASSUME NEW c \in Calls, Route(c) PROVE (ReadOK /\ RestOK /\ WeighedOK)'
  <2>1. served["config"] \in DOMAIN Policies
    BY <1>1 DEF ForceOK, PartNames
  <2>2. UNCHANGED <<caller, weighed, sent, open>> /\ config' \in [Calls -> {0} \cup DOMAIN Policies]
    BY <1>1, <1>6, <2>1 DEF Route, ReadOK
  <2> QED
    BY <1>1, <2>2 DEF ReadOK, RestOK, WeighedOK
<1>7. ASSUME NEW c \in Calls, Weigh(c) PROVE (ReadOK /\ RestOK /\ WeighedOK)'
  <2> DEFINE w == [acl |-> served["acl"], lockdown |-> lockdown, now |-> now,
                   action |-> Verdict(c).action, rule |-> Verdict(c).rule]
             W == [acl : {0} \cup DOMAIN Policies, lockdown : BOOLEAN, now : 0..MaxTime,
                   action : Actions \cup {"none"}, rule : Int]
  <2>1. Verdict(c).action \in Actions /\ Verdict(c).rule \in Int
    BY <1>1, VerdictSays DEF Judgement
  <2>2. served["acl"] \in DOMAIN Policies /\ lockdown \in BOOLEAN /\ now \in 0..MaxTime
    BY <1>1 DEF ForceOK, PartNames
  <2>3. w \in W
    BY <2>1, <2>2
  <2>4. weighed' = weighed \/ weighed' = [weighed EXCEPT ![c] = w]
    BY <1>7 DEF Weigh
  <2>5. weighed \in [Calls -> W]
    BY DEF WeighedOK
  <2> HIDE DEF w, W
  <2>6. weighed' \in [Calls -> W]
    BY <2>3, <2>4, <2>5
  <2>7. UNCHANGED <<caller, config, sent, open>>
    BY <1>7 DEF Weigh
  <2>8. WeighedOK'
    BY <2>6 DEF W, WeighedOK
  <2> QED
    BY <1>1, <2>7, <2>8 DEF ReadOK, RestOK
<1>8. ASSUME NEW on \in BOOLEAN, SetLockdown(on) PROVE (ReadOK /\ RestOK /\ WeighedOK)'
  <2>1. UNCHANGED calls /\ open' \in [Calls -> BOOLEAN]
    BY <1>1, <1>8 DEF SetLockdown, RestOK
  <2> QED
    BY <1>1, <1>2, <2>1 DEF calls, RestOK
<1>9. CASE Environment /\ ~\E on \in BOOLEAN : SetLockdown(on)
  <2>1. UNCHANGED <<calls, open>>
    BY <1>9 DEF Environment, Reload, Install, Tick, Disk, Answer, StandBy, Forget
  <2> QED
    BY <1>1, <1>2, <2>1 DEF calls, RestOK
<1>10. CASE UNCHANGED vars
  BY <1>1, <1>2, <1>10 DEF vars, calls, RestOK
<1> QED
  BY <1>3, <1>4, <1>5, <1>6, <1>7, <1>8, <1>9, <1>10 DEF Next, Step

\* Type correctness is inductive.
LEMMA TypeStep == TypeOK /\ WeighedOK /\ [Next]_vars => (TypeOK /\ WeighedOK)'
<1> SUFFICES ASSUME TypeOK, WeighedOK, [Next]_vars PROVE (TypeOK /\ WeighedOK)'
  OBVIOUS
<1>1. Broker!TypeOK'
  BY BrokerStep, BrokerTypes, Types
<1>2. ForceOK'
  BY ForceStep, Types
<1>3. OriginOK'
  BY OriginStays, Types DEF OriginOK, origin
<1>4. NotedOK'
  BY NotedStep
<1>5. (ReadOK /\ RestOK /\ WeighedOK)'
  BY ReadStep
<1>6. WeighedOK' => \A c \in Calls : weighed'[c].action \in Actions \cup {"none"}
  BY DEF WeighedOK
<1> QED
  BY <1>1, <1>2, <1>3, <1>4, <1>5, <1>6 DEF TypeOK, ForceOK, OriginOK, ReadOK, NotedOK, RestOK, Stages

-----------------------------------------------------------------------------
(* A call of its own, and what others and the world do to it. *)

\* Nothing is done to call c: it may be told something, and lockdown may be lifted, which
\* it then has seen.
Same(c) ==
  /\ UNCHANGED <<about, surface, cred, covered>>
  /\ pc'[c] = pc[c] /\ caller'[c] = caller[c] /\ config'[c] = config[c] /\ weighed'[c] = weighed[c]
  /\ logged'[c] = logged[c] /\ lost'[c] = lost[c]
  /\ c \in sent' <=> c \in sent
  /\ status[c] = "allowed" => status'[c] = "allowed"
  /\ ~open'[c] => ~open[c] /\ (pc[c] # "out" /\ lockdown => lockdown')

\* So what is known of it stays known.
LEMMA SameKeeps ==
  ASSUME NEW c \in Calls, CallInv(c), Same(c)
  PROVE  CallInv(c)'
<1>1. OnItsWay(c)'
  BY DEF CallInv, OnItsWay, Same, Weighed, Identified, Routed, Granted, Permits, Judged
<1>2. Through(c)'
  BY DEF CallInv, Through, Same, Allowed, SaidYes
<1>3. Sheltered(c)'
  BY DEF CallInv, Sheltered, Same
<1>4. Written(c)'
  BY DEF CallInv, Written, Same, Weighed
<1> QED
  BY <1>1, <1>2, <1>3, <1>4 DEF CallInv

\* The broker takes no answer back.
LEMMA YesStays ==
  ASSUME Broker!TypeOK, [Broker!Next]_broker, NEW c \in Calls, status[c] = "allowed"
  PROVE  status'[c] = "allowed"
<1> USE DEF Broker!TypeOK
<1>1. ASSUME NEW a \in Calls, Broker!Arrive(a) \/ Broker!Hear(a) \/ Broker!GiveUp(a) PROVE status'[c] = "allowed"
  BY <1>1 DEF Broker!Arrive, Broker!Hear, Broker!GiveUp, Broker!FinalOf, Broker!ToldOf, Broker!Verdict
<1>2. ASSUME NEW v \in Broker!Verdict, NEW A \in SUBSET Calls, Broker!Say(v, A) PROVE status'[c] = "allowed"
  BY <1>2 DEF Broker!Say
<1>3. CASE (\E v \in Broker!Verdict, S \in SUBSET Requests : Broker!Stand(v, S)) \/ Broker!Forget \/ UNCHANGED broker
  BY <1>3 DEF Broker!Stand, Broker!Forget, broker
<1> QED
  BY <1>1, <1>2, <1>3 DEF Broker!Next

\* Types of what a call writes, where an update is looked up.
Shapes ==
  /\ DOMAIN pc = Calls /\ DOMAIN logged = Calls /\ DOMAIN lost = Calls /\ DOMAIN caller = Calls
  /\ DOMAIN config = Calls /\ DOMAIN weighed = Calls /\ DOMAIN open = Calls

\* An update of one call is none of another.
LEMMA HasShapes == TypeOK /\ WeighedOK => Shapes
BY Types DEF Shapes, NotedOK, ReadOK, RestOK, WeighedOK

\* What a call notes as it goes on is its own.
LEMMA NotesItsOwn ==
  ASSUME Shapes, NEW c \in Calls, NEW d \in Calls \ {c}, NEW what, NEW end,
         Note(c, what, end) \/ Unnoted(c, end) \/ Pass(c, end)
  PROVE  pc'[d] = pc[d] /\ logged'[d] = logged[d] /\ lost'[d] = lost[d]
BY DEF Shapes, Note, Unnoted, Pass

\* Calls do not touch one another, and an answer from the broker is heard before it counts.
LEMMA OthersSame ==
  ASSUME TypeOK, WeighedOK, [Next]_vars, NEW c \in Calls, NEW d \in Calls \ {c},
         Arrive(c) \/ Step(c) \/ HangUp(c)
  PROVE  Same(d)
<1>1. Shapes
  BY HasShapes
<1>2. UNCHANGED <<about, surface, cred, covered>>
  BY OriginStays DEF origin
<1>3. status[d] = "allowed" => status'[d] = "allowed"
  BY BrokerStep, YesStays DEF TypeOK
<1>4. \E what, end : Note(c, what, end) \/ Unnoted(c, end) \/ Pass(c, end)
  <2>1. ASSUME NEW good \in BOOLEAN, Verify(c, good) PROVE \E what, end : Note(c, what, end) \/ Unnoted(c, end) \/ Pass(c, end)
    BY <2>1 DEF Verify, Reject, Refuse
  <2>2. CASE LookUp(c) \/ Route(c)
    BY <2>2 DEF LookUp, Route, Reject, Refuse
  <2>3. CASE Weigh(c)
    <3>1. Verdict(c).action \in {"allow", "ask", "deny"} /\ What(c, Verdict(c).action) = Verdict(c).action
      BY VerdictSays, Types DEF Judgement, Actions, What
    <3> HIDE DEF Verdict
    <3>2. \/ Refuse(c) \/ Pass(c, Cleared(c)) \/ Pass(c, "ask") \/ Pass(c, "record")
      BY <2>3, <3>1 DEF Weigh
    <3> QED
      BY <3>2 DEF Refuse
  <2>4. CASE Heard(c) \/ Prepare(c) \/ Send(c) \/ ReadBody(c) \/ Record(c)
    BY <2>4 DEF Heard, Refuse, Prepare, Send, ReadBody, Record
  <2>5. CASE Arrive(c) \/ HangUp(c)
    BY <2>5 DEF Arrive, HangUp
  <2> QED
    BY <2>1, <2>2, <2>3, <2>4, <2>5 DEF Step
<1>5. pc'[d] = pc[d] /\ logged'[d] = logged[d] /\ lost'[d] = lost[d]
  BY <1>1, <1>4, NotesItsOwn
<1>6. caller'[d] = caller[d] /\ config'[d] = config[d] /\ weighed'[d] = weighed[d]
  <2>1. CASE LookUp(c)
    BY <1>1, <2>1 DEF LookUp, Shapes
  <2>2. CASE Route(c)
    BY <1>1, <2>2 DEF Route, Shapes
  <2>3. CASE Weigh(c)
    BY <1>1, <2>3 DEF Weigh, Shapes
  <2>4. CASE (\E good \in BOOLEAN : Verify(c, good)) \/ Heard(c) \/ Prepare(c) \/ Send(c) \/ ReadBody(c)
             \/ Record(c) \/ Arrive(c) \/ HangUp(c)
    BY <2>4 DEF Verify, Heard, Prepare, Send, ReadBody, Record, Arrive, HangUp, read
  <2> QED
    BY <2>1, <2>2, <2>3, <2>4 DEF Step
<1>7. d \in sent' <=> d \in sent
  BY DEF Arrive, Step, Verify, LookUp, Route, Weigh, Heard, Prepare, Send, ReadBody, Record, HangUp
<1>8. lockdown' = lockdown /\ open'[d] = open[d]
  BY <1>1 DEF Arrive, Step, Verify, LookUp, Route, Weigh, Heard, Prepare, Send, ReadBody, Record, HangUp, force, Shapes
<1> QED
  BY <1>2, <1>3, <1>5, <1>6, <1>7, <1>8 DEF Same

\* Nor does anything else but a call's own steps.
LEMMA WorldSame ==
  ASSUME TypeOK, WeighedOK, [Next]_vars, NEW d \in Calls,
         (\E c \in Calls : Ask(c)) \/ Environment \/ UNCHANGED vars
  PROVE  Same(d)
<1>1. UNCHANGED <<about, surface, cred, covered>>
  BY OriginStays DEF origin
<1>2. status[d] = "allowed" => status'[d] = "allowed"
  BY BrokerStep, YesStays DEF TypeOK
<1>3. UNCHANGED calls
  BY DEF Ask, Environment, Reload, Install, SetLockdown, Tick, Disk, Answer, StandBy, Forget, vars
<1>4. ~open'[d] => ~open[d] /\ (pc[d] # "out" /\ lockdown => lockdown')
  <2>1. ASSUME NEW on \in BOOLEAN, SetLockdown(on) PROVE ~open'[d] => ~open[d] /\ (pc[d] # "out" /\ lockdown => lockdown')
    <3>1. open'[d] = (open[d] \/ (pc[d] # "out" /\ ~on)) /\ lockdown' = on
      BY <2>1 DEF SetLockdown
    <3> QED
      BY <3>1
  <2>2. CASE ~\E on \in BOOLEAN : SetLockdown(on)
    <3>1. UNCHANGED <<lockdown, open>>
      BY <2>2 DEF Ask, Environment, Reload, Install, Tick, Disk, Answer, StandBy, Forget, vars, force
    <3> QED
      BY <3>1
  <2> QED
    BY <2>1, <2>2
<1>5. /\ pc'[d] = pc[d] /\ caller'[d] = caller[d] /\ config'[d] = config[d] /\ weighed'[d] = weighed[d]
      /\ logged'[d] = logged[d] /\ lost'[d] = lost[d] /\ sent' = sent
  BY <1>3 DEF calls, read
<1> QED
  BY <1>1, <1>2, <1>4, <1>5 DEF Same

-----------------------------------------------------------------------------
(* A call's own steps. *)

\* How a call ends, or goes on.
LEMMA NotesWhat ==
  ASSUME Shapes, NEW c \in Calls, NEW what, NEW end
  PROVE  /\ Note(c, what, end) => /\ pc'[c] = end
                                  /\ lost'[c] \/ logged'[c] = what
                                  /\ writable => logged'[c] = what
         /\ Unnoted(c, end) \/ Pass(c, end) => pc'[c] = end /\ logged'[c] = logged[c] /\ lost'[c] = lost[c]
BY DEF Shapes, Note, Unnoted, Pass

\* A call that comes in, one that is turned away at the door, and one that is let in.
LEMMA DoorStep ==
  ASSUME TypeOK, WeighedOK, [Next]_vars, NEW c \in Calls, CallInv(c),
         Arrive(c) \/ (\E good \in BOOLEAN : Verify(c, good)) \/ LookUp(c)
  PROVE  CallInv(c)'
<1>1. Shapes /\ UNCHANGED <<about, surface, cred, covered>>
  BY HasShapes, OriginStays DEF origin
<1>2. pc[c] \in {"out", "new", "who"} /\ ~Weighed(c) /\ c \notin sent
  BY DEF Arrive, Verify, LookUp, CallInv, OnItsWay, Through, Allowed, Weighed, Working, Ended, Placed
<1>3. UNCHANGED <<config, weighed, sent, status>>
  BY DEF Arrive, Verify, LookUp, read, broker
<1>4. surface[c] # "authorize" => about[c].kind = "http"
  BY DEF CallInv, Through
<1>5. ~Weighed(c)' /\ c \notin sent'
  BY <1>2, <1>3 DEF Weighed
<1>6. ~open'[c] => lockdown'
  <2>1. CASE Arrive(c)
    BY <1>1, <2>1 DEF Arrive, Shapes, Pass, force
  <2>2. CASE ~Arrive(c)
    <3>1. UNCHANGED <<open, lockdown>> /\ pc[c] # "out"
      BY <2>2 DEF Verify, LookUp, force
    <3> QED
      BY <3>1 DEF CallInv, Sheltered
  <2> QED
    BY <2>1, <2>2
<1>7. \/ pc'[c] \in {"new", "who", "refused"}
      \/ /\ pc'[c] \in {"route", "weigh"} /\ (pc'[c] = "weigh" => surface[c] = "authorize")
         /\ Identified(c)'
  <2>1. CASE Arrive(c)
    BY <1>1, <2>1, NotesWhat DEF Arrive
  <2>2. ASSUME Reject(c) PROVE pc'[c] = "refused"
    BY <1>1, <2>2, NotesWhat DEF Reject, Refuse
  <2>3. ASSUME NEW good \in BOOLEAN, Verify(c, good) PROVE pc'[c] \in {"who", "refused"}
    BY <1>1, <2>2, <2>3, NotesWhat DEF Verify
  <2>4. ASSUME LookUp(c), Accepted(c)
        PROVE  /\ pc'[c] \in {"route", "weigh"} /\ (pc'[c] = "weigh" => surface[c] = "authorize")
               /\ Identified(c)'
    <3>1. caller'[c] = served["agents"]
      BY <1>1, <2>4 DEF LookUp, Shapes
    <3>2. /\ cred[c] \in {"workload", "agent"} /\ about[c].agent \in Policies[served["agents"]].roster
          /\ served["agents"] \in DOMAIN Policies
      BY <2>4, Types DEF Accepted, Known, ForceOK, PartNames
    <3>3. Identified(c)'
      BY <1>1, <3>1, <3>2 DEF Identified
    <3>4. Pass(c, IF surface[c] = "authorize" THEN "weigh" ELSE "route")
      BY <2>4 DEF LookUp
    <3>5. pc'[c] = IF surface[c] = "authorize" THEN "weigh" ELSE "route"
      BY <1>1, <3>4, NotesWhat
    <3> QED
      BY <3>3, <3>5
  <2>5. ASSUME LookUp(c), ~Accepted(c) PROVE pc'[c] = "refused"
    BY <2>2, <2>5 DEF LookUp
  <2> QED
    BY <2>1, <2>3, <2>4, <2>5
<1>8. OnItsWay(c)'
  BY <1>1, <1>5, <1>7 DEF OnItsWay, Working, Placed, Routed
<1>9. Through(c)'
  BY <1>1, <1>4, <1>5, <1>7 DEF Through
<1>10. Sheltered(c)'
  BY <1>5, <1>6, <1>7 DEF Sheltered
<1>11. Written(c)'
  BY <1>5, <1>7 DEF Written
<1> QED
  BY <1>8, <1>9, <1>10, <1>11 DEF CallInv

\* Its upstream is one of the snapshot it goes by, or that is the end of it.
LEMMA RouteStep ==
  ASSUME TypeOK, WeighedOK, [Next]_vars, NEW c \in Calls, CallInv(c), Route(c)
  PROVE  CallInv(c)'
<1>1. Shapes /\ UNCHANGED <<about, surface, cred, covered>>
  BY HasShapes, OriginStays DEF origin
<1>2. pc[c] = "route" /\ ~Weighed(c) /\ c \notin sent /\ Identified(c)
  BY DEF Route, CallInv, OnItsWay, Through, Allowed, Weighed, Working, Ended, Placed
<1>3. UNCHANGED <<caller, weighed, sent, status, open, lockdown>> /\ config'[c] = served["config"]
  BY <1>1 DEF Route, Shapes, broker, force
<1>4. surface[c] # "authorize" => about[c].kind = "http"
  BY DEF CallInv, Through
<1>5. ~Weighed(c)' /\ c \notin sent' /\ Identified(c)'
  BY <1>1, <1>2, <1>3 DEF Weighed, Identified
<1>6. \/ pc'[c] = "refused"
      \/ /\ pc'[c] = "weigh" /\ about[c].target \in Policies[served["config"]].upstreams
         /\ served["config"] \in DOMAIN Policies
  BY <1>1, NotesWhat, Types DEF Route, Refuse, ForceOK, PartNames
<1>7. OnItsWay(c)'
  BY <1>1, <1>3, <1>5, <1>6 DEF OnItsWay, Working, Placed, Routed
<1>8. Through(c)'
  BY <1>1, <1>4, <1>5, <1>6 DEF Through
<1>9. Sheltered(c)'
  BY <1>2, <1>3, <1>5, <1>6 DEF CallInv, Sheltered
<1>10. Written(c)'
  BY <1>5, <1>6 DEF Written
<1> QED
  BY <1>7, <1>8, <1>9, <1>10 DEF CallInv

\* It is weighed against the rules in force, and what came of that is written down with them.
LEMMA WeighStep ==
  ASSUME TypeOK, WeighedOK, [Next]_vars, NEW c \in Calls, CallInv(c), Weigh(c)
  PROVE  CallInv(c)'
<1>1. Shapes /\ UNCHANGED <<about, surface, cred, covered>>
  BY HasShapes, OriginStays DEF origin
<1>2. pc[c] = "weigh" /\ ~Weighed(c) /\ c \notin sent /\ Identified(c) /\ Routed(c)
  BY DEF Weigh, CallInv, OnItsWay, Through, Allowed, Weighed, Working, Ended, Placed
<1>3. UNCHANGED <<caller, config, sent, status, open, lockdown>>
  BY DEF Weigh, broker, force
<1>4. surface[c] # "authorize" => about[c].kind = "http"
  BY DEF CallInv, Through
<1>5. c \notin sent' /\ Identified(c)' /\ Routed(c)'
  BY <1>1, <1>2, <1>3 DEF Identified, Routed
<1>6. ~open'[c] => lockdown
  BY <1>2, <1>3 DEF CallInv, Sheltered
<1>7. ASSUME ~Granted(c) \/ ~Permits(c) PROVE CallInv(c)'
  <2>1. pc'[c] = "refused" /\ weighed' = weighed
    BY <1>1, <1>7, NotesWhat DEF Weigh, Refuse
  <2>2. ~Weighed(c)'
    BY <1>2, <2>1 DEF Weighed
  <2>3. OnItsWay(c)'
    BY <1>5, <2>1, <2>2 DEF OnItsWay, Working, Placed
  <2>4. Through(c)' /\ Written(c)'
    BY <1>1, <1>4, <1>5, <2>1, <2>2 DEF Through, Written
  <2>5. Sheltered(c)'
    BY <1>3, <1>5, <1>6, <2>1 DEF Sheltered
  <2> QED
    BY <2>3, <2>4, <2>5 DEF CallInv
<1>8. ASSUME Granted(c), Permits(c) PROVE CallInv(c)'
  <2> DEFINE action == Verdict(c).action
  <2>1. Judgement(Policies[served["acl"]], action, about[c], now, lockdown)
    BY VerdictSays, Types
  <2>2. action \in {"allow", "ask", "deny"} /\ What(c, action) = action /\ (lockdown => action = "deny")
    BY <2>1 DEF Judgement, Actions, What
  <2>3. weighed' = [weighed EXCEPT ![c] =
              [acl |-> served["acl"], lockdown |-> lockdown, now |-> now,
               action |-> action, rule |-> Verdict(c).rule]]
    BY <1>8 DEF Weigh
  <2>4. weighed'[c].action = action /\ weighed'[c].acl = served["acl"] /\ weighed'[c].now = now
    BY <1>1, <2>3 DEF Shapes
  <2> HIDE DEF action
  <2>5. \/ action = "allow" /\ Pass(c, Cleared(c))
        \/ action = "ask" /\ Pass(c, "ask")
        \/ action = "deny" /\ surface[c] = "authorize" /\ Pass(c, "record")
        \/ action = "deny" /\ surface[c] # "authorize" /\ Refuse(c)
    BY <1>8, <2>2 DEF Weigh, action
  <2>6. \/ action = "allow" /\ surface[c] = "authorize" /\ pc'[c] = "record"
        \/ action = "allow" /\ surface[c] # "authorize" /\ pc'[c] = "prepare"
        \/ action = "ask" /\ pc'[c] = "ask"
        \/ action = "deny" /\ surface[c] = "authorize" /\ pc'[c] = "record"
        \/ action = "deny" /\ surface[c] # "authorize" /\ pc'[c] = "refused"
                          /\ (lost'[c] \/ logged'[c] = "refused")
    BY <1>1, <2>5, NotesWhat DEF Cleared, Refuse
  <2>7. Weighed(c)' /\ Granted(c)' /\ Permits(c)'
    BY <1>1, <1>3, <1>8, <2>2, <2>4 DEF Weighed, Granted, Permits
  <2>8. Judged(c)'
    <3>1. action \in {"allow", "ask"} => Says(Policies[served["acl"]], action, about[c], now)
      BY <2>1, <2>2 DEF Judgement
    <3>2. served["acl"] \in DOMAIN Policies
      BY Types DEF ForceOK, PartNames
    <3> QED
      BY <1>1, <2>4, <3>1, <3>2 DEF Judged
  <2>9. OnItsWay(c)'
    BY <1>5, <2>6, <2>7, <2>8 DEF OnItsWay, Working, Placed, Ended
  <2>10. Through(c)'
    BY <1>1, <1>4, <1>5, <2>4, <2>6 DEF Through, Allowed
  <2>11. Sheltered(c)'
    BY <1>3, <1>5, <1>6, <2>2, <2>4, <2>6 DEF Sheltered
  <2>12. Written(c)'
    BY <1>1, <2>6 DEF Written, Ended
  <2> QED
    BY <2>9, <2>10, <2>11, <2>12 DEF CallInv
<1> QED
  BY <1>7, <1>8

\* Once weighed, what a call was weighed against, where it is going and who it is stay; the
\* rest of the way is one of these, and the log has its end.
LEMMA LateStep ==
  ASSUME NEW c \in Calls, CallInv(c), Weighed(c), pc[c] \in Working,
         UNCHANGED <<about, surface, cred, covered, caller, config, weighed, open, lockdown>>,
         pc'[c] \in {"prepare", "send", "body", "record"} \cup Ended,
         status[c] = "allowed" => status'[c] = "allowed",
         pc'[c] \in {"prepare", "send", "body", "given"} \/ c \in sent' => Allowed(c) /\ open[c],
         pc'[c] \in {"prepare", "send", "body"} \/ c \in sent' => surface[c] # "authorize",
         pc'[c] = "record" => open[c] /\ (surface[c] = "authorize" \/ Allowed(c)),
         pc'[c] = "body" => surface[c] = "gateway",
         pc'[c] = "given" => logged'[c] = "performed",
         ~open[c] => pc'[c] = "refused",
         surface[c] # "gateway" /\ pc'[c] \in Ended \ {"gone"} => lost'[c] \/ logged'[c] # "nothing"
  PROVE  CallInv(c)'
<1>1. Weighed(c)' /\ Identified(c)' /\ Routed(c)' /\ Granted(c)' /\ Permits(c)' /\ Judged(c)'
  <2>1. Identified(c) /\ Routed(c) /\ Granted(c) /\ Permits(c) /\ Judged(c)
    BY DEF CallInv, OnItsWay
  <2> QED
    BY <2>1 DEF Weighed, Identified, Routed, Granted, Permits, Judged
<1>2. OnItsWay(c)'
  BY <1>1 DEF OnItsWay, Working, Placed
<1>3. Allowed(c) => Allowed(c)'
  BY DEF Allowed, SaidYes
<1>4. Through(c)'
  BY <1>3 DEF CallInv, Through, Ended
<1>5. Sheltered(c)'
  <2>1. ~open[c] => c \notin sent' /\ pc'[c] = "refused"
    OBVIOUS
  <2>2. ~open[c] => lockdown
    BY DEF CallInv, Sheltered, Working
  <2> QED
    BY <2>1, <2>2 DEF Sheltered
<1>6. Written(c)'
  BY <1>1 DEF Written, Ended
<1> QED
  BY <1>2, <1>4, <1>5, <1>6 DEF CallInv

\* The broker's word is heard, the call is made ready, made, read, and recorded.
LEMMA LateSteps ==
  ASSUME TypeOK, WeighedOK, [Next]_vars, NEW c \in Calls, CallInv(c),
         Heard(c) \/ Prepare(c) \/ Send(c) \/ ReadBody(c) \/ Record(c) \/ HangUp(c)
  PROVE  CallInv(c)'
<1>1. Shapes /\ UNCHANGED <<about, surface, cred, covered>>
  BY HasShapes, OriginStays DEF origin
<1>2. UNCHANGED <<caller, config, weighed, open, lockdown>>
  BY DEF Heard, Prepare, Send, ReadBody, Record, HangUp, read, force
<1>3. pc[c] \in Working /\ Weighed(c)
  BY DEF Heard, Prepare, Send, ReadBody, Record, HangUp, CallInv, OnItsWay, Working
<1>4. status[c] = "allowed" => status'[c] = "allowed"
  BY BrokerStep, YesStays DEF TypeOK
<1>5. /\ c \in sent => Allowed(c) /\ open[c] /\ surface[c] # "authorize"
      /\ pc[c] \in {"prepare", "send", "body"} => Allowed(c) /\ open[c] /\ surface[c] # "authorize"
      /\ pc[c] = "ask" => open[c] /\ weighed[c].action = "ask"
      /\ pc[c] = "body" => surface[c] = "gateway"
      /\ pc[c] = "record" => surface[c] = "authorize" \/ Allowed(c)
      /\ pc[c] = "record" /\ ~open[c] => weighed[c].action = "deny"
  BY DEF CallInv, Through, Sheltered
<1>6. CASE Heard(c)
  <2>1. pc[c] = "ask" /\ sent' = sent
    BY <1>6 DEF Heard
  <2>2. \/ Allowed(c) /\ Pass(c, Cleared(c))
        \/ surface[c] = "authorize" /\ Pass(c, "record")
        \/ surface[c] # "authorize" /\ Refuse(c)
    BY <1>5, <1>6 DEF Heard, Allowed
  <2>3. \/ Allowed(c) /\ surface[c] = "authorize" /\ pc'[c] = "record"
        \/ Allowed(c) /\ surface[c] # "authorize" /\ pc'[c] = "prepare"
        \/ surface[c] = "authorize" /\ pc'[c] = "record"
        \/ pc'[c] = "refused" /\ (lost'[c] \/ logged'[c] = "refused")
    BY <1>1, <2>2, NotesWhat DEF Refuse, Cleared
  <2>4. pc'[c] \in {"prepare", "send", "body", "record"} \cup Ended
    BY <2>3 DEF Ended
  <2>5. surface[c] # "gateway" /\ pc'[c] \in Ended \ {"gone"} => lost'[c] \/ logged'[c] # "nothing"
    BY <2>3 DEF Ended
  <2> QED
    BY <1>1, <1>2, <1>3, <1>4, <1>5, <2>1, <2>3, <2>4, <2>5, LateStep
<1>7. CASE Prepare(c)
  <2>1. pc[c] = "prepare" /\ sent' = sent
    BY <1>7 DEF Prepare
  <2>2. \/ pc'[c] = "send"
        \/ pc'[c] = "failed" /\ (surface[c] = "gateway" \/ lost'[c] \/ logged'[c] = "failed")
    BY <1>1, <1>7, NotesWhat DEF Prepare
  <2>3. pc'[c] \in {"prepare", "send", "body", "record"} \cup Ended
    BY <2>2 DEF Ended
  <2>4. surface[c] # "gateway" /\ pc'[c] \in Ended \ {"gone"} => lost'[c] \/ logged'[c] # "nothing"
    BY <2>2 DEF Ended
  <2> QED
    BY <1>1, <1>2, <1>3, <1>4, <1>5, <2>1, <2>2, <2>3, <2>4, LateStep
<1>8. CASE Send(c)
  <2>1. pc[c] = "send" /\ sent' = sent \cup {c}
    BY <1>8 DEF Send
  <2>2. \/ pc'[c] = "body" /\ surface[c] = "gateway"
        \/ pc'[c] = "record"
        \/ pc'[c] = "failed" /\ (lost'[c] \/ logged'[c] = "failed")
    <3>1. \/ Pass(c, IF surface[c] = "gateway" THEN "body" ELSE "record")
          \/ Note(c, "failed", "failed")
      BY <1>8 DEF Send
    <3> QED
      BY <1>1, <3>1, NotesWhat
  <2>3. pc'[c] \in {"prepare", "send", "body", "record"} \cup Ended
    BY <2>2 DEF Ended
  <2>4. surface[c] # "gateway" /\ pc'[c] \in Ended \ {"gone"} => lost'[c] \/ logged'[c] # "nothing"
    BY <2>2 DEF Ended
  <2> QED
    BY <1>1, <1>2, <1>3, <1>4, <1>5, <2>1, <2>2, <2>3, <2>4, LateStep
<1>9. CASE ReadBody(c)
  <2>1. pc[c] = "body" /\ sent' = sent
    BY <1>9 DEF ReadBody
  <2>2. pc'[c] \in {"record", "failed"}
    BY <1>1, <1>9, NotesWhat DEF ReadBody
  <2>3. pc'[c] \in {"prepare", "send", "body", "record"} \cup Ended
    BY <2>2 DEF Ended
  <2> QED
    BY <1>1, <1>2, <1>3, <1>4, <1>5, <2>1, <2>2, <2>3, LateStep
<1>10. CASE Record(c)
  <2> DEFINE what == IF Allowed(c) THEN "performed" ELSE "refused"
             end == IF ~Allowed(c) THEN "refused" ELSE IF Answers(c) THEN "given" ELSE "withheld"
  <2>1. pc[c] = "record" /\ sent' = sent /\ Note(c, what, end)
    BY <1>10 DEF Record
  <2>2. what \in {"performed", "refused"} /\ end \in {"refused", "given", "withheld"}
        /\ (end = "given" => writable /\ what = "performed" /\ Allowed(c)) /\ (~Allowed(c) => end = "refused")
    BY DEF Answers
  <2>3. weighed[c].action = "deny" => ~Allowed(c)
    BY DEF Allowed
  <2> HIDE DEF what, end
  <2>4. pc'[c] = end /\ (lost'[c] \/ logged'[c] = what) /\ (writable => logged'[c] = what)
    BY <1>1, <2>1, NotesWhat
  <2>5. pc'[c] \in {"prepare", "send", "body", "record"} \cup Ended
    BY <2>2, <2>4 DEF Ended
  <2>6. surface[c] # "gateway" /\ pc'[c] \in Ended \ {"gone"} => lost'[c] \/ logged'[c] # "nothing"
    BY <2>2, <2>4
  <2>7. pc'[c] = "given" => logged'[c] = "performed" /\ Allowed(c)
    BY <2>2, <2>4
  <2>8. ~open[c] => pc'[c] = "refused"
    BY <1>5, <2>1, <2>2, <2>3, <2>4
  <2>9. pc'[c] \notin {"prepare", "send", "body", "record"}
    BY <2>2, <2>4
  <2>10. pc'[c] = "given" => open[c]
    BY <2>8
  <2> QED
    BY <1>1, <1>2, <1>3, <1>4, <1>5, <2>1, <2>5, <2>6, <2>7, <2>8, <2>9, <2>10, LateStep
<1>11. CASE HangUp(c)
  <2>1. pc[c] \in {"ask", "prepare", "send", "body"} /\ pc'[c] = "gone"
    BY <1>1, <1>11, NotesWhat DEF HangUp
  <2>2. sent' = sent \/ (pc[c] = "send" /\ sent' = sent \cup {c})
    BY <1>11 DEF HangUp
  <2>3. "gone" \in Ended
    BY DEF Ended
  <2> QED
    BY <1>1, <1>2, <1>3, <1>4, <1>5, <2>1, <2>2, <2>3, LateStep
<1> QED
  BY <1>6, <1>7, <1>8, <1>9, <1>10, <1>11

-----------------------------------------------------------------------------
\* The invariant is inductive.
LEMMA InvStep == Inv /\ [Next]_vars => Inv'
<1> SUFFICES ASSUME Inv, [Next]_vars PROVE Inv'
  OBVIOUS
<1>1. TypeOK /\ WeighedOK /\ ForceOK /\ OneEdition /\ \A c \in Calls : CallInv(c)
  BY Types DEF Inv
<1>2. TypeOK' /\ WeighedOK'
  BY <1>1, TypeStep
<1>3. OneEdition'
  BY <1>1, EditionStep
<1>4. ASSUME NEW d \in Calls PROVE CallInv(d)'
  <2>1. ASSUME NEW c \in Calls, Arrive(c) \/ Step(c) \/ HangUp(c) PROVE CallInv(d)'
    <3>1. CASE d = c
      BY <1>1, <2>1, <3>1, DoorStep, RouteStep, WeighStep, LateSteps DEF Step
    <3>2. CASE d # c
      <4>1. Same(d)
        BY <1>1, <2>1, <3>2, OthersSame
      <4> QED
        BY <1>1, <4>1, SameKeeps
    <3> QED
      BY <3>1, <3>2
  <2>2. CASE (\E c \in Calls : Ask(c)) \/ Environment \/ UNCHANGED vars
    <3>1. Same(d)
      BY <1>1, <2>2, WorldSame
    <3> QED
      BY <1>1, <3>1, SameKeeps
  <2> QED
    BY <2>1, <2>2 DEF Next
<1> QED
  BY <1>2, <1>3, <1>4 DEF Inv

\* It has what is promised of what gets through.
LEMMA PermittedMeans == Inv => OnlyThePermitted
<1> SUFFICES ASSUME Inv PROVE OnlyThePermittedIsSent /\ NothingUnderLockdown
  BY DEF Inv, OnlyThePermitted
<1>1. ASSUME NEW c \in Done PROVE c \in Calls /\ Allowed(c)
  BY <1>1 DEF Done, Inv, TypeOK, CallInv, Through
<1>2. ASSUME NEW c \in Done
      PROVE  LET a == about[c].agent IN
               /\ cred[c] \in {"agent", "workload"}
               /\ {caller[c], weighed[c].acl} \subseteq DOMAIN Policies
               /\ a \in Policies[caller[c]].roster
               /\ MayAddress(Policies[caller[c]].targets[a], about[c].target)
               /\ surface[c] # "authorize" =>
                    config[c] \in DOMAIN Policies /\ about[c].target \in Policies[config[c]].upstreams
               /\ cred[c] = "workload" => covered[c]
               /\ \/ Says(Policies[weighed[c].acl], "allow", about[c], weighed[c].now)
                  \/ Says(Policies[weighed[c].acl], "ask", about[c], weighed[c].now) /\ status[c] = "allowed"
  <2>1. c \in Calls /\ Allowed(c)
    BY <1>1
  <2>2. Weighed(c)
    BY <2>1 DEF Allowed, Weighed
  <2>3. Identified(c) /\ Routed(c) /\ Granted(c) /\ Permits(c) /\ Judged(c)
    BY <2>1, <2>2 DEF Inv, CallInv, OnItsWay
  <2>4. \/ Says(Policies[weighed[c].acl], "allow", about[c], weighed[c].now)
        \/ Says(Policies[weighed[c].acl], "ask", about[c], weighed[c].now) /\ status[c] = "allowed"
    BY <2>1, <2>3 DEF Judged, Allowed, SaidYes
  <2> QED
    BY <2>3, <2>4 DEF Identified, Routed, Granted, Permits, Judged
<1>3. ASSUME NEW c \in Calls, ~open[c] PROVE c \notin Done /\ pc[c] # "ask"
  BY <1>3 DEF Inv, CallInv, Sheltered, Done
<1> QED
  BY <1>2, <1>3 DEF OnlyThePermittedIsSent, NothingUnderLockdown

\* And of what is written of it.
LEMMA LogMeans == Inv => TheLogHasIt
BY DEF Inv, CallInv, Written, TheLogHasIt, GivenIsRecorded, DecisionsAreRecorded, Ended

\* What was let through is what its agent was told of.
LEMMA ReachableMeans == Inv => NothingReachableIsHidden
<1> SUFFICES ASSUME Inv, NEW c \in sent
             PROVE  AccessFor(Policies[weighed[c].acl], Policies[caller[c]].targets[about[c].agent],
                              about[c].agent, about[c].target) # "none"
  BY DEF NothingReachableIsHidden
<1>1. c \in Calls
  BY DEF Inv, TypeOK
<1>2. Allowed(c) /\ surface[c] # "authorize" /\ about[c].kind = "http"
  BY <1>1 DEF Inv, CallInv, Through
<1>3. Weighed(c) /\ weighed[c].action \in {"allow", "ask"}
  BY <1>2 DEF Allowed, Weighed
<1>4. Granted(c) /\ Says(Policies[weighed[c].acl], weighed[c].action, about[c], weighed[c].now)
  BY <1>1, <1>3 DEF Inv, CallInv, OnItsWay, Judged
<1>5. Policies[weighed[c].acl].default \in Actions
  BY <1>1, <1>3, PoliciesArePolicies DEF Inv, CallInv, OnItsWay, Judged
<1>6. weighed[c].action # "deny"
  BY <1>3
<1> QED
  BY <1>2, <1>4, <1>5, <1>6, SaysReachable DEF Granted

\* Positions in the config's list are positions in the rules' between reloads.
LEMMA ToldMeans == Inv => ToldRulesAreInForce
<1> SUFFICES ASSUME Inv, loading = 0 PROVE ToldRulesAreInForce
  BY DEF ToldRulesAreInForce
<1>1. served["acl"] = served["config"]
  BY DEF Inv, OneEdition, PartNames
<1>2. \A c \in Calls :
        RulesTold(Policies[served["acl"]], Policies[served["config"]].rules, about[c].agent, about[c].target)
          \subseteq RulesFor(Policies[served["acl"]], about[c].agent, "http", about[c].target)
  BY <1>1, ToldIsThere
<1> QED
  BY <1>2 DEF ToldRulesAreInForce

\* A call is put to a human only by a policy that can.
LEMMA AsksMeans == Inv /\ [Next]_vars =>
  \A c \in Calls : pc[c] = "weigh" /\ pc'[c] = "ask" => CanAsk(Policies[served["acl"]], lockdown)
<1> SUFFICES ASSUME Inv, [Next]_vars, NEW c \in Calls, pc[c] = "weigh", pc'[c] = "ask"
             PROVE  CanAsk(Policies[served["acl"]], lockdown)
  OBVIOUS
<1>1. TypeOK /\ WeighedOK /\ ForceOK /\ Shapes
  BY HasShapes, Types DEF Inv
<1>2. Weigh(c)
  <2>1. ASSUME NEW d \in Calls \ {c}, Arrive(d) \/ Step(d) \/ HangUp(d) PROVE FALSE
    <3>1. Same(c)
      BY <1>1, <2>1, OthersSame
    <3> QED
      BY <3>1 DEF Same
  <2>2. CASE (\E d \in Calls : Ask(d)) \/ Environment \/ UNCHANGED vars
    <3>1. Same(c)
      BY <1>1, <2>2, WorldSame
    <3> QED
      BY <3>1 DEF Same
  <2>3. ~(Arrive(c) \/ HangUp(c))
    BY DEF Arrive, HangUp
  <2>4. ~((\E good \in BOOLEAN : Verify(c, good)) \/ LookUp(c) \/ Route(c) \/ Heard(c) \/ Prepare(c) \/ Send(c)
          \/ ReadBody(c) \/ Record(c))
    BY DEF Verify, LookUp, Route, Heard, Prepare, Send, ReadBody, Record
  <2> QED
    BY <2>1, <2>2, <2>3, <2>4 DEF Next, Step
<1>3. Judgement(Policies[served["acl"]], Verdict(c).action, about[c], now, lockdown)
  BY <1>1, VerdictSays
<1>4. Verdict(c).action = "ask"
  <2> DEFINE action == Verdict(c).action
  <2>1. action \in {"allow", "ask", "deny"} /\ What(c, action) = action
    BY <1>3 DEF Judgement, Actions, What
  <2>2. \/ action = "ask"
        \/ action = "allow" /\ Pass(c, Cleared(c))
        \/ Pass(c, "record")
        \/ Refuse(c)
    BY <1>2, <2>1 DEF Weigh
  <2> HIDE DEF action
  <2>3. action = "ask" \/ pc'[c] \in {"record", "prepare", "refused"}
    BY <1>1, <2>2, NotesWhat DEF Cleared, Refuse
  <2> QED
    BY <2>3 DEF action
<1> QED
  BY <1>3, <1>4 DEF Judgement

-----------------------------------------------------------------------------
\* However many calls at once, whatever is reloaded part by part, switched, remembered or
\* answered around them (gate.rs clear, proxy.rs, gateway.rs, admin.rs authorize): what
\* reaches an upstream was an agent's of its roster, granted, in scope, and allowed by the
\* rules it was weighed against or by a human; and under lockdown nothing gets through.
THEOREM OnlyThePermittedAlways == Spec => []OnlyThePermitted
BY InitOK, InvStep, PermittedMeans, PTL DEF Spec

\* Nobody has an answer the log does not have, and every decision the rules were asked for
\* is in it, unless its record was lost with the disk, by the gateway or with the client.
THEOREM TheLogAlwaysHasIt == Spec => []TheLogHasIt
BY InitOK, InvStep, LogMeans, PTL DEF Spec

\* What an agent is told it can reach (skills.rs) and what `can_ask` says (acl.rs) are what
\* the proxy goes by.
THEOREM TheCatalogueIsAlwaysTrue == Spec => TheCatalogueIsTrue
<1>1. Inv => NothingReachableIsHidden /\ ToldRulesAreInForce
  BY ReachableMeans, ToldMeans
<1>2. Spec => []Inv
  BY InitOK, InvStep, PTL DEF Spec
<1>3. Inv /\ [Next]_vars =>
        [\A c \in Calls : pc[c] = "weigh" /\ pc'[c] = "ask" => CanAsk(Policies[served["acl"]], lockdown)]_vars
  BY AsksMeans
<1> QED
  BY <1>1, <1>2, <1>3, PTL DEF Spec, TheCatalogueIsTrue, AsksOnlyWhenItCan

\* What the calls see of the human is what the broker promises (module ApprovalPromise,
\* which Approval implements): no step of a call takes an answer it was not given.
THEOREM CallsKeepToThePromise == Spec => Broker!Spec
<1>1. Init => Broker!Init
  BY DEF Init, Broker!Init
<1>2. Inv /\ [Next]_vars => [Broker!Next]_(Broker!vars)
  BY BrokerStep DEF Inv, TypeOK, broker, Broker!vars
<1>3. Spec => []Inv
  BY InitOK, InvStep, PTL DEF Spec
<1> QED
  BY <1>1, <1>2, <1>3, PTL DEF Spec, Broker!Spec
=============================================================================
