------------------------------- MODULE Verify -------------------------------
(***************************************************************************)
(* The verification of src/src/verify.rs: one call to a service with its   *)
(* real credential, reported step by step, and what the report and the     *)
(* enrolment messages say of the rules.                                    *)
(*                                                                         *)
(* An HTTP upstream is sent one request; an MCP server is taken through    *)
(* its handshake, over HTTP or through a child process that is spawned for *)
(* the question, whose lines arrive when it writes them and whose every    *)
(* answer races the timeout.  The operator may leave at any moment.        *)
(*                                                                         *)
(* What the service is (its facts) and what it may answer are assumptions  *)
(* about the other end.  Wording is left out: a step is its name, its      *)
(* outcome and the two words the console's column shows.                   *)
(*                                                                         *)
(* A rule here is an Acl rule with the flag `pattern`: was its target      *)
(* written as a glob?                                                      *)
(***************************************************************************)
EXTENDS Acl, FiniteSets

CONSTANTS
  Agents,     \* the agents enrolled, some of Names
  Initialize, \* the method that opens an MCP session
  Configs,    \* what may be verified, some of Config
  MaxFrames   \* bound: how many lines a child writes

Transports == {"upstream", "remote", "child"}

PatternRule == [agent : SUBSET Names, kinds : SUBSET Kinds, target : SUBSET Names,
                methods : SUBSET (SUBSET Methods), paths : SUBSET PathPattern,
                action : Actions, expires : Nat, pattern : BOOLEAN]
RulesOfPatterns == [rules : Seq(PatternRule), default : Actions]

\* What is asked about: a service, the policy it is in, and the facts about the other end: is
\* the credential good and entitled, and does a bad one get 403 there instead of 401?
Config == [name : Names, transport : Transports, policy : RulesOfPatterns, wellFormed : BOOLEAN,
           headers : BOOLEAN, signed : BOOLEAN, probe : BOOLEAN, resolves : BOOLEAN,
           good : BOOLEAN, entitled : BOOLEAN, blunt : BOOLEAN]

ASSUME VerifyAssumption ==
  /\ Agents \subseteq Names /\ Initialize \in Methods /\ Never > 0
  /\ MaxFrames \in Nat /\ Configs \subseteq Config

Statuses == {"success", "redirect", "unauthorized", "forbidden", "missing", "limited", "error"}
Codes == {"none", "AccessDenied", "InvalidAccessKeyId", "InvalidRegion"}

\* A child's lines: what is no frame of the protocol, what is not even text, a request of its
\* own under the number that the handshake or the listing has here, and its answers to both.
Openings == {"opened", "unopened"}
Listings == {"tools", "untooled"}
Frames == {"noise", "garbled", "own opening", "own listing"} \cup Openings \cup Listings

VARIABLES
  config,    \* the snapshot the verification was given
  at,
  report,    \* its steps so far
  answer,    \* of the upstream or the remote server
  child,     \* the process spawned
  wrote,     \* its lines
  heard,      \* how many of them were read
  late,      \* history: did the timeout end a wait?
  now, judged \* the clock, and its reading when the rules were judged

vvars == <<config, at, report, answer, child, wrote, heard, late, now, judged>>
childs == <<child, wrote, heard>>

NoAnswer == [status |-> "none", code |-> "none", frame |-> "noise"]

VInit ==
  /\ config \in Configs
  /\ at = "start" /\ report = <<>> /\ answer = NoAnswer
  /\ child = "none" /\ wrote = <<>> /\ heard = 0
  /\ late = FALSE
  /\ now = 0 /\ judged = 0

-----------------------------------------------------------------------------
(* The report. *)

Step(name, outcome, brief) == [name |-> name, outcome |-> outcome, brief |-> brief]

\* Step, and on to the next.
Notes(step, next) == report' = Append(report, step) /\ at' = next

\* Slip for EveryReportJudges: an early return leaves the rules unjudged.
SlipGivesUp(step) == Notes(step, "done")

GivesUp(step) == Notes(step, "judge")

Worst(steps) ==
  CASE \E i \in DOMAIN steps : steps[i].outcome = "failed" -> "failed"
    [] \E i \in DOMAIN steps : steps[i].outcome = "warned" -> "warned"
    [] OTHER -> "passed"

LinesOf(steps, name) == {i \in DOMAIN steps : steps[i].name = name}
EarliestOf(found) == CHOOSE i \in found : \A j \in found : i <= j

\* Report::brief, the words in the column.
Brief(steps) ==
  LET worst == {i \in DOMAIN steps : steps[i].outcome = Worst(steps)}
      best  == LinesOf(steps, "reach") \cup LinesOf(steps, "handshake")
  IN IF Worst(steps) # "passed" THEN steps[EarliestOf(worst)].brief
     ELSE IF best = {} THEN "ok" ELSE steps[EarliestOf(best)].brief

-----------------------------------------------------------------------------
(* What the rules would do to it. *)

Reaching(rule, kind, name) == kind \in rule.kinds /\ name \in rule.target

\* Slip for NothingGrantedIsTrue: only the patterns written for its own kind.
SlipStandingGrants(policy, kind, name, when) ==
  {i \in DOMAIN policy.rules :
     LET rule == policy.rules[i] IN
       rule.action = "allow" /\ rule.pattern /\ ~Expired(rule, when)
       /\ rule.kinds = {kind} /\ name \in rule.target}

\* Slip for GrantsAreTrue: a rule whose deadline has passed still grants.
SlipOverdueGrants(policy, kind, name, when) ==
  {i \in DOMAIN policy.rules :
     LET rule == policy.rules[i] IN
       rule.action = "allow" /\ rule.pattern /\ Reaching(rule, kind, name)}

\* standing_grants_for: allowed by a pattern that was not written for it.
StandingGrants(policy, kind, name, when) ==
  {i \in DOMAIN policy.rules :
     LET rule == policy.rules[i] IN
       rule.action = "allow" /\ rule.pattern /\ ~Expired(rule, when) /\ Reaching(rule, kind, name)}

\* Slip for BadNewsIsTrue: only rules that allow admit.
SlipAdmits(rule) == rule.action = "allow"

Admits(rule) == rule.action # "deny"

\* reachability
Reachability(policy, kind, name, when) ==
  LET reaching == {i \in DOMAIN policy.rules :
                     Reaching(policy.rules[i], kind, name) /\ ~Expired(policy.rules[i], when)}
  IN IF StandingGrants(policy, kind, name, when) # {}
       THEN Step("policy", "warned", "granted by a pattern")
     ELSE IF \E i \in reaching : Admits(policy.rules[i])
       THEN Step("policy", "passed", "reachable by acl")
     ELSE IF policy.default # "deny" THEN Step("policy", "passed", "acl default")
     ELSE Step("policy", "warned", "no acl rule")

\* mcp_handshake_warning: rules reach it, and none lets the session open.
AdmitsHandshake(rule, name) ==
  /\ Reaching(rule, "mcp", name) /\ rule.action = "allow"
  /\ \E p \in rule.paths : p.unconstrained
  /\ \E m \in rule.methods : Initialize \in m

NoHandshake(policy, name) ==
  /\ ~\E i \in DOMAIN policy.rules : AdmitsHandshake(policy.rules[i], name)
  /\ \E i \in DOMAIN policy.rules : Reaching(policy.rules[i], "mcp", name)
  /\ policy.default # "allow"

\* http_policy and mcp_policy
PolicyStep(c, when) ==
  IF c.transport = "upstream" THEN Reachability(c.policy, "http", c.name, when)
  ELSE IF NoHandshake(c.policy, c.name) THEN Step("policy", "warned", "no initialize rule")
  ELSE Reachability(c.policy, "mcp", c.name, when)

\* cannot_ask_warning
CannotAsk(policy) ==
  policy.default # "ask" /\ \A i \in DOMAIN policy.rules : policy.rules[i].action # "ask"

\* first_call_notice: what an enrolment says the first call will meet.
FirstCall(policy, kind, name, when) ==
  IF StandingGrants(policy, kind, name, when) # {} THEN "granted already"
  ELSE IF CannotAsk(policy) THEN "nobody is asked"
  ELSE IF policy.default = "allow" THEN "the default allows"
  ELSE "nothing is granted"

Judge ==
  /\ at = "judge"
  /\ judged' = now
  /\ Notes(PolicyStep(config, now), "done")
  /\ UNCHANGED <<config, answer, childs, late, now>>

-----------------------------------------------------------------------------
(* An upstream: one request. *)

\* What a service answers: it checks a credential before anything about the endpoint, a
\* signature before permissions, and its root owes nobody anything.  To a bad credential it
\* says 401, or 403 if it is blunt.
Answers(c) ==
  LET trouble == [status : {"none", "redirect", "missing", "limited", "error"}, code : {"none"}]
      said    == IF ~c.good THEN [status : IF c.blunt THEN {"forbidden"} ELSE {"unauthorized"}, code : {"none"}]
                 ELSE IF c.entitled THEN [status : {"success"}, code : {"none"}]
                 ELSE [status : {"forbidden"}, code : {"none"}]
      store   == [status : {"forbidden"},
                  code : IF ~c.good THEN {"InvalidAccessKeyId"}
                         ELSE IF c.entitled THEN {"InvalidRegion"} ELSE {"AccessDenied"}]
      root    == IF c.probe THEN {}
                 ELSE [status : {"success", "unauthorized", "forbidden"}, code : {"none"}]
  IN trouble \cup IF c.signed THEN store \cup IF c.good THEN said ELSE {} ELSE said \cup root

Build ==
  /\ at = "start" /\ config.transport = "upstream"
  /\ IF config.wellFormed
     THEN Notes(Step("endpoint", IF config.headers THEN "passed" ELSE "warned", "endpoint"), "attach")
     ELSE GivesUp(Step("endpoint", "failed", "endpoint"))
  /\ UNCHANGED <<config, answer, childs, late, now, judged>>

Attach ==
  /\ at = "attach"
  /\ IF config.resolves THEN Notes(Step("credential", "passed", "credential"), "call")
     ELSE GivesUp(Step("credential", "failed", "cannot resolve"))
  /\ UNCHANGED <<config, answer, childs, late, now, judged>>

\* Slip for ClaimsAreTrue: a redirect is followed, to a page that answers.
SlipFollowed(a) == IF a.status = "redirect" THEN [a EXCEPT !.status = "success"] ELSE a

\* client: redirects are not followed.
Followed(a) == a

Call ==
  /\ at = "call"
  /\ \E a \in Answers(config) :
       answer' = Followed([status |-> a.status, code |-> a.code, frame |-> "noise"])
  /\ at' = "classify"
  /\ UNCHANGED <<config, report, childs, late, now, judged>>

\* classify: by the status, and by whether the path was one that ought to exist.
Classified(status, probe) ==
  CASE status = "none" -> Step("reach", "failed", "unreachable")
    [] status = "success" -> Step("reach", "passed", IF probe THEN "credential ok" ELSE "reachable")
    [] status = "redirect" -> Step("reach", "warned", "redirected")
    [] status = "unauthorized" -> Step("reach", "failed", "rejected")
    [] status = "forbidden" /\ probe -> Step("reach", "warned", "not entitled")
    [] status \in {"forbidden", "missing", "limited"} /\ ~probe -> Step("reach", "passed", "reachable")
    [] status = "missing" /\ probe -> Step("reach", "warned", "no such endpoint")
    [] status = "limited" /\ probe -> Step("reach", "warned", "rate limited")
    [] status = "error" -> Step("reach", "warned", "http error")

\* classify_s3: by the code in the body, before the status.
ClassifiedStore(a, probe) ==
  CASE a.status = "success" \/ a.code = "AccessDenied" -> Step("reach", "passed", "credential ok")
    [] a.code = "InvalidAccessKeyId" -> Step("reach", "failed", "rejected")
    [] a.code = "InvalidRegion" -> Step("reach", "failed", "wrong region")
    [] OTHER -> Classified(a.status, probe)

Classify ==
  /\ at = "classify"
  /\ Notes(IF config.signed /\ answer.status # "none" THEN ClassifiedStore(answer, config.probe)
           ELSE Classified(answer.status, config.probe), "judge")
  /\ UNCHANGED <<config, answer, childs, late, now, judged>>

-----------------------------------------------------------------------------
(* A remote MCP server: three posts. *)

Dial ==
  /\ at = "start" /\ config.transport = "remote"
  /\ IF config.wellFormed THEN Notes(Step("endpoint", "passed", "endpoint"), "post")
     ELSE GivesUp(Step("endpoint", "failed", "endpoint"))
  /\ UNCHANGED <<config, answer, childs, late, now, judged>>

\* The credential is attached to each post: what fails first is whose failure it is.  A
\* server asks nothing of its own, as its answer comes, of one it does not know.
Post ==
  /\ at = "post"
  /\ IF ~config.resolves
     THEN GivesUp(Step("credential", "failed", "cannot resolve")) /\ UNCHANGED answer
     ELSE \/ /\ GivesUp(Step("handshake", "failed", "unreachable"))
             /\ UNCHANGED answer
          \/ /\ \E f \in {"unopened", "noise"} \cup (IF config.good THEN {"opened", "own opening"} ELSE {}) :
                  answer' = [NoAnswer EXCEPT !.frame = f]
             /\ Notes(Step("credential", "passed", "credential"), "opening")
  /\ UNCHANGED <<config, childs, late, now, judged>>

\* rpc_result: the frame that carries the id asked for, and no error, is the answer, also if
\* it is a request of the other end's own.
Opens == {"opened", "own opening"}
Lists == {"tools", "own listing"}

OpenSession ==
  /\ at = "opening"
  /\ IF answer.frame \in Opens THEN Notes(Step("handshake", "passed", "session ok"), "list")
     ELSE GivesUp(Step("handshake", "failed", "no session"))
  /\ UNCHANGED <<config, answer, childs, late, now, judged>>

\* `initialized`, whose answer nobody reads, and `tools/list`.
List ==
  /\ at = "list"
  /\ \E outcome \in {"passed", "warned"} : Notes(Step("tools", outcome, "tools"), "judge")
  /\ UNCHANGED <<config, answer, childs, late, now, judged>>

-----------------------------------------------------------------------------
(* An MCP server that is a child process. *)

Prepare ==
  /\ at = "start" /\ config.transport = "child"
  /\ IF config.wellFormed THEN Notes(Step("endpoint", "passed", "endpoint"), "env")
     ELSE GivesUp(Step("endpoint", "failed", "endpoint"))
  /\ UNCHANGED <<config, answer, childs, late, now, judged>>

ResolveEnv ==
  /\ at = "env"
  /\ IF config.resolves THEN Notes(Step("credential", "passed", "credential"), "spawn")
     ELSE GivesUp(Step("credential", "failed", "cannot resolve"))
  /\ UNCHANGED <<config, answer, childs, late, now, judged>>

\* One that ends before it is asked is as one that does not start.
Spawn ==
  /\ at = "spawn"
  /\ \/ child' = "running" /\ at' = "handshake" /\ UNCHANGED report
     \/ GivesUp(Step("handshake", "failed", "no session")) /\ UNCHANGED child
  /\ UNCHANGED <<config, answer, wrote, heard, late, now, judged>>

Wrote(f) == \E i \in DOMAIN wrote : wrote[i] = f

\* The child: it answers what it was asked when it likes, and writes what it likes before.
Owed == {f \in Openings : ~\E g \in Openings : Wrote(g)}
          \cup {f \in Listings : at = "tools" /\ ~\E g \in Listings : Wrote(g)}

ChildWrites ==
  /\ child = "running" /\ Len(wrote) < MaxFrames /\ at \in {"handshake", "ask", "tools"}
  /\ \E f \in {"noise", "garbled", "own opening", "own listing"} \cup Owed : wrote' = Append(wrote, f)
  /\ UNCHANGED <<config, at, report, answer, child, heard, late, now, judged>>

ChildEnds ==
  /\ child = "running" /\ child' = "ended"
  /\ UNCHANGED <<config, at, report, answer, wrote, heard, late, now, judged>>

\* Slip for AnsweredInTimeCounts: the first frame is taken for the answer.
SlipAnswersTo(frame, stage) == TRUE

\* rpc_result
AnswersTo(frame, stage) ==
  frame \in IF stage = "handshake" THEN Openings \cup Opens ELSE Listings \cup Lists

Unanswered ==
  Notes(IF at = "handshake" THEN Step("handshake", "failed", "no session")
        ELSE Step("tools", "warned", "tools"), "kill")

Taken(f) ==
  IF at = "handshake"
  THEN IF f \in Opens THEN Notes(Step("handshake", "passed", "session ok"), "ask")
       ELSE Notes(Step("handshake", "failed", "no session"), "kill")
  ELSE Notes(Step("tools", IF f \in Lists THEN "passed" ELSE "warned", "tools"), "kill")

\* exchange: a line that is not text ends it, and it passes over every other that is no answer.
Read ==
  /\ at \in {"handshake", "tools"} /\ heard < Len(wrote)
  /\ heard' = heard + 1
  /\ LET f == wrote[heard + 1] IN
       \/ f = "garbled" /\ Unanswered
       \/ f # "garbled" /\ AnswersTo(f, at) /\ Taken(f)
       \/ f # "garbled" /\ ~AnswersTo(f, at) /\ UNCHANGED <<report, at>>
  /\ UNCHANGED <<config, answer, child, wrote, late, now, judged>>

\* What a child that has ended is asked fails, and nothing more that it wrote is read.
AskForTools ==
  /\ at = "ask"
  /\ IF child = "ended" THEN Unanswered ELSE at' = "tools" /\ UNCHANGED report
  /\ UNCHANGED <<config, answer, childs, late, now, judged>>

\* Otherwise its end is seen after everything it wrote before.
SeesTheEnd ==
  /\ at \in {"handshake", "tools"} /\ child = "ended" /\ heard = Len(wrote)
  /\ Unanswered
  /\ UNCHANGED <<config, answer, childs, late, now, judged>>

\* Slip for EveryProbeEnds: the handshake is waited for without a limit.
SlipTimed == {"tools"}

Timed == {"handshake", "tools"}

TimesOut ==
  /\ at \in Timed
  /\ Unanswered /\ late' = TRUE
  /\ UNCHANGED <<config, answer, childs, now, judged>>

\* Slip for NothingOutlives: an ended handshake leaves the child to itself.
SlipKilled == IF \E i \in LinesOf(report, "tools") : TRUE THEN "ended" ELSE child

\* kill, and kill_on_drop
Killed == IF child = "running" THEN "ended" ELSE child

KillChild ==
  /\ at = "kill"
  /\ child' = Killed
  /\ at' = "judge"
  /\ UNCHANGED <<config, report, answer, wrote, heard, late, now, judged>>

\* The operator leaves, and the task is dropped where it waits.
OperatorLeaves ==
  /\ at \in {"call", "post", "list", "handshake", "ask", "tools"}
  /\ at' = "left" /\ child' = Killed
  /\ UNCHANGED <<config, report, answer, wrote, heard, late, now, judged>>

\* A rule's deadline passes while the service is being asked.
Tick ==
  /\ now = 0 /\ now' = 1
  /\ UNCHANGED <<config, at, report, answer, childs, late, judged>>

-----------------------------------------------------------------------------
VNext ==
  \/ Build \/ Attach \/ Call \/ Classify
  \/ Dial \/ Post \/ OpenSession \/ List
  \/ Prepare \/ ResolveEnv \/ Spawn
  \/ ChildWrites \/ ChildEnds
  \/ Read \/ AskForTools \/ SeesTheEnd \/ TimesOut \/ KillChild
  \/ Judge \/ OperatorLeaves \/ Tick

\* The verification runs on: a request has its timeout, and so has each exchange with a child.
\* That a read of the credential returns is assumed: `op` has no timeout.
Own == Build \/ Attach \/ Call \/ Classify \/ Dial \/ Post \/ OpenSession \/ List \/ Prepare
         \/ ResolveEnv \/ Spawn \/ Read \/ AskForTools \/ SeesTheEnd \/ KillChild \/ Judge

VSpec == VInit /\ [][VNext]_vvars /\ WF_vvars(Own) /\ WF_vvars(TimesOut)

-----------------------------------------------------------------------------
(* Properties. *)

VTypeOK ==
  /\ config \in Configs
  /\ at \in {"start", "attach", "call", "classify", "post", "opening", "list", "env", "spawn",
             "handshake", "ask", "tools", "kill", "judge", "done", "left"}
  /\ \A i \in DOMAIN report : report[i].outcome \in {"passed", "warned", "failed"}
  /\ Len(report) <= 5
  /\ answer.status \in Statuses \cup {"none"} /\ answer.code \in Codes /\ answer.frame \in Frames
  /\ child \in {"none", "running", "ended"}
  /\ wrote \in Seq(Frames) /\ Len(wrote) <= MaxFrames /\ heard \in 0..Len(wrote)
  /\ now \in {0, 1} /\ judged \in {0, 1} /\ late \in BOOLEAN

Told(name) == {report[i].brief : i \in LinesOf(report, name)}
Went(name, outcome) == \E i \in LinesOf(report, name) : report[i].outcome = outcome

\* "A report must never claim more than its probe went and asked" (verify.rs:489): what is
\* said of the credential is so, whichever of the wrong answers the service gave.  "The
\* credential is accepted but not entitled" (verify.rs:549) is so of a service that is not
\* blunt: one that is says the same to a credential it does not accept.
ClaimsAreTrue ==
  at = "done" =>
    /\ "credential ok" \in Told("reach") => config.good
    /\ "session ok" \in Told("handshake") => config.good \/ config.transport = "child"
    /\ "not entitled" \in Told("reach") => IF config.good THEN ~config.entitled ELSE config.blunt
    /\ "rejected" \in Told("reach") /\ (config.probe \/ config.signed) => ~config.good
    /\ config.transport = "upstream" /\ config.probe /\ Worst(report) = "passed" => config.good

\* Whatever step a verification gives up at, its report ends with what the rules do, once; and
\* the word in the console's column is that of the worst step.
EveryReportJudges ==
  at = "done" => /\ LinesOf(report, "policy") = {Len(report)}
                 /\ Worst(report) # "passed" => \E i \in DOMAIN report :
                      report[i].outcome = Worst(report) /\ report[i].brief = Brief(report)

\* What any agent's call would meet, by the rules the proxy decides with.
Requests(kind, methods, paths) ==
  [agent : Agents, kind : {kind}, target : {config.name}, method : methods, path : paths]
Decided(request) == Evaluate(config.policy, FALSE, request, judged)
Verdicts(kind, methods, paths) == {Decided(request).action : request \in Requests(kind, methods, paths)}

AnyPath == Paths \cup {NoPath}
KindOf(c) == IF c.transport = "upstream" THEN "http" ELSE "mcp"

\* A warning about the rules is borne out by the decisions the proxy would take: nothing gets
\* through to a service "no acl rule" reaches, and no session opens by itself where no rule
\* admits `initialize`.  (What the report is content with may still be denied: README.)
BadNewsIsTrue ==
  at = "done" =>
    /\ Told("policy") = {"no acl rule"} => Verdicts(KindOf(config), Methods, AnyPath) \subseteq {"deny"}
    /\ Told("policy") = {"no initialize rule"} => "allow" \notin Verdicts("mcp", {Initialize}, {NoPath})

\* "Nothing is granted to it yet" (main.rs:3004): an enrolment that says so has walked into no
\* pattern's grant, unless a rule names the service literally (main.rs:2994 says the same of a
\* policy that cannot ask); and where it says nobody can be asked, nobody is.
NothingGrantedIsTrue ==
  at = "done" =>
    LET said  == FirstCall(config.policy, KindOf(config), config.name, judged)
        meets == Verdicts(KindOf(config), Methods, AnyPath)
    IN /\ /\ said \in {"nothing is granted", "nobody is asked"} /\ config.policy.default # "allow"
          /\ "allow" \in meets
          => \E i \in DOMAIN config.policy.rules :
               ~config.policy.rules[i].pattern /\ config.name \in config.policy.rules[i].target
       /\ said = "nobody is asked" => "ask" \notin meets

\* A grant that is told of is one: "its first call goes out with the credential attached and
\* nobody asked" (main.rs:2981) is what every call gets that the rule named was written for, had
\* it no deadline, but for a call that an earlier rule decides.  And where the default is told
\* to let every agent call (main.rs:3002), no call is stopped but by a rule.
Grant == EarliestOf(StandingGrants(config.policy, KindOf(config), config.name, judged))
WrittenFor(i, request) == Matches([config.policy.rules[i] EXCEPT !.expires = Never], request, judged)
GrantsAreTrue ==
  at = "done" =>
    LET said  == FirstCall(config.policy, KindOf(config), config.name, judged)
        calls == Requests(KindOf(config), Methods, AnyPath)
    IN /\ Told("policy") = {"granted by a pattern"} \/ said = "granted already" =>
            \A request \in calls : WrittenFor(Grant, request) =>
              Decided(request).action = "allow" \/ Decided(request).rule \in 1..(Grant - 1)
       /\ said = "the default allows" =>
            \A request \in calls : Decided(request).action = "allow" \/ Decided(request).rule # ByDefault

\* "The child holds a real credential in its environment; it does not outlive the question"
\* (verify.rs:953): not a report, not a timeout, not an operator who left.
NothingOutlives == at \in {"judge", "done", "left"} => child # "running"

\* A child that answered before the time was up is reported as it answered, whatever lines it
\* wrote first and though it ended right after; and what it was not asked or did not answer is
\* not reported as answered.  "Everything ahead of it is noise" (verify.rs:962) holds of lines
\* that are text: one that is not ends the exchange.  And a request of the child's own, under
\* the number asked for, passes for the answer.
InTime(f) == \E i \in DOMAIN wrote : wrote[i] = f /\ \A j \in 1..(i - 1) : wrote[j] # "garbled"
AnsweredInTimeCounts ==
  at = "done" /\ config.transport = "child" =>
    /\ InTime("opened") /\ ~late => Went("handshake", "passed")
    /\ InTime("tools") /\ ~late => Went("tools", "passed")
    /\ Went("handshake", "passed") => \E f \in Opens : Wrote(f)
    /\ Went("tools", "passed") => \E f \in Lists : Wrote(f)

\* Every verification comes to a report, however silent the other end, or the operator left.
EveryProbeEnds == <>(at \in {"done", "left"})

\* Whatever goes wrong on the way, the report is one: it ends with the rules, what it says of
\* the credential and of a child's answers is so, and no child outlives it.
ReportsAreTrue ==
  VTypeOK /\ EveryReportJudges /\ ClaimsAreTrue /\ AnsweredInTimeCounts /\ NothingOutlives

\* What is said of the rules is borne out by what the proxy decides.
WarningsAreTrue == BadNewsIsTrue /\ NothingGrantedIsTrue /\ GrantsAreTrue
=============================================================================
