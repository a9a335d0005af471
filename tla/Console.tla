------------------------------- MODULE Console -------------------------------
(***************************************************************************)
(* The operator's console of src/src/tui/: one thread that takes in what   *)
(* happened elsewhere, draws a frame and answers a burst of keys, and the  *)
(* threads it hands slow work to, each reporting back to its inbox.  What  *)
(* it shows is a copy: the queue as of the last frame, the policy as of    *)
(* the last announcement it took in.                                       *)
(*                                                                         *)
(* A click ends in the handler of a key and is one.  Which pane is in      *)
(* front, the cursor and the footer are left out: a key may reach any row  *)
(* a frame listed.  A reload is one step; Reload.tla has what is inside    *)
(* it, Approval.tla what is inside an answer.                              *)
(*                                                                         *)
(* An operator named Slip... is the definition after it gone wrong: what   *)
(* the property it names would catch.                                      *)
(***************************************************************************)
EXTENDS Integers, FiniteSets, Sequences, SequencesExt

CONSTANTS
  Targets,     \* upstreams and MCP servers
  Asking,      \* the rule that asks
  Others,      \* other rules
  Nothing,
  StartRules,  \* the rules the file may hold at first
  MaxQuestions,\* bound on the requests that stop on a human
  MaxGone,     \* bound on those that leave unanswered
  MaxKeys,     \* bound on the keys that do something
  MaxEdits,    \* bound on the edits made in another terminal
  MaxHung      \* bound on the reads of a secret that never return

\* Numbered as they are asked, so that a set of them has an order: the broker's queue keeps
\* its own by shift_remove.
Questions == 1..MaxQuestions

\* The rule an answer to a question writes.
Grant(q) == [answers |-> q]
Grants == {Grant(q) : q \in Questions}
Rules == {Asking} \cup Others \cup Grants

ASSUME RulesDiffer ==
  /\ Asking \notin Others \cup Grants /\ Others \cap Grants = {}
  /\ StartRules \subseteq Seq(Rules)
ASSUME NothingIsNoTarget == Nothing \notin Targets
ASSUME TargetsAreNoOtherJobs == Targets \cap {"reload", "check"} = {}
ASSUME QuestionsAreCounted == MaxQuestions \in Nat

VARIABLES
  onDisk,    \* the policy file
  inForce,   \* the policy the proxy serves
  live,      \* the broker's queue
  how,       \* what became of each question
  news,      \* policies announced and not yet taken in
  requested, \* the reloader's queue
  finished,  \* a reload done and not reported yet
  inbox,     \* jobs that reported back
  verifying, \* verifications on the runtime
  rereading, \* a check of the credential references is on the runtime
  hung,      \* the jobs held up for good by a read of a secret
  stage,     \* where the console's loop is
  panes,     \* the policy shown
  pending,   \* the queue as of the last frame
  dismissed, \* questions left waiting
  modal,     \* what is in front
  verified,  \* the column of each service
  checking,  \* a credential check is out
  awaited,   \* reloads asked for and not heard back about
  keys,      \* how many were pressed
  under,     \* history: the rules each question was asked under
  edits      \* how many edits were made elsewhere

proxy == <<onDisk, inForce, news, edits>>
broker == <<live, how, under>>
runtime == <<requested, finished, inbox, verifying, rereading, hung>>
screen == <<panes, pending, dismissed, modal, verified>>
consoleVars == <<proxy, broker, runtime, screen, stage, checking, awaited, keys>>

\* `edition` counts the writes, and stands for the file's time and content; `loads`: a
\* reload takes it.
Policies == [rules : Seq(Rules), services : SUBSET Targets, loads : BOOLEAN, edition : Nat]

\* Said: does it follow a write, a service to verify, and (history) the edition written.
Saying == [wrote : BOOLEAN, verify : Targets \cup {Nothing}, edition : Nat]

Clear == [kind |-> "none"]
Token == [kind |-> "token"]
Preview == [kind |-> "plain"]
Dialogue(q) == [kind |-> "approve", view |-> q]
Form == [kind |-> "form"]
Confirm(intent) == [kind |-> "confirm", intent |-> intent]

Intents == ({"remove rule"} \X (Nat \ {0})) \cup ({"remove service"} \X Targets) \cup {<<"rotate">>, <<"reset">>}

ConsoleInit ==
  /\ onDisk \in [rules : StartRules, services : {Targets}, loads : {TRUE}, edition : {0}]
  /\ inForce = onDisk /\ panes = onDisk
  /\ live = {} /\ pending = {} /\ dismissed = {}
  /\ how = [q \in Questions |-> "unasked"]
  /\ under = [q \in Questions |-> <<>>]
  /\ news = <<>> /\ requested = <<>> /\ finished = <<>> /\ inbox = <<>>
  /\ verifying = <<>> /\ rereading = FALSE /\ hung = {}
  /\ stage = "adopt" /\ modal = Clear
  /\ verified = [s \in Targets |-> "unknown"]
  /\ checking = FALSE /\ awaited = 0 /\ keys = 0 /\ edits = 0

-----------------------------------------------------------------------------
(* Rule lists.  Positions are from 1. *)

Places(r, rules) == {i \in DOMAIN rules : rules[i] = r}
Position(r, rules) == IF Places(r, rules) = {} THEN 0 ELSE Min(Places(r, rules))
InFront(r, s, rules) == Position(r, rules) < Position(s, rules)

\* insert_rule: at a position, or at the end.
InsertedRule(rules, i, r) ==
  IF i > Len(rules) THEN Append(rules, r) ELSE InsertAt(rules, i, r)

\* A document that was written.
Saved(policy) == [policy EXCEPT !.edition = @ + 1]

-----------------------------------------------------------------------------
(* Elsewhere. *)

\* A request stops at the rule that asks, or at the default, and its question carries
\* that rule's place in the policy in force.
Ask(q) ==
  /\ how[q] = "unasked" /\ \A p \in 1..(q - 1) : how[p] # "unasked"
  /\ how' = [how EXCEPT ![q] = "waiting"]
  /\ live' = live \cup {q}
  /\ under' = [under EXCEPT ![q] = inForce.rules]
  /\ UNCHANGED <<proxy, runtime, screen, stage, checking, awaited, keys>>

\* It times out, its callers hang up, or the control plane answers; "gone" is also what
\* the scope of another answer covered.
Withdraw(q) ==
  /\ how[q] = "waiting" /\ Cardinality({p \in Questions : how[p] = "gone"}) < MaxGone
  /\ how' = [how EXCEPT ![q] = "gone"]
  /\ live' = live \ {q}
  /\ UNCHANGED <<proxy, under, runtime, screen, stage, checking, awaited, keys>>

\* Another terminal: `agent-iap acl`, an editor.
EditElsewhere ==
  /\ edits < MaxEdits /\ edits' = edits + 1
  /\ \/ \E i \in 1..Len(onDisk.rules) : onDisk' = Saved([onDisk EXCEPT !.rules = RemoveAt(@, i)])
     \/ \E r \in Others \ Range(onDisk.rules) : onDisk' = Saved([onDisk EXCEPT !.rules = <<r>> \o @])
     \/ \E s \in onDisk.services : onDisk' = Saved([onDisk EXCEPT !.services = @ \ {s}])
     \/ onDisk' = Saved([onDisk EXCEPT !.loads = ~@])
  /\ UNCHANGED <<inForce, news, broker, runtime, screen, stage, checking, awaited, keys>>

\* AppState::reload of a file that loads installs it and announces it.
Installs ==
  /\ inForce' = onDisk
  /\ news' = Append(news, onDisk)

\* The daemon's watcher.
WatcherReloads ==
  /\ onDisk.loads /\ inForce # onDisk
  /\ Installs
  /\ UNCHANGED <<onDisk, edits, broker, runtime, screen, stage, checking, awaited, keys>>

\* The jobs that read secrets: the reloader's one, the check, a verification by its service.
Reads(job) ==
  \/ job = "reload" /\ requested # <<>> /\ finished = <<>>
  \/ job = "check" /\ rereading
  \/ \E i \in DOMAIN verifying : verifying[i].name = job

\* `op` waits for its dialogue, and nothing here waits for a time only: one that nobody
\* answers holds up its job for good.  One that is answered late has taken its time.
ReadHangs ==
  /\ Cardinality(hung) < MaxHung
  /\ \E job \in ({"reload", "check"} \cup Targets) \ hung : Reads(job) /\ hung' = hung \cup {job}
  /\ UNCHANGED <<proxy, broker, requested, finished, inbox, verifying, rereading, screen, stage, checking,
                 awaited, keys>>

\* The reloader: one at a time, in the order asked for.
Reload ==
  /\ finished = <<>> /\ requested # <<>> /\ "reload" \notin hung
  /\ requested' = Tail(requested)
  /\ finished' = <<[kind |-> "reloaded", ok |-> onDisk.loads, said |-> Head(requested)]>>
  /\ IF onDisk.loads THEN Installs ELSE UNCHANGED <<inForce, news>>
  /\ UNCHANGED <<onDisk, edits, broker, inbox, verifying, rereading, hung, screen, stage, checking, awaited, keys>>

ReportReload ==
  /\ finished # <<>>
  /\ inbox' = Append(inbox, Head(finished))
  /\ finished' = <<>>
  /\ UNCHANGED <<proxy, broker, requested, verifying, rereading, hung, screen, stage, checking, awaited, keys>>

\* verify::target: a service the policy does not name gets no report.
VerificationEnds ==
  /\ \E i \in 1..Len(verifying) :
       /\ verifying[i].name \notin hung
       /\ verifying' = RemoveAt(verifying, i)
       /\ inbox' = Append(inbox, [kind |-> "verified", name |-> verifying[i].name,
                                  ok |-> verifying[i].name \in verifying[i].policy.services])
  /\ UNCHANGED <<proxy, broker, requested, finished, rereading, hung, screen, stage, checking, awaited, keys>>

CheckEnds ==
  /\ rereading /\ "check" \notin hung
  /\ rereading' = FALSE
  /\ inbox' = Append(inbox, [kind |-> "checked"])
  /\ UNCHANGED <<proxy, broker, requested, finished, verifying, hung, screen, stage, checking, awaited, keys>>

-----------------------------------------------------------------------------
(* The loop: take in the announcements, then what landed, then draw. *)

\* Slip for CatchesUp: a policy that is the console's own doing is not shown.
SlipShow == IF awaited > 0 THEN panes ELSE Last(news)
\* adopt: each is shown, whoever caused it, and so the last one stays.
Show == Last(news)

Adopt ==
  /\ stage = "adopt" /\ stage' = "land"
  /\ panes' = IF news = <<>> THEN panes ELSE Show
  /\ news' = <<>>
  /\ UNCHANGED <<onDisk, inForce, edits, broker, runtime, pending, dismissed, modal, verified,
                 checking, awaited, keys>>

\* Slip for ConsoleTypeOK: the reload is asked for and not counted.
SlipAskReload(said) == requested' = Append(requested, said) /\ UNCHANGED awaited
\* `reload`: ask and carry on.
AskReload(said) ==
  /\ requested' = Append(requested, said)
  /\ awaited' = awaited + 1

\* Slip for OneCallPerService: a second press starts a second one.
SlipMayVerify(s) == TRUE
MayVerify(s) == verified[s] # "running"

\* `verify`: against the policy shown.
Verify(s) ==
  IF MayVerify(s)
  THEN /\ verified' = [verified EXCEPT ![s] = "running"]
       /\ verifying' = Append(verifying, [name |-> s, policy |-> panes])
  ELSE UNCHANGED <<verified, verifying>>

\* Slip for WritesAreVerified: whatever became of the reload.
SlipReloaded(job) ==
  /\ awaited' = awaited - 1
  /\ IF job.said.verify # Nothing THEN Verify(job.said.verify) ELSE UNCHANGED <<verified, verifying>>
  /\ UNCHANGED <<modal, checking>>
\* `reloaded`: one that was refused has nothing new to call.
Reloaded(job) ==
  /\ awaited' = awaited - 1
  /\ IF job.ok /\ job.said.verify # Nothing
     THEN Verify(job.said.verify) ELSE UNCHANGED <<verified, verifying>>
  /\ UNCHANGED <<modal, checking>>

\* Slip for TheScreenIsTheOperators: the report comes up over what is there.
SlipReport(job) == IF job.ok THEN Preview ELSE modal
\* verification_landed: the report is put in front only of nothing.
Report(job) == IF job.ok /\ modal = Clear THEN Preview ELSE modal

VerificationLanded(job) ==
  /\ modal' = Report(job)
  /\ verified' = [verified EXCEPT ![job.name] = IF job.ok THEN "report" ELSE "no report"]
  /\ UNCHANGED <<verifying, checking, awaited>>

CheckLanded ==
  /\ checking' = FALSE
  /\ UNCHANGED <<modal, verified, verifying, awaited>>

\* Its jobs one by one, in the order they reported.
Land ==
  /\ stage = "land" /\ inbox # <<>>
  /\ inbox' = Tail(inbox)
  /\ LET job == Head(inbox) IN
       \/ job.kind = "reloaded" /\ Reloaded(job)
       \/ job.kind = "verified" /\ VerificationLanded(job)
       \/ job.kind = "checked" /\ CheckLanded
  /\ UNCHANGED <<proxy, broker, requested, finished, rereading, hung, stage, panes, pending, dismissed, keys>>

\* raise_dialogue: the oldest question nobody looked at, over nothing else.
Raised ==
  LET fresh == live \ dismissed
  IN IF modal = Clear /\ fresh # {} THEN Dialogue(Min(fresh)) ELSE modal

\* The frame: list the queue, forget what left it, raise the dialogue, draw.
Frame ==
  /\ stage = "land" /\ inbox = <<>> /\ stage' = "keys"
  /\ pending' = live
  /\ dismissed' = dismissed \cap live
  /\ modal' = Raised
  /\ UNCHANGED <<proxy, broker, runtime, panes, verified, checking, awaited, keys>>

\* No key, or no more of a burst.
NextPass ==
  /\ stage = "keys" /\ stage' = "adopt"
  /\ UNCHANGED <<proxy, broker, runtime, screen, checking, awaited, keys>>

-----------------------------------------------------------------------------
(* Answers. *)

\* decide_scoped: the question if it is still there, and what the scope covers.
Decide(q, what, covered) ==
  LET settled == ({q} \cup covered) \cap live IN
  /\ live' = live \ settled
  /\ how' = [p \in Questions |->
               IF p \notin settled THEN how[p] ELSE IF p = q THEN what ELSE "gone"]
  /\ UNCHANGED under

Key ==
  /\ stage = "keys"
  /\ keys < MaxKeys /\ keys' = keys + 1
  /\ UNCHANGED <<inForce, news, edits, finished, inbox, hung, stage, panes, pending>>

\* Slip for OnlyWhatWasShown: the queue is listed again for the key.
SlipListed == live
\* The rows a key may reach are the frame's.
Listed == pending

\* `quick`: once, whatever is selected.
Quick ==
  /\ Key /\ modal = Clear
  /\ \E q \in Listed : Decide(q, "once", {})
  /\ UNCHANGED <<onDisk, requested, verifying, rereading, dismissed, modal, verified, checking, awaited>>

OpenDialogue ==
  /\ Key /\ modal = Clear
  /\ \E q \in Listed :
       /\ dismissed' = dismissed \ {q}
       /\ modal' = Dialogue(q)
  /\ UNCHANGED <<onDisk, broker, requested, verifying, rereading, verified, checking, awaited>>

Dismiss ==
  /\ Key /\ modal.kind = "approve"
  /\ dismissed' = dismissed \cup {modal.view}
  /\ modal' = Clear
  /\ UNCHANGED <<onDisk, broker, requested, verifying, rereading, verified, checking, awaited>>

\* Once, or until quit for all its scope covers.
AnswerUnwritten ==
  /\ Key /\ modal.kind = "approve"
  /\ modal' = Clear
  /\ \E covered \in SUBSET live : Decide(modal.view, "once", covered)
  /\ UNCHANGED <<onDisk, requested, verifying, rereading, dismissed, verified, checking, awaited>>

\* Slip for GrantsGoInFront: after everything.
SlipLanding(q) == Len(onDisk.rules) + 1
\* write_rule: where the rule that asked stood when it asked, or at the end.
Landing(q) ==
  IF Asking \in Range(under[q]) THEN Position(Asking, under[q]) ELSE Len(onDisk.rules) + 1

\* Slip for AnswersAreWritten: the question is answered before the file is.
SlipAnswered(q, failed) == Decide(q, "rule", {})
\* A question whose rule was not written is not answered.
Answered(q, failed) == IF failed THEN UNCHANGED broker ELSE Decide(q, "rule", {})

\* For a while, or from now on: a rule is written, the question answered, a reload asked for.
AnswerWritten ==
  /\ Key /\ modal.kind = "approve"
  /\ modal' = Clear
  /\ LET q == modal.view IN
     \E failed \in BOOLEAN :
       /\ Answered(q, failed)
       /\ \/ /\ failed
             /\ dismissed' = dismissed \cup {q}
             /\ UNCHANGED <<onDisk, requested, awaited>>
          \/ /\ ~failed
             /\ onDisk' = Saved([onDisk EXCEPT !.rules = InsertedRule(@, Landing(q), Grant(q))])
             /\ AskReload([wrote |-> TRUE, verify |-> Nothing, edition |-> onDisk'.edition])
             /\ UNCHANGED dismissed
  /\ UNCHANGED <<verifying, rereading, verified, checking>>

-----------------------------------------------------------------------------
(* Other keys. *)

OpenForm ==
  /\ Key /\ modal = Clear
  /\ \/ modal' = Form
     \/ \E i \in 1..Len(panes.rules) : modal' = Confirm(<<"remove rule", i>>)
     \/ \E s \in panes.services : modal' = Confirm(<<"remove service", s>>)
     \/ modal' = Confirm(<<"rotate">>)
     \/ modal' = Confirm(<<"reset">>)
  /\ UNCHANGED <<onDisk, broker, requested, verifying, rereading, dismissed, verified, checking, awaited>>

\* `v` on a service's row.
PressVerify ==
  /\ Key /\ modal = Clear
  /\ \E s \in panes.services : Verify(s)
  /\ UNCHANGED <<onDisk, broker, requested, rereading, dismissed, modal, checking, awaited>>

\* check_credentials: one at a time.
PressCheck ==
  /\ Key /\ modal = Clear /\ ~checking
  /\ checking' = TRUE /\ rereading' = TRUE
  /\ UNCHANGED <<onDisk, broker, requested, verifying, dismissed, modal, verified, awaited>>

PressReload ==
  /\ Key /\ modal = Clear
  /\ AskReload([wrote |-> FALSE, verify |-> Nothing, edition |-> 0])
  /\ UNCHANGED <<onDisk, broker, verifying, rereading, dismissed, modal, verified, checking>>

\* What submitting the form of an agent, a rule or a service writes.  A service may come
\* with a credential the proxy cannot read.
AgentForms == {onDisk}
RuleForms == {[onDisk EXCEPT !.rules = InsertedRule(@, i, r)] :
                i \in 1..(Len(onDisk.rules) + 1), r \in Others \ Range(onDisk.rules)}
ServiceForms(s) == {[onDisk EXCEPT !.services = @ \cup {s}, !.loads = @ /\ ok] : ok \in BOOLEAN}

\* A form whose write fails stays up with its error.
Submit(saves, verify) ==
  /\ Key /\ modal = Form
  /\ \E f \in saves : onDisk' = Saved(f)
  /\ AskReload([wrote |-> TRUE, verify |-> verify, edition |-> onDisk'.edition])
  /\ UNCHANGED <<broker, verifying, rereading, dismissed, verified, checking>>

SubmitAgent == Submit(AgentForms, Nothing) /\ modal' = Token
SubmitRule == Submit(RuleForms, Nothing) /\ modal' = Clear
SubmitService ==
  /\ \E s \in Targets : \E verify \in {s, Nothing} : Submit(ServiceForms(s), verify)
  /\ modal' = Clear

\* A dry run writes nothing, and a reload is asked for all the same.
SubmitDryRun ==
  /\ Key /\ modal = Form
  /\ AskReload([wrote |-> TRUE, verify |-> Nothing, edition |-> onDisk.edition])
  /\ modal' = Preview
  /\ UNCHANGED <<onDisk, broker, verifying, rereading, dismissed, verified, checking>>

\* `destroy`: what it writes, or nothing if the file has no such entry any more.
Destroyed(intent) ==
  CASE intent[1] = "remove rule" ->
         IF intent[2] <= Len(onDisk.rules) THEN {[onDisk EXCEPT !.rules = RemoveAt(@, intent[2])]} ELSE {}
    [] intent[1] = "remove service" ->
         IF intent[2] \in onDisk.services THEN {[onDisk EXCEPT !.services = @ \ {intent[2]}]} ELSE {}
    [] intent[1] = "rotate" -> {onDisk}
    [] intent[1] = "reset"  -> {[onDisk EXCEPT !.rules = <<>>]}

Say(yes) ==
  /\ Key /\ modal.kind = "confirm"
  /\ modal' = IF yes /\ modal.intent[1] = "rotate" THEN Token ELSE Clear
  /\ LET new == IF yes THEN Destroyed(modal.intent) ELSE {} IN
       \/ /\ new = {}
          /\ UNCHANGED <<onDisk, requested, awaited>>
       \/ \E f \in new :
            /\ onDisk' = Saved(f)
            /\ AskReload([wrote |-> TRUE, verify |-> Nothing, edition |-> onDisk'.edition])
  /\ UNCHANGED <<broker, verifying, rereading, dismissed, verified, checking>>

\* esc, enter or q on a token, any key on a preview, esc on a form.
Close ==
  /\ Key /\ modal.kind \in {"token", "plain", "form"}
  /\ modal' = Clear
  /\ UNCHANGED <<onDisk, broker, requested, verifying, rereading, dismissed, verified, checking, awaited>>

-----------------------------------------------------------------------------
Pass == Adopt \/ Land \/ Frame \/ NextPass
Answer == Quick \/ OpenDialogue \/ Dismiss \/ AnswerUnwritten \/ AnswerWritten
Press == OpenForm \/ PressVerify \/ PressCheck \/ PressReload
           \/ SubmitAgent \/ SubmitRule \/ SubmitService \/ SubmitDryRun \/ (\E yes \in BOOLEAN : Say(yes)) \/ Close
Elsewhere == (\E q \in Questions : Ask(q) \/ Withdraw(q)) \/ EditElsewhere \/ WatcherReloads \/ ReadHangs
Runtime == Reload \/ ReportReload \/ VerificationEnds \/ CheckEnds

ConsoleNext == Pass \/ Answer \/ Press \/ Elsewhere \/ Runtime

\* The loop goes round whether or not a key comes, and what it hands off comes back, unless
\* a read of a secret hangs: the exchanges of a verification have a timeout, `op` has none.
Fairness == WF_consoleVars(Pass) /\ WF_consoleVars(Runtime)

ConsoleSpec == ConsoleInit /\ [][ConsoleNext]_consoleVars /\ Fairness

-----------------------------------------------------------------------------
Dialogues == {Dialogue(q) : q \in Questions}
Reloads == [kind : {"reloaded"}, ok : BOOLEAN, said : Saying]
Reports == [kind : {"verified"}, name : Targets, ok : BOOLEAN]
Checks == [kind : {"checked"}]

\* The reports of reloads and of checks in the inbox.
ReloadsIn == {i \in DOMAIN inbox : inbox[i].kind = "reloaded"}
ChecksIn == {i \in DOMAIN inbox : inbox[i].kind = "checked"}

ConsoleTypeOK ==
  /\ onDisk \in Policies /\ inForce \in Policies /\ panes \in Policies /\ news \in Seq(Policies)
  /\ live \subseteq Questions /\ pending \subseteq Questions /\ dismissed \subseteq Questions
  /\ how \in [Questions -> {"unasked", "waiting", "gone", "once", "rule"}]
  /\ under \in [Questions -> Seq(Rules)]
  /\ requested \in Seq(Saying) /\ finished \in Seq(Reloads) /\ Len(finished) <= 1
  /\ inbox \in Seq(Reloads \cup Reports \cup Checks)
  /\ verifying \in Seq([name : Targets, policy : Policies])
  /\ \/ modal \in {Clear, Token, Preview, Form} \cup Dialogues
     \/ modal.kind = "confirm" /\ modal.intent \in Intents /\ modal = Confirm(modal.intent)
  /\ verified \in [Targets -> {"unknown", "running", "report", "no report"}]
  /\ hung \subseteq {"reload", "check"} \cup Targets
  /\ stage \in {"adopt", "land", "keys"} /\ checking \in BOOLEAN /\ rereading \in BOOLEAN
  /\ awaited = Len(requested) + Len(finished) + Cardinality(ReloadsIn)
  /\ checking = (rereading \/ ChecksIn # {})

\* comment in event_loop: "A burst is answered against the frame it was aimed at".  No
\* answer goes to a question that came up since, however fast the keys and the queue are.
OnlyWhatWasShown ==
  [][\A q \in Questions :
       how[q] = "waiting" /\ how'[q] \in {"once", "rule"} => q \in pending]_consoleVars

\* comment in answer: "The file was not written, so the request must not be answered as
\* though it had been."
AnswersAreWritten ==
  [][\A q \in Questions : how[q] # "rule" /\ how'[q] = "rule" => Grant(q) \in Range(onDisk'.rules)]_consoleVars

\* A rule an answer writes decides before the rule that asked, also if others were put in
\* front of it while the operator thought: as long as none of those it was behind was
\* taken out, nor was there twice (a row answered again in one burst writes its rule again).
GrantsGoInFront ==
  [][\A q \in Questions :
       /\ Grant(q) \notin Range(onDisk.rules) /\ Grant(q) \in Range(onDisk'.rules)
       /\ Asking \in Range(under[q]) \cap Range(onDisk.rules)
       /\ \A i, j \in 1..(Position(Asking, under[q]) - 1) : under[q][i] = under[q][j] => i = j
       /\ \A r \in Range(under[q]) :
            InFront(r, Asking, under[q]) => r \in Range(onDisk.rules) /\ InFront(r, Asking, onDisk.rules)
       => InFront(Grant(q), Asking, onDisk'.rules)]_consoleVars

\* comment on Said: "the verification rides on the reload and starts when the new policy
\* is in force".  What was written is in the panes by then, or is on its way to them.
WritesAreVerified ==
  [][\A s \in Targets :
       stage = "land" /\ verified[s] # "running" /\ verified'[s] = "running" =>
         \E p \in {panes} \cup Range(news) : p.edition >= Head(inbox).said.edition]_consoleVars

\* comments on raise_dialogue and verification_landed: nothing that happens elsewhere
\* takes the keyboard from a form or a token that is shown once.
TheScreenIsTheOperators == [][modal # Clear /\ modal' # modal => stage = "keys"]_consoleVars

\* comment on `verify`: "never twice at once for the same service", and a column that says
\* it is being checked is.
Verifications(s) ==
  ({"under way"} \X {i \in DOMAIN verifying : verifying[i].name = s})
    \cup ({"reported"} \X {i \in DOMAIN inbox : inbox[i].kind = "verified" /\ inbox[i].name = s})
OneCallPerService ==
  \A s \in Targets :
    IF verified[s] = "running" THEN \E v \in Verifications(s) : Verifications(s) = {v}
                               ELSE Verifications(s) = {}

\* The panes end up on the policy in force, whoever put it there and whatever hangs.  Every
\* reload, check and verification asked for is heard back about, but one whose read of a
\* secret hangs and the reloads behind it.
CaughtUp ==
  /\ panes = inForce
  /\ awaited > 0 => "reload" \in hung
  /\ checking => "check" \in hung
  /\ \A s \in Targets : verified[s] = "running" => s \in hung
CatchesUp == []<>CaughtUp

\* An answer is the operator's: to a question that was on the screen, written and put where
\* it decides, by somebody whose dialogue nothing else took away.
AnswersAreTheOperators ==
  OnlyWhatWasShown /\ AnswersAreWritten /\ GrantsGoInFront /\ TheScreenIsTheOperators

\* Each service is verified by one call at a time, and against what was written.
VerifiedOnceAndLate == [](ConsoleTypeOK /\ OneCallPerService) /\ WritesAreVerified
=============================================================================
