------------------------------ MODULE Approval ------------------------------
(***************************************************************************)
(* The approval broker of src/src/approval.rs: the queue an `ask` verdict  *)
(* parks a request in, the standing answers an operator gave for the       *)
(* session, and the calls that answer a question.                          *)
(*                                                                         *)
(* Every lock the code takes is a step of its own, so whatever the code    *)
(* does between two locks may be interleaved with anything else.  Two reads    *)
(* are joined to the step before them because nothing else can tell: the   *)
(* check for an approver, which reads one flag nobody here writes, and the *)
(* drop of a receiver whose deadline passed.                               *)
(*                                                                         *)
(* A member of Asks is one call of `ask`, from its arrival to the drop of  *)
(* its ticket: a retry is another member.  A member of Decisions is one    *)
(* call that answers.  A scope is the set of requests it matches; {} is    *)
(* the `None` of decide_scoped.                                            *)
(*                                                                         *)
(* An operator named Slip... is the definition after it gone wrong in the  *)
(* way its comment says.  Nothing uses it: it is what the property it      *)
(* names would catch.                                                      *)
(***************************************************************************)
EXTENDS Naturals, Sequences, FiniteSets

CONSTANTS
  Asks,         \* the calls of ApprovalBroker::ask
  Requests,     \* what the ACL tells apart: one member per session_key
  Decisions,    \* the calls of decide and decide_scoped
  Scopes        \* the scopes a dialogue can offer

ASSUME ScopesAreRequests ==
  /\ Scopes \subseteq SUBSET Requests
  /\ {} \notin Scopes

Verdict == {"allow", "deny"}
NoVerdict == "none"

VARIABLES
  asked,       \* every question ever raised, by id: the request it is about
  queue,       \* the ids still in the `pending` map
  waiters,     \* for each id, the asks whose sender the entry holds
  remembered,  \* the standing answers, oldest first
  watched,     \* has_approver: a console is attached, or a poll was recent
  pc,          \* where each ask is
  req,         \* the request each ask is about
  ticket,      \* the id each ask is parked under; 0 before it parks
  slot,        \* the one-shot channel of each ask
  outcome,     \* what `ask` returns: [how, verdict]
  dpc,         \* where each decision is
  target,      \* the id it answers
  ruling,      \* the verdict it gives
  scope,       \* the scope it stands by that verdict for; {} for none
  hand         \* the asks whose senders it took out of the queue

boardVars == <<asked, queue, waiters>>
askVars == <<pc, req, ticket, slot, outcome>>
decisionVars == <<dpc, target, ruling, scope, hand>>
vars == <<boardVars, remembered, watched, askVars, decisionVars>>

Ids == 1..Len(asked)

Returned(how, verdict) == [how |-> how, verdict |-> verdict]
Running == Returned("running", NoVerdict)

Init ==
  /\ asked = <<>> /\ queue = {} /\ waiters = <<>>
  /\ remembered = <<>>
  /\ watched \in BOOLEAN
  /\ pc = [a \in Asks |-> "idle"]
  /\ req \in [Asks -> Requests]
  /\ ticket = [a \in Asks |-> 0]
  /\ slot = [a \in Asks |-> NoVerdict]
  /\ outcome = [a \in Asks |-> Running]
  /\ dpc = [d \in Decisions |-> "idle"]
  /\ target = [d \in Decisions |-> 0]
  /\ ruling = [d \in Decisions |-> "deny"]
  /\ scope = [d \in Decisions |-> {}]
  /\ hand = [d \in Decisions |-> {}]

-----------------------------------------------------------------------------
(* Standing answers. *)

\* The positions of the standing answers that cover request r.
Covering(r) == {i \in 1..Len(remembered) : r \in remembered[i].scope}

\* Slip for NewestAnswerStands: the list is searched oldest first.
SlipNewest(S) == CHOOSE i \in S : \A j \in S : i <= j

\* The list is searched from its end.
Newest(S) == CHOOSE i \in S : \A j \in S : j <= i

\* remembered_verdict: the newest standing answer that covers r.
RememberedVerdict(r) ==
  IF Covering(r) = {} THEN NoVerdict
  ELSE remembered[Newest(Covering(r))].verdict

-----------------------------------------------------------------------------
(* The call of `ask`. *)

\* Slip for KeepsPromise: an outcome nobody decided lets the call through.
SlipFailClosed == "allow"

\* Outcome::verdict of a call nobody answered.
FailClosed == "deny"

\* A standing answer short-circuits the call, and so does nobody watching:
\* denied at once rather than parked for the full timeout.
Arrive(a) ==
  /\ pc[a] = "idle"
  /\ LET standing == RememberedVerdict(req[a])
     IN \/ /\ standing # NoVerdict
           /\ outcome' = [outcome EXCEPT ![a] = Returned("remembered", standing)]
           /\ pc' = [pc EXCEPT ![a] = "done"]
        \/ /\ standing = NoVerdict /\ ~watched
           /\ outcome' = [outcome EXCEPT ![a] = Returned("no_approver", FailClosed)]
           /\ pc' = [pc EXCEPT ![a] = "done"]
        \/ /\ standing = NoVerdict /\ watched
           /\ pc' = [pc EXCEPT ![a] = "parking"]
           /\ UNCHANGED outcome
  /\ UNCHANGED <<boardVars, remembered, watched, req, ticket, slot, decisionVars>>

\* Slip for OneQuestionPerRequest: a retry is not recognised.
SlipAskedAlready(r) == {}

\* The entries of the queue that ask about r already.
AskedAlready(r) == {i \in queue : asked[i] = r}

\* park, when this very question is up already: wait with the others.
JoinQuestion(a) ==
  /\ pc[a] = "parking"
  /\ \E i \in AskedAlready(req[a]) :
       /\ waiters' = [waiters EXCEPT ![i] = @ \cup {a}]
       /\ ticket' = [ticket EXCEPT ![a] = i]
  /\ pc' = [pc EXCEPT ![a] = "parked"]
  /\ UNCHANGED <<asked, queue, remembered, watched, req, slot, outcome, decisionVars>>

\* A fresh id. Ids grow with age, so the smallest in the queue is the oldest.
NextId == Len(asked) + 1

\* park, when it is not: a new entry at the end of the queue.
RaiseQuestion(a) ==
  /\ pc[a] = "parking"
  /\ AskedAlready(req[a]) = {}
  /\ asked' = Append(asked, req[a])
  /\ waiters' = [i \in 1..NextId |-> IF i = NextId THEN {a} ELSE waiters[i]]
  /\ queue' = queue \cup {NextId}
  /\ ticket' = [ticket EXCEPT ![a] = NextId]
  /\ pc' = [pc EXCEPT ![a] = "parked"]
  /\ UNCHANGED <<remembered, watched, req, slot, outcome, decisionVars>>

\* The channel holds a verdict: `ask` returns it.
Receive(a) ==
  /\ pc[a] = "parked"
  /\ slot[a] # NoVerdict
  /\ outcome' = [outcome EXCEPT ![a] = Returned("decided", slot[a])]
  /\ pc' = [pc EXCEPT ![a] = "leaving"]
  /\ UNCHANGED <<boardVars, remembered, watched, req, ticket, slot, decisionVars>>

\* Slip for EveryAskReturns: a deadline is noticed only while someone watches.
SlipUnanswered(a) == slot[a] = NoVerdict /\ watched

Unanswered(a) == slot[a] = NoVerdict

\* The deadline passes on an empty channel.
TimeOut(a) ==
  /\ pc[a] = "parked"
  /\ Unanswered(a)
  /\ outcome' = [outcome EXCEPT ![a] = Returned("timed_out", FailClosed)]
  /\ pc' = [pc EXCEPT ![a] = "leaving"]
  /\ UNCHANGED <<boardVars, remembered, watched, req, ticket, slot, decisionVars>>

\* The agent hangs up: the future is dropped at its await point.
Cancel(a) ==
  /\ pc[a] = "parked"
  /\ outcome' = [outcome EXCEPT ![a] = Returned("cancelled", NoVerdict)]
  /\ pc' = [pc EXCEPT ![a] = "leaving"]
  /\ UNCHANGED <<boardVars, remembered, watched, req, ticket, slot, decisionVars>>

\* Slip for NobodyLost: the row goes with the first caller to go.
SlipRowGone(i, W) == TRUE

\* A row with nobody left waiting leaves the queue.
RowEnds(i, W) == W = {}

\* Ticket::drop: this ask leaves its question, and the last one takes it along.
DropTicket(a) ==
  /\ pc[a] = "leaving"
  /\ pc' = [pc EXCEPT ![a] = "done"]
  /\ LET i == ticket[a]  W == waiters[i] \ {a}
     IN IF i \in queue
          THEN /\ waiters' = [waiters EXCEPT ![i] = W]
               /\ queue' = IF RowEnds(i, W) THEN queue \ {i} ELSE queue
          ELSE UNCHANGED <<waiters, queue>>
  /\ UNCHANGED <<asked, remembered, watched, req, ticket, slot, outcome, decisionVars>>

-----------------------------------------------------------------------------
(* The calls that answer.  The operator's view of the queue may be stale,  *)
(* so the id answered is any that was ever raised.                         *)

\* decide_scoped: the scope, when there is one, was built from the request.
Answer(d, i, v, s) ==
  /\ dpc[d] = "idle"
  /\ s # {} => asked[i] \in s
  /\ dpc' = [dpc EXCEPT ![d] = "taking"]
  /\ target' = [target EXCEPT ![d] = i]
  /\ ruling' = [ruling EXCEPT ![d] = v]
  /\ scope' = [scope EXCEPT ![d] = s]
  /\ UNCHANGED <<boardVars, remembered, watched, askVars, hand>>

\* decide with `remember` set, before it has looked the question up.
AnswerAndRemember(d, i, v) ==
  /\ dpc[d] = "idle"
  /\ dpc' = [dpc EXCEPT ![d] = "looking"]
  /\ target' = [target EXCEPT ![d] = i]
  /\ ruling' = [ruling EXCEPT ![d] = v]
  /\ UNCHANGED <<boardVars, remembered, watched, askVars, scope, hand>>

\* decide: the exact scope of the question, or `false` when it is gone.
LookUp(d) ==
  /\ dpc[d] = "looking"
  /\ \/ /\ target[d] \in queue
        /\ scope' = [scope EXCEPT ![d] = {asked[target[d]]}]
        /\ dpc' = [dpc EXCEPT ![d] = "taking"]
     \/ /\ target[d] \notin queue
        /\ dpc' = [dpc EXCEPT ![d] = "delivering"]
        /\ UNCHANGED scope
  /\ UNCHANGED <<boardVars, remembered, watched, askVars, target, ruling, hand>>

\* Slip for OneAnswerPerQuestion: the row answered is read, not removed.
SlipAfterTaking(S) == queue

\* What is left in the queue once the questions S are taken out of it.
AfterTaking(S) == queue \ S

\* The decision takes the questions S out of the queue, waiters and all.
TakeOut(d, S) ==
  /\ queue' = AfterTaking(S)
  /\ hand' = [hand EXCEPT ![d] = @ \cup UNION {waiters[i] : i \in S}]
  /\ waiters' = [i \in Ids |-> IF i \in AfterTaking(S) THEN waiters[i] ELSE {}]

\* decide_scoped takes out the question it names, if it is still there.
Take(d) ==
  /\ dpc[d] = "taking"
  /\ TakeOut(d, queue \cap {target[d]})
  /\ dpc' = [dpc EXCEPT ![d] = IF scope[d] = {} THEN "delivering" ELSE "standing"]
  /\ UNCHANGED <<asked, remembered, watched, askVars, target, ruling, scope>>

\* remember: the standing answer is recorded.
Stand(d) ==
  /\ dpc[d] = "standing"
  /\ remembered' = Append(remembered, [scope |-> scope[d], verdict |-> ruling[d]])
  /\ dpc' = [dpc EXCEPT ![d] = "covering"]
  /\ UNCHANGED <<boardVars, watched, askVars, target, ruling, scope, hand>>

\* Slip for AnswersFitTheirWaiters: a standing answer empties the queue.
SlipSettledBy(d) == queue

\* The questions in the queue that the scope of d covers.
SettledBy(d) == {i \in queue : asked[i] \in scope[d]}

\* take_covered: every other question the standing answer settles.
TakeCovered(d) ==
  /\ dpc[d] = "covering"
  /\ TakeOut(d, SettledBy(d))
  /\ dpc' = [dpc EXCEPT ![d] = "delivering"]
  /\ UNCHANGED <<asked, remembered, watched, askVars, target, ruling, scope>>

\* Slip for NobodyLost: the first send is the last.
SlipStillToTell(d, a) == {}

StillToTell(d, a) == hand[d] \ {a}

\* deliver: one send, which a receiver already dropped does not take.
Deliver(d, a) ==
  /\ dpc[d] = "delivering"
  /\ a \in hand[d]
  /\ hand' = [hand EXCEPT ![d] = StillToTell(d, a)]
  /\ slot' = IF pc[a] = "parked" THEN [slot EXCEPT ![a] = ruling[d]] ELSE slot
  /\ UNCHANGED <<boardVars, remembered, watched, pc, req, ticket, outcome,
                 dpc, target, ruling, scope>>

-----------------------------------------------------------------------------
(* Everything else that moves: who is watching, and the operator's `forget`. *)

\* set_has_approver(true), or note_poll.
ApproverArrives ==
  /\ watched' = TRUE
  /\ UNCHANGED <<boardVars, remembered, askVars, decisionVars>>

\* set_has_approver(false), or the last poll growing older than its 30 seconds,
\* with nothing else watching.
ApproverLeaves ==
  /\ watched' = FALSE
  /\ UNCHANGED <<boardVars, remembered, askVars, decisionVars>>

ForgetAll ==
  /\ remembered' = <<>>
  /\ UNCHANGED <<boardVars, watched, askVars, decisionVars>>

AskStep(a) ==
  Arrive(a) \/ JoinQuestion(a) \/ RaiseQuestion(a) \/ Receive(a) \/ DropTicket(a)

\* What a decider does once it is called; the call itself is the operator's.
DecisionStep(d) ==
  \/ LookUp(d) \/ Take(d) \/ Stand(d) \/ TakeCovered(d)
  \/ (\E a \in Asks : Deliver(d, a))

OperatorCall(d) ==
  \E i \in Ids, v \in Verdict :
    \/ \E s \in Scopes \cup {{}} : Answer(d, i, v, s)
    \/ AnswerAndRemember(d, i, v)

Next ==
  \/ \E a \in Asks : AskStep(a) \/ TimeOut(a) \/ Cancel(a)
  \/ \E d \in Decisions : DecisionStep(d) \/ OperatorCall(d)
  \/ ApproverArrives \/ ApproverLeaves \/ ForgetAll

Spec == Init /\ [][Next]_vars

\* The runtime polls every future it holds and runs a call to its end; it
\* does not answer, hang up or attach a console of its own accord.
Scheduled ==
  /\ \A a \in Asks : WF_vars(AskStep(a))
  /\ \A d \in Decisions : WF_vars(DecisionStep(d))

\* The clock too: a deadline that has passed is noticed.
FairSpec == Spec /\ Scheduled /\ \A a \in Asks : WF_vars(TimeOut(a))

-----------------------------------------------------------------------------
(* What the queue comes to, seen from outside: module ApprovalPromise. *)

\* A decision has taken the sender of this ask, or already sent v to it.
Told(a, v) ==
  \/ slot[a] = v
  \/ \E d \in Decisions : a \in hand[d] /\ ruling[d] = v

StatusOf(a) ==
  IF pc[a] = "idle" THEN "new"
  ELSE IF pc[a] \in {"leaving", "done"}
    THEN IF outcome[a].verdict = "allow" THEN "allowed" ELSE "denied"
  ELSE IF Told(a, "allow") THEN "told_allow"
  ELSE IF Told(a, "deny") THEN "told_deny"
  ELSE "waiting"

Promise == INSTANCE ApprovalPromise WITH
  about <- req,
  status <- [a \in Asks |-> StatusOf(a)],
  standing <- [r \in Requests |-> RememberedVerdict(r)]

-----------------------------------------------------------------------------
(* Properties. *)

BoardOK ==
  /\ asked \in Seq(Requests)
  /\ queue \subseteq Ids
  /\ waiters \in [Ids -> SUBSET Asks]

StandingAnswer == [scope : SUBSET Requests, verdict : Verdict]

RememberedOK == remembered \in Seq(StandingAnswer)

Outcome ==
  [how : {"running", "remembered", "no_approver", "decided", "timed_out", "cancelled"},
   verdict : Verdict \cup {NoVerdict}]

AsksOK ==
  /\ pc \in [Asks -> {"idle", "parking", "parked", "leaving", "done"}]
  /\ req \in [Asks -> Requests]
  /\ ticket \in [Asks -> {0} \cup Ids]
  /\ slot \in [Asks -> Verdict \cup {NoVerdict}]
  /\ outcome \in [Asks -> Outcome]

DecisionsOK ==
  /\ dpc \in [Decisions -> {"idle", "looking", "taking", "standing", "covering",
                            "delivering"}]
  /\ target \in [Decisions -> {0} \cup Ids]
  /\ ruling \in [Decisions -> Verdict]
  /\ scope \in [Decisions -> SUBSET Requests]
  /\ hand \in [Decisions -> SUBSET Asks]

TypeOK == BoardOK /\ RememberedOK /\ watched \in BOOLEAN /\ AsksOK /\ DecisionsOK

Held(a) == \E d \in Decisions : a \in hand[d]

\* The queue holds questions, not requests: two entries never ask the same one,
\* however the parks and the drops of retries interleave.
OneQuestionPerRequest ==
  \A i, j \in queue : asked[i] = asked[j] => i = j

\* A row counts callers that are really there: an entry holds at least one
\* sender, and each belongs to an ask that has not dropped its ticket yet.
NoDeadRows ==
  \A i \in queue :
    /\ waiters[i] # {}
    /\ \A a \in waiters[i] :
         ticket[a] = i /\ pc[a] \in {"parked", "leaving"}

\* No caller is lost: one that waits on an empty channel has its sender in the
\* queue, under the question it asked, or in the hands of a call delivering.
NobodyLost ==
  \A a \in Asks :
    pc[a] = "parked" /\ slot[a] = NoVerdict =>
      \/ ticket[a] \in queue /\ a \in waiters[ticket[a]]
      \/ Held(a)

\* An answer releases only what it was for: a sender in a decider's hands is
\* parked under the question named or asks what the scope covers.
AnswersFitTheirWaiters ==
  \A d \in Decisions : \A a \in hand[d] :
    ticket[a] = target[d] \/ req[a] \in scope[d]

\* One question has one answer: callers parked under the same id are never
\* told different things, whoever answers at the same time.
OneAnswerPerQuestion ==
  \A a, b \in Asks :
    /\ ticket[a] = ticket[b] /\ ticket[a] # 0
    /\ Told(a, "allow")
    => ~Told(b, "deny")

\* Nothing is ever allowed by default (the module's first paragraph, and the
\* "Ask" step of docs/console.md): a call is let through only by a human's yes to
\* it or by a standing yes for its request.
KeepsPromise == Promise!Spec

\* Every call returns: answered, timed out, hung up or never parked.
EveryAskReturns == \A a \in Asks : (pc[a] # "idle") ~> (pc[a] = "done")

\* An operator can take a standing answer back: what the newest one covers, it
\* decides, whatever older ones said.
NewestAnswerStands ==
  [][\A d \in Decisions :
       dpc[d] = "standing" /\ dpc'[d] = "covering" =>
         \A r \in scope[d] : RememberedVerdict(r)' = ruling[d]]_vars
=============================================================================
