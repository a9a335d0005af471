--------------------------- MODULE ApprovalProofs ---------------------------
(* What holds of the approval broker for every set of calls, requests,     *)
(* scopes and decisions.                                                   *)
EXTENDS Approval, Integers, WellFoundedInduction, TLAPS

USE DEF Verdict, NoVerdict

\* Every non-empty set of natural numbers has a smallest member.
LEMMA SmallestMember ==
  ASSUME NEW T, T \subseteq Nat, T # {}
  PROVE  \E m \in T : \A k \in T : m <= k
<1> DEFINE R == {ss \in Nat \X Nat : ss[1] < ss[2]}
<1>1. IsWellFoundedOn(R, Nat)
  BY NatLessThanWellFounded DEF OpToRel
<1>2. PICK m \in T : \A k \in T : ~ (<<k, m>> \in R)
  <2> HIDE DEF R
  <2> QED BY WFMin, <1>1
<1>3. \A k \in Nat, x \in Nat : k < x => <<k, x>> \in R
  OBVIOUS
<1>4. \A k \in T : ~(k < m) /\ k \in Nat /\ m \in Nat
  BY <1>2, <1>3
<1> QED BY <1>4, <1>2

\* A set of positions in a list that is not empty has a greatest member, so
\* `Newest` names one of its members.
LEMMA NewestIsThere ==
  ASSUME NEW n \in Nat, NEW S, S \subseteq 1..n, S # {}
  PROVE  Newest(S) \in S /\ \A j \in S : j <= Newest(S)
<1> DEFINE T == {n - i : i \in S}
<1>1. \A j \in 1..n : j \in Nat /\ n - j \in Nat
  OBVIOUS
<1>2. T \subseteq Nat /\ T # {}
  BY <1>1
<1>3. PICK m \in T : \A k \in T : m <= k
  <2> HIDE DEF T
  <2> QED BY <1>2, SmallestMember
<1>4. PICK i \in S : m = n - i
  BY <1>3
<1>5. \A j \in S : n - i <= n - j
  BY <1>3, <1>4
<1>6. \A j \in S : j <= i
  BY <1>1, <1>5
<1> QED BY <1>6 DEF Newest

\* A standing answer, when there is one, is a verdict.
LEMMA RememberedIsVerdict ==
  ASSUME RememberedOK, NEW r \in Requests
  PROVE  RememberedVerdict(r) \in Verdict \cup {NoVerdict}
<1> DEFINE n == Len(remembered)  S == Covering(r)
<1>1. n \in Nat /\ S \subseteq 1..n
  BY DEF Covering, RememberedOK
<1>2. \A i \in 1..n : remembered[i].verdict \in Verdict
  <2>1. \A i \in 1..n : remembered[i] \in StandingAnswer
    BY DEF RememberedOK
  <2> QED BY <2>1 DEF StandingAnswer
<1>3. CASE S = {}
  BY <1>3 DEF RememberedVerdict
<1>4. CASE S # {}
  <2> HIDE DEF n, S
  <2>1. Newest(S) \in 1..n
    BY <1>1, <1>4, NewestIsThere
  <2>2. remembered[Newest(S)].verdict \in Verdict
    BY <2>1, <1>2
  <2> QED BY <2>2, <1>4 DEF RememberedVerdict, S
<1> QED BY <1>3, <1>4

\* No id is ever taken back.
LEMMA IdsGrow == BoardOK /\ [Next]_vars => Ids \subseteq Ids'
<1> SUFFICES ASSUME BoardOK, [Next]_vars PROVE Ids \subseteq Ids'
  OBVIOUS
<1>1. CASE UNCHANGED asked
  BY <1>1 DEF Ids
<1>2. ASSUME NEW a \in Asks, RaiseQuestion(a) PROVE Ids \subseteq Ids'
  BY <1>2 DEF RaiseQuestion, Ids, BoardOK
<1> QED
  BY <1>1, <1>2
     DEF Next, AskStep, DecisionStep, OperatorCall, Arrive, JoinQuestion, Receive,
         TimeOut, Cancel, DropTicket, LookUp, Take, Stand, TakeCovered, Deliver, Answer,
         AnswerAndRemember, ApproverArrives, ApproverLeaves, ForgetAll, vars, boardVars

\* The queue only ever holds ids that were raised.
LEMMA BoardStep == BoardOK /\ AsksOK /\ [Next]_vars => BoardOK'
<1> SUFFICES ASSUME BoardOK, AsksOK, [Next]_vars PROVE BoardOK'
  OBVIOUS
<1> USE DEF BoardOK, Ids
<1>1. CASE UNCHANGED boardVars
  BY <1>1 DEF boardVars
<1>2. ASSUME NEW a \in Asks, JoinQuestion(a) PROVE BoardOK'
  BY <1>2 DEF JoinQuestion, AskedAlready
<1>3. ASSUME NEW a \in Asks, RaiseQuestion(a) PROVE BoardOK'
  <2> DEFINE n == Len(asked)
  <2>1. asked' \in Seq(Requests) /\ Len(asked') = n + 1 /\ n \in Nat
    BY <1>3 DEF RaiseQuestion, AsksOK
  <2>2. queue' = queue \cup {n + 1} /\ queue \subseteq 1..n
    BY <1>3 DEF RaiseQuestion, NextId
  <2>3. waiters' = [i \in 1..(n + 1) |-> IF i = n + 1 THEN {a} ELSE waiters[i]]
    BY <1>3 DEF RaiseQuestion, NextId
  <2>4. waiters \in [1..n -> SUBSET Asks]
    OBVIOUS
  <2> HIDE DEF n
  <2>5. queue' \subseteq 1..(n + 1) /\ waiters' \in [1..(n + 1) -> SUBSET Asks]
    BY <2>1, <2>2, <2>3, <2>4
  <2> QED BY <2>1, <2>5
<1>4. ASSUME NEW a \in Asks, DropTicket(a) PROVE BoardOK'
  BY <1>4 DEF DropTicket
<1>5. ASSUME NEW d \in Decisions, NEW S \in SUBSET queue, TakeOut(d, S), UNCHANGED asked
      PROVE  BoardOK'
  BY <1>5 DEF TakeOut, AfterTaking
<1>6. ASSUME NEW d \in Decisions, Take(d) \/ TakeCovered(d) PROVE BoardOK'
  BY <1>5, <1>6 DEF Take, TakeCovered, SettledBy
<1> QED
  BY <1>1, <1>2, <1>3, <1>4, <1>6
     DEF Next, AskStep, DecisionStep, OperatorCall, Arrive, Receive, TimeOut, Cancel,
         LookUp, Stand, Deliver, Answer, AnswerAndRemember, ApproverArrives,
         ApproverLeaves, ForgetAll, vars

\* Standing answers are scopes with a verdict.
LEMMA RememberedStep == RememberedOK /\ DecisionsOK /\ [Next]_vars => RememberedOK'
<1> SUFFICES ASSUME RememberedOK, DecisionsOK, [Next]_vars PROVE RememberedOK'
  OBVIOUS
<1> USE DEF RememberedOK
<1>1. CASE UNCHANGED remembered
  BY <1>1
<1>2. ASSUME NEW d \in Decisions, Stand(d) PROVE RememberedOK'
  <2>1. [scope |-> scope[d], verdict |-> ruling[d]] \in StandingAnswer
    BY DEF StandingAnswer, DecisionsOK
  <2> QED BY <1>2, <2>1 DEF Stand
<1>3. CASE ForgetAll
  BY <1>3 DEF ForgetAll
<1> QED
  BY <1>1, <1>2, <1>3
     DEF Next, AskStep, DecisionStep, OperatorCall, Arrive, JoinQuestion, RaiseQuestion,
         Receive, TimeOut, Cancel, DropTicket, LookUp, Take, TakeCovered, Deliver,
         Answer, AnswerAndRemember, ApproverArrives, ApproverLeaves, vars

\* A call is parked under an id that was raised, and hears a verdict or nothing.
LEMMA AsksStep == TypeOK /\ [Next]_vars => AsksOK'
<1> SUFFICES ASSUME TypeOK, [Next]_vars PROVE AsksOK'
  OBVIOUS
<1> USE DEF TypeOK, AsksOK
<1>1. ASSUME NEW a \in Asks, Arrive(a) PROVE AsksOK'
  <2>1. RememberedVerdict(req[a]) \in Verdict \cup {NoVerdict}
    BY RememberedIsVerdict
  <2>2. /\ Returned("remembered", RememberedVerdict(req[a])) \in Outcome
        /\ Returned("no_approver", FailClosed) \in Outcome
    BY <2>1 DEF Returned, Outcome, FailClosed
  <2>3. outcome' \in [Asks -> Outcome]
    BY <1>1, <2>2 DEF Arrive
  <2> QED BY <1>1, <2>3 DEF Arrive, boardVars, Ids
<1>2. ASSUME NEW a \in Asks, JoinQuestion(a) PROVE AsksOK'
  BY <1>2 DEF JoinQuestion, AskedAlready, BoardOK, Ids
<1>3. ASSUME NEW a \in Asks, RaiseQuestion(a) PROVE AsksOK'
  <2>1. NextId \in Ids'
    BY <1>3 DEF RaiseQuestion, NextId, Ids, BoardOK
  <2> QED BY <1>3, <2>1, IdsGrow DEF RaiseQuestion
<1>4. ASSUME NEW a \in Asks, Receive(a) PROVE AsksOK'
  <2>1. Returned("decided", slot[a]) \in Outcome
    BY DEF Returned, Outcome
  <2> QED BY <1>4, <2>1 DEF Receive, boardVars, Ids
<1>5. ASSUME NEW a \in Asks, TimeOut(a) PROVE AsksOK'
  <2>1. Returned("timed_out", FailClosed) \in Outcome
    BY DEF Returned, Outcome, FailClosed
  <2> QED BY <1>5, <2>1 DEF TimeOut, boardVars, Ids
<1>6. ASSUME NEW a \in Asks, Cancel(a) PROVE AsksOK'
  <2>1. Returned("cancelled", NoVerdict) \in Outcome
    BY DEF Returned, Outcome
  <2> QED BY <1>6, <2>1 DEF Cancel, boardVars, Ids
<1>7. ASSUME NEW a \in Asks, DropTicket(a) PROVE AsksOK'
  BY <1>7 DEF DropTicket, Ids
<1>8. ASSUME NEW d \in Decisions, NEW a \in Asks, Deliver(d, a) PROVE AsksOK'
  BY <1>8 DEF Deliver, boardVars, Ids, DecisionsOK
<1>9. CASE UNCHANGED <<asked, askVars>>
  BY <1>9 DEF askVars, Ids
<1> QED
  BY <1>1, <1>2, <1>3, <1>4, <1>5, <1>6, <1>7, <1>8, <1>9
     DEF Next, AskStep, DecisionStep, OperatorCall, LookUp, Take, TakeOut, Stand,
         TakeCovered, Answer, AnswerAndRemember, ApproverArrives, ApproverLeaves,
         ForgetAll, vars, boardVars

\* A decision names an id that was raised, and holds senders of calls.
LEMMA DecisionsStep == TypeOK /\ [Next]_vars => DecisionsOK'
<1> SUFFICES ASSUME TypeOK, [Next]_vars PROVE DecisionsOK'
  OBVIOUS
<1> USE DEF TypeOK, DecisionsOK
<1>1. Ids \subseteq Ids'
  BY IdsGrow
<1>2. CASE UNCHANGED decisionVars
  BY <1>1, <1>2 DEF decisionVars
<1>3. ASSUME NEW d \in Decisions, NEW S \in SUBSET queue, TakeOut(d, S)
      PROVE  hand' \in [Decisions -> SUBSET Asks]
  BY <1>3 DEF TakeOut, BoardOK
<1>4. ASSUME NEW d \in Decisions, Take(d) PROVE DecisionsOK'
  BY <1>1, <1>3, <1>4 DEF Take
<1>5. ASSUME NEW d \in Decisions, TakeCovered(d) PROVE DecisionsOK'
  BY <1>1, <1>3, <1>5 DEF TakeCovered, SettledBy
<1>6. ASSUME NEW d \in Decisions, LookUp(d) PROVE DecisionsOK'
  <2>1. target[d] \in queue => {asked[target[d]]} \in SUBSET Requests
    BY DEF BoardOK, Ids
  <2> QED BY <1>1, <1>6, <2>1 DEF LookUp
<1>7. ASSUME NEW d \in Decisions, Stand(d) PROVE DecisionsOK'
  BY <1>1, <1>7 DEF Stand
<1>8. ASSUME NEW d \in Decisions, NEW a \in Asks, Deliver(d, a) PROVE DecisionsOK'
  BY <1>1, <1>8 DEF Deliver, StillToTell
<1>9. ASSUME NEW d \in Decisions, OperatorCall(d) PROVE DecisionsOK'
  BY <1>1, <1>9, ScopesAreRequests DEF OperatorCall, Answer, AnswerAndRemember
<1> QED
  BY <1>2, <1>4, <1>5, <1>6, <1>7, <1>8, <1>9
     DEF Next, AskStep, DecisionStep, Arrive, JoinQuestion, RaiseQuestion, Receive,
         TimeOut, Cancel, DropTicket, ApproverArrives, ApproverLeaves, ForgetAll, vars

\* The types of the broker's state, in every reachable state.
THEOREM Typing == Spec => []TypeOK
<1>1. Init => TypeOK
  BY DEF Init, TypeOK, BoardOK, RememberedOK, AsksOK, DecisionsOK, Ids, Running,
         Returned, Outcome
<1>2. TypeOK /\ [Next]_vars => TypeOK'
  <2>1. TypeOK /\ [Next]_vars => (watched \in BOOLEAN)'
    <3> SUFFICES ASSUME TypeOK, [Next]_vars PROVE watched' \in BOOLEAN
      OBVIOUS
    <3>1. ASSUME NEW a \in Asks, AskStep(a) \/ TimeOut(a) \/ Cancel(a) PROVE watched' = watched
      BY <3>1 DEF AskStep, Arrive, JoinQuestion, RaiseQuestion, Receive, TimeOut, Cancel,
                  DropTicket
    <3>2. ASSUME NEW d \in Decisions, DecisionStep(d) \/ OperatorCall(d) PROVE watched' = watched
      BY <3>2 DEF DecisionStep, OperatorCall, LookUp, Take, Stand, TakeCovered, Deliver,
                  Answer, AnswerAndRemember
    <3>3. CASE ApproverArrives \/ ApproverLeaves
      BY <3>3 DEF ApproverArrives, ApproverLeaves
    <3>4. CASE ForgetAll \/ UNCHANGED vars
      BY <3>4 DEF ForgetAll, vars, TypeOK
    <3> QED BY <3>1, <3>2, <3>3, <3>4 DEF Next, TypeOK
  <2> QED
    BY <2>1, BoardStep, RememberedStep, AsksStep, DecisionsStep DEF TypeOK
<1> QED BY <1>1, <1>2, PTL DEF Spec

-----------------------------------------------------------------------------
(* The invariant behind the safety properties: where a sender may be.      *)

\* A sender in an entry belongs to a call parked under it, about its request.
SendersPlaced ==
  \A i \in Ids : \A a \in waiters[i] :
    i \in queue /\ ticket[a] = i /\ req[a] = asked[i] /\ pc[a] \in {"parked", "leaving"}

RowsLive == \A i \in queue : waiters[i] # {}

\* A sender in a decision's hands was parked under an id no longer queued.
HandsOff ==
  \A d \in Decisions : \A a \in hand[d] :
    /\ dpc[d] \in {"standing", "covering", "delivering"}
    /\ ticket[a] \in Ids \ queue
    /\ ticket[a] = target[d] \/ req[a] \in scope[d]

\* Only a call whose question left the queue has heard anything.
HeardOff ==
  \A a \in Asks :
    /\ slot[a] # NoVerdict => ticket[a] \in Ids \ queue
    /\ pc[a] \in {"idle", "parking"} => ticket[a] = 0
    /\ pc[a] = "parked" => ticket[a] \in Ids

Placed == SendersPlaced /\ RowsLive /\ OneQuestionPerRequest /\ HandsOff /\ HeardOff

Inv == Placed /\ NobodyLost /\ OneAnswerPerQuestion

\* Taking questions out of the queue moves their senders, all of them, into the
\* hands of the decision that answers.
LEMMA TakeOutPlaced ==
  ASSUME TypeOK, Placed, NEW d \in Decisions, NEW S \in SUBSET queue, TakeOut(d, S),
         \A i \in S : i = target[d] \/ asked[i] \in scope[d],
         NEW s \in {"standing", "covering", "delivering"},
         dpc' = [dpc EXCEPT ![d] = s],
         UNCHANGED <<asked, askVars, target, ruling, scope>>
  PROVE  Placed'
<1> USE DEF TypeOK, BoardOK, AsksOK, DecisionsOK, Placed, askVars
<1>1. /\ queue' = queue \ S
      /\ \A i \in Ids : waiters'[i] = IF i \in queue \ S THEN waiters[i] ELSE {}
      /\ hand'[d] = hand[d] \cup UNION {waiters[i] : i \in S}
      /\ \A e \in Decisions : e # d => hand'[e] = hand[e]
      /\ Ids' = Ids
  BY DEF TakeOut, AfterTaking, Ids
<1>2. SendersPlaced'
  BY <1>1 DEF SendersPlaced
<1>3. RowsLive'
  BY <1>1 DEF RowsLive
<1>4. OneQuestionPerRequest'
  BY <1>1 DEF OneQuestionPerRequest
<1>5. HandsOff'
  <2> SUFFICES ASSUME NEW e \in Decisions, NEW a \in hand'[e]
               PROVE  /\ dpc'[e] \in {"standing", "covering", "delivering"}
                      /\ ticket[a] \in Ids \ (queue \ S)
                      /\ ticket[a] = target[e] \/ req[a] \in scope[e]
    BY <1>1 DEF HandsOff
  <2>1. CASE a \in hand[e]
    BY <2>1, <1>1 DEF HandsOff
  <2>2. CASE a \notin hand[e]
    <3>1. e = d /\ \E i \in S : a \in waiters[i]
      BY <1>1, <2>2
    <3>2. PICK i \in S : a \in waiters[i]
      BY <3>1
    <3>3. i \in Ids /\ ticket[a] = i /\ req[a] = asked[i]
      BY <3>2 DEF SendersPlaced
    <3> QED BY <3>1, <3>2, <3>3
  <2> QED BY <2>1, <2>2
<1>6. HeardOff'
  BY <1>1 DEF HeardOff
<1> QED BY <1>2, <1>3, <1>4, <1>5, <1>6

\* Every step keeps senders where they belong.
LEMMA PlacedStep == TypeOK /\ Placed /\ [Next]_vars => Placed'
<1> SUFFICES ASSUME TypeOK, Placed, [Next]_vars PROVE Placed'
  OBVIOUS
<1> USE DEF TypeOK, BoardOK, AsksOK, DecisionsOK, Placed, SendersPlaced, RowsLive,
            OneQuestionPerRequest, HandsOff, HeardOff
<1>1. ASSUME NEW a \in Asks, Arrive(a) PROVE Placed'
  <2>1. UNCHANGED <<boardVars, decisionVars, req, ticket, slot>>
    BY <1>1 DEF Arrive
  <2>2. \E p \in {"parking", "done"} : pc' = [pc EXCEPT ![a] = p]
    BY <1>1 DEF Arrive
  <2>3. pc[a] = "idle"
    BY <1>1 DEF Arrive
  <2> QED BY <2>1, <2>2, <2>3 DEF boardVars, decisionVars, Ids
<1>2. ASSUME NEW a \in Asks, JoinQuestion(a) PROVE Placed'
  BY <1>2 DEF JoinQuestion, AskedAlready, decisionVars, Ids
<1>3. ASSUME NEW a \in Asks, RaiseQuestion(a) PROVE Placed'
  <2> DEFINE n == Len(asked)
  <2>1. /\ n \in Nat /\ Ids = 1..n /\ Ids' = 1..(n + 1)
        /\ asked'[n + 1] = req[a] /\ \A i \in 1..n : asked'[i] = asked[i]
    BY <1>3 DEF RaiseQuestion, Ids
  <2>2. /\ pc[a] = "parking" /\ \A i \in queue : asked[i] # req[a]
        /\ queue' = queue \cup {n + 1}
        /\ waiters' = [i \in 1..(n + 1) |-> IF i = n + 1 THEN {a} ELSE waiters[i]]
        /\ ticket' = [ticket EXCEPT ![a] = n + 1]
        /\ pc' = [pc EXCEPT ![a] = "parked"]
        /\ UNCHANGED <<req, slot, decisionVars>>
    BY <1>3 DEF RaiseQuestion, NextId, AskedAlready
  <2>3. queue \subseteq 1..n /\ waiters \in [1..n -> SUBSET Asks] /\ ticket[a] = 0
    BY <2>1, <2>2
  <2>4. a \notin UNION {waiters[i] : i \in 1..n} /\ \A e \in Decisions : a \notin hand[e]
    BY <2>1, <2>2, <2>3
  <2> HIDE DEF n
  <2>5. SendersPlaced'
    BY <2>1, <2>2, <2>3, <2>4
  <2>6. RowsLive' /\ OneQuestionPerRequest'
    <3>1. \A i \in queue : i # n + 1 /\ waiters'[i] = waiters[i] /\ asked'[i] = asked[i]
      BY <2>1, <2>2, <2>3
    <3>2. waiters'[n + 1] = {a}
      BY <2>1, <2>2
    <3>3. RowsLive'
      <4>1. \A i \in queue' : i \in queue \/ i = n + 1
        BY <2>2
      <4>2. \A i \in queue : waiters'[i] # {}
        BY <3>1
      <4> QED BY <3>2, <4>1, <4>2
    <3>4. OneQuestionPerRequest'
      <4>1. \A i \in queue' : i \in queue \/ i = n + 1
        BY <2>2
      <4>2. asked'[n + 1] = req[a]
        BY <2>1
      <4>3. \A i, j \in queue : asked'[i] = asked'[j] => i = j
        BY <3>1
      <4>4. \A i \in queue : asked'[i] # asked'[n + 1]
        BY <2>2, <3>1, <4>2
      <4> QED BY <4>1, <4>3, <4>4
    <3> QED BY <3>3, <3>4
  <2>7. HandsOff'
    BY <2>1, <2>2, <2>3, <2>4 DEF decisionVars
  <2>8. HeardOff'
    BY <2>1, <2>2, <2>3
  <2> QED BY <2>5, <2>6, <2>7, <2>8
<1>4. ASSUME NEW a \in Asks, Receive(a) \/ TimeOut(a) \/ Cancel(a) PROVE Placed'
  <2>1. pc[a] = "parked" /\ pc' = [pc EXCEPT ![a] = "leaving"]
    BY <1>4 DEF Receive, TimeOut, Cancel
  <2>2. UNCHANGED <<boardVars, decisionVars, req, ticket, slot>>
    BY <1>4 DEF Receive, TimeOut, Cancel
  <2> QED BY <2>1, <2>2 DEF boardVars, decisionVars, Ids
<1>5. ASSUME NEW a \in Asks, DropTicket(a) PROVE Placed'
  <2> DEFINE i == ticket[a]
  <2>1. /\ pc[a] = "leaving" /\ pc' = [pc EXCEPT ![a] = "done"]
        /\ UNCHANGED <<asked, req, ticket, slot, decisionVars>> /\ Ids' = Ids
    BY <1>5 DEF DropTicket, Ids
  <2>2. CASE i \notin queue
    <3>1. UNCHANGED <<waiters, queue>>
      BY <1>5, <2>2 DEF DropTicket
    <3> QED BY <2>1, <2>2, <3>1 DEF decisionVars
  <2>3. CASE i \in queue
    <3>1. /\ waiters' = [waiters EXCEPT ![i] = @ \ {a}]
          /\ queue' = IF waiters[i] \ {a} = {} THEN queue \ {i} ELSE queue
      BY <1>5, <2>3 DEF DropTicket, RowEnds
    <3>2. SendersPlaced'
      BY <2>1, <2>3, <3>1
    <3>3. RowsLive' /\ OneQuestionPerRequest'
      BY <2>1, <2>3, <3>1
    <3>4. HandsOff' /\ HeardOff'
      BY <2>1, <2>3, <3>1 DEF decisionVars
    <3> QED BY <3>2, <3>3, <3>4
  <2> QED BY <2>2, <2>3
<1>6. ASSUME NEW d \in Decisions, LookUp(d) PROVE Placed'
  BY <1>6, SMTT(30) DEF LookUp, boardVars, askVars, Ids
<1>7. ASSUME NEW d \in Decisions, Take(d) PROVE Placed'
  <2> DEFINE S == queue \cap {target[d]}
  <2>1. TakeOut(d, S) /\ UNCHANGED <<asked, askVars, target, ruling, scope>>
    BY <1>7 DEF Take
  <2>2. PICK s \in {"standing", "delivering"} : dpc' = [dpc EXCEPT ![d] = s]
    BY <1>7 DEF Take
  <2>3. S \in SUBSET queue /\ \A i \in S : i = target[d] \/ asked[i] \in scope[d]
    OBVIOUS
  <2> HIDE DEF S, Placed, TypeOK
  <2> QED BY <2>1, <2>2, <2>3, TakeOutPlaced
<1>8. ASSUME NEW d \in Decisions, Stand(d) PROVE Placed'
  BY <1>8 DEF Stand, boardVars, askVars, Ids
<1>9. ASSUME NEW d \in Decisions, TakeCovered(d) PROVE Placed'
  <2> DEFINE S == SettledBy(d)
  <2>1. TakeOut(d, S) /\ UNCHANGED <<asked, askVars, target, ruling, scope>>
    BY <1>9 DEF TakeCovered
  <2>2. dpc' = [dpc EXCEPT ![d] = "delivering"]
    BY <1>9 DEF TakeCovered
  <2>3. S \in SUBSET queue /\ \A i \in S : i = target[d] \/ asked[i] \in scope[d]
    BY DEF SettledBy
  <2> HIDE DEF S, Placed, TypeOK
  <2> QED BY <2>1, <2>2, <2>3, TakeOutPlaced
<1>10. ASSUME NEW d \in Decisions, NEW a \in Asks, Deliver(d, a) PROVE Placed'
  BY <1>10 DEF Deliver, StillToTell, boardVars, Ids
<1>11. ASSUME NEW d \in Decisions, OperatorCall(d) PROVE Placed'
  <2>1. dpc[d] = "idle" /\ UNCHANGED <<boardVars, askVars, hand>>
    BY <1>11 DEF OperatorCall, Answer, AnswerAndRemember
  <2>2. \A e \in Decisions \ {d} :
          dpc'[e] = dpc[e] /\ target'[e] = target[e] /\ scope'[e] = scope[e]
    BY <1>11 DEF OperatorCall, Answer, AnswerAndRemember
  <2>3. hand[d] = {}
    BY <2>1
  <2>4. UNCHANGED <<asked, queue, waiters, pc, req, ticket, slot, hand, Ids>>
    BY <2>1 DEF boardVars, askVars, Ids
  <2>5. SendersPlaced' /\ RowsLive' /\ OneQuestionPerRequest' /\ HeardOff'
    BY <2>4
  <2>6. HandsOff'
    BY <2>2, <2>3, <2>4
  <2> QED BY <2>5, <2>6
<1>12. CASE UNCHANGED <<boardVars, askVars, decisionVars>>
  BY <1>12 DEF boardVars, askVars, decisionVars, Ids
<1> QED
  BY <1>1, <1>2, <1>3, <1>4, <1>5, <1>6, <1>7, <1>8, <1>9, <1>10, <1>11, <1>12
     DEF Next, AskStep, DecisionStep, ApproverArrives, ApproverLeaves, ForgetAll, vars

\* Taking questions out loses none of their senders.
LEMMA TakeOutLosesNobody ==
  ASSUME TypeOK, NobodyLost, NEW d \in Decisions, NEW S \in SUBSET queue, TakeOut(d, S),
         UNCHANGED <<asked, askVars>>
  PROVE  NobodyLost'
<1> USE DEF TypeOK, BoardOK, AsksOK, DecisionsOK, askVars
<1>1. /\ queue' = queue \ S
      /\ \A i \in Ids : i \in queue \ S => waiters'[i] = waiters[i]
      /\ hand'[d] = hand[d] \cup UNION {waiters[i] : i \in S}
      /\ \A e \in Decisions : hand[e] \subseteq hand'[e]
  BY DEF TakeOut, AfterTaking, Ids
<1> SUFFICES ASSUME NEW a \in Asks, pc[a] = "parked", slot[a] = NoVerdict
             PROVE  \/ ticket[a] \in queue' /\ a \in waiters'[ticket[a]]
                    \/ \E e \in Decisions : a \in hand'[e]
  BY DEF NobodyLost, Held
<1>2. CASE \E e \in Decisions : a \in hand[e]
  BY <1>2, <1>1
<1>3. CASE ticket[a] \in queue /\ a \in waiters[ticket[a]]
  BY <1>3, <1>1, SMTT(30)
<1> QED BY <1>2, <1>3 DEF NobodyLost, Held

\* Every step leaves a caller's sender in the queue, in a hand, or used.
LEMMA NobodyLostStep == TypeOK /\ Placed /\ NobodyLost /\ [Next]_vars => NobodyLost'
<1> SUFFICES ASSUME TypeOK, Placed, NobodyLost, [Next]_vars PROVE NobodyLost'
  OBVIOUS
<1> USE DEF TypeOK, BoardOK, AsksOK, DecisionsOK
<1>1. ASSUME NEW a \in Asks, Arrive(a) \/ Receive(a) \/ TimeOut(a) \/ Cancel(a)
      PROVE NobodyLost'
  <2>1. UNCHANGED <<boardVars, decisionVars, ticket, slot>>
    BY <1>1 DEF Arrive, Receive, TimeOut, Cancel
  <2>2. \A b \in Asks : pc'[b] = "parked" => pc[b] = "parked"
    BY <1>1 DEF Arrive, Receive, TimeOut, Cancel
  <2> QED BY <2>1, <2>2 DEF boardVars, decisionVars, NobodyLost, Held
<1>2. ASSUME NEW a \in Asks, JoinQuestion(a) PROVE NobodyLost'
  BY <1>2 DEF JoinQuestion, AskedAlready, decisionVars, NobodyLost, Held, Ids
<1>3. ASSUME NEW a \in Asks, RaiseQuestion(a) PROVE NobodyLost'
  <2> DEFINE n == Len(asked)
  <2>1. /\ n \in Nat /\ Ids = 1..n
        /\ queue' = queue \cup {n + 1}
        /\ waiters' = [i \in 1..(n + 1) |-> IF i = n + 1 THEN {a} ELSE waiters[i]]
        /\ ticket' = [ticket EXCEPT ![a] = n + 1]
        /\ pc' = [pc EXCEPT ![a] = "parked"]
        /\ UNCHANGED <<slot, decisionVars>>
    BY <1>3 DEF RaiseQuestion, NextId, Ids
  <2>2. \A b \in Asks \ {a} :
          NobodyLost => \/ pc[b] # "parked" \/ slot[b] # NoVerdict \/ Held(b)
                        \/ ticket[b] \in queue /\ b \in waiters[ticket[b]]
    BY DEF NobodyLost
  <2> HIDE DEF n
  <2>3. waiters'[n + 1] = {a} /\ \A i \in queue : waiters'[i] = waiters[i]
    BY <2>1
  <2> QED BY <2>1, <2>2, <2>3 DEF decisionVars, NobodyLost, Held
<1>4. ASSUME NEW a \in Asks, DropTicket(a) PROVE NobodyLost'
  <2> DEFINE i == ticket[a]
  <2>1. /\ pc' = [pc EXCEPT ![a] = "done"] /\ UNCHANGED <<ticket, slot, decisionVars>>
    BY <1>4 DEF DropTicket
  <2>2. CASE i \notin queue
    BY <1>4, <2>1, <2>2 DEF DropTicket, decisionVars, NobodyLost, Held
  <2>3. CASE i \in queue
    <3>1. /\ waiters' = [waiters EXCEPT ![i] = @ \ {a}]
          /\ queue' = IF waiters[i] \ {a} = {} THEN queue \ {i} ELSE queue
      BY <1>4, <2>3 DEF DropTicket, RowEnds
    <3>2. \A b \in Asks \ {a} :
            ticket[b] \in queue /\ b \in waiters[ticket[b]] =>
              ticket[b] \in queue' /\ b \in waiters'[ticket[b]]
      BY <2>3, <3>1
    <3> QED BY <2>1, <3>2 DEF decisionVars, NobodyLost, Held
  <2> QED BY <2>2, <2>3
<1>5. ASSUME NEW d \in Decisions, Take(d) PROVE NobodyLost'
  <2> DEFINE S == queue \cap {target[d]}
  <2>1. TakeOut(d, S) /\ UNCHANGED <<asked, askVars>> /\ S \in SUBSET queue
    BY <1>5 DEF Take
  <2> HIDE DEF S, TypeOK
  <2> QED BY <2>1, TakeOutLosesNobody
<1>6. ASSUME NEW d \in Decisions, TakeCovered(d) PROVE NobodyLost'
  <2> DEFINE S == SettledBy(d)
  <2>1. TakeOut(d, S) /\ UNCHANGED <<asked, askVars>> /\ S \in SUBSET queue
    BY <1>6 DEF TakeCovered, SettledBy
  <2> HIDE DEF S, TypeOK
  <2> QED BY <2>1, TakeOutLosesNobody
<1>7. ASSUME NEW d \in Decisions, NEW a \in Asks, Deliver(d, a) PROVE NobodyLost'
  <2>1. /\ UNCHANGED <<queue, waiters, ticket, pc>>
        /\ hand' = [hand EXCEPT ![d] = hand[d] \ {a}]
        /\ slot' = IF pc[a] = "parked" THEN [slot EXCEPT ![a] = ruling[d]] ELSE slot
    BY <1>7 DEF Deliver, StillToTell, boardVars
  <2>2. ruling[d] # NoVerdict
    BY DEF Verdict, NoVerdict
  <2> QED BY <2>1, <2>2 DEF NobodyLost, Held
<1>8. ASSUME NEW d \in Decisions, LookUp(d) \/ Stand(d) \/ OperatorCall(d) PROVE NobodyLost'
  <2>1. UNCHANGED <<queue, waiters, pc, ticket, slot, hand>>
    BY <1>8 DEF LookUp, Stand, OperatorCall, Answer, AnswerAndRemember, boardVars, askVars
  <2> QED BY <2>1 DEF NobodyLost, Held
<1>9. CASE UNCHANGED <<boardVars, askVars, decisionVars>>
  BY <1>9 DEF boardVars, askVars, decisionVars, NobodyLost, Held
<1> QED
  BY <1>1, <1>2, <1>3, <1>4, <1>5, <1>6, <1>7, <1>8, <1>9
     DEF Next, AskStep, DecisionStep, ApproverArrives, ApproverLeaves, ForgetAll, vars

\* Who was told anything asked a question that has left the queue.
LEMMA ToldOff ==
  ASSUME TypeOK, Placed, NEW a \in Asks, NEW v \in Verdict, Told(a, v)
  PROVE  ticket[a] \in Ids \ queue
BY DEF TypeOK, AsksOK, Placed, HandsOff, HeardOff, Told, Verdict, NoVerdict

\* Taking questions out tells all their callers the same.
LEMMA TakeOutAnswersOnce ==
  ASSUME TypeOK, Placed, OneAnswerPerQuestion,
         NEW d \in Decisions, NEW S \in SUBSET queue, TakeOut(d, S),
         UNCHANGED <<askVars, ruling>>
  PROVE  OneAnswerPerQuestion'
<1> USE DEF askVars
<1>1. \A b \in Asks, v \in Verdict :
        Told(b, v)' => Told(b, v) \/ (ticket[b] \in S /\ v = ruling[d])
  <2> SUFFICES ASSUME NEW b \in Asks, NEW v \in Verdict, NEW e \in Decisions,
                      b \in hand'[e], ruling[e] = v, b \notin hand[e]
               PROVE  ticket[b] \in S /\ v = ruling[d]
    BY DEF Told
  <2>1. /\ hand' = [hand EXCEPT ![d] = @ \cup UNION {waiters[i] : i \in S}]
        /\ hand \in [Decisions -> SUBSET Asks]
    BY DEF TakeOut, TypeOK, DecisionsOK
  <2>2. e = d
    BY <2>1
  <2>3. PICK i \in S : b \in waiters[i]
    BY <2>1, <2>2
  <2>4. i \in Ids
    BY DEF TypeOK, BoardOK
  <2>5. ticket[b] = i
    BY <2>3, <2>4 DEF Placed, SendersPlaced
  <2> QED BY <2>2, <2>3, <2>5
<1>2. \A b \in Asks, v \in Verdict : Told(b, v) => ticket[b] \notin S
  BY ToldOff
<1>3. "allow" \in Verdict /\ "deny" \in Verdict
  BY DEF Verdict
<1> QED BY <1>1, <1>2, <1>3 DEF OneAnswerPerQuestion

\* No step tells two callers of one question different things.
LEMMA OneAnswerStep ==
  TypeOK /\ Placed /\ OneAnswerPerQuestion /\ [Next]_vars => OneAnswerPerQuestion'
<1> SUFFICES ASSUME TypeOK, Placed, OneAnswerPerQuestion, [Next]_vars
             PROVE  OneAnswerPerQuestion'
  OBVIOUS
<1>a. "allow" \in Verdict /\ "deny" \in Verdict
  BY DEF Verdict
<1>1. ASSUME UNCHANGED ticket, \A b \in Asks, v \in Verdict : Told(b, v)' => Told(b, v)
      PROVE  OneAnswerPerQuestion'
  BY <1>1, <1>a DEF OneAnswerPerQuestion
<1>2. ASSUME NEW a \in Asks,
             Arrive(a) \/ Receive(a) \/ TimeOut(a) \/ Cancel(a) \/ DropTicket(a)
      PROVE  OneAnswerPerQuestion'
  <2>1. UNCHANGED <<ticket, slot, hand, ruling>>
    BY <1>2 DEF Arrive, Receive, TimeOut, Cancel, DropTicket, decisionVars
  <2> QED BY <1>1, <2>1 DEF Told
<1>3. ASSUME NEW a \in Asks, JoinQuestion(a) \/ RaiseQuestion(a) PROVE OneAnswerPerQuestion'
  <2>1. PICK i : ticket' = [ticket EXCEPT ![a] = i] /\ i \notin Ids \ queue
    BY <1>3 DEF JoinQuestion, RaiseQuestion, AskedAlready, NextId, Ids, TypeOK, BoardOK
  <2>2. \A b \in Asks, v \in Verdict : Told(b, v)' => Told(b, v)
    BY <1>3 DEF JoinQuestion, RaiseQuestion, decisionVars, Told
  <2>3. \A b \in Asks, v \in Verdict : Told(b, v) => ticket[b] # i
    BY <2>1, ToldOff
  <2>4. pc[a] = "parking"
    BY <1>3 DEF JoinQuestion, RaiseQuestion
  <2>5. \A v \in Verdict : ~Told(a, v)
    BY <2>4, ToldOff DEF Placed, HeardOff, Ids
  <2>6. \A b \in Asks, v \in Verdict : Told(b, v) => ticket'[b] = ticket[b]
    BY <2>1, <2>5 DEF TypeOK, AsksOK
  <2> QED BY <2>2, <2>6, <1>a DEF OneAnswerPerQuestion
<1>4. ASSUME NEW d \in Decisions, Take(d) PROVE OneAnswerPerQuestion'
  <2>1. TakeOut(d, queue \cap {target[d]}) /\ UNCHANGED <<askVars, ruling>>
    BY <1>4 DEF Take
  <2> QED BY <2>1, TakeOutAnswersOnce
<1>5. ASSUME NEW d \in Decisions, TakeCovered(d) PROVE OneAnswerPerQuestion'
  <2>1. TakeOut(d, SettledBy(d)) /\ UNCHANGED <<askVars, ruling>> /\ SettledBy(d) \in SUBSET queue
    BY <1>5 DEF TakeCovered, SettledBy
  <2> QED BY <2>1, TakeOutAnswersOnce
<1>6. ASSUME NEW d \in Decisions, NEW a \in Asks, Deliver(d, a) PROVE OneAnswerPerQuestion'
  <2>1. /\ a \in hand[d] /\ hand \in [Decisions -> SUBSET Asks]
        /\ hand' = [hand EXCEPT ![d] = hand[d] \ {a}]
        /\ slot \in [Asks -> Verdict \cup {NoVerdict}]
        /\ slot' = IF pc[a] = "parked" THEN [slot EXCEPT ![a] = ruling[d]] ELSE slot
        /\ UNCHANGED <<ticket, ruling>>
    BY <1>6 DEF Deliver, StillToTell, TypeOK, AsksOK, DecisionsOK
  <2> QED BY <1>1, <2>1 DEF Told
<1>7. ASSUME NEW d \in Decisions, LookUp(d) \/ Stand(d) PROVE OneAnswerPerQuestion'
  <2>1. UNCHANGED <<ticket, slot, hand, ruling>>
    BY <1>7 DEF LookUp, Stand, askVars
  <2> QED BY <1>1, <2>1 DEF Told
<1>8. ASSUME NEW d \in Decisions, OperatorCall(d) PROVE OneAnswerPerQuestion'
  <2>1. /\ dpc[d] = "idle" /\ UNCHANGED <<ticket, slot, hand>>
        /\ \A e \in Decisions \ {d} : ruling'[e] = ruling[e]
    BY <1>8 DEF OperatorCall, Answer, AnswerAndRemember, askVars, TypeOK, DecisionsOK
  <2>2. hand[d] = {}
    BY <2>1 DEF TypeOK, DecisionsOK, Placed, HandsOff
  <2> QED BY <1>1, <2>1, <2>2 DEF Told
<1>9. CASE UNCHANGED <<askVars, decisionVars>>
  BY <1>1, <1>9 DEF askVars, decisionVars, Told
<1> QED
  BY <1>2, <1>3, <1>4, <1>5, <1>6, <1>7, <1>8, <1>9
     DEF Next, AskStep, DecisionStep, ApproverArrives, ApproverLeaves, ForgetAll, vars

-----------------------------------------------------------------------------
(* The safety properties, for any number of callers and deciders. *)

\* The inductive invariant behind them: it holds of every reachable state.
THEOREM Invariance == Spec => [](TypeOK /\ Inv)
<1>1. Init => Inv
  BY DEF Init, Inv, Placed, SendersPlaced, RowsLive, OneQuestionPerRequest, HandsOff,
         HeardOff, NobodyLost, OneAnswerPerQuestion, Ids
<1>2. TypeOK /\ Inv /\ [Next]_vars => Inv'
  BY PlacedStep, NobodyLostStep, OneAnswerStep DEF Inv
<1> QED BY Typing, <1>1, <1>2, PTL DEF Spec

\* Retries are shown to the operator as one row, however many interleave: `park`
\* joins an entry under the lock it would add one under.
THEOREM OneQuestion == Spec => []OneQuestionPerRequest
<1>1. Inv => OneQuestionPerRequest
  BY DEF Inv, Placed
<1> QED BY Invariance, <1>1, PTL

\* The queue never shows a question with nobody behind it: Ticket::drop takes
\* the row along with its last caller.
THEOREM RowsAreLive == Spec => []NoDeadRows
<1>1. TypeOK /\ Inv => NoDeadRows
  BY DEF Inv, Placed, SendersPlaced, RowsLive, NoDeadRows, TypeOK, BoardOK
<1> QED BY Invariance, <1>1, PTL

\* A call that waits can still be answered: its sender is in the queue or with a
\* decision that is about to use it.
THEOREM CallersKept == Spec => []NobodyLost
<1>1. Inv => NobodyLost
  BY DEF Inv
<1> QED BY Invariance, <1>1, PTL

\* `decide_scoped` releases only those who asked what was answered.
THEOREM AnswersFit == Spec => []AnswersFitTheirWaiters
<1>1. Inv => AnswersFitTheirWaiters
  BY DEF Inv, Placed, HandsOff, AnswersFitTheirWaiters
<1> QED BY Invariance, <1>1, PTL

\* Racing decisions never tell two callers of one question different things.
THEOREM OneAnswer == Spec => []OneAnswerPerQuestion
<1>1. Inv => OneAnswerPerQuestion
  BY DEF Inv
<1> QED BY Invariance, <1>1, PTL

\* The newest standing answer wins: once recorded, `remembered_verdict` says
\* what it said for everything it covers.
THEOREM NewestStands == Spec => NewestAnswerStands
<1>1. ASSUME TypeOK, [Next]_vars, NEW d \in Decisions,
             dpc[d] = "standing", dpc'[d] = "covering", NEW r \in scope[d]
      PROVE  RememberedVerdict(r)' = ruling[d]
  <2> DEFINE n == Len(remembered)
             s == [scope |-> scope[d], verdict |-> ruling[d]]
  <2>1. dpc \in [Decisions -> {"idle", "looking", "taking", "standing", "covering",
                               "delivering"}]
    BY <1>1 DEF TypeOK, DecisionsOK
  <2>2. Stand(d)
    BY <1>1, <2>1
       DEF Next, AskStep, DecisionStep, OperatorCall, Arrive, JoinQuestion, RaiseQuestion,
           Receive, TimeOut, Cancel, DropTicket, LookUp, Take, Stand, TakeCovered, Deliver,
           Answer, AnswerAndRemember, ApproverArrives, ApproverLeaves, ForgetAll,
           decisionVars, vars
  <2>3. remembered' = Append(remembered, s) /\ remembered \in Seq(StandingAnswer)
    BY <1>1, <2>2 DEF Stand, TypeOK, RememberedOK
  <2>4. n \in Nat /\ Len(remembered') = n + 1 /\ remembered'[n + 1] = s
    BY <2>3
  <2>5. Covering(r)' = {i \in 1..(n + 1) : r \in remembered'[i].scope}
    BY <2>4 DEF Covering
  <2> HIDE DEF n
  <2>6. n + 1 \in Covering(r)' /\ \A j \in Covering(r)' : j <= n + 1 /\ j \in Nat
    BY <2>4, <2>5
  <2>7. Newest(Covering(r))' = n + 1
    BY <2>6, <2>4 DEF Newest
  <2> QED BY <2>4, <2>6, <2>7 DEF RememberedVerdict
<1>2. TypeOK /\ [Next]_vars =>
        [\A d \in Decisions :
           dpc[d] = "standing" /\ dpc'[d] = "covering" =>
             \A r \in scope[d] : RememberedVerdict(r)' = ruling[d]]_vars
  BY <1>1
<1> QED BY Typing, <1>2, PTL DEF Spec, NewestAnswerStands

-----------------------------------------------------------------------------
(* The queue implements ApprovalPromise, step by step.                     *)

\* What a step leaves of a call's status.
SameStatus(a) == StatusOf(a)' = StatusOf(a)
SameStanding == \A r \in Requests : RememberedVerdict(r)' = RememberedVerdict(r)

\* A call whose place and telling a step leaves alone keeps its status.
LEMMA StatusKept ==
  ASSUME NEW a \in Asks, pc'[a] = pc[a], outcome'[a] = outcome[a],
         pc[a] \notin {"idle", "leaving", "done"} => \A v \in Verdict : Told(a, v)' <=> Told(a, v)
  PROVE  SameStatus(a)
<1>1. CASE pc[a] \notin {"idle", "leaving", "done"}
  <2>1. "allow" \in Verdict /\ "deny" \in Verdict
    BY DEF Verdict
  <2>2. Told(a, "allow")' <=> Told(a, "allow")
    BY <1>1, <2>1
  <2>3. Told(a, "deny")' <=> Told(a, "deny")
    BY <1>1, <2>1
  <2> QED BY <2>2, <2>3 DEF SameStatus, StatusOf
<1>2. CASE pc[a] \in {"idle", "leaving", "done"}
  BY <1>2 DEF SameStatus, StatusOf
<1> QED BY <1>1, <1>2

\* A standing answer is kept while the list is.
LEMMA StandingKept == UNCHANGED remembered => SameStanding
BY DEF SameStanding, RememberedVerdict, Covering, Newest

\* A step that changes no status and no standing answer is one the promise does not see.
LEMMA Unseen ==
  ASSUME req' = req, \A a \in Asks : SameStatus(a), SameStanding
  PROVE  UNCHANGED Promise!vars
BY DEF Promise!vars, SameStatus, SameStanding

\* The steps of the promise, from what they do to each call and each request.
LEMMA PromisedArrival ==
  ASSUME NEW a \in Asks, req \in [Asks -> Requests], req' = req, SameStanding,
         \A b \in Asks : b # a => SameStatus(b),
         StatusOf(a) = "new",
         StatusOf(a)' = IF RememberedVerdict(req[a]) = "none" THEN "waiting"
                        ELSE Promise!FinalOf(RememberedVerdict(req[a]))
  PROVE  Promise!Arrive(a)
<1>1. req[a] \in Requests
  OBVIOUS
<1> QED BY <1>1 DEF Promise!Arrive, SameStatus, SameStanding
\* A call hears what it was told.
LEMMA PromisedHearing ==
  ASSUME NEW a \in Asks, NEW v \in Verdict, req' = req, SameStanding,
         \A b \in Asks : b # a => SameStatus(b),
         StatusOf(a) = Promise!ToldOf(v), StatusOf(a)' = Promise!FinalOf(v)
  PROVE  Promise!Hear(a)
<1>1. v \in Promise!Verdict
  BY DEF Promise!Verdict
<1>2. [b \in Asks |-> StatusOf(b)]' =
        [[b \in Asks |-> StatusOf(b)] EXCEPT ![a] = Promise!FinalOf(v)]
  BY DEF SameStatus
<1>3. [r \in Requests |-> RememberedVerdict(r)]' = [r \in Requests |-> RememberedVerdict(r)]
  BY DEF SameStanding
<1>4. [b \in Asks |-> StatusOf(b)][a] = Promise!ToldOf(v)
  OBVIOUS
<1> QED BY <1>1, <1>2, <1>3, <1>4, Zenon DEF Promise!Hear
\* A call is refused.
LEMMA PromisedRefusal ==
  ASSUME NEW a \in Asks, req' = req, SameStanding,
         \A b \in Asks : b # a => SameStatus(b),
         StatusOf(a) \in {"new", "waiting", "told_allow", "told_deny"}, StatusOf(a)' = "denied"
  PROVE  Promise!GiveUp(a)
BY DEF Promise!GiveUp, SameStatus, SameStanding
\* Some of the calls that wait are told something.
LEMMA PromisedSaying ==
  ASSUME NEW v \in Verdict, NEW A \in SUBSET Asks, req' = req, SameStanding,
         \A a \in A : StatusOf(a) = "waiting" /\ StatusOf(a)' = Promise!ToldOf(v),
         \A a \in Asks : a \notin A => SameStatus(a)
  PROVE  Promise!Say(v, A)
BY DEF Promise!Say, SameStatus, SameStanding
\* A verdict stands for some requests from now on.
LEMMA PromisedStanding ==
  ASSUME NEW v \in Verdict, NEW S \in SUBSET Requests, req' = req,
         \A a \in Asks : SameStatus(a),
         \A r \in Requests : RememberedVerdict(r)' = IF r \in S THEN v ELSE RememberedVerdict(r)
  PROVE  Promise!Stand(v, S)
BY DEF Promise!Stand, SameStatus

-----------------------------------------------------------------------------
(* What each step of the queue does to a status. *)

\* A call that has not parked has been told nothing.
LEMMA NotYetTold ==
  ASSUME TypeOK, Placed, NEW a \in Asks, pc[a] \in {"idle", "parking"}
  PROVE  \A v \in Verdict : ~Told(a, v)
<1>1. ticket[a] = 0 /\ 0 \notin Ids
  BY DEF Placed, HeardOff, Ids
<1> QED BY <1>1, ToldOff

\* Whoever has been told v has not been told the other.
LEMMA ToldOneThing ==
  ASSUME TypeOK, Placed, OneAnswerPerQuestion, NEW a \in Asks,
         NEW v \in Verdict, NEW u \in Verdict, Told(a, v), Told(a, u)
  PROVE  v = u
<1>1. ticket[a] # 0
  BY ToldOff DEF Ids
<1> QED BY <1>1 DEF OneAnswerPerQuestion

\* The status of a call that waits, by what it was told.
LEMMA StatusOfParked ==
  ASSUME TypeOK, Placed, OneAnswerPerQuestion, NEW a \in Asks, pc[a] \in {"parking", "parked"}
  PROVE  /\ \A v \in Verdict : Told(a, v) => StatusOf(a) = Promise!ToldOf(v)
         /\ (\A v \in Verdict : ~Told(a, v)) => StatusOf(a) = "waiting"
         /\ StatusOf(a) \in {"waiting", "told_allow", "told_deny"}
<1>1. "allow" \in Verdict /\ "deny" \in Verdict
  BY DEF Verdict
<1>2. StatusOf(a) = IF Told(a, "allow") THEN "told_allow"
                    ELSE IF Told(a, "deny") THEN "told_deny" ELSE "waiting"
  BY DEF StatusOf
<1>3. ASSUME NEW v \in Verdict, Told(a, v) PROVE StatusOf(a) = Promise!ToldOf(v)
  <2>1. CASE v = "allow"
    BY <1>2, <1>3, <2>1 DEF Promise!ToldOf
  <2>2. CASE v = "deny"
    <3>1. ~Told(a, "allow")
      BY <1>1, <1>3, <2>2, ToldOneThing
    <3> QED BY <1>2, <1>3, <2>2, <3>1 DEF Promise!ToldOf
  <2> QED BY <2>1, <2>2 DEF Verdict
<1>4. (\A v \in Verdict : ~Told(a, v)) => StatusOf(a) = "waiting"
  BY <1>1, <1>2
<1>5. StatusOf(a) \in {"waiting", "told_allow", "told_deny"}
  BY <1>2
<1> QED BY <1>3, <1>4, <1>5

\* A call arrives, and a standing answer or nobody watching settles it.
LEMMA ArriveStep ==
  ASSUME TypeOK, Inv, NEW a \in Asks, Arrive(a)
  PROVE  Promise!Arrive(a) \/ Promise!GiveUp(a)
<1>1. /\ pc[a] = "idle" /\ req' = req /\ UNCHANGED <<slot, hand, ruling, remembered>>
      /\ req \in [Asks -> Requests] /\ req[a] \in Requests
      /\ pc \in [Asks -> {"idle", "parking", "parked", "leaving", "done"}]
      /\ outcome \in [Asks -> Outcome]
  BY DEF Arrive, decisionVars, TypeOK, AsksOK
<1>2. \A b \in Asks : b # a => pc'[b] = pc[b] /\ outcome'[b] = outcome[b]
  BY <1>1 DEF Arrive
<1>3. \A b \in Asks, v \in Verdict : Told(b, v)' <=> Told(b, v)
  BY <1>1 DEF Told
<1>4. \A b \in Asks : b # a => SameStatus(b)
  BY <1>2, <1>3, StatusKept
<1>5. SameStanding
  BY <1>1, StandingKept
<1>6. StatusOf(a) = "new"
  BY <1>1 DEF StatusOf
<1>7. RememberedVerdict(req[a]) \in Verdict \cup {NoVerdict}
  BY <1>1, RememberedIsVerdict DEF TypeOK
<1>8. CASE RememberedVerdict(req[a]) # NoVerdict
  <2>1. pc'[a] = "done" /\ outcome'[a] = Returned("remembered", RememberedVerdict(req[a]))
    BY <1>1, <1>8 DEF Arrive
  <2>2. outcome'[a].verdict = RememberedVerdict(req[a])
    BY <2>1 DEF Returned
  <2>3. StatusOf(a)' = Promise!FinalOf(RememberedVerdict(req[a]))
    BY <2>1, <2>2, <1>7, <1>8 DEF StatusOf, Promise!FinalOf
  <2> QED BY <1>1, <1>4, <1>5, <1>6, <1>8, <2>3, PromisedArrival
<1>9. CASE RememberedVerdict(req[a]) = NoVerdict /\ ~watched
  <2>1. pc'[a] = "done" /\ outcome'[a] = Returned("no_approver", FailClosed)
    BY <1>1, <1>9 DEF Arrive
  <2>2. outcome'[a].verdict = "deny"
    BY <2>1 DEF Returned, FailClosed
  <2>3. StatusOf(a)' = "denied"
    BY <2>1, <2>2 DEF StatusOf
  <2> QED BY <1>1, <1>4, <1>5, <1>6, <2>3, PromisedRefusal
<1>10. CASE RememberedVerdict(req[a]) = NoVerdict /\ watched
  <2>1. pc'[a] = "parking"
    BY <1>1, <1>10 DEF Arrive
  <2>2. \A v \in Verdict : ~Told(a, v)'
    BY <1>1, <1>3, NotYetTold DEF Inv
  <2>3. ~Told(a, "allow")' /\ ~Told(a, "deny")'
    BY <2>2 DEF Verdict
  <2>4. StatusOf(a)' = "waiting"
    BY <2>1, <2>3 DEF StatusOf
  <2> QED BY <1>1, <1>4, <1>5, <1>6, <1>10, <2>4, PromisedArrival
<1> QED BY <1>8, <1>9, <1>10 DEF TypeOK

\* Parking is not seen: the call waits either way.
LEMMA ParkUnseen ==
  ASSUME TypeOK, Inv, NEW a \in Asks, JoinQuestion(a) \/ RaiseQuestion(a)
  PROVE  UNCHANGED Promise!vars
<1>1. /\ pc[a] = "parking" /\ pc' = [pc EXCEPT ![a] = "parked"]
      /\ UNCHANGED <<req, slot, outcome, hand, ruling, remembered>>
      /\ pc \in [Asks -> {"idle", "parking", "parked", "leaving", "done"}]
  BY DEF JoinQuestion, RaiseQuestion, decisionVars, TypeOK, AsksOK
<1>2. \A b \in Asks, v \in Verdict : Told(b, v)' <=> Told(b, v)
  BY <1>1 DEF Told
<1>3. \A b \in Asks : b # a => SameStatus(b)
  BY <1>1, <1>2, StatusKept
<1>4. SameStatus(a)
  <2>1. ~Told(a, "allow") /\ ~Told(a, "deny")
    BY <1>1, NotYetTold DEF Inv, Verdict
  <2>2. ~Told(a, "allow")' /\ ~Told(a, "deny")'
    BY <1>2, <2>1 DEF Verdict
  <2>3. pc'[a] = "parked"
    BY <1>1
  <2> QED BY <1>1, <2>1, <2>2, <2>3 DEF SameStatus, StatusOf
<1>5. SameStanding
  BY <1>1, StandingKept
<1> QED BY <1>1, <1>3, <1>4, <1>5, Unseen

\* A call returns what its channel holds.
LEMMA ReceiveStep ==
  ASSUME TypeOK, Inv, NEW a \in Asks, Receive(a)
  PROVE  Promise!Hear(a)
<1>1. /\ pc[a] = "parked" /\ slot[a] \in Verdict /\ pc' = [pc EXCEPT ![a] = "leaving"]
      /\ outcome' = [outcome EXCEPT ![a] = Returned("decided", slot[a])]
      /\ UNCHANGED <<req, slot, hand, ruling, remembered>>
      /\ pc \in [Asks -> {"idle", "parking", "parked", "leaving", "done"}]
      /\ outcome \in [Asks -> Outcome]
  BY DEF Receive, decisionVars, TypeOK, AsksOK
<1>2. \A b \in Asks, v \in Verdict : Told(b, v)' <=> Told(b, v)
  BY <1>1 DEF Told
<1>3. \A b \in Asks : b # a => SameStatus(b)
  BY <1>1, <1>2, StatusKept
<1>4. StatusOf(a) = Promise!ToldOf(slot[a])
  <2>1. Told(a, slot[a])
    BY DEF Told
  <2> QED BY <1>1, <2>1, StatusOfParked DEF Inv
<1>5. StatusOf(a)' = Promise!FinalOf(slot[a])
  <2>1. pc'[a] = "leaving" /\ outcome'[a].verdict = slot[a]
    BY <1>1 DEF Returned
  <2> QED BY <1>1, <2>1 DEF StatusOf, Promise!FinalOf
<1>6. SameStanding
  BY <1>1, StandingKept
<1> QED BY <1>1, <1>3, <1>4, <1>5, <1>6, PromisedHearing

\* A call that is late or hangs up is refused.
LEMMA GiveUpStep ==
  ASSUME TypeOK, Inv, NEW a \in Asks, TimeOut(a) \/ Cancel(a)
  PROVE  Promise!GiveUp(a)
<1>1. /\ pc[a] = "parked" /\ pc' = [pc EXCEPT ![a] = "leaving"]
      /\ UNCHANGED <<req, slot, hand, ruling, remembered>>
      /\ pc \in [Asks -> {"idle", "parking", "parked", "leaving", "done"}]
      /\ outcome \in [Asks -> Outcome]
      /\ \E o \in {Returned("timed_out", FailClosed), Returned("cancelled", NoVerdict)} :
           outcome' = [outcome EXCEPT ![a] = o]
  BY DEF TimeOut, Cancel, decisionVars, TypeOK, AsksOK
<1>2. \A b \in Asks, v \in Verdict : Told(b, v)' <=> Told(b, v)
  BY <1>1 DEF Told
<1>3. \A b \in Asks : b # a => SameStatus(b)
  BY <1>1, <1>2, StatusKept
<1>4. StatusOf(a) \in {"waiting", "told_allow", "told_deny"}
  BY <1>1, StatusOfParked DEF Inv
<1>5. StatusOf(a)' = "denied"
  <2>1. pc'[a] = "leaving" /\ outcome'[a].verdict \in {"deny", NoVerdict}
    BY <1>1 DEF Returned, FailClosed
  <2> QED BY <2>1 DEF StatusOf
<1>6. SameStanding
  BY <1>1, StandingKept
<1> QED BY <1>1, <1>3, <1>4, <1>5, <1>6, PromisedRefusal

\* Dropping a ticket is not seen: the call has its answer.
LEMMA DropUnseen ==
  ASSUME TypeOK, Inv, NEW a \in Asks, DropTicket(a)
  PROVE  UNCHANGED Promise!vars
<1>1. /\ pc[a] = "leaving" /\ pc' = [pc EXCEPT ![a] = "done"]
      /\ UNCHANGED <<req, slot, outcome, hand, ruling, remembered>>
      /\ pc \in [Asks -> {"idle", "parking", "parked", "leaving", "done"}]
  BY DEF DropTicket, decisionVars, TypeOK, AsksOK
<1>2. \A b \in Asks, v \in Verdict : Told(b, v)' <=> Told(b, v)
  BY <1>1 DEF Told
<1>3. \A b \in Asks : b # a => SameStatus(b)
  BY <1>1, <1>2, StatusKept
<1>4. SameStatus(a)
  BY <1>1 DEF SameStatus, StatusOf
<1>5. SameStanding
  BY <1>1, StandingKept
<1> QED BY <1>1, <1>3, <1>4, <1>5, Unseen

\* A decision that takes questions out says its verdict to all who wait on them.
LEMMA TakeOutSays ==
  ASSUME TypeOK, Inv, NEW d \in Decisions, NEW S \in SUBSET queue, TakeOut(d, S),
         UNCHANGED <<askVars, ruling, remembered>>
  PROVE  \E A \in SUBSET Asks : Promise!Say(ruling[d], A)
<1> DEFINE A == {a \in Asks : pc[a] = "parked" /\ \E i \in S : a \in waiters[i]}
<1>1. /\ UNCHANGED <<pc, req, ticket, slot, outcome, ruling, remembered>>
      /\ hand' = [hand EXCEPT ![d] = @ \cup UNION {waiters[i] : i \in S}]
      /\ hand \in [Decisions -> SUBSET Asks] /\ ruling[d] \in Verdict
      /\ slot \in [Asks -> Verdict \cup {NoVerdict}]
  BY DEF TakeOut, askVars, TypeOK, AsksOK, DecisionsOK
<1>2. \A i \in S : i \in Ids /\ i \in queue
  BY DEF TypeOK, BoardOK
<1>3. ASSUME NEW a \in Asks, NEW i \in S, a \in waiters[i]
      PROVE  ticket[a] = i /\ pc[a] \in {"parked", "leaving"} /\ \A v \in Verdict : ~Told(a, v)
  <2>1. ticket[a] = i /\ pc[a] \in {"parked", "leaving"}
    BY <1>2, <1>3 DEF Inv, Placed, SendersPlaced
  <2> QED BY <1>2, <2>1, ToldOff DEF Inv
<1>4. ASSUME NEW a \in A
      PROVE  StatusOf(a) = "waiting" /\ StatusOf(a)' = Promise!ToldOf(ruling[d])
  <2>1. PICK i \in S : a \in waiters[i]
    OBVIOUS
  <2>2. pc[a] = "parked" /\ \A v \in Verdict : ~Told(a, v)
    BY <1>3, <2>1
  <2>3. StatusOf(a) = "waiting"
    BY <2>2, StatusOfParked DEF Inv
  <2>4. a \in hand'[d]
    BY <1>1, <2>1
  <2>5. Told(a, ruling[d])'
    BY <1>1, <2>4 DEF Told
  <2>6. slot[a] = NoVerdict /\ \A e \in Decisions : a \notin hand[e]
    <3>1. \A v \in Verdict : slot[a] # v /\ \A e \in Decisions : ~(a \in hand[e] /\ ruling[e] = v)
      BY <2>2 DEF Told
    <3>2. \A e \in Decisions : ruling[e] \in Verdict
      BY DEF TypeOK, DecisionsOK
    <3> QED BY <1>1, <3>1, <3>2
  <2>7. \A e \in Decisions : e # d => a \notin hand'[e]
    BY <1>1, <2>6
  <2>8. \A v \in Verdict : Told(a, v)' => v = ruling[d]
    BY <1>1, <2>6, <2>7 DEF Told
  <2>9. CASE ruling[d] = "allow"
    BY <1>1, <2>2, <2>5, <2>9 DEF StatusOf, Promise!ToldOf
  <2>10. CASE ruling[d] = "deny"
    <3>1. ~Told(a, "allow")' /\ Told(a, "deny")'
      BY <2>5, <2>8, <2>10
    <3> QED BY <1>1, <2>2, <2>10, <3>1 DEF StatusOf, Promise!ToldOf
  <2> QED BY <1>1, <2>3, <2>9, <2>10
<1>5. ASSUME NEW a \in Asks, a \notin A PROVE SameStatus(a)
  <2>1. CASE \E i \in S : a \in waiters[i]
    <3>1. pc[a] = "leaving"
      BY <1>3, <1>5, <2>1
    <3> QED BY <1>1, <3>1, StatusKept
  <2>2. CASE ~ \E i \in S : a \in waiters[i]
    <3>1. \A e \in Decisions : a \in hand'[e] <=> a \in hand[e]
      BY <1>1, <2>2
    <3>2. \A v \in Verdict : Told(a, v)' <=> Told(a, v)
      BY <1>1, <3>1 DEF Told
    <3> QED BY <1>1, <3>2, StatusKept
  <2> QED BY <2>1, <2>2
<1>6. SameStanding
  BY <1>1, StandingKept
<1>7. A \in SUBSET Asks
  OBVIOUS
<1> HIDE DEF A
<1>8. Promise!Say(ruling[d], A)
  BY <1>1, <1>4, <1>5, <1>6, <1>7, PromisedSaying
<1> QED BY <1>7, <1>8

\* The standing answer recorded last is the verdict for what it covers, and what it
\* does not cover keeps the one it had.
LEMMA NewAnswerStands ==
  ASSUME TypeOK, NEW d \in Decisions, Stand(d), NEW r \in Requests
  PROVE  RememberedVerdict(r)' = IF r \in scope[d] THEN ruling[d] ELSE RememberedVerdict(r)
<1> DEFINE n == Len(remembered)
           s == [scope |-> scope[d], verdict |-> ruling[d]]
<1>1. remembered' = Append(remembered, s) /\ remembered \in Seq(StandingAnswer)
  BY DEF Stand, TypeOK, RememberedOK
<1>2. /\ n \in Nat /\ Len(remembered') = n + 1 /\ remembered'[n + 1] = s
      /\ \A i \in 1..n : remembered'[i] = remembered[i]
  BY <1>1
<1>3. Covering(r)' = {i \in 1..(n + 1) : r \in remembered'[i].scope}
  BY <1>2 DEF Covering
<1>4. Covering(r) = {i \in 1..n : r \in remembered[i].scope}
  BY DEF Covering
<1> HIDE DEF n
<1>5. CASE r \in scope[d]
  <2>1. n + 1 \in Covering(r)' /\ \A j \in Covering(r)' : j <= n + 1 /\ j \in Nat
    BY <1>2, <1>3, <1>5
  <2>2. Newest(Covering(r))' = n + 1
    BY <1>2, <2>1 DEF Newest
  <2> QED BY <1>2, <1>5, <2>1, <2>2 DEF RememberedVerdict
<1>6. CASE r \notin scope[d]
  <2>1. Covering(r)' = Covering(r)
    <3>1. \A i \in 1..(n + 1) : i = n + 1 \/ i \in 1..n
      BY <1>2
    <3>2. \A i \in 1..n : i \in 1..(n + 1)
      BY <1>2
    <3>3. r \notin remembered'[n + 1].scope
      BY <1>2, <1>6
    <3> QED BY <1>2, <1>3, <1>4, <3>1, <3>2, <3>3
  <2>2. CASE Covering(r) = {}
    BY <1>6, <2>1, <2>2 DEF RememberedVerdict
  <2>3. CASE Covering(r) # {}
    <3>1. Newest(Covering(r)) \in Covering(r)
      BY <1>2, <1>4, <2>3, NewestIsThere
    <3>2. Newest(Covering(r))' = Newest(Covering(r))
      BY <2>1 DEF Newest
    <3>3. remembered'[Newest(Covering(r))] = remembered[Newest(Covering(r))]
      BY <1>2, <1>4, <3>1
    <3> QED BY <1>6, <2>1, <2>3, <3>2, <3>3 DEF RememberedVerdict
  <2> QED BY <2>2, <2>3
<1> QED BY <1>5, <1>6

\* The operator stands by a verdict.
LEMMA StandStep ==
  ASSUME TypeOK, Inv, NEW d \in Decisions, Stand(d)
  PROVE  Promise!Stand(ruling[d], scope[d])
<1>1. /\ UNCHANGED <<pc, req, slot, outcome, hand, ruling>>
      /\ ruling[d] \in Verdict /\ scope[d] \in SUBSET Requests
  BY DEF Stand, askVars, TypeOK, DecisionsOK
<1>2. \A a \in Asks, v \in Verdict : Told(a, v)' <=> Told(a, v)
  BY <1>1 DEF Told
<1>3. \A a \in Asks : SameStatus(a)
  BY <1>1, <1>2, StatusKept
<1>4. \A r \in Requests :
        RememberedVerdict(r)' = IF r \in scope[d] THEN ruling[d] ELSE RememberedVerdict(r)
  BY NewAnswerStands
<1> QED BY <1>1, <1>3, <1>4, PromisedStanding

\* A send is not seen: who waits has been told when its sender was taken, and who
\* left has its answer.
LEMMA DeliverUnseen ==
  ASSUME TypeOK, Inv, NEW d \in Decisions, NEW a \in Asks, Deliver(d, a)
  PROVE  UNCHANGED Promise!vars
<1>1. /\ a \in hand[d] /\ hand \in [Decisions -> SUBSET Asks]
      /\ hand' = [hand EXCEPT ![d] = hand[d] \ {a}]
      /\ slot \in [Asks -> Verdict \cup {NoVerdict}]
      /\ slot' = IF pc[a] = "parked" THEN [slot EXCEPT ![a] = ruling[d]] ELSE slot
      /\ UNCHANGED <<pc, req, outcome, ruling, remembered>>
      /\ ruling[d] \in Verdict
  BY DEF Deliver, StillToTell, TypeOK, AsksOK, DecisionsOK
<1>2. \A b \in Asks : b # a => SameStatus(b)
  <2> SUFFICES ASSUME NEW b \in Asks, b # a PROVE SameStatus(b)
    OBVIOUS
  <2>1. slot'[b] = slot[b] /\ \A e \in Decisions : b \in hand'[e] <=> b \in hand[e]
    BY <1>1
  <2>2. \A v \in Verdict : Told(b, v)' <=> Told(b, v)
    BY <1>1, <2>1 DEF Told
  <2> QED BY <1>1, <2>2, StatusKept
<1>3. Told(a, ruling[d])
  BY <1>1 DEF Told
<1>4. CASE pc[a] = "parked"
  <2>1. slot'[a] = ruling[d]
    BY <1>1, <1>4
  <2>2. \A v \in Verdict : Told(a, v) <=> v = ruling[d]
    BY <1>1, <1>3, ToldOneThing DEF Inv
  <2>3. ASSUME NEW v \in Verdict PROVE Told(a, v)' <=> v = ruling[d]
    <3>1. v = ruling[d] => Told(a, v)'
      BY <1>1, <2>1 DEF Told
    <3>2. \A e \in Decisions : a \in hand'[e] => a \in hand[e]
      BY <1>1
    <3>3. ASSUME NEW e \in Decisions, a \in hand'[e], ruling'[e] = v PROVE v = ruling[d]
      <4>1. Told(a, v)
        BY <1>1, <3>2, <3>3 DEF Told
      <4> QED BY <2>2, <4>1
    <3> QED BY <2>1, <3>1, <3>3 DEF Told
  <2>4. \A v \in Verdict : Told(a, v)' <=> Told(a, v)
    BY <2>2, <2>3
  <2> QED BY <1>1, <1>2, <2>4, StatusKept, StandingKept, Unseen
<1>5. CASE pc[a] # "parked"
  <2>1. ticket[a] \in Ids
    BY <1>1 DEF Inv, Placed, HandsOff
  <2>2. pc[a] \notin {"idle", "parking"}
    BY <2>1 DEF Inv, Placed, HeardOff, Ids
  <2>3. pc[a] \in {"leaving", "done"}
    BY <1>5, <2>2 DEF TypeOK, AsksOK
  <2> QED BY <1>1, <1>2, <2>3, StatusKept, StandingKept, Unseen
<1> QED BY <1>4, <1>5

\* Nor are a decision that is called or looks its question up, and who is watching.
LEMMA RestUnseen ==
  ASSUME TypeOK, Inv,
         (\E d \in Decisions : LookUp(d) \/ OperatorCall(d))
           \/ ApproverArrives \/ ApproverLeaves \/ UNCHANGED vars
  PROVE  UNCHANGED Promise!vars
<1>1. UNCHANGED <<pc, req, slot, outcome, hand, remembered>>
  BY DEF LookUp, OperatorCall, Answer, AnswerAndRemember, ApproverArrives, ApproverLeaves,
         askVars, decisionVars, vars
<1>2. \A e \in Decisions : ruling'[e] = ruling[e] \/ hand[e] = {}
  <2>1. ASSUME NEW d \in Decisions, OperatorCall(d), NEW e \in Decisions
        PROVE  ruling'[e] = ruling[e] \/ hand[e] = {}
    <3>1. dpc[d] = "idle" /\ \E v : ruling' = [ruling EXCEPT ![d] = v]
      BY <2>1 DEF OperatorCall, Answer, AnswerAndRemember
    <3>2. hand[d] = {}
      BY <3>1 DEF TypeOK, DecisionsOK, Inv, Placed, HandsOff
    <3> QED BY <3>1, <3>2 DEF TypeOK, DecisionsOK
  <2>2. CASE ruling' = ruling
    BY <2>2
  <2> QED BY <2>1, <2>2 DEF LookUp, ApproverArrives, ApproverLeaves, decisionVars, vars
<1>3. \A a \in Asks, v \in Verdict : Told(a, v)' <=> Told(a, v)
  BY <1>1, <1>2 DEF Told
<1>4. \A a \in Asks : SameStatus(a)
  BY <1>1, <1>3, StatusKept
<1>5. SameStanding
  BY <1>1, StandingKept
<1> QED BY <1>1, <1>4, <1>5, Unseen

\* The operator takes every standing answer back.
LEMMA ForgetStep ==
  ASSUME TypeOK, Inv, ForgetAll
  PROVE  Promise!Forget
<1>1. UNCHANGED <<pc, req, slot, outcome, hand, ruling>> /\ remembered' = <<>>
  BY DEF ForgetAll, askVars, decisionVars
<1>2. \A a \in Asks, v \in Verdict : Told(a, v)' <=> Told(a, v)
  BY <1>1 DEF Told
<1>3. \A a \in Asks : SameStatus(a)
  BY <1>1, <1>2, StatusKept
<1>4. \A r \in Requests : RememberedVerdict(r)' = "none"
  BY <1>1 DEF RememberedVerdict, Covering
<1> QED BY <1>1, <1>3, <1>4 DEF Promise!Forget, SameStatus

\* Every step of the queue is one of the promise, or not seen there.
LEMMA PromisedStep ==
  ASSUME TypeOK, Inv, [Next]_vars
  PROVE  [Promise!Next]_(Promise!vars)
<1>1. ASSUME NEW a \in Asks, Promise!Arrive(a) \/ Promise!Hear(a) \/ Promise!GiveUp(a)
      PROVE  Promise!Next
  BY <1>1 DEF Promise!Next
<1>2. ASSUME NEW a \in Asks, AskStep(a) \/ TimeOut(a) \/ Cancel(a)
      PROVE  Promise!Next \/ UNCHANGED Promise!vars
  BY <1>1, <1>2, ArriveStep, ParkUnseen, ReceiveStep, GiveUpStep, DropUnseen DEF AskStep
<1>3. ASSUME NEW d \in Decisions, Take(d) \/ TakeCovered(d) PROVE Promise!Next
  <2>1. PICK S \in SUBSET queue : TakeOut(d, S)
    BY <1>3 DEF Take, TakeCovered, SettledBy
  <2>2. UNCHANGED <<askVars, ruling, remembered>> /\ ruling[d] \in Promise!Verdict
    BY <1>3 DEF Take, TakeCovered, TypeOK, DecisionsOK, Promise!Verdict
  <2>3. PICK A \in SUBSET Asks : Promise!Say(ruling[d], A)
    BY <2>1, <2>2, TakeOutSays
  <2> QED BY <2>2, <2>3 DEF Promise!Next
<1>4. ASSUME NEW d \in Decisions, Stand(d) PROVE Promise!Next
  <2>1. Promise!Stand(ruling[d], scope[d])
    BY <1>4, StandStep
  <2>2. ruling[d] \in Promise!Verdict /\ scope[d] \in SUBSET Requests
    BY DEF TypeOK, DecisionsOK, Promise!Verdict
  <2> QED BY <2>1, <2>2 DEF Promise!Next
<1>5. ASSUME NEW d \in Decisions, DecisionStep(d) \/ OperatorCall(d)
      PROVE  Promise!Next \/ UNCHANGED Promise!vars
  BY <1>3, <1>4, <1>5, DeliverUnseen, RestUnseen DEF DecisionStep
<1>6. ASSUME ForgetAll PROVE Promise!Next
  BY <1>6, ForgetStep DEF Promise!Next
<1>7. CASE ApproverArrives \/ ApproverLeaves \/ UNCHANGED vars
  BY <1>7, RestUnseen
<1> QED BY <1>2, <1>5, <1>6, <1>7 DEF Next

\* The broker keeps its promise: a call is let through only by a human's yes to it
\* or by a standing yes for its request, whatever `ask`, the deciders, the deadlines
\* and the hang-ups do at the same time.
THEOREM PromiseKept == Spec => KeepsPromise
<1>1. Init => Promise!Init
  <2> SUFFICES ASSUME Init PROVE Promise!Init
    OBVIOUS
  <2>1. \A a \in Asks : StatusOf(a) = "new"
    BY DEF Init, StatusOf
  <2>2. \A r \in Requests : RememberedVerdict(r) = "none"
    BY DEF Init, RememberedVerdict, Covering
  <2> QED BY <2>1, <2>2 DEF Promise!Init, Init
<1>2. TypeOK /\ Inv /\ [Next]_vars => [Promise!Next]_(Promise!vars)
  BY PromisedStep
<1> QED BY <1>1, <1>2, Invariance, PTL DEF Spec, KeepsPromise, Promise!Spec
=============================================================================
