--------------------------- MODULE ApprovalPromise ---------------------------
(***************************************************************************)
(* What the approval broker promises whoever calls `ask`: nothing is ever  *)
(* allowed by default.  A call is released with a yes only if a human said *)
(* yes to it while it waited, or stood by a yes for its request when it    *)
(* came; it may be refused at any time.  Queues, tickets, channels and the *)
(* order in which locks are taken are the business of module Approval,     *)
(* which implements this one.                                              *)
(***************************************************************************)
CONSTANTS Asks, Requests

Verdict == {"allow", "deny"}

VARIABLES
  about,     \* the request each call is for
  status,    \* "new", "waiting", or how the call is going: see Status
  standing   \* the verdict the operator stands by for each request, or "none"

vars == <<about, status, standing>>

Status == {"new", "waiting", "told_allow", "told_deny", "allowed", "denied"}

TypeOK ==
  /\ about \in [Asks -> Requests]
  /\ status \in [Asks -> Status]
  /\ standing \in [Requests -> Verdict \cup {"none"}]

Init ==
  /\ about \in [Asks -> Requests]
  /\ status = [a \in Asks |-> "new"]
  /\ standing = [r \in Requests |-> "none"]

ToldOf(v) == IF v = "allow" THEN "told_allow" ELSE "told_deny"
FinalOf(v) == IF v = "allow" THEN "allowed" ELSE "denied"

\* A call arrives; a standing answer settles it at once.
Arrive(a) ==
  /\ status[a] = "new"
  /\ status' = [status EXCEPT ![a] = IF standing[about[a]] = "none" THEN "waiting"
                                     ELSE FinalOf(standing[about[a]])]
  /\ UNCHANGED <<about, standing>>

\* The human says v to some of the calls waiting.
Say(v, A) ==
  /\ \A a \in A : status[a] = "waiting"
  /\ status' = [a \in Asks |-> IF a \in A THEN ToldOf(v) ELSE status[a]]
  /\ UNCHANGED <<about, standing>>

\* The human stands by v for the requests in S from now on, or by nothing.
Stand(v, S) ==
  /\ standing' = [r \in Requests |-> IF r \in S THEN v ELSE standing[r]]
  /\ UNCHANGED <<about, status>>

Forget ==
  /\ standing' = [r \in Requests |-> "none"]
  /\ UNCHANGED <<about, status>>

\* A call hears what it was told.
Hear(a) ==
  /\ \E v \in Verdict : /\ status[a] = ToldOf(v)
                        /\ status' = [status EXCEPT ![a] = FinalOf(v)]
  /\ UNCHANGED <<about, standing>>

\* Too late, hung up, or nobody watching: whatever it was told, it is refused.
GiveUp(a) ==
  /\ status[a] \in {"new", "waiting", "told_allow", "told_deny"}
  /\ status' = [status EXCEPT ![a] = "denied"]
  /\ UNCHANGED <<about, standing>>

Next ==
  \/ \E a \in Asks : Arrive(a) \/ Hear(a) \/ GiveUp(a)
  \/ \E v \in Verdict, A \in SUBSET Asks : Say(v, A)
  \/ \E v \in Verdict, S \in SUBSET Requests : Stand(v, S)
  \/ Forget

Spec == Init /\ [][Next]_vars
=============================================================================
