---------------------------- MODULE BridgeProofs ----------------------------
(***************************************************************************)
(* That nothing is started or relayed unasked, that every call is answered *)
(* and once, and that no token is used too late, twice or left behind: for *)
(* any messages and policies, any length of a session, and any number of   *)
(* losses, restarts and revocations.                                       *)
(***************************************************************************)
EXTENDS Bridge, TLAPS

-----------------------------------------------------------------------------
(* The invariant.  First the types, by who writes what. *)

Stage == {"probe", "adopt", "open", "spawn", "read", "authorize", "relay", "report", "drain", "end",
          "revoke", "ping", "post", "done", "failed"}

SelfType ==
  /\ transport \in Transports /\ pc \in Stage
  /\ strict \in BOOLEAN /\ secrets \in BOOLEAN /\ opened \in BOOLEAN
  /\ child \in {"none", "runs", "eof", "gone"}

WireType == wire \in Wire \cup {None}

TalkType ==
  /\ log \in Seq(Messages) /\ cleared \subseteq 1..2
  /\ relayed \subseteq Elements /\ inbox \subseteq Elements /\ hushed \subseteq Elements
  /\ stray \subseteq Elements /\ granted \subseteq Elements
  /\ answers \in [Elements -> 0..2]

LedgerType ==
  /\ now \in 0..MaxTime /\ policy \in Policy /\ tokens \in Seq(Token) /\ faults \in 0..MaxFaults
  /\ astray \subseteq DOMAIN tokens /\ replays \subseteq DOMAIN tokens
  /\ session # None => session.token \in DOMAIN tokens /\ session.expires \in Nat

-----------------------------------------------------------------------------
(* The process: what is on the wire is what it waits for, and it comes this *)
(* far only after the session was accepted.                                 *)

\* Requests that are made with the session's token.
Presenting == {"open", "authorize", "report", "end"}

WireFits ==
  wire # None =>
    \/ pc \in Presenting /\ wire.what \in {pc, "renew", "mint"}
    \/ pc = "adopt" /\ wire.what = "mint"
    \/ pc \in {"probe", "ping", "post"} /\ wire.what = pc
    \/ pc = "revoke" /\ wire.what = "revoke" /\ session = None

Legs ==
  wire # None =>
    /\ wire.leg = "to" => wire.reply = None
    /\ wire.leg = "parked" => wire.what = "authorize" /\ wire.reply = None
    /\ wire.leg = "back" /\ wire.what \in {"mint", "renew"} => wire.reply \in {"issued", "refused", "lost"}
    /\ wire.reply = "issued" => wire.what \in {"mint", "renew"}

Stages ==
  /\ transport = "gateway" => pc \in {"ping", "read", "post", "done", "failed"} /\ session = None /\ ~strict
  /\ transport # "gateway" => pc \notin {"ping", "post"}
  /\ transport # "gateway" /\ pc \notin {"probe", "adopt", "open", "failed"} => opened
  /\ pc \in {"probe", "adopt", "open"} => ~secrets
  /\ pc = "probe" => ~strict
  /\ pc \in {"probe", "adopt"} => session = None
  /\ strict /\ pc \notin {"adopt", "revoke", "done", "failed"} => session # None
  /\ pc = "done" => session = None
  /\ NoSecretBeforeSession

Process == WireFits /\ Legs /\ Stages

-----------------------------------------------------------------------------
(* The conversation: while a message is dealt with nothing was said to any *)
(* of its calls, and the messages before it are settled.                   *)

Busy == {"authorize", "relay", "report", "post"}
Latest == log[Len(log)]

Reading ==
  /\ pc \in {"probe", "adopt", "open", "spawn", "ping"} => log = <<>>
  /\ pc \in Busy => log # <<>>
  /\ Len(log) <= MaxMessages

Clearing ==
  /\ pc = "authorize" => Todo # {}
  /\ pc = "relay" => Todo = {}
  /\ \A k \in cleared : <<Len(log), k>> \in granted
  /\ wire # None /\ wire.what = "authorize" /\ wire.leg = "back" /\ wire.reply = "allow" =>
       <<Len(log), Current>> \in granted

Relaying ==
  /\ \A e \in relayed : e[1] \in DOMAIN log
  /\ OnlyClearedIsRelayed

Unsaid ==
  /\ \A e \in Elements : e[1] > Len(log) \/ (e[1] = Len(log) /\ pc \in Busy) => answers[e] = 0 /\ e \notin inbox
  /\ \A e \in inbox : answers[e] = 0
  /\ AnsweredOnce

Settled(n) ==
  \A k \in CallsOf(log[n]) :
    log[n].elements[k].id => <<n, k>> \in inbox \cup hushed \cup stray \/ answers[<<n, k>>] = 1

Settling == \A n \in DOMAIN log : n < Len(log) \/ pc = "read" => Settled(n)

Posting ==
  wire # None /\ wire.what = "post" /\ wire.leg = "back" =>
    /\ wire.reply \in {"frame", "nameless", "accepted", "refused", "lost"}
    /\ wire.reply = "frame" => ~Latest.batch
    /\ wire.reply = "accepted" => ~Latest.batch /\ ~Latest.elements[1].id

Talk == Reading /\ Clearing /\ Relaying /\ Unsaid /\ Settling /\ Posting

-----------------------------------------------------------------------------
(* The tokens: where each live one is, and what is known of its life. *)

Creds ==
  wire # None =>
    /\ wire.what # "probe" => wire.cred \in {0} \cup DOMAIN tokens
    /\ wire.what \in {"renew", "revoke"} => wire.cred \in DOMAIN tokens
    /\ wire.what = "renew" => session # None /\ wire.cred = session.token
    /\ strict /\ wire.cred = 0 => wire.what = "mint"

Lineages ==
  /\ \A t \in DOMAIN tokens : Lineage(t) \in DOMAIN tokens
  /\ \A t \in DOMAIN tokens : Lineage(t) \notin astray => policy.known /\ policy.mode # "off"

\* The answer that brings a token is no older than its way back took.
Issued ==
  wire # None /\ wire.reply = "issued" =>
    /\ tokens # <<>> /\ wire.life > 2 * Trip
    /\ now + wire.life + wire.left <= tokens[Len(tokens)].expires + Trip
    /\ tokens[Len(tokens)].state # "superseded"
    /\ wire.what = "renew" => Lineage(Len(tokens)) = Lineage(wire.cred)

Times ==
  /\ session # None => session.expires <= tokens[session.token].expires + Trip
  /\ wire # None /\ wire.leg = "to" /\ wire.what \in Presenting /\ wire.cred # 0
       => now + wire.left < tokens[wire.cred].expires

\* A token renewed away from is one whose renewal is on its way, or was lost.
RenewedAway(t) ==
  tokens[t].state = "superseded" =>
    Lineage(t) \in astray \/ (wire # None /\ wire.what = "renew" /\ wire.reply = "issued")

Successors ==
  /\ session # None => RenewedAway(session.token)
  /\ wire # None /\ wire.cred \in DOMAIN tokens => RenewedAway(wire.cred)
  /\ NoFalseReplay

\* Somebody will hand it back, or cannot know of it.
Minded(t) ==
  \/ Lineage(t) \in astray
  \/ session # None /\ t = session.token
  \/ wire # None /\ wire.reply = "issued" /\ t = Len(tokens)
  \/ wire # None /\ wire.leg = "to" /\ wire.what = "revoke" /\ t = wire.cred

Live ==
  /\ \A t \in DOMAIN tokens : Standing(t) = "active" => Minded(t)
  /\ wire # None /\ session # None /\ (wire.what = "mint" \/ (wire.what = "renew" /\ wire.leg = "back"))
       /\ Standing(session.token) = "active" => Lineage(session.token) \in astray

Ledger == Creds /\ Lineages /\ Issued /\ Times /\ Successors /\ Live

Inv ==
  /\ SelfType /\ WireType /\ TalkType /\ LedgerType
  /\ Process /\ Talk /\ Ledger

-----------------------------------------------------------------------------
(* Requests, answers and messages. *)

What == {"probe", "mint", "renew", "open", "authorize", "report", "end", "revoke", "ping", "post"}

\* A request is on its way to the daemon, with nothing said to it yet.
LEMMA RequestIs ==
  ASSUME NEW what \in What, NEW cred \in {None} \cup Nat
  PROVE  /\ Request(what, cred) \in Wire
         /\ Request(what, cred).what = what /\ Request(what, cred).cred = cred
         /\ Request(what, cred).leg = "to" /\ Request(what, cred).left = Trip
         /\ Request(what, cred).reply = None
BY Timing DEF Request, Wire, What

\* An answer changes of a request only how it is under way.
LEMMA ReplyIs ==
  ASSUME wire \in Wire, NEW answer \in Replies, Reply(answer)
  PROVE  /\ wire' \in Wire
         /\ wire'.what = wire.what /\ wire'.cred = wire.cred
         /\ wire'.leg = "back" /\ wire'.left = Trip /\ wire'.reply = answer
<1>1. Trip \in 0..Trip
  BY Timing
<1>2. wire' = [what |-> wire.what, cred |-> wire.cred, leg |-> "back", left |-> Trip, reply |-> answer,
               life |-> wire.life]
  BY DEF Reply, Wire
<1>3. /\ wire.what \in What /\ wire.cred \in {None} \cup Nat /\ wire.life \in Nat
  BY DEF Wire, What
<1> QED
  BY <1>1, <1>2, <1>3 DEF Wire, What

\* A message has one element or two.
LEMMA MessageIs ==
  ASSUME NEW m \in Messages
  PROVE  /\ m.batch \in BOOLEAN /\ m.elements \in Seq(Element)
         /\ DOMAIN m.elements \subseteq 1..2 /\ 1 \in DOMAIN m.elements
         /\ ~m.batch => DOMAIN m.elements = {1}
         /\ CallsOf(m) \subseteq DOMAIN m.elements
         /\ \A k \in DOMAIN m.elements : m.elements[k].id \in BOOLEAN
<1>1. /\ m \in [batch : BOOLEAN, elements : Seq(Element)]
      /\ Len(m.elements) \in 1..2 /\ (~m.batch => Len(m.elements) = 1)
  BY MessagesAreMessages
<1>2. m.batch \in BOOLEAN /\ m.elements \in Seq(Element)
  BY <1>1
<1>3. DOMAIN m.elements = 1..Len(m.elements)
  BY <1>2
<1>4. \A k \in DOMAIN m.elements : m.elements[k] \in Element
  BY <1>2, <1>3
<1> QED
  <2> DEFINE D == DOMAIN m.elements
  <2>8. Len(m.elements) = 1 \/ Len(m.elements) = 2
    BY <1>1
  <2>5. D = 1..1 \/ D = 1..2
    BY <1>3, <2>8
  <2>6. ~m.batch => D = 1..1
    BY <1>1, <1>3
  <2> HIDE DEF D
  <2>7. 1..1 = {1}
    OBVIOUS
  <2>1. D \subseteq 1..2 /\ 1 \in D
    BY <2>5
  <2>2. ~m.batch => D = {1}
    BY <2>6, <2>7
  <2>3. CallsOf(m) \subseteq DOMAIN m.elements
    BY DEF CallsOf
  <2>4. \A k \in DOMAIN m.elements : m.elements[k].id \in BOOLEAN
    BY <1>4 DEF Element
  <2> QED
    BY <1>2, <2>1, <2>2, <2>3, <2>4 DEF D

\* The last message is one of the agent's.
LEMMA LatestIs ==
  ASSUME log \in Seq(Messages), log # <<>>
  PROVE  /\ Latest \in Messages /\ Len(log) \in Nat /\ Len(log) >= 1 /\ Len(log) \in DOMAIN log
         /\ Todo \subseteq 1..2 /\ Todo \subseteq CallsOf(Latest)
<1>1. Len(log) \in Nat /\ Len(log) >= 1 /\ Len(log) \in DOMAIN log /\ Latest \in Messages
  BY DEF Latest
<1> QED
  BY <1>1, MessageIs DEF Todo, Latest

\* The element asked about is one of those left to ask about.
LEMMA CurrentIs ==
  ASSUME log \in Seq(Messages), log # <<>>, Todo # {}
  PROVE  Current \in Todo
<1>1. Todo \subseteq 1..2
  BY LatestIs
<1>2. \E x \in Todo : \A y \in Todo : x <= y
  <2>1. CASE 1 \in Todo
    BY <1>1, <2>1
  <2>2. CASE 1 \notin Todo
    <3>1. \A x \in Todo : x = 2
      BY <1>1, <2>2
    <3> QED
      BY <3>1
  <2> QED
    BY <2>1, <2>2
<1>3. (CHOOSE x \in Todo : \A y \in Todo : x <= y) \in Todo
  BY <1>2
<1> QED
  BY <1>3 DEF Current, Min

-----------------------------------------------------------------------------
(* What the daemon may do with a request. *)

\* An answer that says nothing of tokens and allows nothing.
Plain ==
  /\ wire.what \in {"probe", "open", "report", "end", "ping", "post"}
  /\ \E answer \in Replies \ {"issued", "allow"} :
       Reply(answer) /\ (wire.what = "post" => answer = Frame)
  /\ UNCHANGED <<tokens, granted, replays>>

Refusal == Refusable /\ RefuseRequest

Minting == wire.what = "mint" /\ policy.known /\ policy.mode # "off" /\ Issue(0)

Renewing ==
  wire.what = "renew" /\ policy.known /\ policy.mode # "off" /\ Standing(wire.cred) = "active"
  /\ Issue(wire.cred)

Revoking ==
  /\ wire.what = "revoke" /\ tokens' = Without(Lineage(wire.cred), tokens)
  /\ Reply("ok") /\ UNCHANGED <<granted, replays>>

Parking ==
  /\ wire.what = "authorize" /\ wire' = [wire EXCEPT !.leg = "parked", !.left = 0]
  /\ UNCHANGED <<tokens, granted, replays>>

Judging == wire.what = "authorize" /\ \E allowed \in BOOLEAN : Verdict(allowed)

\* The gateway has three ways to answer a frame.
LEMMA FrameIs == Frame \in {"frame", "nameless", "accepted"}
BY DEF Frame

\* The daemon answers a request in one of seven ways.
LEMMA AnswerCases ==
  ASSUME wire \in Wire, policy \in Policy, Answer
  PROVE  Minting \/ Renewing \/ Revoking \/ Plain \/ Parking \/ Judging
<1>1. CASE wire.what = "probe"
  <2>1. policy.mode \in Replies \ {"issued", "allow"}
    BY DEF Policy, Replies
  <2>2. Reply(policy.mode) /\ UNCHANGED <<tokens, granted, replays>>
    BY <1>1 DEF Answer
  <2> QED
    BY <1>1, <2>1, <2>2 DEF Plain
<1>2. CASE wire.what = "mint"
  BY <1>2 DEF Answer, Minting
<1>3. CASE wire.what = "renew"
  BY <1>3 DEF Answer, Renewing
<1>4. CASE wire.what = "revoke"
  BY <1>4 DEF Answer, Revoking
<1>5. CASE wire.what \in {"open", "report", "end"}
  <2>1. Reply("ok") /\ UNCHANGED <<tokens, granted, replays>>
    BY <1>5 DEF Answer
  <2> QED
    BY <1>5, <2>1 DEF Plain, Replies
<1>6. CASE wire.what = "authorize"
  <2>1. IF policy.reach /\ Rule = "ask"
        THEN wire' = [wire EXCEPT !.leg = "parked", !.left = 0] /\ UNCHANGED <<tokens, granted, replays>>
        ELSE Verdict(policy.reach /\ Rule = "allow")
    BY <1>6 DEF Answer
  <2>2. (policy.reach /\ Rule = "allow") \in BOOLEAN
    OBVIOUS
  <2> QED
    BY <1>6, <2>1, <2>2 DEF Parking, Judging
<1>7. CASE wire.what = "ping"
  <2>1. Reply("ok") /\ UNCHANGED <<tokens, granted, replays>>
    BY <1>7 DEF Answer
  <2> QED
    BY <1>7, <2>1 DEF Plain, Replies
<1>8. CASE wire.what = "post"
  <2>1. Reply(Frame) /\ UNCHANGED <<tokens, granted, replays>>
    BY <1>8 DEF Answer
  <2> QED
    BY <1>8, <2>1, FrameIs DEF Plain, Replies
<1> QED
  BY <1>1, <1>2, <1>3, <1>4, <1>5, <1>6, <1>7, <1>8 DEF Wire

\* A token that is issued goes back with how long it lives.
LEMMA IssueIs ==
  ASSUME wire \in Wire, policy \in Policy, NEW parent, Issue(parent)
  PROVE  /\ wire' \in Wire
         /\ wire'.what = wire.what /\ wire'.cred = wire.cred
         /\ wire'.leg = "back" /\ wire'.left = Trip /\ wire'.reply = "issued"
         /\ wire'.life = policy.life /\ policy.life \in Nat
<1>1. Trip \in 0..Trip
  BY Timing
<1>2. wire' = [what |-> wire.what, cred |-> wire.cred, leg |-> "back", left |-> Trip, reply |-> "issued",
               life |-> policy.life]
  BY DEF Issue, Wire
<1>3. wire.what \in What /\ wire.cred \in {None} \cup Nat
  BY DEF Wire, What
<1>4. policy.life \in Nat
  BY Timing DEF Policy
<1> QED
  BY <1>1, <1>2, <1>3, <1>4 DEF Wire, What, Replies

\* A question that is put to a human waits as long as he takes.
LEMMA ParkingIs ==
  ASSUME wire \in Wire, Parking
  PROVE  /\ wire' \in Wire
         /\ wire'.what = wire.what /\ wire'.cred = wire.cred
         /\ wire'.leg = "parked" /\ wire'.reply = wire.reply
<1>1. 0 \in 0..Trip
  BY Timing
<1>2. wire' = [what |-> wire.what, cred |-> wire.cred, leg |-> "parked", left |-> 0, reply |-> wire.reply,
               life |-> wire.life]
  BY DEF Parking, Wire
<1>3. /\ wire.what \in What /\ wire.cred \in {None} \cup Nat /\ wire.life \in Nat
      /\ wire.reply \in Replies \cup {None}
  BY DEF Wire, What
<1> QED
  BY <1>1, <1>2, <1>3 DEF Wire, What

\* Whatever is answered, it is the same request, and a token comes only to whom asked for one.
LEMMA ArriveIs ==
  ASSUME wire \in Wire, policy \in Policy, wire.leg = "to", wire.reply = None, Arrive
  PROVE  /\ wire' \in Wire /\ wire'.what = wire.what /\ wire'.cred = wire.cred
         /\ wire'.leg = "parked" => wire.what = "authorize" /\ wire'.reply = None
         /\ wire'.leg # "to"
         /\ wire'.leg = "back" /\ wire.what \in {"mint", "renew"} => wire'.reply \in {"issued", "refused"}
         /\ wire'.reply = "issued" => wire.what \in {"mint", "renew"}
<1>1. CASE Refusal
  <2>1. Reply("refused") /\ "refused" \in Replies
    BY <1>1 DEF Refusal, RefuseRequest, Replies
  <2> QED
    BY <2>1, ReplyIs
<1>2. CASE Minting \/ Renewing
  <2>1. wire.what \in {"mint", "renew"} /\ \E parent : Issue(parent)
    BY <1>2 DEF Minting, Renewing
  <2> QED
    BY <2>1, IssueIs
<1>3. CASE Revoking
  <2>1. Reply("ok") /\ "ok" \in Replies /\ wire.what = "revoke"
    BY <1>3 DEF Revoking, Replies
  <2> QED
    BY <2>1, ReplyIs
<1>4. CASE Plain
  BY <1>4, ReplyIs DEF Plain
<1>5. CASE Parking
  <2>1. wire.what = "authorize"
    BY <1>5 DEF Parking
  <2> QED
    BY <1>5, <2>1, ParkingIs, NoneIsNothing DEF Replies
<1>6. CASE Judging
  <2>1. wire.what = "authorize" /\ \E answer \in {"allow", "deny"} : Reply(answer)
    BY <1>6 DEF Judging, Verdict
  <2> QED
    BY <2>1, ReplyIs DEF Replies
<1> QED
  BY <1>1, <1>2, <1>3, <1>4, <1>5, <1>6, AnswerCases DEF Arrive, Refusal

\* Time passes for a request under way.
LEMMA TickIs ==
  ASSUME wire \in Wire, wire.left > 0, wire' = [wire EXCEPT !.left = @ - 1]
  PROVE  /\ wire' \in Wire
         /\ wire'.what = wire.what /\ wire'.cred = wire.cred /\ wire'.leg = wire.leg
         /\ wire'.left = wire.left - 1 /\ wire'.reply = wire.reply /\ wire'.life = wire.life
<1>1. wire.left - 1 \in 0..Trip
  BY Timing DEF Wire
<1>2. wire' = [what |-> wire.what, cred |-> wire.cred, leg |-> wire.leg, left |-> wire.left - 1,
               reply |-> wire.reply, life |-> wire.life]
  BY DEF Wire
<1>3. /\ wire.what \in What /\ wire.cred \in {None} \cup Nat /\ wire.life \in Nat
      /\ wire.reply \in Replies \cup {None} /\ wire.leg \in {"to", "parked", "back"}
  BY DEF Wire, What
<1> QED
  BY <1>1, <1>2, <1>3 DEF Wire, What

\* A request is lost, or its answer is.
LEMMA LostIs ==
  ASSUME wire \in Wire, wire' = [wire EXCEPT !.leg = "back", !.left = 0, !.reply = "lost"]
  PROVE  /\ wire' \in Wire
         /\ wire'.what = wire.what /\ wire'.cred = wire.cred
         /\ wire'.leg = "back" /\ wire'.reply = "lost"
<1>1. 0 \in 0..Trip
  BY Timing
<1>2. wire' = [what |-> wire.what, cred |-> wire.cred, leg |-> "back", left |-> 0, reply |-> "lost",
               life |-> wire.life]
  BY DEF Wire
<1>3. wire.what \in What /\ wire.cred \in {None} \cup Nat /\ wire.life \in Nat
  BY DEF Wire, What
<1> QED
  BY <1>1, <1>2, <1>3 DEF Wire, What, Replies

-----------------------------------------------------------------------------
(* The process keeps to its stages. *)

Kept == SelfType /\ WireType /\ Process

\* What the steps of the process know of the ledger.
LEMMA Numbers ==
  ASSUME LedgerType
  PROVE  /\ now \in Nat /\ Len(tokens) \in Nat /\ DOMAIN tokens = 1..Len(tokens)
         /\ session # None => session.token \in Nat /\ session.token # 0
BY Bounds DEF LedgerType

\* A step that leaves the process and its request alone.
LEMMA KeptAlone ==
  ASSUME Kept, UNCHANGED <<wire, transport, self>>, child' \in {"none", "runs", "eof", "gone"}
  PROVE  Kept'
BY DEF Kept, SelfType, WireType, Process, WireFits, Legs, Stages, NoSecretBeforeSession, self

\* A step that leaves the process alone, and of its request what it is about.
LEMMA KeptOnTheWire ==
  ASSUME Kept, UNCHANGED <<transport, self, child>>, wire # None, wire' \in Wire,
         wire'.what = wire.what, wire'.leg = "to" => wire'.reply = None,
         wire'.leg = "parked" => wire.what = "authorize" /\ wire'.reply = None,
         wire'.leg = "back" /\ wire.what \in {"mint", "renew"} => wire'.reply \in {"issued", "refused", "lost"},
         wire'.reply = "issued" => wire.what \in {"mint", "renew"}
  PROVE  Kept'
<1>1. SelfType'
  BY DEF Kept, SelfType, self
<1>2. WireFits'
  BY DEF Kept, Process, WireFits, self
<1>3. Legs'
  BY DEF Legs
<1>4. Stages'
  BY DEF Kept, Process, Stages, NoSecretBeforeSession, self
<1> QED
  BY <1>1, <1>2, <1>3, <1>4 DEF Kept, Process, WireType

\* A request the process makes: for what it is at, or for a token to make it with.
LEMMA KeptAsking ==
  ASSUME Kept, UNCHANGED <<transport, strict, secrets, opened, child, pc>>,
         session' = session \/ (transport # "gateway" /\ pc \in Presenting /\ session' # None),
         NEW what \in What, NEW cred \in {None} \cup Nat, wire' = Request(what, cred),
         \/ pc \in Presenting /\ what \in {pc, "renew", "mint"}
         \/ pc = "adopt" /\ what = "mint"
         \/ pc \in {"probe", "ping", "post"} /\ what = pc
  PROVE  Kept'
<1>1. SelfType'
  BY DEF Kept, SelfType
<1>2. WireFits' /\ WireType'
  BY RequestIs DEF WireFits, WireType
<1>3. Legs'
  BY RequestIs, NoneIsNothing DEF Legs, Replies
<1>4. Stages'
  BY DEF Kept, Process, Stages, NoSecretBeforeSession, Presenting
<1> QED
  BY <1>1, <1>2, <1>3, <1>4 DEF Kept, Process

\* A stage the process goes to, with nothing on the wire.
LEMMA KeptGoing ==
  ASSUME SelfType', wire' = None, Stages'
  PROVE  Kept'
BY DEF Kept, Process, WireType, WireFits, Legs

\* What it holds once a token was issued is a session.
LEMMA HoldIs ==
  ASSUME LedgerType, WireType, wire # None
  PROVE  Hold \in [token : Nat, expires : Nat] /\ Hold # None
<1>1. now + wire.life \in Nat /\ Len(tokens) \in Nat
  BY Numbers DEF WireType, Wire
<1> QED
  BY <1>1, NoneIsNothing DEF Hold

\* Each step of the process keeps it to its stages.
LEMMA SendKeeps == ASSUME Kept, LedgerType, Send PROVE Kept'
<1>1. CASE Present
  <2>1. UNCHANGED <<transport, strict, secrets, opened, child, pc, session>> /\ pc \in Presenting
    BY <1>1 DEF Send, Present, server, Presenting
  <2>2. \/ wire' = Request(pc, 0)
        \/ session # None /\ wire' = Request(pc, session.token)
        \/ session # None /\ wire' = Request("renew", session.token)
    BY <1>1 DEF Present
  <2>3. pc \in What /\ "renew" \in What
    BY <2>1 DEF Presenting, What
  <2>4. 0 \in Nat /\ (session # None => session.token \in Nat)
    BY Numbers
  <2> QED
    BY <2>1, <2>2, <2>3, <2>4, KeptAsking
<1>2. CASE Ask
  <2>1. /\ UNCHANGED <<transport, strict, secrets, opened, child, pc, session>>
        /\ pc \in {"probe", "adopt", "ping", "post"}
    BY <1>2 DEF Send, Ask, server
  <2> DEFINE what == IF pc = "adopt" THEN "mint" ELSE pc
             who == IF pc = "probe" THEN None ELSE 0
  <2>2. wire' = Request(what, who) /\ what \in What /\ who \in {None} \cup Nat
    BY <1>2, <2>1 DEF Ask, What
  <2>3. (pc = "adopt" /\ what = "mint") \/ (pc \in {"probe", "ping", "post"} /\ what = pc)
    BY <2>1
  <2> HIDE DEF what, who
  <2> QED
    BY <2>1, <2>2, <2>3, KeptAsking
<1>3. CASE Surrender
  <2>1. UNCHANGED <<transport, strict, secrets, opened, child>> /\ pc = "revoke" /\ session' = None
    BY <1>3 DEF Send, Surrender, server
  <2>2. CASE session = None
    <3>1. wire' = None /\ pc' = "done"
      BY <1>3, <2>2 DEF Send, Surrender
    <3>2. SelfType'
      BY <2>1, <3>1 DEF Kept, SelfType, Stage
    <3>3. Stages'
      BY <2>1, <3>1 DEF Kept, Process, Stages, NoSecretBeforeSession
    <3> QED
      BY <3>1, <3>2, <3>3, KeptGoing
  <2>3. CASE session # None
    <3>1. wire' = Request("revoke", session.token) /\ pc' = pc /\ session.token \in Nat
      BY <1>3, <2>3, Numbers DEF Send, Surrender
    <3>2. SelfType'
      BY <2>1, <3>1 DEF Kept, SelfType
    <3>3. WireType' /\ WireFits' /\ Legs'
      BY <2>1, <3>1, RequestIs, NoneIsNothing DEF WireType, WireFits, Legs, What, Replies
    <3>4. Stages'
      BY <2>1, <3>1 DEF Kept, Process, Stages, NoSecretBeforeSession
    <3> QED
      BY <3>2, <3>3, <3>4 DEF Kept, Process
  <2> QED
    BY <2>2, <2>3
<1> QED
  BY <1>1, <1>2, <1>3 DEF Send

\* An answer that was refused or lost, or brought a token.
LEMMA RenewedKeeps == ASSUME Kept, LedgerType, Renewed PROVE Kept'
<1>1. wire # None /\ wire.what = "renew" /\ pc \in Presenting /\ transport # "gateway" /\ pc # "done"
  BY DEF Renewed, Got, Kept, Process, WireFits, Stages, Presenting
<1>2. UNCHANGED <<transport, strict, secrets, opened, child, pc>>
  BY DEF Renewed, Quiet, server
<1>3. pc \in What /\ "mint" \in What /\ 0 \in Nat
  BY <1>1 DEF Presenting, What
<1>4. CASE Fails
  <2>1. session' = session /\ wire' = Request("mint", 0)
    BY <1>4 DEF Renewed, Fallback
  <2> QED
    BY <1>1, <1>2, <1>3, <2>1, KeptAsking
<1>5. CASE ~Fails
  <2>1. session' = Hold /\ wire' = Request(pc, Hold.token)
    BY <1>5 DEF Renewed, Keep
  <2>2. Hold # None /\ Hold.token \in Nat
    BY <1>1, HoldIs DEF Kept
  <2> QED
    BY <1>1, <1>2, <1>3, <2>1, <2>2, KeptAsking
<1> QED
  BY <1>4, <1>5

\* Where a step that closes the request leads.
Closes ==
  /\ wire' = None /\ UNCHANGED <<transport, child>>
  /\ \/ UNCHANGED <<strict, session, secrets, opened>> /\ pc' = "failed"
     \/ UNCHANGED <<strict, session, secrets, opened>> /\ pc' = "read"
        /\ pc \in {"authorize", "report", "relay", "post", "ping"}
     \/ UNCHANGED <<strict, session, secrets, opened>> /\ pc' = "authorize" /\ pc = "authorize"
     \/ UNCHANGED <<strict, session, secrets, opened>> /\ pc' = "relay" /\ pc = "authorize"
     \/ UNCHANGED <<strict, session, secrets, opened>> /\ pc' = "revoke" /\ pc = "end"
     \/ UNCHANGED <<strict, session, secrets, opened>> /\ pc' = "done" /\ pc = "revoke" /\ session = None
     \/ UNCHANGED <<strict, session, secrets>> /\ pc = "open" /\ pc' = "failed" /\ opened' = FALSE
     \/ UNCHANGED <<strict, session, secrets>> /\ pc = "open" /\ pc' = "spawn" /\ opened' = TRUE
     \/ UNCHANGED <<session, secrets, opened>> /\ pc = "probe" /\ pc' = "failed" /\ strict' = FALSE
     \/ UNCHANGED <<session, secrets, opened>> /\ pc = "probe" /\ pc' = "open" /\ strict' = FALSE
     \/ UNCHANGED <<session, secrets, opened>> /\ pc = "probe" /\ pc' = "adopt" /\ strict' = TRUE
     \/ UNCHANGED <<strict, secrets, opened>> /\ pc = "adopt" /\ pc' = "open" /\ session' # None

\* It is a stage of the process all the same.
LEMMA ClosesKeeps == ASSUME Kept, Closes PROVE Kept'
<1>1. SelfType'
  BY DEF Closes, Kept, SelfType, Stage
<1>2. Stages'
  BY DEF Closes, Kept, Process, Stages, NoSecretBeforeSession, SelfType
<1> QED
  BY <1>1, <1>2, KeptGoing DEF Closes

\* Closing an exchange, the process goes where Closes says.
LEMMA ReceiveCloses ==
  ASSUME Kept, LedgerType
  PROVE  /\ Probed => Closes
         /\ Minted /\ (Fails \/ pc = "adopt") => Closes
         /\ Opened => Closes
         /\ Authorized => Closes
         /\ Noted => Closes
         /\ Surrendered => Closes
         /\ Pinged => Closes
         /\ Posted => Closes
<1>1. ASSUME Probed PROVE Closes
  <2>1. pc = "probe"
    BY <1>1 DEF Probed, Got, Kept, Process, WireFits, Presenting
  <2> QED
    BY <1>1, <2>1 DEF Probed, Closes, Go, AfterProbe, server
<1>2. ASSUME Unusable, UNCHANGED <<session, secrets, opened>>, Quiet PROVE Closes
  BY <1>2 DEF Unusable, Block, Recorded, Go, Closes, Quiet, server, AfterRefusal, AfterEnd
<1>3. ASSUME Minted, Fails PROVE Closes
  BY <1>2, <1>3 DEF Minted
<1>4. ASSUME Minted, ~Fails, pc = "adopt" PROVE Closes
  <2>1. session' = Hold /\ Go("open") /\ UNCHANGED <<transport, child, strict, secrets, opened>>
    BY <1>4 DEF Minted, Quiet, server
  <2>2. Hold # None
    BY <1>4, HoldIs DEF Kept, Minted, Got
  <2> QED
    BY <1>4, <2>1, <2>2 DEF Closes, Go
<1>5. ASSUME Opened PROVE Closes
  <2>1. pc = "open"
    BY <1>5 DEF Opened, Got, Kept, Process, WireFits, Presenting
  <2> QED
    BY <1>5, <2>1 DEF Opened, Closes, Go, Quiet, server
<1>6. ASSUME Authorized PROVE Closes
  <2>1. pc = "authorize"
    BY <1>6 DEF Authorized, Got, Kept, Process, WireFits, Presenting
  <2> QED
    BY <1>6, <2>1 DEF Authorized, Block, Closes, Go, Quiet, server, AfterRefusal
<1>7. ASSUME Noted PROVE Closes
  BY <1>7 DEF Noted, Recorded, Go, Closes, Quiet, server, AfterEnd
<1>8. ASSUME Surrendered PROVE Closes
  <2>1. pc = "revoke" /\ session = None
    BY <1>8 DEF Surrendered, Got, Kept, Process, WireFits, Presenting
  <2> QED
    BY <1>8, <2>1 DEF Surrendered, Closes, Go, Quiet, server
<1>9. ASSUME Pinged PROVE Closes
  <2>1. pc = "ping"
    BY <1>9 DEF Pinged, Got, Kept, Process, WireFits, Presenting
  <2> QED
    BY <1>9, <2>1 DEF Pinged, Closes, Go, Quiet, server
<1>10. ASSUME Posted PROVE Closes
  <2>1. pc = "post"
    BY <1>10 DEF Posted, Got, Kept, Process, WireFits, Presenting
  <2> QED
    BY <1>10, <2>1 DEF Posted, Closes, Go, Quiet, server
<1> QED
  BY <1>1, <1>3, <1>4, <1>5, <1>6, <1>7, <1>8, <1>9, <1>10

\* A fallback's token serves the request it was fetched for.
LEMMA MintedKeeps == ASSUME Kept, LedgerType, Minted PROVE Kept'
<1>1. CASE Fails \/ pc = "adopt"
  BY <1>1, ReceiveCloses, ClosesKeeps
<1>2. CASE ~(Fails \/ pc = "adopt")
  <2>1. wire # None /\ pc \in Presenting /\ transport # "gateway" /\ pc # "done"
    BY <1>2 DEF Minted, Got, Kept, Process, WireFits, Stages, Presenting
  <2>2. UNCHANGED <<transport, strict, secrets, opened, child, pc>>
        /\ session' = Hold /\ wire' = Request(pc, Hold.token)
    BY <1>2 DEF Minted, Quiet, server
  <2>3. Hold # None /\ Hold.token \in Nat /\ pc \in What
    BY <2>1, HoldIs DEF Kept, Presenting, What
  <2> QED
    BY <2>1, <2>2, <2>3, KeptAsking
<1> QED
  BY <1>1, <1>2

\* What it does with messages, and at its end.
LEMMA WorkKeeps ==
  ASSUME Kept,
         \/ Spawn \/ RelayStdio \/ RelayHttp \/ Drained \/ EndOfInput \/ \E m \in Messages : Read(m)
  PROVE  Kept'
<1>1. CASE Spawn
  <2>1. wire' = None
    BY <1>1 DEF Spawn
  <2>2. SelfType'
    BY <1>1 DEF Spawn, Kept, SelfType, Stage
  <2>3. Stages'
    BY <1>1 DEF Spawn, Kept, Process, Stages, NoSecretBeforeSession
  <2> QED
    BY <2>1, <2>2, <2>3, KeptGoing
<1>2. CASE RelayStdio
  <2>1. wire' = None
    BY <1>2 DEF RelayStdio, Kept, Process, WireFits, Presenting
  <2>2. SelfType'
    BY <1>2 DEF RelayStdio, Kept, SelfType, Stage
  <2>3. Stages'
    BY <1>2 DEF RelayStdio, Kept, Process, Stages, NoSecretBeforeSession
  <2> QED
    BY <2>1, <2>2, <2>3, KeptGoing
<1>3. CASE RelayHttp
  <2>1. wire' = None
    BY <1>3 DEF RelayHttp, Kept, Process, WireFits, Presenting
  <2>2. SelfType'
    BY <1>3 DEF RelayHttp, Kept, SelfType, Stage, server
  <2>3. Stages'
    BY <1>3 DEF RelayHttp, Kept, Process, Stages, NoSecretBeforeSession, server
  <2> QED
    BY <2>1, <2>2, <2>3, KeptGoing
<1>4. CASE Drained
  <2>1. wire' = None
    BY <1>4 DEF Drained, Kept, Process, WireFits, Presenting
  <2>2. SelfType'
    BY <1>4 DEF Drained, Kept, SelfType, Stage, server
  <2>3. Stages'
    BY <1>4 DEF Drained, Kept, Process, Stages, NoSecretBeforeSession, server
  <2> QED
    BY <2>1, <2>2, <2>3, KeptGoing
<1>5. CASE EndOfInput
  <2>1. wire' = None /\ pc = "read" /\ UNCHANGED <<transport, strict, session, secrets, opened>>
    BY <1>5 DEF EndOfInput, Kept, Process, WireFits, Presenting
  <2>2. \/ transport = "stdio" /\ pc' = "drain"
        \/ transport = "http" /\ pc' = "end"
        \/ transport = "gateway" /\ pc' = "done"
    BY <1>5 DEF EndOfInput, Kept, SelfType, Transports
  <2>3. child' \in {"none", "runs", "eof", "gone"}
    BY <1>5 DEF EndOfInput, Kept, SelfType
  <2>4. SelfType'
    BY <2>1, <2>2, <2>3 DEF Kept, SelfType, Stage
  <2>5. Stages'
    BY <2>1, <2>2 DEF Kept, Process, Stages, NoSecretBeforeSession
  <2> QED
    BY <2>1, <2>4, <2>5, KeptGoing
<1>6. CASE \E m \in Messages : Read(m)
  <2>1. /\ wire' = None /\ pc = "read" /\ UNCHANGED <<transport, strict, session, secrets, opened, child>>
        /\ IF transport = "gateway" THEN pc' = "post" ELSE pc' \in {"relay", "authorize"}
    BY <1>6 DEF Read, Kept, Process, WireFits, Presenting, server
  <2>2. SelfType'
    BY <2>1 DEF Kept, SelfType, Stage
  <2>3. Stages'
    BY <2>1 DEF Kept, Process, Stages, NoSecretBeforeSession
  <2> QED
    BY <2>1, <2>2, <2>3, KeptGoing
<1> QED
  BY <1>1, <1>2, <1>3, <1>4, <1>5, <1>6

\* What happens around it.
LEMMA WorldKeeps ==
  ASSUME Kept, LedgerType,
         \/ Arrive \/ Decide \/ \E e \in inbox : ServerAnswers(e)
         \/ ChildEnds \/ Tick \/ Lose \/ Restart \/ RevokeIt \/ NewPolicy \/ UNCHANGED vars
  PROVE  Kept'
<1>1. CASE Arrive
  <2>1. wire # None /\ wire \in Wire /\ wire.leg = "to" /\ wire.reply = None /\ policy \in Policy
    BY <1>1 DEF Arrive, Kept, WireType, Process, Legs, LedgerType
  <2>2. UNCHANGED <<transport, self, child>>
    BY <1>1 DEF Arrive, server
  <2> QED
    BY <1>1, <2>1, <2>2, ArriveIs, KeptOnTheWire
<1>2. CASE Decide
  <2>1. wire # None /\ wire \in Wire /\ wire.what = "authorize"
    BY <1>2 DEF Decide, Kept, WireType, Process, Legs
  <2>2. UNCHANGED <<transport, self, child>>
    BY <1>2 DEF Decide, server
  <2>3. \E answer \in {"allow", "deny"} : Reply(answer)
    BY <1>2 DEF Decide, Verdict
  <2>4. wire' \in Wire /\ wire'.what = wire.what /\ wire'.leg = "back" /\ wire'.reply \in {"allow", "deny"}
    BY <2>1, <2>3, ReplyIs DEF Replies
  <2> QED
    BY <2>1, <2>2, <2>4, KeptOnTheWire
<1>3. CASE (\E e \in inbox : ServerAnswers(e)) \/ ChildEnds \/ RevokeIt \/ NewPolicy \/ UNCHANGED vars
  <2>1. UNCHANGED <<wire, transport, self>>
    BY <1>3 DEF ServerAnswers, ChildEnds, RevokeIt, NewPolicy, vars
  <2>2. child' \in {"none", "runs", "eof", "gone"}
    BY <1>3 DEF ServerAnswers, ChildEnds, RevokeIt, NewPolicy, vars, server, Kept, SelfType
  <2> QED
    BY <2>1, <2>2, KeptAlone
<1>4. CASE Tick
  <2>1. UNCHANGED <<transport, self, child>>
    BY <1>4 DEF Tick, server
  <2>2. CASE UNCHANGED wire
    BY <2>1, <2>2, KeptAlone DEF Kept, SelfType
  <2>3. CASE wire # None /\ wire.left > 0 /\ wire' = [wire EXCEPT !.left = @ - 1]
    <3>1. wire \in Wire
      BY <2>3 DEF Kept, WireType
    <3>2. /\ wire' \in Wire /\ wire'.what = wire.what
          /\ wire'.leg = wire.leg /\ wire'.reply = wire.reply
      BY <2>3, <3>1, TickIs
    <3> QED
      BY <2>1, <2>3, <3>2, KeptOnTheWire DEF Kept, Process, Legs
  <2> QED
    BY <1>4, <2>2, <2>3 DEF Tick
<1>5. CASE Lose
  <2>1. wire # None /\ wire \in Wire /\ UNCHANGED <<transport, self, child>>
    BY <1>5 DEF Lose, Kept, WireType, server
  <2>2. wire' = [wire EXCEPT !.leg = "back", !.left = 0, !.reply = "lost"]
    BY <1>5 DEF Lose
  <2> QED
    BY <2>1, <2>2, LostIs, KeptOnTheWire
<1>6. CASE Restart
  <2>1. UNCHANGED <<transport, self, child>>
    BY <1>6 DEF Restart, server
  <2>2. CASE wire = None
    <3>1. UNCHANGED wire
      BY <1>6, <2>2 DEF Restart
    <3> QED
      BY <2>1, <3>1, KeptAlone DEF Kept, SelfType
  <2>3. CASE wire # None
    <3>1. wire \in Wire /\ wire' = [wire EXCEPT !.leg = "back", !.left = 0, !.reply = "lost"]
      BY <1>6, <2>3 DEF Restart, Kept, WireType
    <3> QED
      BY <2>1, <2>3, <3>1, LostIs, KeptOnTheWire
  <2> QED
    BY <2>2, <2>3
<1> QED
  BY <1>1, <1>2, <1>3, <1>4, <1>5, <1>6

\* Whoever takes a step, the process is at one of its stages.
LEMMA KeptAlways == ASSUME Kept, LedgerType, [Next]_vars PROVE Kept'
<1>1. ASSUME Receive PROVE Kept'
  BY <1>1, ReceiveCloses, ClosesKeeps, MintedKeeps, RenewedKeeps DEF Receive
<1> QED
  BY <1>1, SendKeeps, WorkKeeps, WorldKeeps DEF Next, Progress

-----------------------------------------------------------------------------
(* The conversation. *)

Conversed == TalkType /\ Talk

Early == {"probe", "adopt", "open", "spawn", "ping"}

\* What an answer that is back says of the last message.
Allowing ==
  wire # None /\ wire.what = "authorize" /\ wire.leg = "back" /\ wire.reply = "allow" =>
    <<Len(log), Current>> \in granted

\* A step that says nothing to anybody.
LEMMA Silent ==
  ASSUME Conversed, UNCHANGED <<talk, inbox, granted>>, Allowing', Posting',
         \/ pc' = pc
         \/ pc' \notin Busy /\ (pc' \in Early => pc \in Early) /\ (pc' = "read" => pc \in Early)
  PROVE  Conversed'
<1>1. UNCHANGED <<log, cleared, relayed, answers, hushed, stray, inbox, granted>>
  BY DEF talk
<1>2. TalkType'
  BY <1>1 DEF Conversed, TalkType
<1>3. Reading'
  BY <1>1 DEF Conversed, Talk, Reading, Early, Busy
<1>4. Clearing'
  BY <1>1 DEF Conversed, Talk, Clearing, Busy, Early, Allowing, Todo, Latest
<1>5. Relaying'
  BY <1>1 DEF Conversed, Talk, Relaying, OnlyClearedIsRelayed, Of
<1>6. Unsaid'
  BY <1>1 DEF Conversed, Talk, Unsaid, AnsweredOnce
<1>7. Settling'
  <2>1. pc' = "read" => pc = "read" \/ log = <<>>
    BY DEF Conversed, Talk, Reading, Early
  <2>2. \A n : Settled(n) => Settled(n)'
    BY <1>1 DEF Settled
  <2>3. log = <<>> => DOMAIN log = {}
    OBVIOUS
  <2> QED
    BY <1>1, <2>1, <2>2, <2>3 DEF Conversed, Talk, Settling
<1> QED
  BY <1>2, <1>3, <1>4, <1>5, <1>6, <1>7 DEF Conversed, Talk

\* Answering some elements of the message in hand: each for the first time.
LEMMA CountIs ==
  ASSUME Conversed, pc \in Busy, pc' = "read", UNCHANGED <<log, inbox>>,
         NEW ks \in SUBSET (1..2), answers' = Count(ks)
  PROVE  /\ answers' \in [Elements -> 0..2] /\ Unsaid'
         /\ \A k \in ks : answers'[<<Len(log), k>>] = 1
         /\ \A e \in Elements : e[1] # Len(log) => answers'[e] = answers[e]
<1>1. /\ answers \in [Elements -> 0..2] /\ log # <<>> /\ Len(log) <= MaxMessages /\ Unsaid
      /\ log \in Seq(Messages) /\ MaxMessages \in Nat
  BY Bounds DEF Conversed, Talk, TalkType, Reading
<1>2. Len(log) \in 1..MaxMessages
  BY <1>1, LatestIs
<1>3. \A e \in Elements : e[1] = Len(log) => answers[e] = 0 /\ e \notin inbox
  BY <1>1 DEF Unsaid
<1>4. \A e \in Elements :
        answers'[e] = IF e[1] = Len(log) /\ e[2] \in ks THEN answers[e] + 1 ELSE answers[e]
  BY DEF Count
<1>5. \A e \in Elements : answers'[e] = IF e[1] = Len(log) /\ e[2] \in ks THEN 1 ELSE answers[e]
  BY <1>3, <1>4
<1>6. \A e \in Elements : e[1] \in 1..MaxMessages /\ e[2] \in 1..2
  BY DEF Elements
<1>7. answers' \in [Elements -> 0..2]
  BY <1>1, <1>3, <1>4 DEF Count
<1>8. Unsaid'
  <2>1. \A e \in Elements : e[1] > Len(log) => answers'[e] = 0 /\ e \notin inbox
    BY <1>1, <1>2, <1>5, <1>6 DEF Unsaid
  <2>2. \A e \in inbox : answers'[e] = 0
    BY <1>1, <1>3, <1>5 DEF Unsaid, Conversed, TalkType
  <2>3. \A e \in Elements : answers'[e] <= 1
    BY <1>1, <1>5 DEF Unsaid, AnsweredOnce
  <2> QED
    BY <2>1, <2>2, <2>3 DEF Unsaid, AnsweredOnce, Busy
<1>9. \A k \in ks : <<Len(log), k>> \in Elements
  BY <1>2 DEF Elements
<1> QED
  BY <1>5, <1>7, <1>8, <1>9

\* The message in hand is settled, and those before it stay so.
LEMMA SettlesLatest ==
  ASSUME Conversed, UNCHANGED log, inbox \subseteq inbox', hushed \subseteq hushed', stray \subseteq stray',
         \A e \in Elements : e[1] # Len(log) => answers'[e] = answers[e],
         log # <<>> => Settled(Len(log))'
  PROVE  Settling'
<1> SUFFICES ASSUME NEW n \in DOMAIN log PROVE Settled(n)'
  BY DEF Settling
<1>1. /\ log \in Seq(Messages) /\ Len(log) \in Nat /\ DOMAIN log = 1..Len(log)
      /\ Len(log) <= MaxMessages /\ MaxMessages \in Nat
  BY Bounds DEF Conversed, Talk, TalkType, Reading
<1>2. CASE n = Len(log)
  <2>1. log # <<>>
    BY <1>1
  <2> QED
    BY <1>2, <2>1
<1>3. CASE n # Len(log)
  <2>1. n < Len(log) /\ n \in 1..MaxMessages
    BY <1>1, <1>3
  <2>2. Settled(n)
    BY <2>1 DEF Conversed, Talk, Settling
  <2>3. \A k \in CallsOf(log[n]) : <<n, k>> \in Elements
    <3>1. log[n] \in Messages
      BY <1>1
    <3>2. CallsOf(log[n]) \subseteq 1..2
      BY <3>1, MessageIs
    <3> QED
      BY <2>1, <3>2 DEF Elements
  <2>4. \A k \in CallsOf(log[n]) : answers'[<<n, k>>] = answers[<<n, k>>]
    BY <1>3, <2>3
  <2> QED
    BY <2>2, <2>4 DEF Settled
<1> QED
  BY <1>2, <1>3

\* The process goes back to its agent with the message in hand dealt with.
LEMMA Returns ==
  ASSUME Conversed, log # <<>>, pc' = "read", wire' = None, UNCHANGED <<log, cleared, granted>>,
         relayed' \subseteq Elements, inbox' \subseteq Elements, hushed' \subseteq Elements,
         stray' \subseteq Elements, answers' \in [Elements -> 0..2],
         Unsaid', Settling', Relaying'
  PROVE  Conversed'
<1>1. TalkType'
  BY DEF Conversed, TalkType
<1>2. Reading'
  BY DEF Conversed, Talk, Reading, Busy
<1>3. Clearing'
  BY DEF Conversed, Talk, Clearing
<1>4. Posting'
  BY DEF Posting
<1> QED
  BY <1>1, <1>2, <1>3, <1>4 DEF Conversed, Talk

\* A request that has just been made, or none, says nothing yet.
LEMMA NothingSaid ==
  ASSUME wire' = None \/ \E what \in What, cred \in {None} \cup Nat : wire' = Request(what, cred)
  PROVE  Allowing' /\ Posting'
BY RequestIs DEF Allowing, Posting

\* Sending says nothing.
LEMMA SendSays == ASSUME Kept, LedgerType, Conversed, Send PROVE Conversed'
<1>1. UNCHANGED <<talk, inbox, granted>>
  BY DEF Send, server, daemon
<1>2. 0 \in Nat /\ (session # None => session.token \in Nat)
  BY Numbers
<1>3. pc' = pc \/ pc' = "done"
  BY DEF Send, Present, Ask, Surrender
<1>4. CASE Present
  <2>1. pc \in What /\ "renew" \in What
    BY <1>4 DEF Present, What
  <2> QED
    BY <1>1, <1>2, <1>3, <1>4, <2>1, NothingSaid, Silent DEF Present, Busy, Early
<1>5. CASE Ask
  <2>1. pc # "adopt" => pc \in What
    BY <1>5 DEF Ask, What
  <2>2. "mint" \in What
    BY DEF What
  <2> QED
    BY <1>1, <1>2, <1>3, <1>5, <2>1, <2>2, NothingSaid, Silent DEF Ask, Busy, Early
<1>6. CASE Surrender
  <2>1. wire' = None \/ (session # None /\ wire' = Request("revoke", session.token))
    BY <1>6 DEF Surrender, Send
  <2>2. "revoke" \in What
    BY DEF What
  <2> QED
    BY <1>1, <1>2, <1>3, <2>1, <2>2, NothingSaid, Silent DEF Busy, Early
<1> QED
  BY <1>4, <1>5, <1>6 DEF Send

\* The daemon's word is about the call in hand.
LEMMA VerdictSays ==
  ASSUME Kept, Conversed, wire # None, wire.what = "authorize", UNCHANGED <<talk, inbox, pc>>,
         NEW allowed \in BOOLEAN, Verdict(allowed)
  PROVE  Conversed'
<1>1. UNCHANGED <<log, cleared, relayed, answers, hushed, stray, inbox>>
  BY DEF talk
<1>2. pc = "authorize" /\ log # <<>> /\ Todo # {} /\ log \in Seq(Messages)
  BY DEF Kept, Process, WireFits, Presenting, Conversed, Talk, TalkType, Reading, Clearing, Busy
<1>3. Current \in 1..2 /\ Len(log) \in 1..MaxMessages
  <2>1. Current \in 1..2
    BY <1>2, CurrentIs, LatestIs
  <2>2. Len(log) \in 1..MaxMessages
    BY <1>2, LatestIs, Bounds DEF Conversed, Talk, Reading
  <2> QED
    BY <2>1, <2>2
<1>4. granted \subseteq granted' /\ granted' \subseteq Elements
  BY <1>3 DEF Verdict, Conversed, TalkType, Elements
<1>5. wire \in Wire /\ wire'.what = "authorize" /\ wire'.reply = IF allowed THEN "allow" ELSE "deny"
  BY ReplyIs DEF Kept, WireType, Verdict, Replies
<1>6. UNCHANGED <<Todo, Current>>
  BY <1>1 DEF Todo, Current
<1>7. Allowing' /\ Posting'
  BY <1>1, <1>5, <1>6 DEF Allowing, Posting, Verdict
<1>8. TalkType'
  BY <1>1, <1>4 DEF Conversed, TalkType
<1>9. Reading' /\ Unsaid'
  BY <1>1 DEF Conversed, Talk, Reading, Unsaid, AnsweredOnce
<1>10. Clearing'
  BY <1>1, <1>4, <1>6, <1>7 DEF Conversed, Talk, Clearing, Allowing
<1>11. Relaying'
  BY <1>1, <1>4 DEF Conversed, Talk, Relaying, OnlyClearedIsRelayed, Of
<1>12. Settling'
  BY <1>1 DEF Conversed, Talk, Settling, Settled
<1> QED
  BY <1>7, <1>8, <1>9, <1>10, <1>11, <1>12 DEF Conversed, Talk

\* What the daemon does with a request.
LEMMA ArriveSays == ASSUME Kept, LedgerType, Conversed, Arrive PROVE Conversed'
<1>1. /\ wire # None /\ wire \in Wire /\ wire.leg = "to" /\ wire.reply = None /\ policy \in Policy
      /\ UNCHANGED <<talk, inbox, pc>>
  BY DEF Arrive, Kept, WireType, Process, Legs, LedgerType, self, server
<1>2. UNCHANGED <<log, Latest>>
  BY <1>1 DEF talk, Latest
<1>3. ASSUME Allowing', Posting', UNCHANGED granted PROVE Conversed'
  BY <1>1, <1>3, Silent
<1>4. CASE Refusal
  <2>1. Reply("refused") /\ "refused" \in Replies /\ UNCHANGED granted
    BY <1>4 DEF Refusal, RefuseRequest, Replies
  <2>2. wire'.reply = "refused"
    BY <1>1, <2>1, ReplyIs
  <2> QED
    BY <1>3, <2>1, <2>2 DEF Allowing, Posting
<1>5. CASE Minting \/ Renewing
  <2>1. wire.what \in {"mint", "renew"} /\ \E parent : Issue(parent)
    BY <1>5 DEF Minting, Renewing
  <2>2. wire'.what \in {"mint", "renew"} /\ UNCHANGED granted
    BY <1>1, <2>1, IssueIs DEF Issue
  <2> QED
    BY <1>3, <2>2 DEF Allowing, Posting
<1>6. CASE Revoking
  <2>1. Reply("ok") /\ "ok" \in Replies /\ wire.what = "revoke" /\ UNCHANGED granted
    BY <1>6 DEF Revoking, Replies
  <2>2. wire'.what = "revoke"
    BY <1>1, <2>1, ReplyIs
  <2> QED
    BY <1>3, <2>1, <2>2 DEF Allowing, Posting
<1>7. CASE Plain
  <2>1. PICK answer \in Replies \ {"issued", "allow"} :
          Reply(answer) /\ (wire.what = "post" => answer = Frame)
    BY <1>7 DEF Plain
  <2>2. wire'.what = wire.what /\ wire'.reply = answer /\ UNCHANGED granted
    BY <1>1, <1>7, <2>1, ReplyIs DEF Plain
  <2>3. Allowing'
    BY <2>1, <2>2 DEF Allowing
  <2>7. wire.what = "post" => pc = "post"
    BY <1>1 DEF Kept, Process, WireFits, Presenting
  <2>4. wire.what = "post" => Latest \in Messages
    BY <2>7, LatestIs DEF Conversed, Talk, TalkType, Reading, Busy
  <2>5. wire.what = "post" => /\ Frame = "frame" => ~Latest.batch
                              /\ Frame = "accepted" => ~Latest.batch /\ ~Latest.elements[1].id
    BY <2>4 DEF Frame, Latest
  <2>6. Posting'
    BY <1>2, <2>1, <2>2, <2>5, FrameIs DEF Posting
  <2> QED
    BY <1>3, <2>2, <2>3, <2>6
<1>8. CASE Parking
  <2>1. wire'.leg = "parked" /\ UNCHANGED granted
    BY <1>1, <1>8, ParkingIs DEF Parking
  <2> QED
    BY <1>3, <2>1 DEF Allowing, Posting
<1>9. CASE Judging
  BY <1>1, <1>9, VerdictSays DEF Judging
<1> QED
  BY <1>1, <1>4, <1>5, <1>6, <1>7, <1>8, <1>9, AnswerCases DEF Arrive, Refusal

\* Steps of the process that say nothing to its agent or to the server.
LEMMA QuietSays ==
  ASSUME Kept, LedgerType, Conversed,
         \/ Probed \/ Renewed \/ Opened \/ Surrendered \/ Pinged
         \/ Minted /\ ~Fails
         \/ Spawn \/ Drained \/ EndOfInput
  PROVE  Conversed'
<1>1. UNCHANGED <<talk, inbox, granted>>
  BY DEF Probed, Renewed, Opened, Surrendered, Pinged, Minted, Spawn, Drained, EndOfInput, Quiet, daemon, server
<1>2. pc' = pc \/ (pc' \notin Busy /\ (pc' \in Early => pc \in Early) /\ (pc' = "read" => pc \in Early))
  <2>1. CASE Probed \/ Opened \/ Surrendered \/ Pinged
    BY <2>1 DEF Probed, Opened, Surrendered, Pinged, Go, AfterProbe, Got, Kept, Process, WireFits, Presenting,
                Busy, Early
  <2>2. CASE Renewed
    BY <2>2 DEF Renewed
  <2>3. CASE Minted /\ ~Fails
    BY <2>3 DEF Minted, Go, Busy, Early
  <2>4. CASE Spawn \/ Drained \/ EndOfInput
    BY <2>4 DEF Spawn, Drained, EndOfInput, Busy, Early
  <2> QED
    BY <2>1, <2>2, <2>3, <2>4
<1>3. wire' = None \/ \E what \in What, cred \in {None} \cup Nat : wire' = Request(what, cred)
  <2>1. CASE Probed \/ Opened \/ Surrendered \/ Pinged
    BY <2>1 DEF Probed, Opened, Surrendered, Pinged, Go
  <2>2. CASE Spawn \/ Drained \/ EndOfInput
    BY <2>2 DEF Spawn, Drained, EndOfInput, Kept, Process, WireFits, Presenting
  <2>3. CASE Renewed \/ (Minted /\ ~Fails)
    <3>1. wire # None /\ (pc = "adopt" \/ pc \in What)
      BY <2>3 DEF Renewed, Minted, Got, Kept, Process, WireFits, Presenting, What
    <3>2. Hold.token \in Nat
      BY <3>1, HoldIs DEF Kept
    <3>3. 0 \in Nat /\ "mint" \in What
      BY DEF What
    <3>4. CASE Renewed
      <4>1. pc \in What
        BY <3>4 DEF Renewed, Got, Kept, Process, WireFits, Presenting, What
      <4> QED
        BY <3>2, <3>3, <3>4, <4>1 DEF Renewed, Fallback
    <3>5. CASE Minted /\ ~Fails
      BY <3>1, <3>2, <3>5 DEF Minted, Go
    <3> QED
      BY <2>3, <3>4, <3>5
  <2> QED
    BY <2>1, <2>2, <2>3
<1> QED
  BY <1>1, <1>2, <1>3, NothingSaid, Silent

\* No message passes, and each of its ids is told so.
LEMMA BlockSays ==
  ASSUME Conversed, Block, pc \in Busy, UNCHANGED <<granted, inbox>>
  PROVE  Conversed'
<1>1. /\ UNCHANGED <<log, cleared, relayed, hushed, stray>> /\ pc' = "read" /\ wire' = None
      /\ answers' = Count(Denied(Latest))
  BY DEF Block, Go, AfterRefusal, Refusals, Latest
<1>2. log # <<>> /\ log \in Seq(Messages) /\ Latest \in Messages
  BY LatestIs DEF Conversed, Talk, Reading, TalkType
<1>3. Denied(Latest) \in SUBSET (1..2)
  BY <1>2, MessageIs DEF Denied
<1>4. /\ answers' \in [Elements -> 0..2] /\ Unsaid'
      /\ \A k \in Denied(Latest) : answers'[<<Len(log), k>>] = 1
      /\ \A e \in Elements : e[1] # Len(log) => answers'[e] = answers[e]
  BY <1>1, <1>3, CountIs
<1>5. Settled(Len(log))'
  BY <1>1, <1>2, <1>4, MessageIs DEF Settled, Latest, Denied
<1>6. Settling'
  BY <1>1, <1>4, <1>5, SettlesLatest
<1>7. Relaying'
  BY <1>1 DEF Conversed, Talk, Relaying, OnlyClearedIsRelayed, Of
<1> QED
  BY <1>1, <1>2, <1>4, <1>6, <1>7, Returns DEF Conversed, TalkType

\* An element was allowed.
LEMMA AuthorizedSays == ASSUME Kept, Conversed, Authorized PROVE Conversed'
<1>1. /\ wire # None /\ wire.what = "authorize" /\ wire.leg = "back" /\ pc = "authorize"
      /\ UNCHANGED <<granted, inbox>>
  BY DEF Authorized, Got, Quiet, daemon, server, Kept, Process, WireFits, Presenting
<1>2. CASE wire.reply # "allow"
  BY <1>1, <1>2, BlockSays DEF Authorized, Busy
<1>3. CASE wire.reply = "allow"
  <2>1. /\ cleared' = cleared \cup {Current} /\ wire' = None
        /\ pc' = IF More THEN "authorize" ELSE "relay"
        /\ UNCHANGED <<log, relayed, answers, hushed, stray>>
    BY <1>3 DEF Authorized
  <2>2. log # <<>> /\ log \in Seq(Messages) /\ Todo # {} /\ <<Len(log), Current>> \in granted
    BY <1>1, <1>3 DEF Conversed, Talk, Reading, Clearing, TalkType, Busy
  <2>3. Current \in Todo /\ Todo \subseteq 1..2
    BY <2>2, CurrentIs, LatestIs
  <2>4. Todo' = Todo \ {Current}
    BY <2>1 DEF Todo
  <2>5. TalkType'
    BY <1>1, <2>1, <2>3 DEF Conversed, TalkType
  <2>6. Reading' /\ Unsaid' /\ Posting'
    BY <1>1, <2>1 DEF Conversed, Talk, Reading, Unsaid, AnsweredOnce, Posting, Busy
  <2>7. Clearing'
    <3>1. (pc' = "authorize" => Todo' # {}) /\ (pc' = "relay" => Todo' = {})
      BY <2>1, <2>3, <2>4 DEF More
    <3>2. \A k \in cleared' : <<Len(log), k>> \in granted
      BY <2>1, <2>2 DEF Conversed, Talk, Clearing
    <3> QED
      BY <1>1, <2>1, <3>1, <3>2 DEF Clearing
  <2>8. Relaying'
    BY <1>1, <2>1 DEF Conversed, Talk, Relaying, OnlyClearedIsRelayed, Of
  <2>9. Settling'
    BY <1>1, <2>1 DEF Conversed, Talk, Settling, Settled
  <2> QED
    BY <2>5, <2>6, <2>7, <2>8, <2>9 DEF Conversed, Talk
<1> QED
  BY <1>2, <1>3

\* A failed relay is told to the agent, unless its message has no id of its own.
LEMMA RecordedSays ==
  ASSUME Conversed, Recorded, UNCHANGED <<granted, inbox>>
  PROVE  Conversed'
<1>1. CASE pc = "end"
  <2>1. UNCHANGED talk /\ wire' = None /\ pc' = "revoke"
    BY <1>1 DEF Recorded, Go, AfterEnd
  <2> QED
    BY <2>1, NothingSaid, Silent DEF Busy, Early
<1>2. CASE pc = "report"
  <2>1. /\ UNCHANGED <<log, cleared, relayed, stray>> /\ pc' = "read" /\ wire' = None
        /\ IF Latest.batch
           THEN hushed' = hushed \cup ({Len(log)} \X Denied(Latest)) /\ UNCHANGED answers
           ELSE answers' = Count(Denied(Latest)) /\ UNCHANGED hushed
    BY <1>2 DEF Recorded, Go, Latest
  <2>2. log # <<>> /\ log \in Seq(Messages) /\ Latest \in Messages /\ Len(log) \in 1..MaxMessages
    <3>1. log # <<>> /\ log \in Seq(Messages) /\ Len(log) <= MaxMessages
      BY <1>2 DEF Conversed, Talk, Reading, TalkType, Busy
    <3> QED
      BY <3>1, LatestIs, Bounds
  <2>3. Denied(Latest) \in SUBSET (1..2)
    BY <2>2, MessageIs DEF Denied
  <2>4. Relaying'
    BY <2>1 DEF Conversed, Talk, Relaying, OnlyClearedIsRelayed, Of
  <2>5. CASE Latest.batch
    <3>1. hushed' \subseteq Elements
      BY <2>1, <2>2, <2>3, <2>5 DEF Conversed, TalkType, Elements
    <3>2. Unsaid'
      BY <2>1, <2>5 DEF Conversed, Talk, Unsaid, AnsweredOnce, Busy
    <3>3. Settled(Len(log))'
      BY <2>1, <2>2, <2>5, MessageIs DEF Settled, Latest, Denied
    <3>4. Settling'
      BY <2>1, <2>5, <3>3, SettlesLatest
    <3> QED
      BY <2>1, <2>2, <2>4, <2>5, <3>1, <3>2, <3>4, Returns DEF Conversed, TalkType
  <2>6. CASE ~Latest.batch
    <3>1. answers' = Count(Denied(Latest)) /\ UNCHANGED hushed
      BY <2>1, <2>6
    <3>2. /\ answers' \in [Elements -> 0..2] /\ Unsaid'
          /\ \A k \in Denied(Latest) : answers'[<<Len(log), k>>] = 1
          /\ \A e \in Elements : e[1] # Len(log) => answers'[e] = answers[e]
      BY <1>2, <2>1, <2>3, <3>1, CountIs DEF Busy
    <3>3. Settled(Len(log))'
      BY <2>1, <2>2, <3>2, MessageIs DEF Settled, Latest, Denied
    <3>4. Settling'
      BY <2>1, <3>1, <3>2, <3>3, SettlesLatest
    <3> QED
      BY <2>1, <2>2, <2>4, <3>1, <3>2, <3>4, Returns DEF Conversed, TalkType
  <2> QED
    BY <2>5, <2>6
<1> QED
  BY <1>1, <1>2 DEF Recorded

\* Without a token nothing is asked.
LEMMA UnusableSays ==
  ASSUME Conversed, Unusable, UNCHANGED <<granted, inbox>>
  PROVE  Conversed'
<1>1. CASE pc \in {"open", "adopt"} /\ Go("failed") /\ UNCHANGED talk
  BY <1>1, NothingSaid, Silent DEF Go, Busy, Early
<1>2. CASE pc = "authorize" /\ Block
  BY <1>2, BlockSays DEF Busy
<1> QED
  BY <1>1, <1>2, RecordedSays DEF Unusable

\* The gateway's answer to a frame is the agent's, whatever it says.
LEMMA PostedSays == ASSUME Kept, Conversed, Posted PROVE Conversed'
<1>1. /\ wire # None /\ wire.what = "post" /\ wire.leg = "back" /\ pc = "post"
      /\ UNCHANGED <<granted, inbox, log, cleared, relayed, hushed>> /\ wire' = None
  BY DEF Posted, Go, Got, Quiet, daemon, server, Kept, Process, WireFits, Presenting
<1>2. log # <<>> /\ log \in Seq(Messages) /\ Latest \in Messages /\ Len(log) \in 1..MaxMessages
  <2>1. log # <<>> /\ log \in Seq(Messages) /\ Len(log) <= MaxMessages
    BY <1>1 DEF Conversed, Talk, Reading, TalkType, Busy
  <2> QED
    BY <2>1, LatestIs, Bounds
<1>3. /\ wire.reply \in {"frame", "nameless", "accepted", "refused", "lost"}
      /\ wire.reply = "frame" => ~Latest.batch
      /\ wire.reply = "accepted" => ~Latest.batch /\ ~Latest.elements[1].id
  BY <1>1 DEF Conversed, Talk, Posting
<1>4. Relaying'
  BY <1>1 DEF Conversed, Talk, Relaying, OnlyClearedIsRelayed, Of
<1>5. ~Latest.batch => CallsOf(Latest) \subseteq {1}
  BY <1>2, MessageIs
<1>6. CASE wire.reply = "frame"
  <2>1. answers' = Count({1}) /\ UNCHANGED stray /\ pc' = "read" /\ {1} \in SUBSET (1..2)
    BY <1>6 DEF Posted, Go
  <2>2. /\ answers' \in [Elements -> 0..2] /\ Unsaid'
        /\ answers'[<<Len(log), 1>>] = 1
        /\ \A e \in Elements : e[1] # Len(log) => answers'[e] = answers[e]
    BY <1>1, <2>1, CountIs DEF Busy
  <2>3. Settled(Len(log))'
    BY <1>1, <1>3, <1>5, <1>6, <2>2 DEF Settled, Latest
  <2>4. Settling'
    BY <1>1, <2>1, <2>2, <2>3, SettlesLatest
  <2> QED
    BY <1>1, <1>2, <1>4, <2>1, <2>2, <2>4, Returns DEF Conversed, TalkType
<1>7. CASE wire.reply \in {"nameless", "refused", "accepted"}
  <2>1. UNCHANGED answers /\ pc' = "read"
        /\ stray' = IF wire.reply = "accepted" THEN stray ELSE stray \cup Wanted
    BY <1>7 DEF Posted, Go
  <2>2. Wanted \subseteq Elements
    BY <1>2, MessageIs DEF Wanted, Elements, Latest
  <2>3. stray' \subseteq Elements /\ stray \subseteq stray'
    BY <2>1, <2>2 DEF Conversed, TalkType
  <2>4. Unsaid'
    BY <1>1, <2>1 DEF Conversed, Talk, Unsaid, AnsweredOnce, Busy
  <2>5. Settled(Len(log))'
    <3>1. CASE wire.reply = "accepted"
      BY <1>1, <1>3, <1>5, <3>1 DEF Settled, Latest
    <3>2. CASE wire.reply # "accepted"
      BY <1>1, <2>1, <3>2 DEF Settled, Wanted
    <3> QED
      BY <3>1, <3>2
  <2>6. Settling'
    BY <1>1, <2>1, <2>3, <2>5, SettlesLatest
  <2> QED
    BY <1>1, <1>2, <1>4, <2>1, <2>3, <2>4, <2>6, Returns DEF Conversed, TalkType
<1>8. CASE wire.reply = "lost"
  <2>1. UNCHANGED <<talk, inbox, granted>> /\ pc' = "failed"
    BY <1>1, <1>8 DEF Posted, Go, talk
  <2> QED
    BY <1>1, <2>1, NothingSaid, Silent DEF Busy, Early
<1> QED
  BY <1>3, <1>6, <1>7, <1>8

\* The next message, when those before it are settled.
LEMMA ReadSays == ASSUME Kept, Conversed, NEW m \in Messages, Read(m) PROVE Conversed'
<1>1. /\ pc = "read" /\ log' = Append(log, m) /\ cleared' = {} /\ wire' = None /\ Len(log) < MaxMessages
      /\ UNCHANGED <<relayed, inbox, answers, hushed, stray, granted>>
      /\ pc' = IF transport = "gateway" THEN "post" ELSE IF CallsOf(m) = {} THEN "relay" ELSE "authorize"
  BY DEF Read, server, daemon, Kept, Process, WireFits, Presenting
<1>2. log \in Seq(Messages) /\ Len(log) \in Nat /\ MaxMessages \in Nat
  BY Bounds DEF Conversed, TalkType
<1>3. /\ log' \in Seq(Messages) /\ Len(log') = Len(log) + 1 /\ log'[Len(log')] = m /\ log' # <<>>
      /\ DOMAIN log' = 1..(Len(log) + 1)
      /\ \A n \in DOMAIN log : n \in DOMAIN log' /\ n # Len(log') /\ log'[n] = log[n]
  BY <1>1, <1>2
<1>4. TalkType'
  BY <1>1, <1>3 DEF Conversed, TalkType
<1>5. Reading'
  BY <1>1, <1>2, <1>3 DEF Reading
<1>6. Todo' = CallsOf(m)
  BY <1>1, <1>3 DEF Todo
<1>7. Clearing'
  BY <1>1, <1>6 DEF Clearing
<1>8. Relaying'
  BY <1>1, <1>3 DEF Conversed, Talk, Relaying, OnlyClearedIsRelayed, Of
<1>9. Unsaid'
  <2>1. \A e \in Elements : e[1] \in Nat
    BY DEF Elements
  <2>2. \A e \in Elements : e[1] > Len(log') \/ e[1] = Len(log') => e[1] > Len(log)
    BY <1>2, <1>3, <2>1
  <2> QED
    BY <1>1, <2>2 DEF Conversed, Talk, Unsaid, AnsweredOnce
<1>10. Settling'
  <2> SUFFICES ASSUME NEW n \in DOMAIN log', n < Len(log') PROVE Settled(n)'
    BY <1>1 DEF Settling
  <2>1. n \in DOMAIN log
    BY <1>2, <1>3
  <2>2. Settled(n)
    BY <1>1, <2>1 DEF Conversed, Talk, Settling
  <2> QED
    BY <1>1, <1>3, <2>1, <2>2 DEF Settled
<1>11. Posting'
  BY <1>1 DEF Posting
<1> QED
  BY <1>4, <1>5, <1>7, <1>8, <1>9, <1>10, <1>11 DEF Conversed, Talk

\* What is relayed was asked about.
LEMMA RelayIsCleared ==
  ASSUME Conversed, pc = "relay", UNCHANGED <<log, granted>>, relayed' = relayed \cup ToServer
  PROVE  relayed' \subseteq Elements /\ Relaying' /\ ToServer \subseteq Elements
<1>1. log # <<>> /\ log \in Seq(Messages) /\ Len(log) <= MaxMessages
  BY DEF Conversed, Talk, Reading, TalkType, Busy
<1>2. Latest \in Messages /\ Len(log) \in 1..MaxMessages /\ Len(log) \in DOMAIN log
  BY <1>1, LatestIs, Bounds
<1>3. DOMAIN Latest.elements \subseteq 1..2 /\ CallsOf(Latest) \subseteq DOMAIN Latest.elements
  BY <1>2, MessageIs
<1>4. ToServer \subseteq Elements
  BY <1>2, <1>3 DEF ToServer, Elements, Latest
<1>5. \A k \in CallsOf(Latest) : <<Len(log), k>> \in granted
  BY DEF Conversed, Talk, Clearing, Todo, Latest
<1>6. \A e \in ToServer : e[1] \in DOMAIN log /\ (Of(e).call # None => e \in granted)
  BY <1>2, <1>5 DEF ToServer, Of, CallsOf, Latest
<1>7. Relaying'
  BY <1>6 DEF Conversed, Talk, Relaying, OnlyClearedIsRelayed, Of
<1> QED
  BY <1>4, <1>7 DEF Conversed, TalkType

\* A spawned server has what it is relayed to answer.
LEMMA RelayStdioSays == ASSUME Kept, Conversed, RelayStdio PROVE Conversed'
<1>1. /\ pc = "relay" /\ wire' = None
      /\ UNCHANGED <<log, cleared, answers, hushed, stray, granted>>
  BY DEF RelayStdio, daemon, Kept, Process, WireFits, Presenting
<1>2. CASE child # "runs"
  <2>1. UNCHANGED <<talk, inbox>> /\ pc' = "failed"
    BY <1>1, <1>2 DEF RelayStdio, talk
  <2> QED
    BY <1>1, <2>1, NothingSaid, Silent DEF Busy, Early
<1>3. CASE child = "runs"
  <2>1. relayed' = relayed \cup ToServer /\ inbox' = inbox \cup Wanted /\ pc' = "read"
    BY <1>3 DEF RelayStdio
  <2>2. log # <<>> /\ log \in Seq(Messages) /\ Len(log) <= MaxMessages
    BY <1>1 DEF Conversed, Talk, Reading, TalkType, Busy
  <2>3. Latest \in Messages /\ Len(log) \in 1..MaxMessages
    BY <2>2, LatestIs, Bounds
  <2>4. Wanted \subseteq Elements /\ \A e \in Wanted : e[1] = Len(log)
    BY <2>3, MessageIs DEF Wanted, Elements, Latest
  <2>5. Unsaid'
    <3>1. \A e \in Elements : e[1] > Len(log) => e \notin Wanted
      BY <2>3, <2>4
    <3>2. \A e \in Wanted : answers[e] = 0
      BY <1>1, <2>4 DEF Conversed, Talk, Unsaid, Busy
    <3> QED
      BY <1>1, <2>1, <3>1, <3>2 DEF Conversed, Talk, Unsaid, AnsweredOnce, Busy
  <2>6. Settled(Len(log))'
    BY <1>1, <2>1 DEF Settled, Wanted
  <2>7. Settling'
    BY <1>1, <2>1, <2>6, SettlesLatest
  <2>8. relayed' \subseteq Elements /\ Relaying'
    BY <1>1, <2>1, RelayIsCleared
  <2> QED
    BY <1>1, <2>1, <2>2, <2>4, <2>5, <2>7, <2>8, Returns DEF Conversed, TalkType
<1> QED
  BY <1>2, <1>3

\* A called server answers what it likes; the rest it let go, or nothing came.
LEMMA RelayHttpSays == ASSUME Kept, Conversed, RelayHttp PROVE Conversed'
<1>1. /\ pc = "relay" /\ wire' = None /\ relayed' = relayed \cup ToServer
      /\ UNCHANGED <<log, cleared, inbox, stray, granted>>
  BY DEF RelayHttp, daemon, server, Kept, Process, WireFits, Presenting
<1>2. log # <<>> /\ log \in Seq(Messages) /\ Len(log) <= MaxMessages
  BY <1>1 DEF Conversed, Talk, Reading, TalkType, Busy
<1>3. Latest \in Messages /\ Len(log) \in 1..MaxMessages
  BY <1>2, LatestIs, Bounds
<1>4. relayed' \subseteq Elements /\ Relaying'
  BY <1>1, RelayIsCleared
<1>5. ASSUME NEW answered \in SUBSET Wanted, answers' = Count({e[2] : e \in answered}),
             hushed' = hushed \cup (Wanted \ answered), pc' = "read"
      PROVE  Conversed'
  <2> DEFINE ks == {e[2] : e \in answered}
  <2>1. Wanted \subseteq Elements
    BY <1>3, MessageIs DEF Wanted, Elements, Latest
  <2>2. ks \in SUBSET (1..2)
    BY <2>1 DEF Elements
  <2>3. /\ answers' \in [Elements -> 0..2] /\ Unsaid'
        /\ \A k \in ks : answers'[<<Len(log), k>>] = 1
        /\ \A e \in Elements : e[1] # Len(log) => answers'[e] = answers[e]
    <3> HIDE DEF ks
    <3> QED
      BY <1>1, <1>5, <2>2, CountIs DEF Busy, ks
  <2>4. Settled(Len(log))'
    <3> SUFFICES ASSUME NEW k \in CallsOf(Latest), Latest.elements[k].id
                 PROVE  <<Len(log), k>> \in hushed' \/ answers'[<<Len(log), k>>] = 1
      BY <1>1 DEF Settled, Latest
    <3>1. <<Len(log), k>> \in Wanted
      BY DEF Wanted, Latest
    <3>2. <<Len(log), k>> \in answered => k \in ks
      OBVIOUS
    <3> QED
      BY <1>5, <2>3, <3>1, <3>2
  <2>5. Settling'
    BY <1>1, <1>5, <2>3, <2>4, SettlesLatest
  <2>6. hushed' \subseteq Elements
    BY <1>5, <2>1 DEF Conversed, TalkType
  <2> HIDE DEF ks
  <2> QED
    BY <1>1, <1>2, <1>4, <1>5, <2>3, <2>5, <2>6, Returns DEF Conversed, TalkType
<1>6. ASSUME pc' = "report", UNCHANGED <<answers, hushed>> PROVE Conversed'
  <2>1. TalkType'
    BY <1>1, <1>4, <1>6 DEF Conversed, TalkType
  <2>2. Reading' /\ Posting'
    BY <1>1, <1>2, <1>6 DEF Reading, Posting
  <2>3. Clearing'
    BY <1>1, <1>6 DEF Conversed, Talk, Clearing
  <2>4. Unsaid'
    BY <1>1, <1>6 DEF Conversed, Talk, Unsaid, AnsweredOnce, Busy
  <2>5. Settling'
    BY <1>1, <1>6 DEF Conversed, Talk, Settling, Settled
  <2> QED
    BY <1>4, <2>1, <2>2, <2>3, <2>4, <2>5 DEF Conversed, Talk
<1> QED
  BY <1>5, <1>6 DEF RelayHttp

\* The spawned server answers a call for the first time.
LEMMA ServerSays == ASSUME Conversed, NEW e \in inbox, ServerAnswers(e) PROVE Conversed'
<1>1. /\ inbox' = inbox \ {e} /\ answers' = [answers EXCEPT ![e] = @ + 1]
      /\ UNCHANGED <<log, cleared, relayed, hushed, stray, granted, pc, wire>>
  BY DEF ServerAnswers, self, daemon
<1>2. /\ e \in Elements /\ answers[e] = 0 /\ answers \in [Elements -> 0..2]
      /\ inbox \subseteq Elements
  BY DEF Conversed, Talk, Unsaid, TalkType
<1>3. \A f \in Elements : answers'[f] = IF f = e THEN 1 ELSE answers[f]
  BY <1>1, <1>2
<1>4. TalkType'
  BY <1>1, <1>2 DEF Conversed, TalkType
<1>5. Reading' /\ Posting'
  BY <1>1 DEF Conversed, Talk, Reading, Posting, Latest
<1>6. Clearing'
  BY <1>1 DEF Conversed, Talk, Clearing, Todo, Current
<1>7. Relaying'
  BY <1>1 DEF Conversed, Talk, Relaying, OnlyClearedIsRelayed, Of
<1>8. Unsaid'
  <2>1. \A f \in Elements : f[1] > Len(log) \/ (f[1] = Len(log) /\ pc \in Busy) => f # e
    BY DEF Conversed, Talk, Unsaid
  <2>2. \A f \in Elements : f[1] > Len(log) \/ (f[1] = Len(log) /\ pc \in Busy) => answers'[f] = 0 /\ f \notin inbox'
    BY <1>1, <1>3, <2>1 DEF Conversed, Talk, Unsaid
  <2>3. \A f \in inbox' : answers'[f] = 0
    BY <1>1, <1>2, <1>3 DEF Conversed, Talk, Unsaid
  <2>4. \A f \in Elements : answers'[f] <= 1
    BY <1>3 DEF Conversed, Talk, Unsaid, AnsweredOnce
  <2> QED
    BY <1>1, <2>2, <2>3, <2>4 DEF Unsaid, AnsweredOnce
<1>9. Settling'
  <2> SUFFICES ASSUME NEW n \in DOMAIN log, n < Len(log) \/ pc = "read",
                      NEW k \in CallsOf(log[n]), log[n].elements[k].id
               PROVE  <<n, k>> \in inbox' \cup hushed \cup stray \/ answers'[<<n, k>>] = 1
    BY <1>1 DEF Settling, Settled
  <2>1. <<n, k>> \in inbox \cup hushed \cup stray \/ answers[<<n, k>>] = 1
    BY DEF Conversed, Talk, Settling, Settled
  <2>2. <<n, k>> \in Elements
    <3>1. log \in Seq(Messages) /\ Len(log) <= MaxMessages /\ MaxMessages \in Nat
      BY Bounds DEF Conversed, TalkType, Talk, Reading
    <3>2. n \in 1..MaxMessages /\ log[n] \in Messages
      BY <3>1
    <3> QED
      BY <3>2, MessageIs DEF Elements
  <2> QED
    BY <1>1, <1>2, <1>3, <2>1, <2>2
<1> QED
  BY <1>4, <1>5, <1>6, <1>7, <1>8, <1>9 DEF Conversed, Talk

\* What happens to the wire, the daemon and the child says nothing either.
LEMMA WorldSays ==
  ASSUME Kept, Conversed,
         ChildEnds \/ Tick \/ Lose \/ Restart \/ RevokeIt \/ NewPolicy \/ UNCHANGED vars
  PROVE  Conversed'
<1>1. UNCHANGED <<talk, inbox, granted, pc>>
  BY DEF ChildEnds, Tick, Lose, Restart, RevokeIt, NewPolicy, vars, daemon, server, self
<1>2. UNCHANGED <<log, Latest, Current>>
  BY <1>1 DEF talk, Latest, Current, Todo
<1>3. CASE UNCHANGED wire
  <2>1. Allowing' /\ Posting'
    BY <1>1, <1>2, <1>3 DEF Conversed, Talk, Clearing, Posting, Allowing
  <2> QED
    BY <1>1, <2>1, Silent
<1>4. CASE wire # None /\ wire.left > 0 /\ wire' = [wire EXCEPT !.left = @ - 1]
  <2>1. /\ wire \in Wire /\ wire'.what = wire.what
        /\ wire'.leg = wire.leg /\ wire'.reply = wire.reply
    BY <1>4, TickIs DEF Kept, WireType
  <2>2. Allowing' /\ Posting'
    BY <1>1, <1>2, <1>4, <2>1 DEF Conversed, Talk, Clearing, Posting, Allowing
  <2> QED
    BY <1>1, <2>2, Silent
<1>5. CASE wire # None /\ wire' = [wire EXCEPT !.leg = "back", !.left = 0, !.reply = "lost"]
  <2>1. wire'.reply = "lost"
    BY <1>5, LostIs DEF Kept, WireType
  <2>2. Allowing' /\ Posting'
    BY <2>1 DEF Posting, Allowing
  <2> QED
    BY <1>1, <2>2, Silent
<1>6. UNCHANGED wire \/ (wire # None /\ wire.left > 0 /\ wire' = [wire EXCEPT !.left = @ - 1])
      \/ (wire # None /\ wire' = [wire EXCEPT !.leg = "back", !.left = 0, !.reply = "lost"])
  BY DEF ChildEnds, Tick, Lose, Restart, RevokeIt, NewPolicy, vars
<1> QED
  BY <1>3, <1>4, <1>5, <1>6

\* Whoever takes a step, no call is forgotten and none is answered twice.
LEMMA ConversedAlways == ASSUME Kept, LedgerType, Conversed, [Next]_vars PROVE Conversed'
<1>1. ASSUME Receive PROVE Conversed'
  <2>1. CASE Minted /\ Fails
    BY <2>1, UnusableSays DEF Minted, Quiet, daemon, server
  <2>2. CASE Noted
    BY <2>2, RecordedSays DEF Noted, Quiet, daemon, server
  <2> QED
    BY <1>1, <2>1, <2>2, QuietSays, AuthorizedSays, PostedSays DEF Receive
<1>2. ASSUME Decide PROVE Conversed'
  <2>1. /\ wire # None /\ wire.what = "authorize" /\ UNCHANGED <<talk, inbox, pc>>
        /\ \E allowed \in BOOLEAN : Verdict(allowed)
    BY <1>2 DEF Decide, Kept, Process, Legs, self, server
  <2> QED
    BY <2>1, VerdictSays
<1> QED
  BY <1>1, <1>2, SendSays, ArriveSays, QuietSays, ReadSays, RelayStdioSays, RelayHttpSays, ServerSays, WorldSays
     DEF Next, Progress

-----------------------------------------------------------------------------
(* The tokens. *)

Accounted == LedgerType /\ Ledger

\* Tokens end, one way or another.
Fades ==
  /\ tokens' \in Seq(Token) /\ Len(tokens') = Len(tokens)
  /\ \A t \in DOMAIN tokens :
       /\ tokens'[t].lineage = tokens[t].lineage /\ tokens'[t].expires = tokens[t].expires
       /\ tokens'[t].state \in {tokens[t].state, "revoked", "gone"}

\* What is known of each token that was issued.
LEMMA TokenIs ==
  ASSUME tokens \in Seq(Token)
  PROVE  /\ Len(tokens) \in Nat /\ DOMAIN tokens = 1..Len(tokens) /\ DOMAIN tokens \subseteq Nat
         /\ 0 \notin DOMAIN tokens
         /\ \A t \in DOMAIN tokens : /\ tokens[t].lineage \in Nat \ {0} /\ tokens[t].expires \in Nat
                                     /\ tokens[t].state \in {"active", "superseded", "revoked", "gone"}
<1>1. \A t \in DOMAIN tokens : tokens[t] \in Token
  OBVIOUS
<1> QED
  BY <1>1 DEF Token

\* A sequence with other states in it.
LEMMA StatesChange ==
  ASSUME tokens \in Seq(Token), NEW f, f = [t \in DOMAIN tokens |-> f[t]],
         \A t \in DOMAIN tokens : f[t] \in Token
  PROVE  f \in Seq(Token) /\ Len(f) = Len(tokens)
<1>1. Len(tokens) \in Nat /\ DOMAIN tokens = 1..Len(tokens)
  OBVIOUS
<1>2. f \in [1..Len(tokens) -> Token]
  BY <1>1
<1> QED
  BY <1>1, <1>2

\* Ending a lineage ends every token of it.
LEMMA WithoutFades ==
  ASSUME tokens \in Seq(Token), NEW lineage, tokens' = Without(lineage, tokens)
  PROVE  /\ Fades
         /\ \A t \in DOMAIN tokens : Lineage(t) = lineage => tokens'[t].state \in {"revoked", "gone"}
<1>1. \A t \in DOMAIN tokens :
        tokens'[t] = IF tokens[t].lineage = lineage /\ tokens[t].state # "gone"
                     THEN [tokens[t] EXCEPT !.state = "revoked"] ELSE tokens[t]
  BY DEF Without
<1>2. \A t \in DOMAIN tokens : tokens[t] \in Token
  OBVIOUS
<1>3. ASSUME NEW t \in DOMAIN tokens
      PROVE  /\ tokens'[t] \in Token
             /\ tokens'[t].lineage = tokens[t].lineage /\ tokens'[t].expires = tokens[t].expires
             /\ tokens'[t].state \in {tokens[t].state, "revoked"}
             /\ tokens[t].lineage = lineage => tokens'[t].state \in {"revoked", "gone"}
  <2>1. CASE tokens[t].lineage = lineage /\ tokens[t].state # "gone"
    <3>1. tokens'[t] = [lineage |-> tokens[t].lineage, expires |-> tokens[t].expires, state |-> "revoked"]
      BY <1>1, <1>2, <2>1 DEF Token
    <3> QED
      BY <1>2, <3>1 DEF Token
  <2>2. CASE ~(tokens[t].lineage = lineage /\ tokens[t].state # "gone")
    BY <1>1, <1>2, <2>2 DEF Token
  <2> QED
    BY <2>1, <2>2
<1>4. tokens' = [t \in DOMAIN tokens |-> tokens'[t]]
  BY DEF Without
<1>5. tokens' \in Seq(Token) /\ Len(tokens') = Len(tokens)
  BY <1>3, <1>4, StatesChange
<1> QED
  BY <1>3, <1>5 DEF Fades, Lineage

\* A restart ends every token.
LEMMA RestartFades ==
  ASSUME tokens \in Seq(Token), tokens' = [t \in DOMAIN tokens |-> [tokens[t] EXCEPT !.state = "gone"]]
  PROVE  Fades /\ \A t \in DOMAIN tokens : tokens'[t].state = "gone"
<1>1. \A t \in DOMAIN tokens : tokens'[t] = [tokens[t] EXCEPT !.state = "gone"]
  OBVIOUS
<1>2. \A t \in DOMAIN tokens : tokens[t] \in Token
  OBVIOUS
<1>3. ASSUME NEW t \in DOMAIN tokens
      PROVE  /\ tokens'[t] \in Token /\ tokens'[t].state = "gone"
             /\ tokens'[t].lineage = tokens[t].lineage /\ tokens'[t].expires = tokens[t].expires
  <2>1. tokens'[t] = [lineage |-> tokens[t].lineage, expires |-> tokens[t].expires, state |-> "gone"]
    BY <1>1, <1>2 DEF Token
  <2> QED
    BY <1>2, <2>1 DEF Token
<1>4. tokens' = [t \in DOMAIN tokens |-> tokens'[t]]
  OBVIOUS
<1>5. tokens' \in Seq(Token) /\ Len(tokens') = Len(tokens)
  BY <1>3, <1>4, StatesChange
<1> QED
  BY <1>3, <1>5 DEF Fades

\* What ends neither comes back nor is renewed away from, and keeps its lineage and its time.
LEMMA FadedIs ==
  ASSUME tokens \in Seq(Token), Fades, now \in Nat, now' \in Nat, now <= now'
  PROVE  /\ DOMAIN tokens' = DOMAIN tokens
         /\ \A t \in DOMAIN tokens :
              /\ Lineage(t)' = Lineage(t) /\ tokens'[t].expires = tokens[t].expires
              /\ Standing(t)' = "active" => Standing(t) = "active"
              /\ tokens'[t].state = "superseded" => tokens[t].state = "superseded"
<1>1. DOMAIN tokens' = DOMAIN tokens
  BY TokenIs DEF Fades
<1>2. ASSUME NEW t \in DOMAIN tokens
      PROVE  /\ Lineage(t)' = Lineage(t) /\ tokens'[t].expires = tokens[t].expires
             /\ Standing(t)' = "active" => Standing(t) = "active"
             /\ tokens'[t].state = "superseded" => tokens[t].state = "superseded"
  <2>1. /\ tokens'[t].lineage = tokens[t].lineage /\ tokens'[t].expires = tokens[t].expires
        /\ tokens'[t].state \in {tokens[t].state, "revoked", "gone"}
    BY DEF Fades
  <2>2. tokens[t].expires \in Nat
    BY TokenIs
  <2>3. Standing(t)' = "active" => tokens'[t].state = "active" /\ ~(tokens[t].expires <= now')
    BY <2>1 DEF Standing
  <2>4. ~(tokens[t].expires <= now') => ~(tokens[t].expires <= now)
    BY <2>2
  <2>5. Standing(t)' = "active" => Standing(t) = "active"
    BY <2>1, <2>3, <2>4 DEF Standing
  <2> QED
    BY <2>1, <2>5 DEF Lineage
<1> QED
  BY <1>1, <1>2

\* Nothing fades when nothing happens to the tokens.
LEMMA StaysFades == ASSUME tokens \in Seq(Token), UNCHANGED tokens PROVE Fades
BY DEF Fades

\* The request on the wire goes on, or is over, while tokens end and no new one is issued.
Follows ==
  /\ wire' = None \/ (wire # None /\ wire' # None /\ wire'.what = wire.what /\ wire'.cred = wire.cred)
  /\ wire' # None /\ wire'.reply = "issued" =>
       wire.reply = "issued" /\ wire'.life = wire.life /\ now' + wire'.left <= now + wire.left
  /\ wire' # None /\ wire'.leg = "to" => wire.leg = "to" /\ now' + wire'.left <= now + wire.left
  /\ wire # None /\ wire.reply = "issued" =>
       \/ wire' # None /\ wire'.reply = "issued"
       \/ Lineage(Len(tokens)) \in astray'
       \/ \A t \in DOMAIN tokens : tokens'[t].state = "gone"
  /\ wire # None /\ wire.leg = "to" /\ wire.what = "revoke" =>
       \/ wire' # None /\ wire'.leg = "to"
       \/ \A t \in DOMAIN tokens : t = wire.cred => Standing(t)' # "active" \/ Lineage(t) \in astray'
  /\ wire' # None /\ wire.what = "renew" /\ wire'.leg = "back" =>
       \/ wire.leg = "back"
       \/ \A t \in DOMAIN tokens : t = session.token => Standing(t)' # "active" \/ Lineage(t) \in astray'

\* The rest of the world goes on.
Goes ==
  /\ now' \in 0..MaxTime /\ now <= now' /\ policy' \in Policy /\ faults' \in 0..MaxFaults
  /\ astray \subseteq astray' /\ astray' \subseteq DOMAIN tokens /\ replays' \subseteq astray'
  /\ session' = session /\ (strict' = strict \/ wire' = None)
  /\ \A t \in DOMAIN tokens : Lineage(t) \notin astray' => policy'.known /\ policy'.mode # "off"

\* What is left of a way, and the time, together never grow.
LEMMA Later ==
  ASSUME NEW n \in Nat, NEW m \in Nat, NEW k \in Nat, NEW l \in Nat, NEW f \in Nat, NEW end \in Nat,
         m + k <= n + l, n + f + l <= end
  PROVE  m + f + k <= end
OBVIOUS

\* Then every token is where it is said to be.
LEMMA AccountFollows ==
  ASSUME Accounted, WireType, WireType', Legs, Fades, Goes, Follows
  PROVE  Accounted'
<1>1. /\ now \in Nat /\ now' \in Nat /\ now <= now' /\ tokens \in Seq(Token) /\ Len(tokens) \in Nat
      /\ DOMAIN tokens = 1..Len(tokens) /\ Trip \in Nat
  BY Bounds, Timing, TokenIs DEF Accounted, LedgerType, Goes
<1>2. /\ DOMAIN tokens' = DOMAIN tokens /\ Len(tokens') = Len(tokens)
      /\ \A t \in DOMAIN tokens :
           /\ Lineage(t)' = Lineage(t) /\ tokens'[t].expires = tokens[t].expires
           /\ Standing(t)' = "active" => Standing(t) = "active"
           /\ tokens'[t].state = "superseded" => tokens[t].state = "superseded"
  BY <1>1, FadedIs DEF Fades
<1>3. LedgerType'
  BY <1>2 DEF Accounted, LedgerType, Goes, Fades
<1>4. wire' # None => wire # None /\ wire'.what = wire.what /\ wire'.cred = wire.cred
  BY DEF Follows
<1>5. Creds'
  BY <1>2, <1>4 DEF Accounted, Ledger, Creds, Goes
<1>6. Lineages'
  BY <1>2 DEF Accounted, Ledger, Lineages, Goes
<1>7. Issued'
  <2> SUFFICES ASSUME wire' # None, wire'.reply = "issued" PROVE Issued'
    BY DEF Issued
  <2>1. /\ wire # None /\ wire.reply = "issued" /\ wire'.life = wire.life
        /\ now' + wire'.left <= now + wire.left
    BY <1>4 DEF Follows
  <2>2. /\ tokens # <<>> /\ wire.life > 2 * Trip
        /\ now + wire.life + wire.left <= tokens[Len(tokens)].expires + Trip
        /\ tokens[Len(tokens)].state # "superseded"
        /\ wire.what = "renew" => Lineage(Len(tokens)) = Lineage(wire.cred)
    BY <2>1 DEF Accounted, Ledger, Issued
  <2>3. Len(tokens) \in DOMAIN tokens /\ Len(tokens) # 0
    BY <1>1, <2>2
  <2>4. tokens' # <<>> /\ tokens'[Len(tokens')].state # "superseded"
    BY <1>2, <2>2, <2>3
  <2>5. wire.life \in Nat /\ wire.left \in Nat /\ wire'.left \in Nat
    BY <1>1, <1>4 DEF WireType, Wire
  <2>6. tokens[Len(tokens)].expires \in Nat
    BY <1>1, <2>3, TokenIs
  <2>7. now' + wire'.life + wire'.left <= tokens'[Len(tokens')].expires + Trip
    <3>1. tokens'[Len(tokens')].expires = tokens[Len(tokens)].expires
      BY <1>2, <2>3
    <3> DEFINE end == tokens[Len(tokens)].expires + Trip
    <3>2. end \in Nat /\ now + wire.life + wire.left <= end
      BY <1>1, <2>2, <2>6
    <3>3. now \in Nat /\ now' \in Nat
      BY <1>1
    <3> HIDE DEF end
    <3>4. now' + wire.life + wire'.left <= end
      BY <2>1, <2>5, <3>2, <3>3, Later
    <3> QED
      BY <2>1, <3>1, <3>4 DEF end
  <2>8. wire'.what = "renew" => (Lineage(Len(tokens)) = Lineage(wire.cred))'
    BY <1>2, <1>4, <2>2, <2>3 DEF Accounted, Ledger, Creds, Lineage
  <2> QED
    BY <2>1, <2>2, <2>4, <2>7, <2>8 DEF Issued
<1>8. Times'
  <2>1. session' # None => session'.expires <= tokens'[session'.token].expires + Trip
    BY <1>2 DEF Accounted, LedgerType, Ledger, Times, Goes
  <2>2. ASSUME wire' # None, wire'.leg = "to", wire'.what \in Presenting, wire'.cred # 0
        PROVE  now' + wire'.left < tokens'[wire'.cred].expires
    <3>1. /\ wire # None /\ wire.leg = "to" /\ wire.what \in Presenting /\ wire.cred # 0
          /\ now' + wire'.left <= now + wire.left /\ wire'.cred = wire.cred
      BY <1>4, <2>2 DEF Follows
    <3>2. now + wire.left < tokens[wire.cred].expires /\ wire.cred \in DOMAIN tokens
      BY <3>1 DEF Accounted, Ledger, Times, Creds, Presenting
    <3>3. wire.left \in Nat /\ wire'.left \in Nat /\ tokens[wire.cred].expires \in Nat
      BY <1>1, <2>2, <3>1, <3>2, TokenIs DEF WireType, Wire
    <3>4. tokens'[wire'.cred].expires = tokens[wire.cred].expires
      BY <1>2, <3>1, <3>2
    <3> QED
      BY <1>1, <3>1, <3>2, <3>3, <3>4
  <2> QED
    BY <2>1, <2>2 DEF Times
<1>9. ASSUME NEW t \in DOMAIN tokens, RenewedAway(t),
             wire # None /\ wire.what = "renew" => Lineage(t) = Lineage(wire.cred)
      PROVE  RenewedAway(t)'
  <2> SUFFICES ASSUME tokens'[t].state = "superseded", Lineage(t) \notin astray'
               PROVE  wire' # None /\ wire'.what = "renew" /\ wire'.reply = "issued"
    BY <1>2 DEF RenewedAway
  <2>1. wire # None /\ wire.what = "renew" /\ wire.reply = "issued"
    BY <1>2, <1>9 DEF RenewedAway, Goes
  <2>2. Lineage(Len(tokens)) = Lineage(t)
    BY <1>9, <2>1 DEF Accounted, Ledger, Issued
  <2>3. tokens'[t].state # "gone"
    OBVIOUS
  <2> QED
    BY <1>4, <2>1, <2>2, <2>3 DEF Follows
<1>10. Successors'
  <2>1. (session # None => RenewedAway(session.token))'
    <3>1. session # None => session.token \in DOMAIN tokens /\ RenewedAway(session.token)
      BY DEF Accounted, LedgerType, Ledger, Successors
    <3>2. wire # None /\ wire.what = "renew" => wire.cred = session.token
      BY DEF Accounted, Ledger, Creds
    <3> QED
      BY <1>9, <3>1, <3>2 DEF Goes, RenewedAway, Lineage
  <2>2. (wire # None /\ wire.cred \in DOMAIN tokens => RenewedAway(wire.cred))'
    <3>1. wire # None /\ wire.cred \in DOMAIN tokens => RenewedAway(wire.cred)
      BY DEF Accounted, Ledger, Successors
    <3> QED
      BY <1>2, <1>4, <1>9, <3>1 DEF RenewedAway, Lineage
  <2> QED
    BY <2>1, <2>2 DEF Successors, NoFalseReplay, Goes
<1>11. Live'
  <2>1. ASSUME NEW t \in DOMAIN tokens, Standing(t)' = "active", Lineage(t) \notin astray' PROVE Minded(t)'
    <3>1. Minded(t) /\ Lineage(t) \notin astray
      BY <1>2, <2>1 DEF Accounted, Ledger, Live, Goes
    <3>2. CASE session # None /\ t = session.token
      BY <3>2 DEF Minded, Goes
    <3>3. CASE wire # None /\ wire.reply = "issued" /\ t = Len(tokens)
      <4>1. tokens'[t].state # "gone"
        BY <2>1 DEF Standing
      <4>2. wire' # None /\ wire'.reply = "issued"
        BY <2>1, <3>3, <4>1 DEF Follows
      <4> QED
        BY <1>2, <3>3, <4>2 DEF Minded
    <3>4. CASE wire # None /\ wire.leg = "to" /\ wire.what = "revoke" /\ t = wire.cred
      <4>2. wire' # None /\ wire'.leg = "to"
        BY <2>1, <3>4 DEF Follows
      <4> QED
        BY <1>4, <3>4, <4>2 DEF Minded
    <3> QED
      BY <3>1, <3>2, <3>3, <3>4 DEF Minded
  <2>2. \A t \in DOMAIN tokens : Lineage(t) \in astray' => Minded(t)'
    BY <1>2 DEF Minded
  <2>3. ASSUME wire' # None, session' # None, wire'.what = "mint" \/ (wire'.what = "renew" /\ wire'.leg = "back"),
               NEW t \in DOMAIN tokens, t = session.token, Standing(t)' = "active", Lineage(t) \notin astray'
        PROVE  FALSE
    <3>1. session # None /\ session' = session /\ Lineage(t) \notin astray /\ Standing(t) = "active"
      BY <1>2, <2>3 DEF Goes
    <3>2. wire # None /\ (wire.what = "mint" \/ (wire.what = "renew" /\ wire.leg = "back"))
      BY <1>4, <2>3 DEF Follows
    <3> QED
      BY <2>3, <3>1, <3>2 DEF Accounted, Ledger, Live
  <2>4. session' # None => session' = session /\ session.token \in DOMAIN tokens
    BY DEF Goes, Accounted, LedgerType
  <2>5. /\ (\A t \in DOMAIN tokens : Standing(t) = "active" => Minded(t))'
        /\ (wire # None /\ session # None /\ (wire.what = "mint" \/ (wire.what = "renew" /\ wire.leg = "back"))
             /\ Standing(session.token) = "active" => Lineage(session.token) \in astray)'
    <3>1. (\A t \in DOMAIN tokens : Standing(t) = "active" => Minded(t))'
      BY <1>2, <2>1, <2>2
    <3>2. (wire # None /\ session # None /\ (wire.what = "mint" \/ (wire.what = "renew" /\ wire.leg = "back"))
             /\ Standing(session.token) = "active" => Lineage(session.token) \in astray)'
      BY <1>2, <2>3, <2>4 DEF Lineage, Standing
    <3> QED
      BY <3>1, <3>2
  <2> QED
    BY <2>5 DEF Live
<1> QED
  BY <1>3, <1>5, <1>6, <1>7, <1>8, <1>10, <1>11 DEF Accounted, Ledger


\* A step that leaves the tokens and the world alone, and goes on with its request or ends it.
LEMMA AccountStays ==
  ASSUME Accounted, WireType, WireType', Legs, Follows,
         UNCHANGED <<daemon, session, faults, astray>>, strict' = strict \/ wire' = None
  PROVE  Accounted'
<1>1. Fades
  BY StaysFades DEF Accounted, LedgerType, daemon
<1>2. Goes
  <2>1. now \in 0..MaxTime /\ now <= now
    BY Bounds DEF Accounted, LedgerType
  <2>2. replays \subseteq astray
    BY DEF Accounted, Ledger, Successors, NoFalseReplay
  <2> QED
    BY <2>1, <2>2 DEF Goes, Accounted, LedgerType, Ledger, Lineages, daemon
<1> QED
  BY <1>1, <1>2, AccountFollows

\* Nothing is done about tokens.
LEMMA AccountAlone ==
  ASSUME Accounted, Kept, UNCHANGED <<daemon, wire, session, strict, faults, astray>>
  PROVE  Accounted'
<1>1. now' = now /\ now \in Nat
  BY Bounds DEF daemon, Accounted, LedgerType
<1>2. wire # None => now' + wire'.left <= now + wire.left
  <2>1. wire # None => wire.left \in Nat
    BY Timing DEF Kept, WireType, Wire
  <2> QED
    BY <1>1, <2>1
<1>3. Follows
  BY <1>2 DEF Follows
<1>4. WireType' /\ WireType /\ Legs
  BY DEF Kept, WireType, Process
<1> QED
  BY <1>3, <1>4, AccountStays

\* An exchange that brought no token is over.
LEMMA AccountCloses ==
  ASSUME Accounted, Kept, wire # None, wire.leg = "back", wire.reply # "issued", wire' = None,
         UNCHANGED <<daemon, session, faults, astray>>
  PROVE  Accounted'
<1>1. Follows
  BY DEF Follows
<1>2. WireType' /\ WireType /\ Legs
  BY DEF Kept, WireType, Process
<1> QED
  BY <1>1, <1>2, AccountStays

\* What the process does with an answer that brought none.
LEMMA ClosesAccounts ==
  ASSUME Accounted, Kept,
         \/ Probed \/ Opened \/ Authorized \/ Noted \/ Surrendered \/ Pinged \/ Posted \/ (Minted /\ Fails)
  PROVE  Accounted'
<1>1. ASSUME Probed \/ Opened \/ Authorized \/ Noted \/ Surrendered \/ Pinged \/ Posted
      PROVE  /\ wire # None /\ wire.leg = "back" /\ wire.what \notin {"mint", "renew"}
             /\ UNCHANGED <<daemon, session, faults, astray>>
  BY <1>1 DEF Probed, Opened, Authorized, Noted, Surrendered, Pinged, Posted, Got, Quiet
<1>2. ASSUME Minted, Fails
      PROVE  /\ wire # None /\ wire.leg = "back" /\ wire.reply # "issued"
             /\ UNCHANGED <<daemon, session, faults, astray>>
  BY <1>2 DEF Minted, Got, Quiet, Fails
<1>3. wire' = None
  <2>1. LedgerType
    BY DEF Accounted
  <2> QED
    BY <2>1, ReceiveCloses DEF Closes
<1>4. wire.reply = "issued" /\ wire # None => wire.what \in {"mint", "renew"}
  BY DEF Kept, Process, Legs
<1> QED
  BY <1>1, <1>2, <1>3, <1>4, AccountCloses

\* A request goes on, without a token coming of it.
LEMMA AccountOnTheWire ==
  ASSUME Accounted, Kept, WireType', wire # None, wire' # None,
         wire'.what = wire.what, wire'.cred = wire.cred, wire.what \notin {"mint", "renew", "revoke"},
         wire'.leg # "to", wire'.reply # "issued", UNCHANGED <<now, policy, tokens, replays>>,
         UNCHANGED <<session, faults, astray, strict>>
  PROVE  Accounted'
<1>1. wire.reply # "issued"
  BY DEF Kept, Process, Legs
<1>2. Follows
  BY <1>1 DEF Follows
<1>3. Fades
  BY StaysFades DEF Accounted, LedgerType
<1>4. Goes
  <2>1. now \in 0..MaxTime /\ now <= now
    BY Bounds DEF Accounted, LedgerType
  <2>2. replays \subseteq astray
    BY DEF Accounted, Ledger, Successors, NoFalseReplay
  <2> QED
    BY <2>1, <2>2 DEF Goes, Accounted, LedgerType, Ledger, Lineages
<1> QED
  BY <1>2, <1>3, <1>4, AccountFollows DEF Kept, Process

\* A refused request: whoever is taken for a thief had an answer lost, and what is refused a
\* renewal or its end has ended, or the policy is another than the one it was issued under.
LEMMA RefusalAccounts ==
  ASSUME Accounted, Kept, WireType', wire # None, wire.leg = "to", Refusal,
         UNCHANGED <<now, policy, session, faults, astray, strict>>
  PROVE  Accounted'
<1>1. /\ wire.reply = None /\ wire' \in Wire /\ wire'.what = wire.what /\ wire'.cred = wire.cred
      /\ wire'.leg = "back" /\ wire'.reply = "refused"
  <2>1. Reply("refused") /\ "refused" \in Replies /\ wire \in Wire /\ wire.reply = None
    BY DEF Refusal, RefuseRequest, Replies, Kept, WireType, Process, Legs
  <2> QED
    BY <2>1, ReplyIs
<1>2. wire' # None
  BY <1>1, NoneIsNothing
<1>3. wire.reply # "issued"
  BY <1>1, NoneIsNothing DEF Replies
<1>4. Fades
  <2>1. CASE Replayed
    BY <2>1, WithoutFades DEF Refusal, RefuseRequest, Accounted, LedgerType
  <2>2. CASE ~Replayed
    BY <2>2, StaysFades DEF Refusal, RefuseRequest, Accounted, LedgerType
  <2> QED
    BY <2>1, <2>2
<1>5. replays' \subseteq astray
  <2>1. replays \subseteq astray
    BY DEF Accounted, Ledger, Successors, NoFalseReplay
  <2>2. CASE Replayed
    <3>1. wire.cred \in DOMAIN tokens /\ tokens[wire.cred].state = "superseded"
      BY <2>2 DEF Replayed, Standing
    <3>2. Lineage(wire.cred) \in astray
      BY <1>3, <3>1 DEF Accounted, Ledger, Successors, RenewedAway
    <3>3. replays' = replays \cup {Lineage(wire.cred)}
      BY <2>2 DEF Refusal, RefuseRequest
    <3> QED
      BY <2>1, <3>2, <3>3
  <2>3. CASE ~Replayed
    BY <2>1, <2>3 DEF Refusal, RefuseRequest
  <2> QED
    BY <2>2, <2>3
<1>6. Goes
  <2>1. now \in 0..MaxTime /\ now <= now
    BY Bounds DEF Accounted, LedgerType
  <2> QED
    BY <1>5, <2>1 DEF Goes, Accounted, LedgerType, Ledger, Lineages
<1>7. ASSUME wire.what \in {"renew", "revoke"}, NEW t \in DOMAIN tokens, t = wire.cred,
             Standing(t)' = "active"
      PROVE  Lineage(t) \in astray'
  <2>1. Standing(t) = "active"
    <3>1. now \in Nat /\ now' \in Nat /\ now <= now' /\ tokens \in Seq(Token)
      BY Bounds DEF Accounted, LedgerType
    <3> QED
      BY <1>4, <1>7, <3>1, FadedIs
  <2>2. ~policy.known \/ policy.mode = "off"
    BY <1>7, <2>1 DEF Refusal, Refusable
  <2> QED
    BY <2>2 DEF Accounted, Ledger, Lineages
<1>8. wire.what = "renew" => wire.cred = session.token
  BY DEF Accounted, Ledger, Creds
<1>9. Follows
  BY <1>1, <1>2, <1>3, <1>7, <1>8 DEF Follows
<1> QED
  BY <1>4, <1>6, <1>9, AccountFollows DEF Kept, Process

\* A token handed back ends with its lineage.
LEMMA RevokingAccounts ==
  ASSUME Accounted, Kept, WireType', wire # None, wire.leg = "to", Revoking,
         UNCHANGED <<now, policy, session, faults, astray, strict>>
  PROVE  Accounted'
<1>1. /\ wire.reply = None /\ wire' \in Wire /\ wire'.what = wire.what /\ wire'.cred = wire.cred
      /\ wire'.leg = "back" /\ wire'.reply = "ok" /\ wire.what = "revoke"
  <2>1. Reply("ok") /\ "ok" \in Replies /\ wire \in Wire /\ wire.reply = None /\ wire.what = "revoke"
    BY DEF Revoking, Replies, Kept, WireType, Process, Legs
  <2> QED
    BY <2>1, ReplyIs
<1>2. wire' # None /\ wire.reply # "issued"
  BY <1>1, NoneIsNothing DEF Replies
<1>3. Fades /\ \A t \in DOMAIN tokens : t = wire.cred => tokens'[t].state \in {"revoked", "gone"}
  BY WithoutFades DEF Revoking, Accounted, LedgerType
<1>4. Goes
  <2>1. now \in 0..MaxTime /\ now <= now
    BY Bounds DEF Accounted, LedgerType
  <2>2. replays' \subseteq astray
    BY DEF Accounted, Ledger, Successors, NoFalseReplay, Revoking
  <2> QED
    BY <2>1, <2>2 DEF Goes, Accounted, LedgerType, Ledger, Lineages
<1>5. \A t \in DOMAIN tokens : t = wire.cred => Standing(t)' # "active"
  BY <1>3 DEF Standing
<1>6. Follows
  BY <1>1, <1>2, <1>5 DEF Follows
<1> QED
  BY <1>3, <1>4, <1>6, AccountFollows DEF Kept, Process

\* An answer is lost, and nobody but the daemon knows what came of the request.
LEMMA LoseAccounts == ASSUME Accounted, Kept, WireType', Lose PROVE Accounted'
<1>1. /\ wire # None /\ wire \in Wire /\ UNCHANGED <<now, policy, tokens, replays, session, strict>>
      /\ wire' = [wire EXCEPT !.leg = "back", !.left = 0, !.reply = "lost"]
      /\ faults < MaxFaults /\ faults' = faults + 1
  BY DEF Lose, Fault, daemon, self, Kept, WireType
<1>2. /\ wire' \in Wire /\ wire'.what = wire.what /\ wire'.cred = wire.cred
      /\ wire'.leg = "back" /\ wire'.reply = "lost"
  BY <1>1, LostIs
<1>3. wire' # None
  BY <1>2, NoneIsNothing
<1>4. astray' = IF wire.reply = "issued" THEN astray \cup {Lineage(Len(tokens))}
                ELSE IF wire.what \in {"renew", "revoke"} THEN astray \cup {Lineage(wire.cred)} ELSE astray
  BY DEF Lose
<1>5. wire.leg = "to" => wire.reply # "issued"
  BY <1>1, NoneIsNothing DEF Kept, Process, Legs, Replies
<1>6. Fades
  BY <1>1, StaysFades DEF Accounted, LedgerType
<1>7. astray \subseteq astray' /\ astray' \subseteq DOMAIN tokens
  <2>1. wire.reply = "issued" => Len(tokens) \in DOMAIN tokens
    BY <1>1 DEF Accounted, LedgerType, Ledger, Issued
  <2>2. wire.what \in {"renew", "revoke"} => wire.cred \in DOMAIN tokens
    BY <1>1 DEF Accounted, Ledger, Creds
  <2> QED
    BY <1>4, <2>1, <2>2 DEF Accounted, LedgerType, Ledger, Lineages
<1>8. Goes
  <2>1. now \in 0..MaxTime /\ now <= now /\ faults' \in 0..MaxFaults
    BY <1>1, Bounds DEF Accounted, LedgerType
  <2>2. replays' \subseteq astray'
    BY <1>1, <1>7 DEF Accounted, Ledger, Successors, NoFalseReplay
  <2>3. \A t \in DOMAIN tokens : Lineage(t) \notin astray' => policy'.known /\ policy'.mode # "off"
    BY <1>1, <1>7 DEF Accounted, Ledger, Lineages
  <2> QED
    BY <1>1, <1>7, <2>1, <2>2, <2>3 DEF Goes, Accounted, LedgerType
<1>9. wire.what = "renew" => wire.cred = session.token /\ wire.leg # "parked"
  BY <1>1 DEF Accounted, Ledger, Creds, Kept, Process, Legs
<1>10. wire.leg \in {"to", "parked", "back"}
  BY <1>1 DEF Wire
<1>11. Follows
  BY <1>1, <1>2, <1>3, <1>4, <1>5, <1>9, <1>10 DEF Follows
<1> QED
  BY <1>6, <1>8, <1>11, AccountFollows DEF Kept, Process

\* The daemon restarts, and no token it issued is good for anything.
LEMMA RestartAccounts == ASSUME Accounted, Kept, WireType', Restart PROVE Accounted'
<1>1. /\ UNCHANGED <<now, policy, replays, session, strict, astray>>
      /\ tokens' = [t \in DOMAIN tokens |-> [tokens[t] EXCEPT !.state = "gone"]]
      /\ faults < MaxFaults /\ faults' = faults + 1
  BY DEF Restart, Fault, self
<1>2. Fades /\ \A t \in DOMAIN tokens : tokens'[t].state = "gone"
  BY <1>1, RestartFades DEF Accounted, LedgerType
<1>3. \A t \in DOMAIN tokens : Standing(t)' # "active"
  BY <1>2 DEF Standing
<1>4. Goes
  <2>1. now \in 0..MaxTime /\ now <= now /\ faults' \in 0..MaxFaults
    BY <1>1, Bounds DEF Accounted, LedgerType
  <2>2. replays' \subseteq astray'
    BY <1>1 DEF Accounted, Ledger, Successors, NoFalseReplay
  <2> QED
    BY <1>1, <2>1, <2>2 DEF Goes, Accounted, LedgerType, Ledger, Lineages
<1>5. wire = None => wire' = None
  BY DEF Restart
<1>6. wire # None => /\ wire' \in Wire /\ wire'.what = wire.what /\ wire'.cred = wire.cred
                     /\ wire'.leg = "back" /\ wire'.reply = "lost"
  <2> SUFFICES ASSUME wire # None
               PROVE  /\ wire' \in Wire /\ wire'.what = wire.what /\ wire'.cred = wire.cred
                      /\ wire'.leg = "back" /\ wire'.reply = "lost"
    OBVIOUS
  <2>1. wire \in Wire /\ wire' = [wire EXCEPT !.leg = "back", !.left = 0, !.reply = "lost"]
    BY DEF Restart, Kept, WireType
  <2> QED
    BY <2>1, LostIs
<1>7. wire # None => wire' # None
  BY <1>6, NoneIsNothing
<1>9. Follows
  BY <1>2, <1>3, <1>5, <1>6, <1>7 DEF Follows
<1> QED
  BY <1>2, <1>4, <1>9, AccountFollows DEF Kept, Process

\* Somebody ends a lineage, or the operator changes what is enforced.
LEMMA OthersAccount == ASSUME Accounted, Kept, RevokeIt \/ NewPolicy PROVE Accounted'
<1>1. /\ UNCHANGED <<now, replays, session, strict, wire>>
      /\ faults < MaxFaults /\ faults' = faults + 1
  BY DEF RevokeIt, NewPolicy, Fault, self
<1>2. /\ now \in Nat /\ now \in 0..MaxTime /\ now <= now /\ faults' \in 0..MaxFaults
      /\ replays \subseteq astray /\ tokens \in Seq(Token)
  BY <1>1, Bounds DEF Accounted, LedgerType, Ledger, Successors, NoFalseReplay
<1>3. wire # None => now + wire.left <= now + wire.left
  <2>1. wire # None => wire.left \in Nat
    BY Timing DEF Kept, WireType, Wire
  <2> QED
    BY <1>2, <2>1
<1>4. Follows
  BY <1>1, <1>3 DEF Follows
<1>5. CASE RevokeIt
  <2>1. Fades
    BY <1>2, <1>5, WithoutFades DEF RevokeIt
  <2>2. Goes
    BY <1>1, <1>2, <1>5 DEF Goes, RevokeIt, Accounted, LedgerType, Ledger, Lineages
  <2>3. WireType'
    BY <1>1 DEF Kept, WireType
  <2> QED
    BY <1>4, <2>1, <2>2, <2>3, AccountFollows DEF Kept, Process
<1>6. CASE NewPolicy
  <2>1. /\ policy' \in Policy /\ UNCHANGED tokens
        /\ astray' = astray \cup {Lineage(t) : t \in DOMAIN tokens}
    BY <1>6, PoliciesArePolicies DEF NewPolicy
  <2>2. Fades
    BY <1>2, <2>1, StaysFades
  <2>3. Goes
    BY <1>1, <1>2, <2>1 DEF Goes, Accounted, LedgerType, Ledger, Lineages
  <2>4. WireType'
    BY <1>1 DEF Kept, WireType
  <2> QED
    BY <1>4, <2>2, <2>3, <2>4, AccountFollows DEF Kept, Process
<1> QED
  BY <1>5, <1>6

\* Time passes.
LEMMA TickAccounts == ASSUME Accounted, Kept, WireType', Tick PROVE Accounted'
<1>1. /\ UNCHANGED <<policy, tokens, replays, session, strict, astray, faults>>
      /\ now < MaxTime /\ now' = now + 1
  BY DEF Tick, self
<1>2. now \in Nat /\ now' \in 0..MaxTime /\ now <= now' /\ tokens \in Seq(Token)
  BY <1>1, Bounds DEF Accounted, LedgerType
<1>3. Fades
  BY <1>1, <1>2, StaysFades
<1>4. Goes
  <2>1. replays \subseteq astray
    BY DEF Accounted, Ledger, Successors, NoFalseReplay
  <2> QED
    BY <1>1, <1>2, <2>1 DEF Goes, Accounted, LedgerType, Ledger, Lineages
<1>5. ASSUME wire = None /\ UNCHANGED wire PROVE Follows
  BY <1>5 DEF Follows
<1>6. ASSUME wire # None /\ wire.leg = "parked" /\ UNCHANGED wire PROVE Follows
  <2>1. wire.reply # "issued" /\ wire.what = "authorize"
    BY <1>6, NoneIsNothing DEF Kept, Process, Legs, Replies
  <2> QED
    BY <1>6, <2>1 DEF Follows
<1>7. ASSUME wire # None /\ wire.left > 0 /\ wire' = [wire EXCEPT !.left = @ - 1] PROVE Follows
  <2>1. wire \in Wire
    BY <1>7 DEF Kept, WireType
  <2>2. /\ wire' \in Wire /\ wire'.what = wire.what /\ wire'.cred = wire.cred /\ wire'.leg = wire.leg
        /\ wire'.left = wire.left - 1 /\ wire'.reply = wire.reply /\ wire'.life = wire.life
    BY <1>7, <2>1, TickIs
  <2>3. wire' # None
    BY <2>2, NoneIsNothing
  <2>4. now' + wire'.left <= now + wire.left
    <3>1. wire.left \in Nat
      BY <2>1, Timing DEF Wire
    <3> QED
      BY <1>1, <1>2, <2>2, <3>1
  <2> QED
    BY <1>7, <2>2, <2>3, <2>4 DEF Follows
<1>8. Follows
  BY <1>5, <1>6, <1>7 DEF Tick
<1> QED
  BY <1>3, <1>4, <1>8, AccountFollows DEF Kept, Process

\* What a token that was issued makes of the ledger.
LEMMA IssuedIs ==
  ASSUME tokens \in Seq(Token), policy \in Policy, now \in Nat,
         NEW parent \in {0} \cup DOMAIN tokens, Issue(parent)
  PROVE  /\ tokens' \in Seq(Token) /\ Len(tokens') = Len(tokens) + 1
         /\ DOMAIN tokens' = DOMAIN tokens \cup {Len(tokens) + 1}
         /\ \A t \in DOMAIN tokens :
              /\ tokens'[t].lineage = tokens[t].lineage /\ tokens'[t].expires = tokens[t].expires
              /\ tokens'[t].state = IF t = parent THEN "superseded" ELSE tokens[t].state
         /\ tokens'[Len(tokens) + 1] =
              [lineage |-> IF parent = 0 THEN Len(tokens) + 1 ELSE tokens[parent].lineage,
               expires |-> now + policy.life, state |-> "active"]
<1> DEFINE old == [u \in DOMAIN tokens |->
                     IF u = parent THEN [tokens[u] EXCEPT !.state = "superseded"] ELSE tokens[u]]
           new == [lineage |-> IF parent = 0 THEN Len(tokens) + 1 ELSE tokens[parent].lineage,
                   expires |-> now + policy.life, state |-> "active"]
<1>1. tokens' = Append(old, new)
  BY DEF Issue, Lineage
<1>2. \A t \in DOMAIN tokens : tokens[t] \in Token
  OBVIOUS
<1>3. Len(tokens) \in Nat /\ DOMAIN tokens = 1..Len(tokens)
  OBVIOUS
<1>4. new \in Token
  <2>1. now + policy.life \in Nat
    BY Timing DEF Policy
  <2>2. parent # 0 => tokens[parent].lineage \in Nat \ {0}
    BY <1>2 DEF Token
  <2>3. Len(tokens) + 1 \in Nat \ {0}
    BY <1>3
  <2> QED
    BY <2>1, <2>2, <2>3 DEF Token
<1>5. ASSUME NEW t \in DOMAIN tokens
      PROVE  /\ old[t] \in Token
             /\ old[t].lineage = tokens[t].lineage /\ old[t].expires = tokens[t].expires
             /\ old[t].state = IF t = parent THEN "superseded" ELSE tokens[t].state
  <2>1. CASE t = parent
    <3>1. old[t] = [lineage |-> tokens[t].lineage, expires |-> tokens[t].expires, state |-> "superseded"]
      BY <1>2, <2>1 DEF Token
    <3> QED
      BY <1>2, <2>1, <3>1 DEF Token
  <2>2. CASE t # parent
    BY <1>2, <2>2
  <2> QED
    BY <2>1, <2>2
<1>6. old = [t \in DOMAIN tokens |-> old[t]]
  OBVIOUS
<1> HIDE DEF old, new
<1>7. old \in Seq(Token) /\ Len(old) = Len(tokens)
  BY <1>5, <1>6, StatesChange
<1>8. /\ tokens' \in Seq(Token) /\ Len(tokens') = Len(tokens) + 1
      /\ tokens'[Len(tokens) + 1] = new
      /\ \A t \in DOMAIN tokens : tokens'[t] = old[t]
  BY <1>1, <1>3, <1>4, <1>7
<1>9. DOMAIN tokens' = 1..(Len(tokens) + 1)
  BY <1>8
<1>10. DOMAIN tokens' = DOMAIN tokens \cup {Len(tokens) + 1}
  BY <1>3, <1>9
<1> QED
  BY <1>5, <1>8, <1>10 DEF new

\* A token is issued: it is on its way to who asked for it, and whatever it was issued for
\* is renewed away from.
LEMMA IssueAccounts ==
  ASSUME Accounted, Kept, WireType', wire # None, wire.leg = "to", policy.known, policy.mode # "off",
         NEW parent \in {0} \cup DOMAIN tokens,
         \/ parent = 0 /\ wire.what = "mint"
         \/ parent # 0 /\ parent = wire.cred /\ wire.what = "renew",
         Issue(parent), UNCHANGED <<now, policy, session, faults, astray, strict>>
  PROVE  Accounted'
<1> DEFINE n == Len(tokens) + 1
<1>1. /\ tokens \in Seq(Token) /\ policy \in Policy /\ now \in Nat /\ Len(tokens) \in Nat
      /\ DOMAIN tokens = 1..Len(tokens) /\ n \notin DOMAIN tokens /\ 0 \notin DOMAIN tokens
  BY Bounds DEF Accounted, LedgerType
<1>2. /\ tokens' \in Seq(Token) /\ Len(tokens') = n /\ DOMAIN tokens' = DOMAIN tokens \cup {n}
      /\ \A t \in DOMAIN tokens :
           /\ tokens'[t].lineage = tokens[t].lineage /\ tokens'[t].expires = tokens[t].expires
           /\ tokens'[t].state = IF t = parent THEN "superseded" ELSE tokens[t].state
      /\ tokens'[n] = [lineage |-> IF parent = 0 THEN n ELSE tokens[parent].lineage,
                       expires |-> now + policy.life, state |-> "active"]
  BY <1>1, IssuedIs
<1>3. /\ wire' # None /\ wire'.what = wire.what /\ wire'.cred = wire.cred
      /\ wire'.leg = "back" /\ wire'.left = Trip /\ wire'.reply = "issued"
      /\ wire'.life = policy.life /\ policy.life \in Nat
  <2>1. wire \in Wire
    BY DEF Kept, WireType
  <2> QED
    BY <1>1, <2>1, IssueIs, NoneIsNothing
<1>4. wire.reply # "issued"
  BY NoneIsNothing DEF Kept, Process, Legs, Replies
<1>5. UNCHANGED replays
  BY DEF Issue
<1> HIDE DEF n
<1>6. LedgerType'
  BY <1>2, <1>5 DEF Accounted, LedgerType
<1>7. Creds'
  BY <1>2, <1>3 DEF Accounted, Ledger, Creds
<1>8. Lineages'
  <2>1. ASSUME NEW t \in DOMAIN tokens' PROVE tokens'[t].lineage \in DOMAIN tokens'
    <3>1. CASE t = n
      BY <1>2, <3>1 DEF Accounted, Ledger, Lineages, Lineage
    <3>2. CASE t \in DOMAIN tokens
      BY <1>2, <3>2 DEF Accounted, Ledger, Lineages, Lineage
    <3> QED
      BY <1>2, <3>1, <3>2
  <2> QED
    BY <2>1 DEF Lineages, Lineage
<1>9. Issued'
  <2>1. tokens' # <<>> /\ tokens'[Len(tokens')].state # "superseded"
    <3>1. tokens'[Len(tokens')].state = "active"
      BY <1>2
    <3>2. n # 0
      BY <1>1 DEF n
    <3> QED
      BY <1>2, <3>1, <3>2
  <2>2. wire'.life > 2 * Trip
    BY <1>1, <1>3, Timing DEF Policy
  <2>3. now' + wire'.life + wire'.left <= tokens'[Len(tokens')].expires + Trip
    <3>1. tokens'[Len(tokens')].expires = now + policy.life
      BY <1>2
    <3>2. Trip \in Nat
      BY Timing
    <3> QED
      BY <1>1, <1>3, <3>1, <3>2
  <2>4. wire'.what = "renew" => tokens'[Len(tokens')].lineage = tokens'[wire'.cred].lineage
    BY <1>1, <1>2, <1>3
  <2> QED
    BY <2>1, <2>2, <2>3, <2>4 DEF Issued, Lineage
<1>10. Times'
  BY <1>2, <1>3 DEF Accounted, LedgerType, Ledger, Times
<1>11. ASSUME NEW t \in DOMAIN tokens, RenewedAway(t)
       PROVE  RenewedAway(t)'
  <2> SUFFICES ASSUME tokens'[t].state = "superseded", Lineage(t) \notin astray
               PROVE  wire'.what = "renew"
    BY <1>2, <1>3 DEF RenewedAway, Lineage
  <2>1. CASE t = parent
    BY <1>1, <1>3, <2>1
  <2>2. CASE t # parent
    BY <1>2, <1>4, <1>11, <2>2 DEF RenewedAway
  <2> QED
    BY <2>1, <2>2
<1>12. Successors'
  <2>1. (session # None => RenewedAway(session.token))'
    <3>1. session # None => session.token \in DOMAIN tokens /\ RenewedAway(session.token)
      BY DEF Accounted, LedgerType, Ledger, Successors
    <3> QED
      BY <1>11, <3>1 DEF RenewedAway, Lineage
  <2>2. (wire # None /\ wire.cred \in DOMAIN tokens => RenewedAway(wire.cred))'
    <3>1. wire.cred \in DOMAIN tokens => RenewedAway(wire.cred)
      BY DEF Accounted, Ledger, Successors
    <3>2. wire'.cred # n
      <4>1. wire.cred \in {0} \cup DOMAIN tokens
        BY DEF Accounted, Ledger, Creds
      <4> QED
        BY <1>1, <1>3, <4>1 DEF n
    <3> QED
      BY <1>2, <1>3, <1>11, <3>1, <3>2 DEF RenewedAway, Lineage
  <2> QED
    BY <1>5, <2>1, <2>2 DEF Successors, NoFalseReplay, Accounted, Ledger
<1>13. ASSUME NEW t \in DOMAIN tokens, Standing(t)' = "active"
       PROVE  t # parent /\ Standing(t) = "active"
  BY <1>2, <1>13 DEF Standing
<1>14. (\A t \in DOMAIN tokens : Standing(t) = "active" => Minded(t))'
  <2>1. ASSUME NEW t \in DOMAIN tokens, Standing(t)' = "active" PROVE Minded(t)'
    <3>1. Minded(t)
      BY <1>13, <2>1 DEF Accounted, Ledger, Live
    <3>2. Lineage(t) \in astray \/ (session # None /\ t = session.token)
      BY <1>4, <3>1 DEF Minded
    <3> QED
      BY <1>2, <3>2 DEF Minded, Lineage
  <2>2. ASSUME NEW t, t = n PROVE Minded(t)'
    BY <1>2, <1>3, <2>2 DEF Minded
  <2> QED
    BY <1>2, <2>1, <2>2
<1>15. (wire # None /\ session # None /\ (wire.what = "mint" \/ (wire.what = "renew" /\ wire.leg = "back"))
          /\ Standing(session.token) = "active" => Lineage(session.token) \in astray)'
  <2> SUFFICES ASSUME NEW t, session # None, t = session.token, Standing(t)' = "active"
               PROVE  tokens'[t].lineage \in astray
    BY DEF Standing, Lineage
  <2>1. t \in DOMAIN tokens
    BY DEF Accounted, LedgerType
  <2>2. t # parent /\ Standing(t) = "active"
    BY <1>13, <2>1
  <2>3. wire.what = "mint"
    BY <2>2 DEF Accounted, Ledger, Creds
  <2> QED
    BY <1>2, <2>1, <2>2, <2>3 DEF Accounted, Ledger, Live, Lineage
<1> QED
  <2>1. Live'
    BY <1>14, <1>15 DEF Live
  <2> QED
    BY <1>6, <1>7, <1>8, <1>9, <1>10, <1>12, <2>1 DEF Accounted, Ledger

\* Whatever the daemon answers, the tokens are where they are said to be.
LEMMA ArriveAccounts == ASSUME Accounted, Kept, WireType', Arrive \/ Decide PROVE Accounted'
<1>1. wire # None /\ wire \in Wire /\ policy \in Policy
  BY DEF Arrive, Decide, Kept, WireType, Accounted, LedgerType
<1>2. UNCHANGED <<now, policy, session, faults, astray, strict>>
  BY DEF Arrive, Decide, self
<1>3. ASSUME Plain \/ Judging PROVE Accounted'
  <2>1. /\ \E answer \in Replies \ {"issued"} : Reply(answer)
        /\ wire.what \notin {"mint", "renew", "revoke"} /\ UNCHANGED <<tokens, replays>>
    BY <1>3 DEF Plain, Judging, Verdict, Replies
  <2>2. /\ wire' \in Wire /\ wire'.what = wire.what /\ wire'.cred = wire.cred
        /\ wire'.leg = "back" /\ wire'.reply # "issued"
    BY <1>1, <2>1, ReplyIs
  <2>3. wire' # None
    BY <2>2, NoneIsNothing
  <2> QED
    BY <1>1, <1>2, <2>1, <2>2, <2>3, AccountOnTheWire
<1>4. ASSUME Parking PROVE Accounted'
  <2>1. /\ wire' \in Wire /\ wire'.what = wire.what /\ wire'.cred = wire.cred
        /\ wire'.leg = "parked" /\ wire'.reply = wire.reply
    BY <1>1, <1>4, ParkingIs
  <2>2. wire' # None /\ wire.what = "authorize" /\ UNCHANGED <<tokens, replays>>
    BY <1>4, <2>1, NoneIsNothing DEF Parking
  <2>3. wire.reply # "issued"
    BY <1>1, <2>2 DEF Kept, Process, Legs
  <2> QED
    BY <1>1, <1>2, <2>1, <2>2, <2>3, AccountOnTheWire
<1>5. ASSUME wire.leg = "to", Minting PROVE Accounted'
  BY <1>1, <1>2, <1>5, IssueAccounts DEF Minting
<1>6. ASSUME wire.leg = "to", Renewing PROVE Accounted'
  <2>1. wire.cred \in DOMAIN tokens /\ wire.cred # 0
    <3>1. wire.cred \in DOMAIN tokens
      BY <1>1, <1>6 DEF Renewing, Accounted, Ledger, Creds
    <3> QED
      BY <3>1, TokenIs DEF Accounted, LedgerType
  <2> QED
    BY <1>1, <1>2, <1>6, <2>1, IssueAccounts DEF Renewing
<1>7. CASE Arrive
  <2>1. wire.leg = "to"
    BY <1>7 DEF Arrive
  <2>2. ASSUME Refusal PROVE Accounted'
    BY <1>1, <1>2, <2>1, <2>2, RefusalAccounts
  <2>3. ASSUME Revoking PROVE Accounted'
    BY <1>1, <1>2, <2>1, <2>3, RevokingAccounts
  <2> QED
    BY <1>1, <1>3, <1>4, <1>5, <1>6, <1>7, <2>1, <2>2, <2>3, AnswerCases DEF Arrive, Refusal
<1>8. CASE Decide
  <2>1. wire.what = "authorize"
    BY <1>8 DEF Decide, Kept, Process, Legs
  <2> QED
    BY <1>3, <1>8, <2>1 DEF Decide, Judging
<1> QED
  BY <1>7, <1>8

\* The token an answer brought is held, and used while it lasts; the one before it is
\* renewed away from, or is one whose end the daemon alone knows of.
LEMMA HoldAccounts ==
  ASSUME Accounted, Kept, wire # None, wire.leg = "back", wire.what \in {"mint", "renew"}, ~Fails,
         session' = Hold, wire' = None \/ (pc \in Presenting /\ wire' = Request(pc, Hold.token)),
         UNCHANGED <<now, policy, tokens, replays, astray, faults, strict>>
  PROVE  Accounted'
<1> DEFINE n == Len(tokens)
<1>1. wire.reply = "issued"
  BY DEF Kept, Process, Legs, Fails
<1>2. /\ tokens # <<>> /\ wire.life > 2 * Trip
      /\ now + wire.life + wire.left <= tokens[n].expires + Trip
      /\ tokens[n].state # "superseded"
  BY <1>1 DEF Accounted, Ledger, Issued
<1>3. /\ now \in Nat /\ tokens \in Seq(Token) /\ n \in DOMAIN tokens /\ n # 0 /\ n \in Nat
      /\ Trip \in Nat /\ wire.life \in Nat /\ wire.left \in Nat
  BY <1>2, Bounds, Timing DEF Accounted, LedgerType, Kept, WireType, Wire
<1>4. tokens[n].expires \in Nat
  BY <1>3, TokenIs
<1>5. session' # None /\ session'.token = n /\ session'.expires = now + wire.life
  BY HoldIs DEF Hold, Accounted, Kept
<1>6. wire' # None =>
        /\ wire'.what \in Presenting /\ wire'.cred = n /\ wire'.leg = "to" /\ wire'.left = Trip
        /\ wire'.reply = None /\ wire'.reply # "issued"
  <2> SUFFICES ASSUME wire' # None
               PROVE  /\ wire'.what \in Presenting /\ wire'.cred = n /\ wire'.leg = "to"
                      /\ wire'.left = Trip /\ wire'.reply = None /\ wire'.reply # "issued"
    OBVIOUS
  <2>1. pc \in Presenting /\ pc \in What /\ wire' = Request(pc, n)
    BY DEF Hold, Presenting, What
  <2> QED
    BY <1>3, <2>1, RequestIs, NoneIsNothing DEF Replies
<1> HIDE DEF n
<1>7. LedgerType'
  <2>1. now + wire.life \in Nat
    BY <1>3
  <2> QED
    BY <1>3, <1>5, <2>1 DEF Accounted, LedgerType
<1>8. Creds'
  BY <1>3, <1>6 DEF Creds, Presenting
<1>9. Lineages'
  BY DEF Accounted, Ledger, Lineages, Lineage
<1>10. Issued'
  BY <1>6 DEF Issued
<1>11. Times'
  <2>1. now + wire.life <= tokens[n].expires + Trip
    BY <1>2, <1>3, <1>4
  <2>2. now + Trip < tokens[n].expires
    BY <1>2, <1>3, <1>4, <2>1
  <2> QED
    BY <1>5, <1>6, <2>1, <2>2 DEF Times
<1>12. Successors'
  <2>1. ASSUME NEW t, t = n PROVE RenewedAway(t)'
    BY <1>2, <2>1 DEF RenewedAway
  <2>2. (session # None => RenewedAway(session.token))'
    BY <1>5, <2>1 DEF RenewedAway, Lineage
  <2>3. (wire # None /\ wire.cred \in DOMAIN tokens => RenewedAway(wire.cred))'
    BY <1>6, <2>1 DEF RenewedAway, Lineage
  <2> QED
    BY <2>2, <2>3 DEF Successors, NoFalseReplay, Accounted, Ledger
<1>13. Live'
  <2>1. ASSUME NEW t \in DOMAIN tokens, Standing(t)' = "active" PROVE Minded(t)'
    <3>1. Standing(t) = "active" /\ Minded(t)
      BY <2>1 DEF Standing, Accounted, Ledger, Live
    <3>2. session # None /\ t = session.token => Lineage(t) \in astray
      BY <3>1 DEF Accounted, Ledger, Live
    <3>3. Lineage(t) \in astray \/ t = n
      BY <3>1, <3>2 DEF Minded, n
    <3> QED
      BY <1>5, <3>3 DEF Minded, Lineage
  <2>2. (\A t \in DOMAIN tokens : Standing(t) = "active" => Minded(t))'
    BY <2>1
  <2>3. wire' # None => wire'.what \notin {"mint", "renew"}
    BY <1>6 DEF Presenting
  <2> QED
    BY <2>2, <2>3 DEF Live
<1> QED
  BY <1>7, <1>8, <1>9, <1>10, <1>11, <1>12, <1>13 DEF Accounted, Ledger

\* A request is made, with a token that lasts as long as it takes to get there.
LEMMA AskAccounts ==
  ASSUME Accounted, Kept, UNCHANGED <<now, policy, tokens, replays, astray, faults, strict>>,
         NEW what \in What, NEW cred \in {None, 0} \cup DOMAIN tokens, wire' = Request(what, cred),
         wire = None \/ (wire.leg = "back" /\ wire.reply # "issued"),
         session' = session \/ (session # None /\ session' = None /\ what = "revoke" /\ cred = session.token),
         what # "probe" => cred # None,
         what \in {"renew", "revoke"} => cred \in DOMAIN tokens,
         what = "renew" => session # None /\ cred = session.token,
         strict /\ cred = 0 => what = "mint",
         what \in Presenting /\ cred # 0 => now + Trip < tokens[cred].expires,
         cred \in DOMAIN tokens => session # None /\ cred = session.token,
         what = "mint" /\ session # None /\ Standing(session.token) = "active" =>
           Lineage(session.token) \in astray
  PROVE  Accounted'
<1>1. tokens \in Seq(Token) /\ Len(tokens) \in Nat /\ DOMAIN tokens = 1..Len(tokens)
  BY DEF Accounted, LedgerType
<1>2. /\ wire' # None /\ wire'.what = what /\ wire'.cred = cred /\ wire'.leg = "to" /\ wire'.left = Trip
      /\ wire'.reply # "issued"
  <2>1. cred \in {None} \cup Nat
    BY <1>1
  <2> QED
    BY <2>1, RequestIs, NoneIsNothing DEF Replies
<1>3. LedgerType'
  BY DEF Accounted, LedgerType
<1>4. Creds'
  <2>1. session' = session \/ what = "revoke"
    OBVIOUS
  <2> QED
    BY <1>2, <2>1 DEF Creds
<1>5. Lineages'
  BY DEF Accounted, Ledger, Lineages, Lineage
<1>6. Issued'
  BY <1>2 DEF Issued
<1>7. Times'
  BY <1>2 DEF Accounted, Ledger, Times
<1>8. ASSUME NEW t \in DOMAIN tokens, session # None, t = session.token
      PROVE  tokens[t].state = "superseded" => Lineage(t) \in astray
  BY <1>8 DEF Accounted, Ledger, Successors, RenewedAway
<1>9. Successors'
  <2>1. (session # None => RenewedAway(session.token))'
    <3>1. session # None => session.token \in DOMAIN tokens
      BY DEF Accounted, LedgerType
    <3> QED
      BY <1>8, <3>1 DEF RenewedAway, Lineage
  <2>2. (wire # None /\ wire.cred \in DOMAIN tokens => RenewedAway(wire.cred))'
    BY <1>2, <1>8 DEF RenewedAway, Lineage
  <2> QED
    BY <2>1, <2>2 DEF Successors, NoFalseReplay, Accounted, Ledger
<1>10. Live'
  <2>1. ASSUME NEW t \in DOMAIN tokens, Standing(t)' = "active" PROVE Minded(t)'
    <3>1. Minded(t)
      BY <2>1 DEF Standing, Accounted, Ledger, Live
    <3>2. Lineage(t) \in astray \/ (session # None /\ t = session.token)
      BY <3>1 DEF Minded
    <3> QED
      BY <1>2, <3>2 DEF Minded, Lineage
  <2>2. (\A t \in DOMAIN tokens : Standing(t) = "active" => Minded(t))'
    BY <2>1
  <2>3. (wire # None /\ session # None /\ (wire.what = "mint" \/ (wire.what = "renew" /\ wire.leg = "back"))
           /\ Standing(session.token) = "active" => Lineage(session.token) \in astray)'
    BY <1>2 DEF Standing, Lineage
  <2> QED
    BY <2>2, <2>3 DEF Live
<1> QED
  BY <1>3, <1>4, <1>5, <1>6, <1>7, <1>9, <1>10 DEF Accounted, Ledger

\* A token that is shown lasts as long as the request takes.
LEMMA SendAccounts == ASSUME Accounted, Kept, Send PROVE Accounted'
<1>1. wire = None /\ UNCHANGED <<now, policy, tokens, replays, astray, faults, strict>>
  BY DEF Send, daemon
<1>2. session # None => session.token \in DOMAIN tokens /\ session.token # 0 /\ session.token # None
  BY Numbers, NoneIsNothing DEF Accounted, LedgerType
<1>3. CASE Present
  <2>1. pc \in Presenting /\ pc \in What /\ session' = session /\ pc \notin {"renew", "revoke", "mint", "probe"}
    BY <1>3 DEF Present, Presenting, What
  <2>2. CASE session = None
    <3>1. wire' = Request(pc, 0)
      BY <1>3, <2>2 DEF Present
    <3>2. ~strict
      BY <2>1, <2>2 DEF Kept, Process, Stages, Presenting, SelfType
    <3>3. 0 \notin DOMAIN tokens /\ 0 # None
      BY TokenIs, NoneIsNothing DEF Accounted, LedgerType
    <3> QED
      BY <1>1, <2>1, <3>1, <3>2, <3>3, AskAccounts
  <2>3. CASE session # None /\ Lasting
    <3>1. wire' = Request(pc, session.token)
      BY <1>3, <2>3 DEF Present
    <3>2. now + Trip < tokens[session.token].expires
      <4>1. session.expires - now > Margin /\ session.expires <= tokens[session.token].expires + Trip
        BY <2>3 DEF Lasting, Accounted, Ledger, Times
      <4>2. /\ now \in Nat /\ session.expires \in Nat /\ tokens[session.token].expires \in Nat
            /\ Trip \in Nat /\ Margin \in Nat /\ 2 * Trip <= Margin
        BY <1>2, <2>3, TokenIs, Bounds, Timing DEF Accounted, LedgerType
      <4> QED
        BY <4>1, <4>2
    <3> QED
      BY <1>1, <1>2, <2>1, <2>3, <3>1, <3>2, AskAccounts
  <2>4. CASE session # None /\ ~Lasting
    <3>1. wire' = Request("renew", session.token)
      BY <1>3, <2>4 DEF Present
    <3>2. "renew" \in What /\ "renew" \notin Presenting
      BY DEF What, Presenting
    <3> QED
      BY <1>1, <1>2, <2>1, <2>4, <3>1, <3>2, AskAccounts
  <2> QED
    BY <2>2, <2>3, <2>4
<1>4. CASE Ask
  <2>1. session' = session /\ pc \in {"probe", "adopt", "ping", "post"}
    BY <1>4 DEF Ask
  <2>2. 0 \notin DOMAIN tokens /\ None \notin DOMAIN tokens /\ None # 0
    BY TokenIs, NoneIsNothing DEF Accounted, LedgerType
  <2>3. CASE pc = "probe"
    <3>1. wire' = Request("probe", None)
      BY <1>4, <2>3 DEF Ask
    <3> QED
      BY <1>1, <2>1, <2>2, <3>1, AskAccounts DEF What, Presenting
  <2>4. CASE pc = "adopt"
    <3>1. wire' = Request("mint", 0) /\ session = None
      BY <1>4, <2>4 DEF Ask, Kept, Process, Stages
    <3> QED
      BY <1>1, <2>1, <2>2, <3>1, AskAccounts DEF What, Presenting
  <2>5. CASE pc \in {"ping", "post"}
    <3>1. wire' = Request(pc, 0) /\ ~strict
      BY <1>4, <2>5 DEF Ask, Kept, Process, Stages
    <3> QED
      BY <1>1, <2>1, <2>2, <2>5, <3>1, AskAccounts DEF What, Presenting
  <2> QED
    BY <2>1, <2>3, <2>4, <2>5
<1>5. CASE Surrender
  <2>1. CASE session = None
    <3>1. UNCHANGED <<daemon, wire, session, strict, faults, astray>>
      BY <1>5, <2>1 DEF Send, Surrender
    <3> QED
      BY <3>1, AccountAlone
  <2>2. CASE session # None
    <3>1. wire' = Request("revoke", session.token) /\ session' = None
      BY <1>5, <2>2 DEF Surrender
    <3>2. "revoke" \in What /\ "revoke" \notin Presenting
      BY DEF What, Presenting
    <3> QED
      BY <1>1, <1>2, <2>2, <3>1, <3>2, AskAccounts
  <2> QED
    BY <2>1, <2>2
<1> QED
  BY <1>3, <1>4, <1>5 DEF Send

\* A renewal brought a token, or it is asked for with the agent's own; so did asking.
LEMMA ReceiveAccounts == ASSUME Accounted, Kept, Receive PROVE Accounted'
<1>1. ASSUME Renewed PROVE Accounted'
  <2>1. /\ wire # None /\ wire.leg = "back" /\ wire.what = "renew" /\ pc \in Presenting
        /\ UNCHANGED <<now, policy, tokens, replays, astray, faults, strict>>
    BY <1>1 DEF Renewed, Got, Quiet, daemon, Kept, Process, WireFits, Presenting
  <2>2. CASE Fails
    <3>1. wire' = Request("mint", 0) /\ session' = session /\ wire.reply # "issued"
      BY <1>1, <2>2 DEF Renewed, Fallback, Fails
    <3>2. 0 \notin DOMAIN tokens /\ 0 # None
      BY TokenIs, NoneIsNothing DEF Accounted, LedgerType
    <3>3. session # None /\ Standing(session.token) = "active" => Lineage(session.token) \in astray
      BY <2>1 DEF Accounted, Ledger, Live
    <3> QED
      BY <2>1, <3>1, <3>2, <3>3, AskAccounts DEF What, Presenting
  <2>3. CASE ~Fails
    <3>1. session' = Hold /\ wire' = Request(pc, Hold.token)
      BY <1>1, <2>3 DEF Renewed, Keep
    <3> QED
      BY <2>1, <2>3, <3>1, HoldAccounts
  <2> QED
    BY <2>2, <2>3
<1>2. ASSUME Minted, ~Fails PROVE Accounted'
  <2>1. /\ wire # None /\ wire.leg = "back" /\ wire.what = "mint" /\ session' = Hold
        /\ UNCHANGED <<now, policy, tokens, replays, astray, faults, strict>>
        /\ wire' = None \/ (pc # "adopt" /\ wire' = Request(pc, Hold.token))
    BY <1>2 DEF Minted, Got, Quiet, daemon, Go
  <2>2. pc # "adopt" => pc \in Presenting
    BY <2>1 DEF Kept, Process, WireFits, Presenting
  <2> QED
    BY <1>2, <2>1, <2>2, HoldAccounts
<1> QED
  BY <1>1, <1>2, ClosesAccounts DEF Receive

\* Whoever takes a step, the tokens are where they are said to be.
LEMMA AccountedAlways == ASSUME Accounted, Kept, [Next]_vars PROVE Accounted'
<1>1. WireType'
  <2>1. LedgerType
    BY DEF Accounted
  <2> QED
    BY <2>1, KeptAlways DEF Kept
<1>2. CASE \/ Spawn \/ RelayStdio \/ RelayHttp \/ Drained \/ EndOfInput \/ (\E m \in Messages : Read(m))
           \/ (\E e \in inbox : ServerAnswers(e)) \/ ChildEnds \/ UNCHANGED vars
  <2>1. UNCHANGED <<daemon, wire, session, strict, faults, astray>>
    BY <1>2 DEF Spawn, RelayStdio, RelayHttp, Drained, EndOfInput, Read, ServerAnswers, ChildEnds, vars, self
  <2> QED
    BY <2>1, AccountAlone
<1> QED
  BY <1>1, <1>2, SendAccounts, ReceiveAccounts, ArriveAccounts, TickAccounts, LoseAccounts,
     RestartAccounts, OthersAccount DEF Next, Progress

-----------------------------------------------------------------------------
(* The invariant holds, and what was to be shown follows from it. *)

\* It holds of the process as it starts.
LEMMA InitInv == ASSUME Init PROVE Inv
<1>1. SelfType /\ WireType /\ Process
  BY DEF Init, SelfType, WireType, Process, WireFits, Legs, Stages, NoSecretBeforeSession, Transports, Stage
<1>2. TalkType
  BY DEF Init, TalkType
<1>3. LedgerType
  BY PoliciesArePolicies, Bounds DEF Init, LedgerType
<1>4. Talk
  <2>1. Len(log) = 0 /\ DOMAIN log = {} /\ pc \notin Busy
    BY DEF Init, Busy
  <2>2. Reading /\ Clearing /\ Posting
    BY <2>1, Bounds DEF Init, Reading, Clearing, Posting
  <2>3. Relaying /\ Settling
    BY <2>1 DEF Init, Relaying, OnlyClearedIsRelayed, Settling
  <2>4. Unsaid
    BY <2>1 DEF Init, Unsaid, AnsweredOnce
  <2> QED
    BY <2>2, <2>3, <2>4 DEF Talk
<1>5. Ledger
  BY DEF Init, Ledger, Creds, Lineages, Issued, Times, Successors, NoFalseReplay, Live
<1> QED
  BY <1>1, <1>2, <1>3, <1>4, <1>5 DEF Inv

\* Every step keeps it.
LEMMA NextInv == ASSUME Inv, [Next]_vars PROVE Inv'
<1>1. Kept /\ Conversed /\ Accounted /\ LedgerType
  BY DEF Inv, Kept, Conversed, Accounted
<1>2. Kept'
  BY <1>1, KeptAlways
<1>3. Conversed'
  BY <1>1, ConversedAlways
<1>4. Accounted'
  BY <1>1, AccountedAlways
<1> QED
  BY <1>2, <1>3, <1>4 DEF Inv, Kept, Conversed, Accounted

\* So it holds in every state.
LEMMA InvAlways == Spec => []Inv
BY InitInv, NextInv, PTL DEF Spec

\* NothingUnasked: no server is started and nothing is given to one that the daemon did not
\* say yes to first, whatever was lost or restarted in between; and every variable is what
\* it is meant to be.
THEOREM NothingUnaskedAlways == Spec => []NothingUnasked
<1>1. ASSUME Inv PROVE NothingUnasked
  <2>1. TypeOK
    BY <1>1 DEF Inv, SelfType, WireType, TalkType, LedgerType, TypeOK, Stage
  <2> QED
    BY <1>1, <2>1 DEF Inv, Process, Stages, Talk, Relaying, NothingUnasked
<1> QED
  BY <1>1, InvAlways, PTL

\* AnsweredExactlyOnce: no call is answered twice, not by the bridge that refused it and the
\* server, and by the time the next message is read none is left without an answer to come.
THEOREM AnsweredExactlyOnceAlways == Spec => []AnsweredExactlyOnce
<1>1. ASSUME Inv PROVE AnsweredExactlyOnce
  <2>1. AnsweredOnce
    BY <1>1 DEF Inv, Talk, Unsaid
  <2>2. NobodyLeftWaiting
    BY <1>1 DEF Inv, Talk, Settling, Settled, NobodyLeftWaiting
  <2> QED
    BY <2>1, <2>2 DEF AnsweredExactlyOnce
<1> QED
  BY <1>1, InvAlways, PTL

\* TokensAreMinded: with a margin of two trips a token shown still lives when it gets there,
\* the agent's own is used for nothing but asking, nobody is taken for a thief who did not
\* lose an answer, and no live token is left behind at the end.
THEOREM TokensAreAlwaysMinded == Spec => []TokensAreMinded
<1>1. ASSUME Inv PROVE TokensAreMinded
  <2>1. AgentTokenOnlyMints
    BY <1>1 DEF Inv, Ledger, Creds, AgentTokenOnlyMints
  <2>2. ArrivesAlive
    <3> SUFFICES ASSUME wire # None, wire.leg = "to", wire.what \in Presenting, wire.cred # 0
                 PROVE  now < tokens[wire.cred].expires
      BY DEF ArrivesAlive, Presenting
    <3>1. now + wire.left < tokens[wire.cred].expires /\ wire.cred \in DOMAIN tokens
      BY <1>1 DEF Inv, Ledger, Times, Creds, Presenting
    <3>2. wire.left \in Nat /\ now \in Nat /\ tokens[wire.cred].expires \in Nat
      BY <1>1, <3>1, TokenIs, Bounds, Timing DEF Inv, LedgerType, WireType, Wire
    <3> QED
      BY <3>1, <3>2
  <2>3. NoFalseReplay
    BY <1>1 DEF Inv, Ledger, Successors
  <2>4. EndsWithNothingLive
    <3>1. pc = "done" => wire = None /\ session = None
      BY <1>1 DEF Inv, Process, WireFits, Stages, Presenting
    <3> QED
      BY <1>1, <3>1 DEF Inv, Ledger, Live, Minded, EndsWithNothingLive
  <2> QED
    BY <2>1, <2>2, <2>3, <2>4 DEF TokensAreMinded
<1> QED
  BY <1>1, InvAlways, PTL
=============================================================================
