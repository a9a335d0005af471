------------------------------- MODULE Bridge -------------------------------
(***************************************************************************)
(* The processes an agent spawns and talks JSON-RPC to on stdio: the MCP   *)
(* bridge of src/src/mcp.rs, which asks the daemon before it relays each   *)
(* message to a server it spawned ("stdio") or calls ("http"), and the     *)
(* thin relay to the daemon's own gateway, src/src/stdio.rs ("gateway").   *)
(*                                                                         *)
(* One request to the daemon is under way at a time.  Each way takes it at *)
(* most Trip; either may be lost, and the daemon restarted, which forgets  *)
(* every token.  Of the daemon there is what these processes see: its      *)
(* policy, and a ledger that answers as module WorkloadTokens has it.      *)
(* A message is a sequence of elements, one of them unless it is a batch.  *)
(* Left out: lines that are not JSON, which are dropped, and a stdout that *)
(* breaks, which ends the process.                                         *)
(*                                                                         *)
(* An operator named Slip... is the definition after it gone wrong: what   *)
(* the property it names would catch.                                      *)
(***************************************************************************)
EXTENDS Integers, Sequences, FiniteSetsExt

CONSTANTS
  Calls,        \* what an element may call, a pair of a method and a name
  Messages,     \* the messages an agent may send
  Policies,     \* what the daemon may be told to enforce
  Lifetimes,    \* of tokens
  Trip,         \* the longest a request or an answer is under way
  Margin,       \* RENEW_MARGIN_SECS
  None,
  MaxMessages,  \* bound on the messages of a session
  MaxTokens,    \* bound on the tokens issued
  MaxTime,      \* bound on the clock
  MaxFaults     \* bound on losses, restarts, revocations and new policies

\* What the margin is for: "a slow round trip" fits into it, and into any token's life.
ASSUME Timing ==
  /\ {Trip, Margin} \cup Lifetimes \subseteq Nat
  /\ 2 * Trip <= Margin
  /\ \A life \in Lifetimes : 2 * Trip < life

Transports == {"stdio", "http", "gateway"}

\* `id`: it wants an answer.  An element that calls nothing is the answer to a request of
\* the server's.
Element == [call : Calls \cup {None}, id : BOOLEAN]

\* The agent is in the roster; it may address the server; what the rules say; how long a
\* token lives.
Policy == [mode : {"off", "optional", "required"}, known : BOOLEAN, reach : BOOLEAN,
           rules : [Calls -> {"allow", "deny", "ask"}], life : Lifetimes]

Replies == {"off", "optional", "required", "ok", "refused", "lost", "issued", "allow", "deny",
            "frame", "nameless", "accepted"}

\* Of a request: what it asks, the token it carries, how it is under way and for how long
\* yet, what it was answered, and how long a token lives that it was answered with.
Wire == [what : {"probe", "mint", "renew", "open", "authorize", "report", "end", "revoke", "ping", "post"},
         cred : {None} \cup Nat, leg : {"to", "parked", "back"}, left : 0..Trip, reply : Replies \cup {None},
         life : Nat]

ASSUME PoliciesArePolicies == Policies \subseteq Policy

\* A batch has one element or two; any other message is one element.
ASSUME MessagesAreMessages ==
  \A m \in Messages :
    /\ m \in [batch : BOOLEAN, elements : Seq(Element)]
    /\ Len(m.elements) \in 1..2 /\ (~m.batch => Len(m.elements) = 1)

ASSUME Bounds == {MaxMessages, MaxTokens, MaxTime, MaxFaults} \subseteq Nat

\* `None` is not a number, an answer, a request or a session.
ASSUME NoneIsNothing == None \notin Nat \cup Replies \cup Wire \cup [token : Nat, expires : Nat]

VARIABLES
  now,
  policy,
  tokens,     \* every token issued: its lineage, its expiry and its state
  wire,       \* the request under way
  transport,
  pc,         \* what the process does next
  strict,     \* the daemon asked for workload tokens
  session,    \* the token held, and when the process believes it ends
  secrets,    \* credentials of the server are in this process
  child,      \* the server it spawned
  log,        \* the messages read
  cleared,    \* elements of the last that were allowed
  relayed,    \* elements given to the server
  inbox,      \* those of them the spawned server may answer
  answers,    \* how often each element was answered
  hushed,     \* elements whose server let them go unanswered
  stray,      \* elements answered by a document without their id
  faults,
  opened,     \* history: the daemon accepted the session
  granted,    \* history: elements the daemon allowed
  astray,     \* history: lineages an answer about which was lost, or refused
  replays     \* history: lineages killed as replayed

daemon == <<now, policy, tokens, granted, replays>>
self == <<pc, strict, session, secrets, opened>>
talk == <<log, cleared, relayed, answers, hushed, stray>>
server == <<child, inbox>>
vars == <<daemon, wire, transport, self, server, talk, faults, astray>>

Elements == (1..MaxMessages) \X (1..2)

Init ==
  /\ now = 0 /\ policy \in Policies /\ tokens = <<>> /\ wire = None
  /\ transport \in Transports
  /\ pc = IF transport = "gateway" THEN "ping" ELSE "probe"
  /\ strict = FALSE /\ session = None /\ secrets = FALSE
  /\ child = "none" /\ inbox = {}
  /\ log = <<>> /\ cleared = {} /\ relayed = {} /\ hushed = {} /\ stray = {}
  /\ answers = [e \in Elements |-> 0]
  /\ faults = 0 /\ opened = FALSE /\ granted = {} /\ astray = {} /\ replays = {}

-----------------------------------------------------------------------------
(* The daemon. *)

Standing(t) ==
  IF tokens[t].state = "gone" THEN "gone"
  ELSE IF tokens[t].expires <= now THEN "expired" ELSE tokens[t].state

Lineage(t) == tokens[t].lineage

\* AppState::authenticate: 0 is the agent's own token.
Accepted(cred) ==
  /\ policy.known
  /\ IF cred = 0 THEN policy.mode # "required" ELSE policy.mode # "off" /\ Standing(cred) = "active"

\* Whoever presents a token renewed away from ends its lineage.
Replayed == wire.cred \in DOMAIN tokens /\ policy.mode # "off" /\ Standing(wire.cred) = "superseded"

Without(lineage, ledger) ==
  [t \in DOMAIN ledger |-> IF ledger[t].lineage = lineage /\ ledger[t].state # "gone"
                           THEN [ledger[t] EXCEPT !.state = "revoked"] ELSE ledger[t]]

Reply(answer) == wire' = [wire EXCEPT !.leg = "back", !.left = Trip, !.reply = answer]

\* A request that is refused, for whatever reason.
RefuseRequest ==
  /\ Reply("refused")
  /\ IF Replayed
     THEN /\ tokens' = Without(Lineage(wire.cred), tokens)
          /\ replays' = replays \cup {Lineage(wire.cred)}
     ELSE UNCHANGED <<tokens, replays>>
  /\ UNCHANGED granted

Issue(parent) ==
  LET t == Len(tokens) + 1 IN
    /\ tokens' = Append([u \in DOMAIN tokens |->
                           IF u = parent THEN [tokens[u] EXCEPT !.state = "superseded"] ELSE tokens[u]],
                        [lineage |-> IF parent = 0 THEN t ELSE Lineage(parent),
                         expires |-> now + policy.life, state |-> "active"])
    /\ wire' = [wire EXCEPT !.leg = "back", !.left = Trip, !.reply = "issued", !.life = policy.life]
    /\ UNCHANGED <<granted, replays>>

\* The first element of the last message that was not allowed yet.
CallsOf(m) == {k \in DOMAIN m.elements : m.elements[k].call # None}

Todo == CallsOf(log[Len(log)]) \ cleared

Current == Min(Todo)
Rule == policy.rules[log[Len(log)].elements[Current].call]

Verdict(allowed) ==
  /\ Reply(IF allowed THEN "allow" ELSE "deny")
  /\ granted' = IF allowed THEN granted \cup {<<Len(log), Current>>} ELSE granted
  /\ UNCHANGED <<tokens, replays>>

\* What the gateway answers a frame.  A refused token is answered by an error document.
Frame ==
  LET m == log[Len(log)] IN
  IF m.batch THEN "nameless" ELSE IF m.elements[1].id THEN "frame" ELSE "accepted"

Answer ==
  CASE wire.what = "probe"  -> Reply(policy.mode) /\ UNCHANGED <<tokens, granted, replays>>
    [] wire.what = "mint"   -> policy.known /\ policy.reach /\ policy.mode # "off" /\ Issue(0)
    [] wire.what = "renew"  -> /\ policy.known /\ policy.mode # "off" /\ Standing(wire.cred) = "active"
                               /\ Issue(wire.cred)
    [] wire.what = "revoke" -> /\ policy.mode # "off" /\ Standing(wire.cred) = "active"
                               /\ tokens' = Without(Lineage(wire.cred), tokens)
                               /\ Reply("ok") /\ UNCHANGED <<granted, replays>>
    [] wire.what \in {"open", "report", "end"} ->
         /\ Accepted(wire.cred) /\ policy.reach
         /\ Reply("ok") /\ UNCHANGED <<tokens, granted, replays>>
    [] wire.what = "authorize" ->
         /\ Accepted(wire.cred)
         /\ IF policy.reach /\ Rule = "ask"
            THEN wire' = [wire EXCEPT !.leg = "parked", !.left = 0] /\ UNCHANGED <<tokens, granted, replays>>
            ELSE Verdict(policy.reach /\ Rule = "allow")
    [] wire.what \in {"ping", "post"} ->
         /\ Accepted(0)
         /\ Reply(IF wire.what = "ping" THEN "ok" ELSE Frame) /\ UNCHANGED <<tokens, granted, replays>>

\* What the daemon would refuse, or could: a record it cannot write refuses an event or a call.
Refusable ==
  CASE wire.what = "probe"  -> FALSE
    [] wire.what = "mint"   -> ~(policy.known /\ policy.reach /\ policy.mode # "off")
    [] wire.what = "renew"  -> ~(policy.known /\ policy.mode # "off" /\ Standing(wire.cred) = "active")
    [] wire.what = "revoke" -> ~(policy.mode # "off" /\ Standing(wire.cred) = "active")
    [] wire.what \in {"ping", "post"} -> ~Accepted(0)
    [] OTHER -> TRUE

Arrive ==
  /\ wire # None /\ wire.leg = "to"
  /\ Len(tokens) < MaxTokens
  /\ Answer \/ (Refusable /\ RefuseRequest)
  /\ UNCHANGED <<now, policy, transport, self, server, talk, faults, astray>>

\* A human answers, or the question times out.
Decide ==
  /\ wire # None /\ wire.leg = "parked"
  /\ \E allowed \in BOOLEAN : Verdict(allowed)
  /\ UNCHANGED <<now, policy, transport, self, server, talk, faults, astray>>

-----------------------------------------------------------------------------
(* The process: what it sends. *)

Request(what, cred) == [what |-> what, cred |-> cred, leg |-> "to", left |-> Trip, reply |-> None, life |-> 0]

\* Slip for ArrivesAlive: a token is renewed when it has ended.
SlipLasting == session.expires > now
Lasting == session.expires - now > Margin

\* Authorizer::credential, for the request `pc` is about: the token, or its renewal first.
Present ==
  /\ pc \in {"open", "authorize", "report", "end"}
  /\ wire' = IF session = None THEN Request(pc, 0)
             ELSE IF Lasting THEN Request(pc, session.token)
             ELSE Request("renew", session.token)
  /\ UNCHANGED <<pc, session>>

\* Requests that carry the agent's own token, or none at all.
Ask ==
  /\ pc \in {"probe", "adopt", "ping", "post"}
  /\ wire' = Request(IF pc = "adopt" THEN "mint" ELSE pc, IF pc = "probe" THEN None ELSE 0)
  /\ UNCHANGED <<pc, session>>

\* surrender takes the token it gives back.
Surrender ==
  /\ pc = "revoke"
  /\ IF session = None THEN pc' = "done" /\ UNCHANGED wire
     ELSE wire' = Request("revoke", session.token) /\ UNCHANGED pc
  /\ session' = None

Send ==
  /\ wire = None
  /\ Present \/ Ask \/ Surrender
  /\ UNCHANGED <<daemon, transport, strict, secrets, opened, server, talk, faults, astray>>

-----------------------------------------------------------------------------
(* ... what it makes of an answer ... *)

Got(what) == wire # None /\ wire.leg = "back" /\ wire.what = what
Fails == wire.reply \in {"refused", "lost"}

\* What Go leaves for the callers to say: the credentials, the conversation.
Go(where) == pc' = where /\ wire' = None
Quiet == UNCHANGED <<daemon, transport, strict, server, faults>>

\* Slip for NoSecretBeforeSession: the server is spawned on the strength of a health check.
SlipAfterProbe == IF wire.reply = "off" THEN "spawn" ELSE "adopt"
AfterProbe == IF wire.reply = "off" THEN "open" ELSE "adopt"

Probed ==
  /\ Got("probe")
  /\ Go(IF Fails THEN "failed" ELSE AfterProbe)
  /\ strict' = (~Fails /\ wire.reply # "off")
  /\ UNCHANGED <<daemon, transport, session, secrets, opened, server, talk, faults, astray>>

Hold == [token |-> Len(tokens), expires |-> now + wire.life]

\* Slip for NoFalseReplay: the token renewed away from is kept.
SlipKeep == session
Keep == Hold

\* Slip for AgentTokenOnlyMints: a failed renewal falls back on what works.
SlipFallback == Request(pc, 0)
\* "the agent token is still good for asking again"
Fallback == Request("mint", 0)

Denied(m) == {k \in DOMAIN m.elements : m.elements[k].id}

Count(ks) == [e \in Elements |-> IF e[1] = Len(log) /\ e[2] \in ks THEN answers[e] + 1 ELSE answers[e]]

\* Slip for NobodyLeftWaiting: only the element that was refused is answered.
SlipRefusals(m) == Denied(m) \cap {Current}
Refusals(m) == Denied(m)

\* Slip for AnsweredOnce: a refused message goes on to the server.
SlipAfterRefusal == "relay"
AfterRefusal == "read"

\* No message passes: one array answers every id of a batch.
Block ==
  /\ answers' = Count(Refusals(log[Len(log)]))
  /\ Go(AfterRefusal)
  /\ UNCHANGED <<log, cleared, relayed, hushed, stray>>

\* Slip for EndsWithNothingLive: nothing is handed back.
SlipAfterEnd == "done"
AfterEnd == "revoke"

\* After an event is recorded, or dropped.  A batch whose relay failed has no id of its own.
Recorded ==
  LET m == log[Len(log)] IN
  \/ /\ pc = "report"
     /\ IF m.batch THEN hushed' = hushed \cup ({Len(log)} \X Denied(m)) /\ UNCHANGED answers
        ELSE answers' = Count(Denied(m)) /\ UNCHANGED hushed
     /\ Go("read")
     /\ UNCHANGED <<log, cleared, relayed, stray>>
  \/ pc = "end" /\ Go(AfterEnd) /\ UNCHANGED talk

\* There is no token to ask with.
Unusable ==
  \/ pc \in {"open", "adopt"} /\ Go("failed") /\ UNCHANGED talk
  \/ pc = "authorize" /\ Block
  \/ Recorded

Renewed ==
  /\ Got("renew")
  /\ IF Fails THEN wire' = Fallback /\ UNCHANGED session
     ELSE wire' = Request(pc, Hold.token) /\ session' = Keep
  /\ UNCHANGED <<pc, secrets, opened, talk, astray>> /\ Quiet

Minted ==
  /\ Got("mint")
  /\ IF Fails THEN Unusable /\ UNCHANGED session
     ELSE /\ session' = Hold
          /\ IF pc = "adopt" THEN Go("open") ELSE wire' = Request(pc, Hold.token) /\ UNCHANGED pc
          /\ UNCHANGED talk
  /\ UNCHANGED <<secrets, opened, astray>> /\ Quiet

Opened ==
  /\ Got("open")
  /\ Go(IF Fails THEN "failed" ELSE "spawn")
  /\ opened' = ~Fails
  /\ UNCHANGED <<session, secrets, talk, astray>> /\ Quiet

\* Slip for OnlyClearedIsRelayed: one element of a batch speaks for the others.
SlipMore == FALSE
More == Todo # {Current}

Authorized ==
  /\ Got("authorize")
  /\ IF wire.reply = "allow"
     THEN /\ cleared' = cleared \cup {Current}
          /\ wire' = None
          /\ pc' = IF More THEN "authorize" ELSE "relay"
          /\ UNCHANGED <<log, relayed, answers, hushed, stray>>
     ELSE Block
  /\ UNCHANGED <<session, secrets, opened, astray>> /\ Quiet

Noted ==
  /\ Got("report") \/ Got("end")
  /\ Recorded
  /\ UNCHANGED <<session, secrets, opened, astray>> /\ Quiet

Surrendered ==
  /\ Got("revoke")
  /\ Go("done")
  /\ UNCHANGED <<session, secrets, opened, talk, astray>> /\ Quiet

-----------------------------------------------------------------------------
(* ... and what it does with messages. *)

Spawn ==
  /\ pc = "spawn" /\ wire = None
  /\ \/ transport = "stdio" /\ secrets' = TRUE /\ child' = "runs" /\ pc' = "read"
     \/ transport = "stdio" /\ secrets' = TRUE /\ UNCHANGED child /\ pc' = "failed"
     \/ transport = "http" /\ UNCHANGED <<secrets, child>> /\ pc' = "read"
  /\ UNCHANGED <<daemon, wire, transport, strict, session, opened, inbox, talk, faults, astray>>

Read(m) ==
  /\ pc = "read" /\ Len(log) < MaxMessages
  /\ log' = Append(log, m)
  /\ cleared' = {}
  /\ pc' = IF transport = "gateway" THEN "post" ELSE IF CallsOf(m) = {} THEN "relay" ELSE "authorize"
  /\ UNCHANGED <<daemon, wire, transport, strict, session, secrets, opened, server, relayed, answers,
                 hushed, stray, faults, astray>>

ToServer == {Len(log)} \X DOMAIN log[Len(log)].elements
Wanted == {Len(log)} \X {k \in CallsOf(log[Len(log)]) : log[Len(log)].elements[k].id}

\* To a spawned server: a pipe that broke ends this process.
RelayStdio ==
  /\ pc = "relay" /\ transport = "stdio"
  /\ IF child = "runs"
     THEN relayed' = relayed \cup ToServer /\ inbox' = inbox \cup Wanted /\ pc' = "read"
     ELSE pc' = "failed" /\ UNCHANGED <<relayed, inbox>>
  /\ UNCHANGED <<daemon, wire, transport, strict, session, secrets, opened, child, log, cleared, answers,
                 hushed, stray, faults, astray>>

\* relay_http: an answer may be empty, or hold some of the answers; or nothing comes.
RelayHttp ==
  /\ pc = "relay" /\ transport = "http"
  /\ secrets' = TRUE
  /\ relayed' = relayed \cup ToServer
  /\ \/ /\ \E answered \in SUBSET Wanted :
             /\ answers' = Count({e[2] : e \in answered})
             /\ hushed' = hushed \cup (Wanted \ answered)
        /\ pc' = "read"
     \/ pc' = "report" /\ UNCHANGED <<answers, hushed>>
  /\ UNCHANGED <<daemon, wire, transport, strict, session, opened, server, log, cleared, stray, faults,
                 astray>>

\* src/src/stdio.rs: the probe, ...
Pinged ==
  /\ Got("ping")
  /\ Go(IF Fails THEN "failed" ELSE "read")
  /\ UNCHANGED <<session, secrets, opened, talk, astray>> /\ Quiet

\* ... and each frame's answer.  A document with an `error` in it passes for a frame.
Posted ==
  /\ Got("post")
  /\ Go(IF wire.reply = "lost" THEN "failed" ELSE "read")
  /\ IF wire.reply = "frame" THEN answers' = Count({1}) /\ UNCHANGED stray
     ELSE IF wire.reply \in {"nameless", "refused"} THEN stray' = stray \cup Wanted /\ UNCHANGED answers
     ELSE UNCHANGED <<answers, stray>>
  /\ UNCHANGED <<session, secrets, opened, log, cleared, relayed, hushed, astray>> /\ Quiet

\* The agent has closed its end, and so does the bridge.
EndOfInput ==
  /\ pc = "read"
  /\ pc' = CASE transport = "stdio" -> "drain" [] transport = "http" -> "end" [] OTHER -> "done"
  /\ child' = IF child = "runs" THEN "eof" ELSE child
  /\ UNCHANGED <<daemon, wire, transport, strict, session, secrets, opened, inbox, talk, faults, astray>>

\* Slip for EveryMessageSettles: it waits for the relay, however long that takes.
SlipPatience == child = "gone"
\* The relay is over, or SHUTDOWN_DRAIN is.
Patience == TRUE

Drained ==
  /\ pc = "drain" /\ Patience
  /\ pc' = "end"
  /\ UNCHANGED <<daemon, wire, transport, strict, session, secrets, opened, server, talk, faults, astray>>

-----------------------------------------------------------------------------
(* The world. *)

Over == pc \in {"done", "failed"}

ServerAnswers(e) ==
  /\ child \in {"runs", "eof"} /\ e \in inbox /\ ~Over
  /\ inbox' = inbox \ {e}
  /\ answers' = [answers EXCEPT ![e] = @ + 1]
  /\ UNCHANGED <<daemon, wire, transport, self, child, log, cleared, relayed, hushed, stray, faults, astray>>

ChildEnds ==
  /\ child \in {"runs", "eof"} /\ ~Over
  /\ child' = "gone"
  /\ UNCHANGED <<daemon, wire, transport, self, inbox, talk, faults, astray>>

\* No time passes while the process has something to do.
Tick ==
  /\ now < MaxTime /\ now' = now + 1
  /\ \/ wire = None /\ pc \in {"read", "drain", "relay"} /\ UNCHANGED wire
     \/ wire # None /\ wire.leg = "parked" /\ UNCHANGED wire
     \/ wire # None /\ wire.left > 0 /\ wire' = [wire EXCEPT !.left = @ - 1]
  /\ UNCHANGED <<policy, tokens, granted, replays, transport, self, server, talk, faults, astray>>

Fault == ~Over /\ faults < MaxFaults /\ faults' = faults + 1

\* On its way there, or back; which of them, the process cannot tell.
Lose ==
  /\ Fault /\ wire # None /\ wire.reply # "lost"
  /\ wire' = [wire EXCEPT !.leg = "back", !.left = 0, !.reply = "lost"]
  /\ astray' = IF wire.reply = "issued" THEN astray \cup {Lineage(Len(tokens))}
               ELSE IF wire.what \in {"renew", "revoke"} THEN astray \cup {Lineage(wire.cred)} ELSE astray
  /\ UNCHANGED <<daemon, transport, self, server, talk>>

\* The ledger goes with the process that signed it.
Restart ==
  /\ Fault /\ tokens' = [t \in DOMAIN tokens |-> [tokens[t] EXCEPT !.state = "gone"]]
  /\ wire' = IF wire = None THEN None ELSE [wire EXCEPT !.leg = "back", !.left = 0, !.reply = "lost"]
  /\ UNCHANGED <<now, policy, granted, replays, transport, self, server, talk, astray>>

\* Anybody who holds a token may end its lineage.
RevokeIt ==
  /\ Fault /\ \E t \in DOMAIN tokens : Standing(t) = "active" /\ tokens' = Without(Lineage(t), tokens)
  /\ UNCHANGED <<now, policy, granted, replays, wire, transport, self, server, talk, astray>>

\* What a renewal or a revocation under way is refused for may be over by the next one.
NewPolicy ==
  /\ Fault /\ policy' \in Policies \ {policy}
  /\ astray' = astray \cup {Lineage(t) : t \in DOMAIN tokens}
  /\ UNCHANGED <<now, tokens, granted, replays, wire, transport, self, server, talk>>

Receive ==
  \/ Probed \/ Renewed \/ Minted \/ Opened \/ Authorized \/ Noted \/ Surrendered \/ Pinged \/ Posted

Progress ==
  \/ Send \/ Arrive \/ Decide \/ Receive \/ Spawn \/ RelayStdio \/ RelayHttp \/ Drained

Next ==
  \/ Progress
  \/ EndOfInput \/ \E m \in Messages : Read(m)
  \/ \E e \in inbox : ServerAnswers(e)
  \/ ChildEnds \/ Tick \/ Lose \/ Restart \/ RevokeIt \/ NewPolicy

\* A request is answered or its connection breaks, and a question to a human has a timeout.
Spec == Init /\ [][Next]_vars /\ WF_vars(Progress)

-----------------------------------------------------------------------------
(* Properties. *)

Token == [lineage : Nat \ {0}, expires : Nat, state : {"active", "superseded", "revoked", "gone"}]

TypeOK ==
  /\ now \in 0..MaxTime /\ policy \in Policy /\ tokens \in Seq(Token)
  /\ wire \in Wire \cup {None} /\ transport \in Transports
  /\ pc \in {"probe", "adopt", "open", "spawn", "read", "authorize", "relay", "report", "drain", "end",
            "revoke", "ping", "post", "done", "failed"}
  /\ session # None => session.token \in DOMAIN tokens /\ session.expires \in Nat
  /\ {strict, secrets, opened} \subseteq BOOLEAN
  /\ child \in {"none", "runs", "eof", "gone"}
  /\ log \in Seq(Messages) /\ cleared \subseteq 1..2
  /\ relayed \cup inbox \cup hushed \cup stray \cup granted \subseteq Elements
  /\ answers \in [Elements -> 0..2] /\ faults \in 0..MaxFaults
  /\ astray \cup replays \subseteq DOMAIN tokens

Of(e) == log[e[1]].elements[e[2]]

\* "asks the running daemon to authorize every call, and only then relays it": the daemon
\* said yes to each call that reaches a server, to every one of a batch, however long a
\* human took and whatever the daemon or the connection did meanwhile.
OnlyClearedIsRelayed == \A e \in relayed : Of(e).call # None => e \in granted

\* Nobody answers the same id twice: not the refusal and the server, not two refusals.
AnsweredOnce == \A e \in Elements : answers[e] <= 1

\* Between messages, every call that wants an answer has it, or a server has it to answer,
\* or had, or it was answered without its id, which a document of the daemon's is.
NobodyLeftWaiting ==
  pc = "read" =>
    \A n \in DOMAIN log : \A k \in CallsOf(log[n]) :
      log[n].elements[k].id => <<n, k>> \in inbox \cup hushed \cup stray \/ answers[<<n, k>>] = 1

\* comment in run: "The bridge used to spawn the real server - credentials and all - on the
\* strength of an unauthenticated health check".
NoSecretBeforeSession == secrets => opened

\* comment on agent_token: "Once workload identity is on, this is used for exactly one thing:
\* asking for a token that is not standing", however a renewal or the session ends.
AgentTokenOnlyMints == strict /\ wire # None /\ wire.cred = 0 => wire.what = "mint"

\* comment on RENEW_MARGIN_SECS: "Wide enough that a slow round trip does not land a call on a
\* token that expired while it was in flight", by the daemon's own count of its life.
ArrivesAlive ==
  wire # None /\ wire.leg = "to" /\ wire.what \in {"open", "authorize", "report", "end"} /\ wire.cred # 0
    => now < tokens[wire.cred].expires

\* "Hand the token back rather than leaving it live until it expires": of every lineage, as
\* long as each answer about it came and the policy stayed.
EndsWithNothingLive ==
  pc = "done" => \A t \in DOMAIN tokens : Standing(t) = "active" => Lineage(t) \in astray

\* comment on workload: "the loser looks like a replay".  The daemon takes this process for a
\* thief only when an answer of its own was lost.
NoFalseReplay == replays \subseteq astray

\* The process gets back to its agent, or ends: whatever it waits for, also when its agent
\* is gone and the server it spawned stays.
EveryMessageSettles == pc \notin {"read", "done", "failed"} ~> pc \in {"read", "done", "failed"}

\* Nothing is started or relayed before the daemon said so.
NothingUnasked == TypeOK /\ NoSecretBeforeSession /\ OnlyClearedIsRelayed

\* Every call is answered, and once.
AnsweredExactlyOnce == AnsweredOnce /\ NobodyLeftWaiting

\* The session's tokens: each used while it lasts and for what it is for, never twice for a
\* renewal, and none left behind.
TokensAreMinded == AgentTokenOnlyMints /\ ArrivesAlive /\ NoFalseReplay /\ EndsWithNothingLive
=============================================================================
