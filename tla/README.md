# agent-iap in TLA+

agent-iap is an identity-aware proxy for AI agents: agents call it with a token
of their own, it decides what each call may do (a policy file, and a human where
the policy says `ask`), puts the real credential on what it lets through and
writes every decision to a hash-chained log. These modules model the parts of it
whose correctness depends on *order*: threads that take a lock twice, futures
that are dropped, reloads under running requests, disks that stop in a line.
Paths below are relative to the repository.

The modules are checked with TLC on small instances (`runs` in PROJECT.json) and
thirteen of them are proved about with TLAPS for all values of their constants.

## The system

| Part | State it keeps | Operations | What is hard about it |
|---|---|---|---|
| approval broker `src/approval.rs` | the queue of questions and who waits on each, the session's standing answers, whether anybody is watching | `ask`, the ticket's drop, `decide`, `decide_scoped`, `forget_all` | each operation takes the lock several times; calls time out and are cancelled anywhere; console and control plane answer at once |
| workload tokens `src/workload.rs`, `src/tokens.rs` | a ledger of token states by lineage | mint, renew, revoke, verify, reconfigure | verify and what follows it are two lock sections; expiry and pruning run against them |
| audit log `src/audit.rs` | chain head, open file, write buffer | write, reopen, verify, follow | failed and partial writes, reloads that move the file, crashes |
| policy reload `src/reload.rs`, `src/state.rs` | the policy in force in several locks, what the watcher last saw | poll, signal, console and control-plane reloads | the file changes under the reader; parts are installed one lock at a time; any number of reloads at once |
| credential injector `src/credentials.rs` | minted tokens, parsed keys, a mint gate per target | mint on demand, drop on 401, forget/retain/warm on reload | await points under the gate, cancellation, minting across a reload |
| ACL and gate `src/acl.rs`, `src/gate.rs` | rules, lockdown, agents' targets | `evaluate`, the catalogue's questions, `clear` | order of refusals; rules that overlap and expire; a question parked across policy changes |
| data planes `src/proxy.rs`, `src/gateway.rs`, `authorize` in `src/admin.rs` | none of their own | one request from token to record | what a request read before an await; a record that cannot be written |
| roster `src/identity.rs` | agents and token digests | authenticate, install | replaced while requests run |
| secret resolver `src/secrets.rs` | values by reference and account | read all, refresh, resolve, `op` in batches | no lock is held while `op` runs, and a reload moves references between accounts meanwhile |
| TLS and the listeners `src/tls.rs`, `src/main.rs` | two sockets and what they serve with | follow each reload: load, bind, drain | a bind that fails halfway, renewals, a loop that is deaf while it drains |
| policy edits `src/enroll.rs`, `src/profiles.rs`, store `src/store.rs` | two files | enrol, remove, prune, import, profile and secret commands | commands that overlap or are killed between two writes |
| MCP bridge `src/mcp.rs`, `src/stdio.rs` | a session, a token, a child | probe, adopt, open, authorize, relay, surrender | lost answers, renewals, batches, an agent that hangs up |
| console `src/tui/` | copies: of the queue, of the policy | answers, edits, reloads, verifications | acts on a frame while everything behind it goes on |
| credential verification `src/verify.rs` | one report | probe an upstream, a remote server, a child; judge the rules | a dozen early returns, a child with a credential racing a timeout |

How they meet: a request authenticates against the roster or the token ledger,
takes one snapshot of the config, passes the gate (rules, then perhaps
`broker.ask`, an await of minutes), asks the injector for a credential (an await
of a round trip), calls the upstream and is written to the audit log before the
response leaves. Console and control plane call into the broker, the ledger and
the reload from other threads. The reload replaces rules, roster, settings, log
and credentials one lock at a time under all of that. PROJECT.json lists, under
`hazards`, the lines where this can go wrong, with the properties that cover
each, and under `components` every part with what is left out of it.

What makes each modelled part correct: an answer releases exactly whom it was for
and nobody is let through without one (broker); what is spent or revoked stays so
(tokens); the log can be verified and what was acknowledged is in it (audit); one
whole policy that loaded is in force, and the newest, and the sockets are where it
says (reload, listeners); one mint for a burst, nothing of a credential that was
replaced (injector); what is served is its own account's credential and nobody is
asked in vain (resolver); only what roster, targets, scope, rules and human permit
gets through, and it is on record (pipeline); no kill or other command leaves a file
the proxy cannot start with or a service without its credential (enrolment); every
call is asked about first and answered once (bridge); an answer goes to what was on
the screen (console); a report claims only what is so (verification).

## Conventions

State is what the code keeps plus a program counter per call; each lock section
and each await ends a step, so everything the code does between two locks is open
to interleaving. A history variable says so in its comment. Bounds are constants
named `Max...` and guard the actions that count.

An operator whose name begins with `Slip` is the definition below it gone wrong
the way an edit of the code could. Nothing uses it. `mutants` in PROJECT.json
pairs each checked property with at least one, and where a property is a
conjunction of named parts each part with one: with the slip in place TLC finds the
property violated, which is how we know the run can see it.

The property a run checks is often such a conjunction (`TokensAreMinded` is four
statements about the session's tokens); its parts carry the comments. Type
invariants are conjuncts too, except in Approval and WorkloadTokens, where `TypeOK` and `IssuerTypeOK`
have a theorem of their own. Where two specifications are proved about in one module,
the names of one carry a prefix (`IssuerSpec`, `ConsoleSpec`, `VSpec`).

## The modules

**Approval** (`MCApproval` instantiates it). One member of `Asks` is one call of
`ask`; `Arrive` is the look at the standing answers and at the approver,
`JoinQuestion`/`RaiseQuestion` are `park`, then `Receive`, `TimeOut` or `Cancel`
and, always, `DropTicket`. A member of `Decisions` is one call of `decide_scoped`:
`Take` (remove the question), `Stand` (remember), `TakeCovered` (the other
questions the scope covers), `Deliver` (one `send` each); `AnswerAndRemember` and
`LookUp` are `decide` before it gets there. A scope is the set of requests it
matches. Ids of questions count up; a decision may name any id ever raised, since
the operator's screen may be old.

**ApprovalPromise** is what a caller of `ask` may rely on, without queue, ticket,
channel or locks: a call is `allowed` only after a human said yes to it while it
waited or stands by a yes to its request. `Approval` maps onto it (operator
`Promise`): a call counts as told once a decision has taken its sender, because
from then on no other answer can reach it.

**WorkloadTokens**. `issued` holds what a token's claims and ledger entry both say
(agent, parent, expiry, lineage), `state` the entry's status, `gone` once pruned.
`Verified` and then `Renew` or `Revoke` are the two lock sections of a handler;
`Replay` is `verify` on a superseded token, which revokes the lineage in the same
section. `Issue` prunes, retires the parent and inserts the successor, in that
order.

**AuditLog**. A line is three parts, so that a write can stop inside it. `Write`
and `WriteFails` are one call of `write` under the writer's mutex: the buffer of
what an earlier flush could not send, then the new line, up to where the disk
stops. `ReadChain` and `Install` are the two halves of `reopen`, before and under
the locks. `Crash` loses the buffer, `Restart` resumes the chain of a file that
parses. `Verifies` is `verify_file`.

**Reload**. `Notice` and `PollReloads` are the watcher's poll (the settle time is
the gap between them), `AskedTo` every other trigger. A reload runs `Begin` (take
the stamp), `Read`, `Adopt` (accounts), `Accept` or `Refuse`, `Install` once per
part, `Record` (the stamp). Editions of the file are numbered and each loads or
does not, by choice of whoever edits.

**Credentials**. One target, either minting scheme. A call goes `TakeSnapshot`,
`LookInCache`, `PassGate` (gate and second look), for a service account
`LookUpKey` and perhaps `ParseKey`, then `Mint`, `Record` or `RecordFails`,
`Answered`; `Fail` and `Cancel` leave early and drop the gate. A reload goes
`Begin` (read the references), `ForgetToken`/`ForgetKey` if the auth changed,
`Warm`/`WarmParses`, perhaps `Refuse`, then `Retain`/`RetainKey` and `Swap`. A
credential is known by the version of the auth it was made for and the generation
of the secret behind it.

**Listeners** extends Reload with the sockets. `Loop` is the main loop: `Hear` takes
one announcement (`GoDeaf` when it fell too far behind), `Load`/`LoadFails` the
certificate, `RebindProxy`, `RebindAdmin`, `OpenAdmin`, `CloseAdmin` the moves with
their failed binds, `Drained` the end of the eleven seconds. Certificates are counted
in renewals; `parsed` is the one the resolver holds. The main loop, a reload that was asked
for (`Preload`) and anybody else who reads credentials again (`LateAnswer`: the console's
`c`, another such reload) read it each on a thread of its own and file it when their `op` returns,
so that what is filed may be older than what is held. The history `outrun` says that this
has happened since an asked-for reload was last adopted.

**Acl** has no state: `Evaluate`, the rules that concern an agent or a target, the
catalogue's `AccessFor`, `can_ask`, and the skills document's `RulesTold`, all over a list of
rules whose globs are sets of names.

**Pipeline** composes Acl and ApprovalPromise with one call through any of the three
surfaces: `Verify`, `LookUp` (roster), `Route` (snapshot of the config), `Weigh`
(targets, scope, rules), `Ask` and `Heard` (the human), `Prepare`, `Send`, `ReadBody`,
`Record`; `HangUp` anywhere. Around it a reload installs part after part, lockdown is
switched, time passes, the log's disk fills up. The human is ApprovalPromise rather
than Approval: Approval implements it, so what is checked with the one holds with the
other.

**Enrolment**. A writer is a process running commands one after another over the policy file and the
store. `Edit` is a command's change of its draft, then the save in place, without a lock, in two
steps (`Truncate`, `Write`). A text is a sequence of blocks in one of `Layouts`: an agent, a
service, the rules, the default. A write over what another writer has put there in the meantime
leaves its own text, or its text with the end of the other's behind it (`Over`), and a text with a
name in it twice is `Torn`, as is one cut inside a line. A full disk (`SaveFails`) or a kill inside
a write leaves a beginning of the text (`Cut`), whose last block may have lost lines: an agent its
targets, a service its credential, a rule what it is limited to. `text` tells a file that one write
made from nothing ("whole") from these ("spoilt"). The store goes through `OpenTemp`, fill and
rename. An import stores what it moves and then writes the file; its history `trusted` is what each
service was called with before it stored anything. `secret rm` looks for uses first. A kill and a
full disk may come between any two steps. A profile (`profiles::add`) is several such edits: the
service, then a rule at a time, each read from the file as it is by then; `rest` is what it has yet
to write, and the history `granted` all the rules the file has once it is through.

**Bridge**. `pc` follows `run` of mcp.rs: probe, adopt, open, spawn, and for each
message authorize its elements, relay, report; at the end drain, end, revoke. One
request to the daemon is on the wire at a time, and may be lost on either leg; the
daemon may restart, change its policy, or have a token revoked by somebody else. With
`transport = "gateway"` it is the thin relay of stdio.rs.

**Console**. The loop is `Adopt` (announcements), `Land` (reports), `Frame` (draw, open
a dialogue), then a burst of keys, then `NextPass`. `Answer` and `Press` are the keys,
`Runtime` the threads it hands work to, `Elsewhere` other writers of the file, the
watcher, callers that ask and leave. Questions are numbered as they are asked, so that the
broker's queue (`live`) and the rows of a frame (`Listed`) are sets of them, in the order
of their numbers. No read of a secret has a timeout, so `ReadHangs` may leave any job of the runtime
waiting in one for good (`hung`).

**Secrets**. Three readers (the reloader, the credentials check, one live call) go
through the passes of secrets.rs: what is wanted from the vault (`Wanted`), by account
(`Split`), for each account one `op inject` or one `op read` each, then the rest in
place. Each `op` is several steps, since no lock is held while it runs. A value is the
account it came from and the generation of its source.

**Verify** extends Acl. The three probes are sequences of steps from `Build` or `Dial`
or `Prepare` to `Judge`, each able to end the probe with a step of the report; the
service's facts are in `config` and its answers are chosen; a `blunt` one says 403, not 401,
to a credential it does not accept. A child writes lines (`wrote`, of which `heard` were
read) and ends when it likes: noise, what is not text at all, requests of its own under the number
that it was asked under, and its answers. `AskForTools` is the second question, which a child that
ended cannot be asked; `KillChild` ends it with the probe, `OperatorLeaves` is Ctrl-C. `FirstCall`,
`Reachability`, `NoHandshake` and `CannotAsk` are what is said of the rules, and `Grant` the
rule that is named when it is said that the service is granted already.

## The runs

Twelve runs, each finishing within five minutes with two workers.

| Run | Question | What it shows |
|---|---|---|
| `approval_queue` | Two calls (retries of one question, or two questions) and two concurrent answers, with and without a scope | 2.1 M states; one question per request, every waiting call is in the queue or in a decider's hands, callers of one question hear one verdict, the newest standing answer decides |
| `approval_promise` | Two calls, one answer, under fairness | implements `ApprovalPromise`; every `ask` returns |
| `tokens_ledger` | Two overlapping handlers, three tokens, expiry and pruning | what is renewed is retired, what is spent stays spent, a replay's kill reaches all that existed, nothing live is forgotten |
| `audit_writer` | Writes that stop anywhere, two moves of the log, crashes, restarts | files verify until a write fails or moves overlap; an acknowledged record is on disk whole, always; nothing is written twice |
| `reload_listeners` | Edits, reloads by the watcher or asked for, renewals, binds and reads that fail, under fairness | one loadable edition in every part with its accounts; the proxy keeps a listener that accepts; an asked-for reload serves what the certificate's reference pointed at by then or later, and an edit alone takes the proxy back to an older one only if a slower reader has filed it since; file, policy and sockets agree in the end |
| `credentials_cache` | Two requests, two versions of the auth, two generations, both schemes, under fairness | one mint for a burst; an undisturbed reload keeps nothing old; every request ends |
| `pipeline` | One call of any kind on any surface, three policies installed part by part, lockdown, expiry, a human, a full disk, under fairness | only the permitted is sent; every decision is on record and nothing is given that is not; catalogue, skills and `can_ask` tell the truth; every call ends |
| `enrolment` | Two writers with one or two commands in all, killed or out of disk anywhere, with writes that overlap in place | a file that one write made loads, however many raced to make it, and the store is whole; no service loses its credential; a prune takes what it names and widens nobody; a profile stopped between two of its rules allows nothing that the file with all of it would not; an import changes no service's credential but of one kept under a name it takes |
| `bridge` | One message of each shape on each transport, with one fault anywhere, under fairness | nothing started or relayed unasked; every call answered exactly once; tokens used in time, once, for what they are for, and handed back; the process gets back to its agent or ends |
| `console` | Two questions, two keys, one edit elsewhere, under fairness | answers go to what was shown, are written, and decide before the rule that asked; one verification per service at a time, against what was written; the panes always catch up, and a check, a report or a verification is waited for in vain only if a read of a secret hangs |
| `secrets` | Two reloads between two policies with a check or a call, every way `op` can end, one rotation | what is served is whole, from its account and as fresh as asked for; a refused dialogue is not repeated |
| `verify` | Every way a probe can go against two policies, and what is said of every policy of at most two rules | a report is true by the service's facts and the child's lines, warnings by the proxy's own decisions, and a grant that is told of is had by every call its rule was written for unless an earlier rule decides it; a probe ends, and its child with it, if reads of a secret return |

**Bounds.** Two calls are the smallest number that can share a row, a lineage or a gate, and two
decisions the smallest that can disagree; each property relates at most two of them. Requests r1 and
r2 with the scopes {r1} and {r1, r2} give an exact answer, a wide one and an uncovered question.
Three tokens are a lineage of two renewals, or two successors of one; the clock reaches the end of
the longest tombstone of the first. Four writes cross two files and a crash. Two versions and two
generations are an old and a new credential; the third state, a target that is not there, is version
0. For the listeners, three editions let one be read while the next is written and one more come
after; the channel holds one announcement instead of sixteen, so that falling behind happens at all;
the second edition moves both sockets or gives one up, the third moves them back (`MCSettings`);
there are two certificates, an old and a new one; the reloader is one that takes turns (what
overlapping ones leave is in the list below). In the pipeline one call is enough, because calls
share nothing but the broker, whose own runs have two; the three policies are chosen so that each
part of one contradicts the others. Two commands are the fewest that can overlap, or leave something
for the next one; the three starting references put an upstream's credential in the vault, a
server's in the vault, or in the store, and one more file lacks the second service, so that a
profile can add it. One layout is enough for a text to end before, between and behind the entries
that name each other; a view leaves out the drafts and stores of writers that no longer use them.
The bridge's batch has a call and a notification, and its tokens live for the margin or one tick
longer, so that a renewal is due at once and not at once. The console's file starts with a rule in
front of the one that asks, and one job hangs in a read at most. The resolver's policies read two
references from an account each, or both from one: a reload moves exactly one. Four lines of a child
are the two answers and one of its own before each.

**Symmetry** is used only where no constant is told apart and no liveness property
is checked (the calls and decisions of the broker, the calls of the ledger, the
files of the log, the writers of `enrolment`).

**Deadlock** is checked where something is always possible (an approver comes or
goes, a poll, a reconfiguration). `audit_writer` stops when the writes are used up or
the log does not parse; `credentials_cache`, `enrolment`, `bridge`, `secrets` and `verify`
when everything they were given to do is done.

**Fairness.** The runtime polls every future it holds and runs each call to its end, and a deadline
is noticed: weak fairness of a call's own steps and of `TimeOut`; for the watcher, that its ticker
goes on and that a reload it began ends. For the injector and the pipeline, that a request's steps
are taken, which includes that the provider and the upstream answer or their timeouts fire
(`build_http_client` in state.rs sets a connect and a read timeout). For the listeners, that the
main loop goes on, a drain having its deadline. For the bridge, that a request on the wire is
answered or its connection breaks: its HTTP client has no timeout of its own, so this is an
assumption about the network and the daemon. For the console, that its loop goes round without keys
and that what it hands off comes back, unless it hangs in a read. For a verification, its own steps
and its timeouts. No read of a secret has a timeout (`secrets.rs:804`, `:894` wait for `op`, and
`tui/mod.rs:1543` for the reads), and an `op` may sit in front of a dialogue for good: of the
console that is modelled; the liveness of the other runs (reloads and listeners, injector, pipeline,
verification) holds if these reads return. Nothing is assumed of operators, agents, children,
editors or clocks beyond that.

## What is proved

For every number of calls, requests, decisions, agents, tokens, messages, references, accounts,
policies, faults and every lifetime. Each proof module EXTENDS the module it is about (three of them
are about two that share nothing); its first section is the inductive invariant, in named parts, and
TLC has checked each of them on the instance of the component's run.

*ApprovalProofs*: `TypeOK`, `OneQuestionPerRequest`, `NoDeadRows`, `NobodyLost`,
`AnswersFitTheirWaiters`, `OneAnswerPerQuestion`, `NewestAnswerStands`. The
argument is about where a call's sender is. `NobodyLost` alone is not inductive:
nothing in it says a sender in the queue belongs to the question its ticket names,
so an answer might take a row and leave a caller behind. The invariant adds
`Placed`: a sender in a row belongs to a call parked under that row, about its
request (`SendersPlaced`, `RowsLive`); a sender in a decision's hands comes from a
row no longer queued, one the decision named or its scope covers (`HandsOff`); and
only a call whose row is gone has heard anything (`HeardOff`). So whoever takes a
row takes all its callers, and two verdicts cannot reach callers of one question. `NewestAnswerStands` is an
action property from the same invariant; it picks the newest of a finite set of
positions. Assumption: a scope is a set of requests and not empty.

The same module proves the refinement (`PromiseKept`: `Spec => KeepsPromise`). The mapping
says a call is told once a decision has taken its sender; the steps that matter are `Take`
and `TakeCovered`, which are the promise's `Answer` to all whose senders leave the queue at
once, `Stand`, and the look at the standing answers. `NobodyLost` and `Placed` are what it
rests on: a call counts as waiting only while its sender is in the queue, so a deadline or
a hang-up never steals an answer already on its way. Liveness is not part of it.

*TokensAndLogProofs* has two components. Of the ledger: `IssuerTypeOK`, `RenewedIsRetired`,
`RetiredHasSuccessor`, `NothingLiveIsForgotten`, `KillReachesTheLineage`, `SpentStaysSpent`. Every
action that changes the ledger is one of three effects (an issue, a revocation, nothing: lemma on
`LedgerStep`), and each property is shown of the three. The kill needs a companion: the position
recorded at a replay is never past the tokens issued. Assumptions: the floor on lifetimes is
positive and not above the ceiling.

Of the log, in the same module: `ChainsVerify`, `AckedIsOnDisk`, `NothingTwice`. `OnceInv` relates buffer
and files part by part: what the buffer holds is nowhere on disk, and is there once, so a
flush that stops anywhere leaves neither a gap it will fill twice nor a part in two files.
`NumbersInv` bounds the entries by the writes so far, so the next one is new. `ChainsInv`
holds until there is trouble (a failed write, two moves at once): every file is whole lines
and the chains in memory are the ones their files end with. Assumptions: the fault switch is
a Boolean and the writes are a number.

*ReloadProofs*: `PolicyIsWhole` (`Whole`), that the listeners only follow
(`ListenersFollow`: every step of the module with the listeners is a step of the reload or
leaves all of it alone), and so `PolicyIsWhole` of the two together
(`WholeWithListeners`), which is what the run checks. That the parts in charge agree when
nothing is being installed is not inductive: it says nothing of a reload halfway. The
invariant adds that one reload at most is under way until two overlap (`OneAtATime`), and
where that one is (`Midway`): the parts it has installed are of its draft, those it has
yet to install are of one edition, and the accounts are the draft's from `adopt` on and
the old ones before. Assumptions: the poller is one of the reloaders, and there is an
edition.

`ListenersAlwaysHold` is about the sockets. Its invariant `LInv` says where the main loop is
(`StageOK`), what is in the channel (`ChannelOK`), and which certificate is how old. While nothing
older was filed since an asked-for reload was adopted, or while another asked-for one is being
adopted (`Owed`), what is loaded is no older than what there was to read (`LoadedIsRecent`), and so
is what each socket serves once the adoption has got to it (`ServedSoFar`). To that it adds
`OwnAddresses`, that the two listeners never hold one address, without which a bind could take the
other's. Assumptions: the channel and the renewals are at least one, each edition names an address
for the proxy, and what the process starts with could be bound.

*CredentialsProofs*: `TheCacheIsCurrent` (`Current`) and `MintsOnlyWhenNeeded`
(`MintsOnce`). For the mint, the invariant says that whoever is past the gate holds it
(`HolderMints`) and has nothing to use until it has minted (`ColdWhileMinting`): a reload,
a 401 or a record that fails can only empty the cache further. For the cache, `Forgetting`
says at each stage of a reload what of the policy before it may still be there, which
needs that a reload that forgets has a target to forget (`HasTarget`) and that nothing
minted or parsed is of no version (`Versioned`): a policy without the target therefore
has no token to pass on to one that names it again. Assumptions: there is a version and a
generation, and nobody is not a call.

Of a report, in the same module: `ReportsAreTrue`, `WarningsAreTrue`. What a line of a report
claims is a fact of the service or of the policy, while the probe that wrote it has long moved on; so
the invariant says of each stage which lines are there by now (`Short`), which probe gets
there at all (`Routes`), that the verdict is the last thing said and only of a probe that got through
(`JudgedLast`), what each line is evidence of (`Claims`), and, of a child, that no answer and no
line that is not text was passed over on the way to where it is now (`Exchanged`), so that an
answer in time that has not been read is still ahead (`InTimeIsSeen`). The rest is about the rules:
`EarliestIs` and `VerdictIs` say what a policy decides by its first rule that applies; from them,
that nothing is granted where the report says so, and that the rule named as granting
(`GrantIs`) decides whatever it was written for and no rule before it does. Assumptions: the
bound on a child's lines is a number, agents and `initialize` are names and a method, and what
is verified is of its type.

*PipelineProofs*: `OnlyThePermitted`, `TheLogHasIt`, `TheCatalogueIsTrue`, for any number of
calls. What a call passed on its way is kept in histories, and the invariant says at each
stage what they hold (`OnItsWay`, `Through`), that a call that has known nothing but lockdown
is not past the rules (`Sheltered`), and what the log has of it (`Written`). `EvaluateSays`
is the lemma on Acl: the function says what the first matching rule that has not expired
says, and asks only if `can_ask` holds. `CallsKeepToThePromise` (`Spec => Broker!Spec`) is
the other half of `PromiseKept`: what the calls see of the human is a behaviour of
ApprovalPromise, so that the broker can stand where the promise does. Assumptions: requests,
surfaces and policies are of their types, and the clock's bound is before `Never`.

*BridgeProofs*: `NothingUnasked`, `AnsweredExactlyOnce`, `TokensAreMinded`, for any
messages, policies, faults and lengths of a session. The invariant has three layers, each
proved from those before. `Process`: what is on the wire is what the process waits for
(`WireFits`, `Legs`), and what it may hold at each stage (`Stages`: a session until it is
handed back, no credentials of the server's before one). `Talk`: while a message is dealt with
nothing was said to any of its calls (`Unsaid`), all before it are settled (`Settling`), and
what was cleared was granted (`Clearing`, `Relaying`). `Ledger`: how old an answer with a
token is by the way it has yet to come (`Issued`, `Times`: with a margin of two trips the
token shown outlives its own way there), that a token renewed away from is one whose renewal
is on its way or was lost (`Successors`), and who will hand back each live one (`Live`).
Assumptions: the margin is two trips at least and every life longer than that; policies and
messages are of their types, a message having one element or two; bounds are numbers; and
`None` is none of the values it stands in for.

*SecretsProofs*: `TheCacheIsRight`, `NobodyAskedInVain`, for any references, accounts,
policies and number of reloads, other reads and rotations. Neither is inductive without
knowing where in a pass each reference is. The invariant says it is at one place only
(`Places`, `Once`): waiting in one account's group, in the group in hand, in the read that
runs, or answered; that what is in flight came from its account unless a reload moved it meanwhile
(`AtTheirAccounts`); that an account that refused has nothing waiting and is not in hand
(`Minded`); and that what a pass did not ask for is held (`Spared`). Of the reload it says
that what it moved it can put back and what it was told is held (`Loading`), and that since a
lone re-read began nothing kept is older than it asks for (`Fresh`). With `OneCall`, that a
live call reads one reference, these are inductive. Assumptions: bounds are numbers, and
policies name references and accounts.

*OperatorProofs*, of the two files: `FilesStayWhole`, `NothingDangling`, `CredentialsStay`,
`PruneTakesItsOwn`, for any agents, services, rules, writers, layouts and commands. Whatever the
other writers do, a draft on its way to the file is valid (`OfItsOwn`), and only a write that finds
the file as it truncated it makes one that is "whole"; of the others nothing is said here. Until two
commands overlap one writer at most is under way (`OneAtATime`), and the invariant says at each of
its steps what the file and the store are (`OfTheFile`, `OfTheStore`): whichever of the two is
written first, the references of the one are names of the other (`Holds`), so that a kill between
them leaves no service without its credential. An import's moves are one to one and those made are
in the store (`Made`), and none of them goes to a name that a service it trusts is kept under
(`Apart`). So at each of its steps what it has in hand, the store and the file still pay for what
each service was called with (`Pays`, `TrustOf`: the second invariant, `TInv`), and what is
repointed is not changed. A profile that stopped has written a beginning of the rules it was going
to write (`OfTheProfile`), and the first rule that covers a call in a beginning is the first in the
whole (`HalfAProfile`). What a prune takes and leaves (`WhatIsLeft`) needs the meaning of
`RemoveAll`, which recurses over a set of positions from the last down; that there is such a
function at all is shown by the least position at which two beginnings of it would differ
(`PastExists`, `FirstIs`), since an induction theorem of the library cannot be instantiated.
Assumptions: two services have two slugs, bounds are numbers, `None` and `Torn` are nothing else,
commands ask for targets and rules of the types they have, and the starting files are valid with
their references in the store.

Of the console, in the same module: `AnswersAreTheOperators`, `VerifiedOnceAndLate`, for any
questions, services, rules, starting files, keys and edits. The invariant says that the queue is of
those who wait and that the dialogue in front is about a question that was asked, and is in the
frame if its caller still waits (`Fronted`); that each write the console asked to have reloaded is
in one of three places until it was reported (`Awaited`), is in the file, and once reloaded is in
force and in the panes or on its way there (`Edited`); that one check of the credentials runs at a
time (`Checked`); that what may hang is a reload, a check or a verification (`Held`); and that a
verification of a service is on the runtime or in the inbox, once, and only while its column says so
(`Called`). That a grant decides before the rule that asked is a matter of positions: the grant goes
where the asking rule stood when the question was raised, and since the rules in front of it, each
there once, are in front of it still, it cannot stand earlier by now (`NoEarlier`, by counting) and
the grant lands before it (`PutInFront`). Each of the actions has one of a few effects
(`PressEffect`, `AnswerEffect`, `KeyEffect`, `RuntimeEffect`, `LandEffect`), of which the properties
are shown. Assumptions: the rule that asks, the others and the grants are different rules, `Nothing`
is no service, and the questions are a number.

Three proof attempts failed because the model or a property was wrong. Two conjuncts of Pipeline's `Init` stood
one column off under their quantifier and read as a single implication, so that the run
also began with credentials and coverage that do not go together, and with surfaces their
requests cannot come by. That is corrected; and the `TypeOK` in `OnlyThePermitted` now
keeps the policies a call and the parts in charge refer to within those there are. And
`ProfilesGrantNoMore` once compared a file a profile stopped in with the level's rules
alone: true on the run, where the file has no others, and false as soon as an earlier rule allows
what the level does not. It now compares with the file as the whole profile would leave it.
`GrantsGoInFront` of Console lacked the condition that no rule in front of the asking one
stands there twice: a row answered twice in one burst writes its rule twice, and once one of the
two is removed the next grant lands behind. It takes more keys than the run has.
`UNION A \cup B` and `UNION A \ B` are read differently by TLC and by TLAPS; `Addresses` of
Listeners and `InFlight` of Secrets have parentheses for that.

**Only model-checked**: liveness (`EveryAskReturns`, `EverythingSettles`, `EveryCallEnds`,
`EveryMessageSettles`, `CatchesUp`, `EveryProbeEnds`), since the prover does not reason
about fairness. Every safety invariant and action property a run checks has a theorem.

## Where code and comments part

Modelling met places where the code does other than its comments or documents say, or
than its operator would expect. The properties step around each by a condition or a
history variable that is named in its comment.

*Broker.*
* `approval.rs:309` the standing answers are read before a call parks and not again: one
  given in between leaves the call to its timeout (comments at 309 and 464).
* `approval.rs:439` `decide` with `remember` looks the question up and removes it
  under two locks: an answer can be remembered for a question that has just gone,
  against the comment two lines below.

*Tokens.*
* `tokens.rs:222`, `:251` two renewals that both verified the same token each issue a
  live one, against `workload.rs:21`: "There is never a moment when two live tokens share a
  lineage." `workload.rs:546` likewise puts a live token into a lineage a replay killed.
* `admin.rs:384`, `tokens.rs:298`, `:312` a replay found by the control plane or by
  introspection leaves no audit record (docs/audit-log.md:20 says to alert on it).
* `workload.rs:597` a superseded token presented after its expiry is answered as
  expired, so the tombstone kept for it (line 55) is not used.
* `workload.rs:656` nothing calls `revoke_agent`: tokens outlive their agent's entry
  in the roster and work again if the id comes back. `workload.rs:740` a wall clock set
  back brings expired ones back.

*Audit log.*
* `audit.rs:283` a failed write leaves its line in the buffer or the file and its number
  is used again, so the file no longer verifies (audit.rs:261, docs/audit-log.md:52);
  after a failed write of a line longer than the buffer, the next record is written onto
  the broken line.
* `audit.rs:228` two overlapping reloads that move the log install a chain read
  before the other's records. `audit.rs:358` a log cut inside a line cannot be opened
  again, and the proxy does not start (docs/audit-log.md:49).
* `audit.rs:458` the follower loses lines not read yet when the file is rotated.

*Reload and listeners.*
* `state.rs:333` overlapping reloads leave parts of two editions in charge (state.rs:9),
  `state.rs:271`, `reload.rs:207` the wrong accounts, or a stamp older than what is
  installed. `state.rs:315` a refused reload leaves its parsed key (line 257).
* `state.rs:239` a request reads the roster, the config and the rules under separate
  locks, so a reload may fall between them (comment at line 30); the gateway's `request`
  takes the config twice.
* `reload.rs:221` the settle time counts from the first write and is not restarted
  by the next.
* `main.rs:2052` a control plane that cannot move has been let go of already: a plain one
  closes, a TLS one serves on detached and keeps its port (comment at 2016). More than
  sixteen reloads during one drain disable the loop's branch for them until a restart. A
  port swap, or TLS switched at the same address, can never be adopted by a reload; a
  bind that failed is not tried again before the next one.

*Injector and resolver.*
* `credentials.rs:230`, `:362` a mint that straddles a reload caches what it made
  from the old credential (`disturbed` sets these apart); `:353` a service account's key
  is not parsed again when its reference is re-read (docs/policy-file.md:519); `:243` a
  token whose mint is not recorded can be picked up between its insertion and its
  removal.
* `secrets.rs:463` of two reads of a certificate the older may be filed over the newer: no lock is
  held from the one to the other, and the main loop, an asked-for reload's preload (`state.rs:278`)
  and the console's `c` read at the same time. A reload that follows an edit (`main.rs:2038`) then
  goes back to the older one, which need not be the certificate "this process already parsed" for
  its sockets (`outrun`).
* `secrets.rs:416`, `:463` the value is read under one account and filed under whichever
  is current afterwards, or the other way round: a reload in between serves another
  account's credential (`straddled`). `secrets.rs:466` of two re-reads that overlap the
  older value may be kept.

*Pipeline.*
* `gate.rs:109` a question parked before a lockdown can still be answered yes
  (docs/enrolling.md:389).
* `gateway.rs:672` an upstream's answer that cannot be read leaves no record, nor does a
  URL that cannot be built after the gate (comment at 523).
* `admin.rs:404` `authorize` checks the scope before the targets, under "Same order as the
  proxy". `skills.rs:494` positions of rules and the rules are read under two locks, and
  expired ones are listed.

*Enrolment.*
* Two commands at once: the later write undoes the earlier, a removed agent included
  (`enroll.rs:655`); two writers of the store share one temporary name.
* `enroll.rs:1775` saves in place and without a lock, against "a half-written policy file is a proxy
  that will not restart" (`enroll.rs:1766`). A kill or a full disk leaves a beginning of the text,
  and a write over another's leaves the end of a longer one behind it. Either may not load: two
  entries of a name, targets of an agent whose service is not there any more. Or it loads and means
  something else: nothing at all, an agent without its `targets` (any target), a service without its
  credential, a rule without what limited it. A line cut off after a deadline's rule and before its
  `expires` is one more, and is not in the model, which has no deadlines in the file.
  `FilesStayWhole` is about the files that one write made ("whole") or that are empty.
* `profiles.rs:525` a profile commits its rules one by one. An edit that began before one
  of them was written and ends after it takes it out again, and the next one is appended
  all the same: a level that denies some calls and allows the rest may be left with the
  allowance only. (TLC finds it when the history `overlapped` is ignored.)
* `main.rs:1785` `secret rm` looks for uses among services only, against the comment at
  1734, and with a file that does not load it looks at nothing.
* `main.rs:1522` `unique_name` keeps the names of a plan apart from each other and from nothing else:
  an import of `op://` for a service `github` overwrites a store entry `github` that another service uses
  by `iap://github`, and changes its credential (comment at 1552). `ImportKeepsTheCredentials` leaves out the
  services kept under a name the plan takes.

*Bridge.*
* After a daemon restart, a revocation or a change of mode, calls are refused until the
  token nears its end. A renewal refused and then minted leaves the older token live.
* An HTTP batch whose relay fails is never answered, an empty answer leaves its call
  unanswered, and `stdio.rs:87` relays the gateway's error document without the call's id
  (comment at 84).

*Console.*
* `tui/mod.rs:586` a reload's announcement and its report may straddle the two drains of
  `catch_up`: the verification then runs against the policy before, and one's own reload is
  reported as an edit from elsewhere.
* `tui/mod.rs:1949` a rule removed in front of the one that asked makes the grant land behind
  it (comment at 1925); a rule is removed by the index it had when the question was asked.
* `tui/mod.rs:1279` a row of the frame can be answered twice in one burst: the first answer
  settles it, both write its rule.
* `tui/mod.rs:1843` the "for" and "forever" answers write a rule and do not
  settle the other parked calls it covers (docs/console.md:121). A verification asked for
  while one runs is skipped without a word.

*Verification.*
* `verify.rs:1091` a policy whose rules deny every call passes with "no rule names it" when
  nothing else admits; reachability looks past an earlier denial and at no agent's targets.
  `verify.rs:1148` an expired rule for `initialize` silences the handshake warning.
* `main.rs:3004`, `:2994` "Nothing is granted" is said though a literal rule left by a removal
  grants it, and of a policy that cannot ask also where the default allows. `main.rs:2981` "its
  first call goes out ... and nobody asked" is said behind an earlier rule that denies or asks, and
  of a rule that may cover some agents, methods or paths only; `main.rs:3002` "every agent can
  already call" though a rule asks or denies. `GrantsAreTrue` says what is so: the rule named allows
  what it was written for, where no earlier one decides.
* `verify.rs:549` "the credential is accepted but not entitled" is said of any 403, and so of a service that
  says 403 to a credential it does not accept (`blunt`).
* `verify.rs:977` a line that is not UTF-8 ends the exchange, against "everything ahead of it is
  noise" (`verify.rs:962`). `verify.rs:1525` a request of the server's own that carries the id asked
  for is taken for the answer, so that a refusal behind it is not read; of a remote server the model
  assumes it asks only of a client whose credential it accepts. `verify.rs:899` a child that ended
  before the second question is not heard about it, whatever it wrote.
* `verify.rs:863` stderr is read up to 400 bytes and then closed on the child.

## Not modelled, and why

Cryptography, encodings, header rewriting, TOML layout, catalogues, screens, forms and
one-shot commands: pure functions or I/O with no state that interleaves
(`components` has each). `profiles.rs`, a seventh of the source, is mostly a table of
services; half of most other files is tests. Of the modelled parts: the broker's bell and change
notifications, token signatures and scopes, the audit record's fields and its
hashing (an entry's id stands for its hash, so hashes do not collide), the
follower of the log, the reasons a policy is refused, the framing of MCP messages, the
console's forms and onboarding walk. Clocks only move forward.

## Plan

Done: the broker and its promise, the ledger, the log, the reload and the listeners, the
injector, the resolver, the ACL and the pipeline, the two files, the bridge, the console,
verification; proofs for all of them, and for the broker's refinement. Next:

1. The console's forms (`tui/form.rs`) and its onboarding walk, as a component below
   Console.
2. The follower of the log against rotation and truncation, composed with the writer.
3. Abstract specifications of a log that only grows by whole records and of a policy that
   changes atomically, for AuditLog and for one reload at a time.
