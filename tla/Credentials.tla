----------------------------- MODULE Credentials -----------------------------
(***************************************************************************)
(* The credentials a proxy mints itself: the token cache, the mint gate    *)
(* and the parsed keys of src/src/credentials.rs, used by the requests     *)
(* being forwarded while AppState::reload of src/src/state.rs replaces the *)
(* policy.  It is the story of one target, as targets share nothing here.  *)
(*                                                                         *)
(* The target's `auth` has versions, 0 when the policy file does not name  *)
(* the target; what its secret reference points at has generations.  A     *)
(* request keeps the version of its snapshot of the policy, however long   *)
(* it was held for a human before it came here.  Every lock, and every     *)
(* await, ends a step.                                                     *)
(*                                                                         *)
(* An operator named Slip... is the definition after it gone wrong: what   *)
(* the property it names would catch.                                      *)
(***************************************************************************)
EXTENDS Naturals, Sequences

CONSTANTS
  Calls,           \* the requests being forwarded
  Schemes,         \* whether the target's scheme parses a key: FALSE is oauth2_client_credentials,
                   \* TRUE is service_account_jwt
  MaxVersions,     \* bound on the versions of the target's auth
  MaxGenerations,  \* bound on the generations of its secret
  MaxTokens        \* bound on the tokens minted

ASSUME SchemesAreTheTwo == Schemes \subseteq BOOLEAN
ASSUME ThereIsAVersion == MaxVersions \in Nat \ {0} /\ MaxGenerations \in Nat \ {0}

VARIABLES
  keyIsParsed, \* the target's scheme, which it keeps
  policy,      \* the version the policy in force names
  versions,    \* how many versions there have been
  source,      \* the generation the secret's source holds
  read,        \* the generation the resolver holds of each version's reference; 0 for none
  key,         \* the parsed key: the version and the generation it is of
  minted,      \* every token ever minted: what it was minted from
  recorded,    \* the tokens whose mint is in the audit log
  cache,       \* the cached token; 0 for none
  usable,      \* it is not yet due to be minted again
  gate,        \* the call that holds the mint gate
  pc,          \* what each call does next
  snapshot,    \* the version of its snapshot of the policy
  using,       \* the key or secret it mints from
  token,       \* the token it has
  stage,       \* what the reload does next
  draft,       \* the version its policy names
  disturbed    \* history: a call minted or parsed while a reload was going on or after
               \* it, for the policy before; or a reload was refused at the end

held == <<key, minted, recorded, cache, usable>>
secrets == <<keyIsParsed, source, read>>
calls == <<gate, pc, snapshot, using, token>>
reload == <<policy, versions, stage, draft>>
vars == <<held, secrets, calls, reload, disturbed>>

NoCall == "nobody"
ASSUME NobodyIsNoCall == NoCall \notin Calls

None == [version |-> 0, generation |-> 0]
Secret(v) == [version |-> v, generation |-> read[v]]

Init ==
  /\ keyIsParsed \in Schemes
  /\ policy = 1 /\ versions = 1
  /\ source = 1 /\ read = [v \in 1..MaxVersions |-> IF v = 1 THEN 1 ELSE 0]
  /\ key = IF keyIsParsed THEN Secret(1) ELSE None
  /\ minted = <<>> /\ recorded = {}
  /\ cache = 0 /\ usable = FALSE
  /\ gate = NoCall
  /\ pc = [c \in Calls |-> "new"]
  /\ snapshot = [c \in Calls |-> 0]
  /\ using = [c \in Calls |-> None]
  /\ token = [c \in Calls |-> 0]
  /\ stage = "no" /\ draft = 1
  /\ disturbed = FALSE

-----------------------------------------------------------------------------
(* A request, from its snapshot of the policy on. *)

\* A target the policy does not name is a 404.
Known(v) == v # 0

TakeSnapshot(c) ==
  /\ pc[c] = "new"
  /\ Known(policy)
  /\ snapshot' = [snapshot EXCEPT ![c] = policy]
  /\ pc' = [pc EXCEPT ![c] = "asking"]
  /\ UNCHANGED <<held, secrets, gate, using, token, reload, disturbed>>

\* cached_token
Cached == cache # 0 /\ usable

\* minted_token: the cache first, without the gate.
LookInCache(c) ==
  /\ pc[c] = "asking"
  /\ token' = [token EXCEPT ![c] = IF Cached THEN cache ELSE 0]
  /\ pc' = [pc EXCEPT ![c] = IF Cached THEN "sending" ELSE "waiting"]
  /\ UNCHANGED <<held, secrets, gate, snapshot, using, reload, disturbed>>

\* Slip for MintsOnlyWhenNeeded: whoever waited for the gate mints.
SlipFound == FALSE
\* The cache again, now that nobody else is minting.
Found == Cached

PassGate(c) ==
  /\ pc[c] = "waiting" /\ gate = NoCall
  /\ token' = [token EXCEPT ![c] = IF Found THEN cache ELSE 0]
  /\ gate' = IF Found THEN NoCall ELSE c
  /\ using' = [using EXCEPT ![c] = IF keyIsParsed THEN None ELSE Secret(snapshot[c])]
  /\ pc' = [pc EXCEPT ![c] = IF Found THEN "sending"
                             ELSE IF keyIsParsed THEN "loading" ELSE "minting"]
  /\ UNCHANGED <<held, secrets, snapshot, reload, disturbed>>

\* service_account: the key parsed before, if there is one.
LookUpKey(c) ==
  /\ pc[c] = "loading"
  /\ using' = [using EXCEPT ![c] = key]
  /\ pc' = [pc EXCEPT ![c] = IF key = None THEN "parsing" ELSE "minting"]
  /\ UNCHANGED <<held, secrets, gate, snapshot, token, reload, disturbed>>

\* It is not for the policy in force, or that is being replaced.
OutOfStep(v) == v # policy \/ stage # "no"

\* Otherwise the key of the snapshot's version, which is then kept.
ParseKey(c) ==
  /\ pc[c] = "parsing"
  /\ key' = Secret(snapshot[c])
  /\ using' = [using EXCEPT ![c] = key']
  /\ pc' = [pc EXCEPT ![c] = "minting"]
  /\ disturbed' = (disturbed \/ OutOfStep(snapshot[c]))
  /\ UNCHANGED <<minted, recorded, cache, usable, secrets, gate, snapshot, token, reload>>

\* The provider answers with a token, which is cached at once.
Mint(c) ==
  /\ pc[c] = "minting" /\ Len(minted) < MaxTokens
  /\ minted' = Append(minted, using[c])
  /\ cache' = Len(minted) + 1 /\ usable' = TRUE
  /\ token' = [token EXCEPT ![c] = Len(minted) + 1]
  /\ pc' = [pc EXCEPT ![c] = "recording"]
  /\ disturbed' = (disturbed \/ OutOfStep(using[c].version))
  /\ UNCHANGED <<key, recorded, secrets, gate, snapshot, using, reload>>

\* Slip for EveryCallEnds: only a token that was recorded lets the next one in.
SlipReleased(c) == gate
\* The guard is dropped on every way out.
Released(c) == IF gate = c THEN NoCall ELSE gate

\* A key that does not parse, or a provider that refuses or does not answer.
Fail(c) ==
  /\ pc[c] \in {"parsing", "minting"}
  /\ pc' = [pc EXCEPT ![c] = "done"]
  /\ gate' = Released(c)
  /\ UNCHANGED <<held, secrets, snapshot, using, token, reload, disturbed>>

\* The client is gone while the request awaits something, and its future is dropped.
Cancel(c) ==
  /\ pc[c] \in {"waiting", "minting", "sending"}
  /\ pc' = [pc EXCEPT ![c] = "done"]
  /\ gate' = Released(c)
  /\ UNCHANGED <<held, secrets, snapshot, using, token, reload, disturbed>>

\* The mint is recorded ...
Record(c) ==
  /\ pc[c] = "recording"
  /\ recorded' = recorded \cup {token[c]}
  /\ pc' = [pc EXCEPT ![c] = "sending"]
  /\ gate' = NoCall
  /\ UNCHANGED <<key, minted, cache, usable, secrets, snapshot, using, token, reload, disturbed>>

\* ... or cannot be, and the token is dropped again.
RecordFails(c) ==
  /\ pc[c] = "recording"
  /\ cache' = 0 /\ usable' = FALSE
  /\ pc' = [pc EXCEPT ![c] = "done"]
  /\ gate' = Released(c)
  /\ UNCHANGED <<key, minted, recorded, secrets, snapshot, using, token, reload, disturbed>>

\* The upstream answers; a 401 costs the cache whatever token it holds by now.
Answered(c, status) ==
  /\ pc[c] = "sending"
  /\ pc' = [pc EXCEPT ![c] = "done"]
  /\ cache' = IF status = 401 THEN 0 ELSE cache
  /\ usable' = (usable /\ status # 401)
  /\ UNCHANGED <<key, minted, recorded, secrets, gate, snapshot, using, token, reload, disturbed>>

\* usable_until has passed.
Age ==
  /\ usable
  /\ usable' = FALSE
  /\ UNCHANGED <<key, minted, recorded, cache, secrets, calls, reload, disturbed>>

-----------------------------------------------------------------------------
(* A reload, one at a time.  (Several at once: module Reload.) *)

\* The secret is replaced behind its reference.
Rotate ==
  /\ source < MaxGenerations
  /\ source' = source + 1
  /\ UNCHANGED <<held, keyIsParsed, read, calls, reload, disturbed>>

\* The target's auth as it was, removed, or of a new version.
Drafts == {policy, 0} \cup IF versions < MaxVersions THEN {versions + 1} ELSE {}

\* Slip for NothingOldIsKept: an auth edited in place counts as the same one.
SlipChanged(v) == FALSE
\* The target is named before and after, with another auth.
Changed(v) == policy # 0 /\ v # 0 /\ v # policy

\* preload_secrets, whose `fresh` is whether somebody asked; and what to forget.
Begin(v, fresh) ==
  /\ stage = "no"
  /\ draft' = v
  /\ versions' = IF v > versions THEN v ELSE versions
  /\ read' = IF v # 0 /\ (fresh \/ read[v] = 0) THEN [read EXCEPT ![v] = source] ELSE read
  /\ stage' = IF Changed(v) THEN "forget token" ELSE IF v # 0 THEN "warm" ELSE "retain"
  /\ UNCHANGED <<held, keyIsParsed, source, calls, policy, disturbed>>

\* forget
ForgetToken ==
  /\ stage = "forget token"
  /\ cache' = 0 /\ usable' = FALSE
  /\ stage' = "forget key"
  /\ UNCHANGED <<key, minted, recorded, secrets, calls, policy, versions, draft, disturbed>>

ForgetKey ==
  /\ stage = "forget key"
  /\ key' = None
  /\ stage' = "warm"
  /\ UNCHANGED <<minted, recorded, cache, usable, secrets, calls, policy, versions, draft,
                 disturbed>>

\* warm: nothing to do for a key that is there.
Warm ==
  /\ stage = "warm"
  /\ stage' = IF keyIsParsed /\ key = None THEN "parse" ELSE "retain"
  /\ UNCHANGED <<held, secrets, calls, policy, versions, draft, disturbed>>

WarmParses ==
  /\ stage = "parse"
  /\ key' = Secret(draft)
  /\ stage' = "retain"
  /\ UNCHANGED <<minted, recorded, cache, usable, secrets, calls, policy, versions, draft,
                 disturbed>>

\* A rule, a bad key, another target's bad key or a client that does not build: refused.
Refuse ==
  /\ stage \in {"forget token", "warm", "parse", "retain"}
  /\ stage' = "no"
  /\ disturbed' = (disturbed \/ stage = "retain")
  /\ UNCHANGED <<held, secrets, calls, policy, versions, draft>>

\* retain_targets forgets a target that is gone, and then its key ...
Retain ==
  /\ stage = "retain"
  /\ IF draft = 0 THEN cache' = 0 /\ usable' = FALSE ELSE UNCHANGED <<cache, usable>>
  /\ stage' = "retain key"
  /\ UNCHANGED <<key, minted, recorded, secrets, calls, policy, versions, draft, disturbed>>

RetainKey ==
  /\ stage = "retain key"
  /\ key' = IF draft = 0 THEN None ELSE key
  /\ stage' = "swap"
  /\ UNCHANGED <<minted, recorded, cache, usable, secrets, calls, policy, versions, draft,
                 disturbed>>

\* ... and the new policy is the one snapshots are taken of.
Swap ==
  /\ stage = "swap"
  /\ policy' = draft
  /\ stage' = "no"
  /\ UNCHANGED <<held, secrets, calls, versions, draft, disturbed>>

-----------------------------------------------------------------------------

CallStep(c) ==
  \/ TakeSnapshot(c) \/ LookInCache(c) \/ PassGate(c) \/ LookUpKey(c) \/ ParseKey(c)
  \/ Mint(c) \/ Fail(c) \/ Record(c) \/ RecordFails(c)
  \/ \E status \in {200, 401} : Answered(c, status)

ReloadStep ==
  \/ ForgetToken \/ ForgetKey \/ Warm \/ WarmParses \/ Refuse
  \/ Retain \/ RetainKey \/ Swap

Next ==
  \/ \E c \in Calls : CallStep(c) \/ Cancel(c)
  \/ \E v \in Drafts, fresh \in BOOLEAN : Begin(v, fresh)
  \/ ReloadStep \/ Age \/ Rotate

Spec == Init /\ [][Next]_vars

\* Requests are polled, and the provider and the upstream answer or time out.  A
\* client need not ever hang up.
FairSpec == Spec /\ \A c \in Calls : WF_vars(CallStep(c))

-----------------------------------------------------------------------------
(* Properties. *)

Source == [version : 0..MaxVersions, generation : 0..MaxGenerations]
Minting == {"loading", "parsing", "minting", "recording"}

TypeOK ==
  /\ keyIsParsed \in BOOLEAN
  /\ policy \in 0..versions /\ versions \in 1..MaxVersions
  /\ source \in 1..MaxGenerations
  /\ read \in [1..MaxVersions -> 0..source]
  /\ key \in Source
  /\ minted \in Seq(Source) /\ recorded \subseteq 1..Len(minted)
  /\ cache \in 0..Len(minted) /\ usable \in BOOLEAN
  /\ pc \in [Calls -> {"new", "asking", "waiting", "sending", "done"} \cup Minting]
  /\ gate \in Calls \cup {NoCall}
  /\ snapshot \in [Calls -> 0..versions]
  /\ \A c \in Calls : pc[c] # "new" => snapshot[c] # 0
  /\ using \in [Calls -> Source] /\ token \in [Calls -> 0..Len(minted)]
  /\ stage \in {"no", "forget token", "forget key", "warm", "parse", "retain",
                "retain key", "swap"}
  /\ draft \in 0..versions /\ disturbed \in BOOLEAN

\* "a burst of requests on a cold cache mints one token rather than one each": no
\* order of arrivals, cancellations, reloads and refused tokens has a token minted
\* while one is there to be used.
MintsOnlyWhenNeeded ==
  [][Len(minted') > Len(minted) => ~Cached]_vars

\* A reload that was accepted leaves nothing of an auth the policy no longer names:
\* unless a request was minting for the policy before it, or one was refused late.
NothingOldIsKept ==
  stage = "no" /\ ~disturbed =>
    /\ cache # 0 => minted[cache].version = policy
    /\ key # None => key.version = policy

\* Whatever becomes of the provider, the log, the upstream and the client, the gate
\* is given up and every request that was let in ends.
EveryCallEnds == \A c \in Calls : (pc[c] # "new") ~> (pc[c] = "done")

\* The cache holds one token of one auth, and it is the policy's.
TheCacheIsCurrent == TypeOK /\ NothingOldIsKept
=============================================================================
