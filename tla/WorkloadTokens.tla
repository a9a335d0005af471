--------------------------- MODULE WorkloadTokens ---------------------------
(***************************************************************************)
(* Workload tokens: the ledger of src/src/workload.rs and the handlers of  *)
(* src/src/tokens.rs that mint, renew and revoke.                          *)
(*                                                                         *)
(* A renewal or a revocation is two steps, because it takes the ledger's   *)
(* lock twice: `verify` looks the presented token up, and the operation    *)
(* acts on what it found.  Handlers run on several threads, so anything    *)
(* happens in between.  The clock is read with the lock held, not just     *)
(* before.  Any holder of any copy may present any token ever issued.      *)
(* Signatures, and what a scope covers, are left out: a token this process *)
(* did not sign reaches none of this state.                                *)
(*                                                                         *)
(* An operator named Slip... is the definition after it gone wrong: what   *)
(* the property it names would catch.                                      *)
(***************************************************************************)
EXTENDS Naturals, Sequences

CONSTANTS
  Agents,         \* the agents a policy file can name
  Calls,          \* the requests being handled at the same time
  MinLifetime,    \* MIN_WORKLOAD_LIFETIME_SECS
  MaxLifetime,    \* MAX_WORKLOAD_LIFETIME_SECS
  Tombstone,      \* TOMBSTONE_SECS
  MaxTokens,      \* bound on the tokens issued
  MaxTime         \* bound on the clock

ASSUME Numbers ==
  /\ MinLifetime \in Nat \ {0} /\ MaxLifetime \in Nat /\ MinLifetime <= MaxLifetime
  /\ Tombstone \in Nat /\ MaxTokens \in Nat /\ MaxTime \in Nat

VARIABLES
  now,        \* the wall clock
  enabled,    \* the mode lets workload tokens be used at all
  ceiling,    \* the longest life the policy gives a token
  roster,     \* the agents the policy file names
  issued,     \* every token ever signed: what its claims and its entry both say
  state,      \* what the ledger says of each; "gone" once its entry is pruned
  step,       \* what each call is about to do
  held,       \* the token each call has verified; 0 for none
  replayed    \* history: lineage -> how many tokens existed at its latest detected replay

ledger == <<issued, state>>
policy == <<enabled, ceiling, roster>>
calls == <<step, held>>
issuerVars == <<now, policy, ledger, calls, replayed>>

Tokens == 1..Len(issued)

Clamp(x, low, high) == IF x < low THEN low ELSE IF x > high THEN high ELSE x

\* WorkloadIssuer::new
IssuerInit ==
  /\ now = 0
  /\ enabled \in BOOLEAN
  /\ ceiling \in MinLifetime..MaxLifetime
  /\ roster \in SUBSET Agents
  /\ issued = <<>> /\ state = <<>>
  /\ step = [c \in Calls |-> "idle"]
  /\ held = [c \in Calls |-> 0]
  /\ replayed = [t \in 1..MaxTokens |-> 0]

-----------------------------------------------------------------------------
(* The ledger. *)

\* Slip for NothingLiveIsForgotten: the tombstone is counted the wrong way.
SlipStale(t) == issued[t].expires <= now + Tombstone

\* Past its expiry for so long that prune drops its entry.
Stale(t) == issued[t].expires + Tombstone <= now

Pruned == [t \in Tokens |-> IF Stale(t) THEN "gone" ELSE state[t]]

\* Slip for RenewedIsRetired: only a renewal of a minted token retires it.
SlipRetiresMinted(u, parent, s) == u = parent /\ s[u] = "active" /\ issued[u].parent = 0
\* Slip for SpentStaysSpent: it also retires what was revoked in the meantime.
SlipRetiresRevoked(u, parent, s) == u = parent /\ s[u] # "gone"
\* A renewal retires the token it renews if that is still active.
Retires(u, parent, s) == u = parent /\ s[u] = "active"

\* issue, under one lock: prune, retire the token renewed, insert its successor.
\* A lineage goes by the token it began with.
Issue(agent, parent, asked) ==
  /\ Len(issued) < MaxTokens
  /\ LET t == Len(issued) + 1
         life == Clamp(asked, MinLifetime, ceiling)
     IN /\ issued' = Append(issued,
             [agent |-> agent, parent |-> parent, expires |-> now + life,
              lineage |-> IF parent = 0 THEN t ELSE issued[parent].lineage])
        /\ state' = [u \in 1..t |->
             IF u = t THEN "active"
             ELSE IF Retires(u, parent, Pruned) THEN "superseded"
             ELSE Pruned[u]]

\* Slip for KillReachesTheLineage: only the copy presented is revoked.
SlipSharesFate(t, u) == t = u

\* revoke_lineage reaches every token that shares t's lineage ...
SharesFate(t, u) == issued[t].lineage = issued[u].lineage

\* ... whose entry is still there.
LineageRevoked(t) ==
  [u \in Tokens |-> IF SharesFate(t, u) /\ state[u] # "gone" THEN "revoked" ELSE state[u]]

\* verify: what the ledger answers to a token of ours.
Standing(t) ==
  IF issued[t].expires <= now THEN "expired"
  ELSE IF state[t] = "superseded" THEN "replayed"
  ELSE state[t]

-----------------------------------------------------------------------------
(* The requests. *)

Purposes == {"renew", "revoke"}

\* mint: the agent token is the only credential that works here.
Mint(g, asked) ==
  /\ g \in roster /\ enabled
  /\ Issue(g, 0, asked)
  /\ UNCHANGED <<now, policy, calls, replayed>>

\* A call presents a token that verifies.  To renew, its agent must still be
\* configured; one that only authenticates or introspects leaves the ledger alone.
Verified(c, t, purpose) ==
  /\ step[c] = "idle" /\ enabled
  /\ Standing(t) = "active"
  /\ purpose = "renew" => issued[t].agent \in roster
  /\ step' = [step EXCEPT ![c] = purpose]
  /\ held' = [held EXCEPT ![c] = t]
  /\ UNCHANGED <<now, policy, ledger, replayed>>

\* A call presents a token renewed away from, to whatever endpoint: the whole
\* lineage goes.
Replay(t) ==
  /\ enabled
  /\ Standing(t) = "replayed"
  /\ state' = LineageRevoked(t)
  /\ replayed' = [replayed EXCEPT ![issued[t].lineage] = Len(issued)]
  /\ UNCHANGED <<now, policy, issued, calls>>

\* renew, after `verify`: refused when the mode was switched off meanwhile.
Renew(c, asked) ==
  /\ step[c] = "renew"
  /\ IF enabled THEN Issue(issued[held[c]].agent, held[c], asked) ELSE UNCHANGED ledger
  /\ step' = [step EXCEPT ![c] = "idle"]
  /\ held' = [held EXCEPT ![c] = 0]
  /\ UNCHANGED <<now, policy, replayed>>

\* revoke, after `verify`: the lineage, unless the caller asked for the one token.
Revoke(c, whole) ==
  /\ step[c] = "revoke"
  /\ LET t == held[c]
     IN state' = IF state[t] = "gone" THEN state
                 ELSE IF whole THEN LineageRevoked(t)
                 ELSE [state EXCEPT ![t] = "revoked"]
  /\ step' = [step EXCEPT ![c] = "idle"]
  /\ held' = [held EXCEPT ![c] = 0]
  /\ UNCHANGED <<now, policy, issued, replayed>>

\* reconfigure: tokens already issued keep the life they were given.
Reconfigure(on, lifetime) ==
  /\ enabled' = on
  /\ ceiling' = Clamp(lifetime, MinLifetime, MaxLifetime)
  /\ UNCHANGED <<now, roster, ledger, calls, replayed>>

\* A reload puts another roster in charge; the ledger is not touched.
Enrol(R) ==
  /\ roster' = R
  /\ UNCHANGED <<now, enabled, ceiling, ledger, calls, replayed>>

Tick ==
  /\ now < MaxTime
  /\ now' = now + 1
  /\ UNCHANGED <<policy, ledger, calls, replayed>>

\* A lifetime asked for, or configured, may be outside the limits.
Lifetimes == 0..(MaxLifetime + 1)

IssuerNext ==
  \/ \E g \in Agents, asked \in Lifetimes : Mint(g, asked)
  \/ \E t \in Tokens :
       (\E c \in Calls, purpose \in Purposes : Verified(c, t, purpose)) \/ Replay(t)
  \/ \E c \in Calls :
       (\E asked \in Lifetimes : Renew(c, asked)) \/ (\E whole \in BOOLEAN : Revoke(c, whole))
  \/ \E on \in BOOLEAN, lifetime \in Lifetimes : Reconfigure(on, lifetime)
  \/ \E R \in SUBSET Agents : Enrol(R)
  \/ Tick

IssuerSpec == IssuerInit /\ [][IssuerNext]_issuerVars

-----------------------------------------------------------------------------
(* Properties. *)

Token == [agent : Agents, parent : Nat, expires : Nat, lineage : Nat \ {0}]

LedgerOK ==
  /\ issued \in Seq(Token) /\ Len(issued) <= MaxTokens
  /\ \A t \in Tokens : issued[t].parent < t /\ issued[t].lineage <= t
  /\ state \in [Tokens -> {"active", "superseded", "revoked", "gone"}]

CallsOK ==
  /\ step \in [Calls -> {"idle", "renew", "revoke"}]
  /\ held \in [Calls -> Nat]
  /\ \A c \in Calls : step[c] # "idle" => held[c] \in Tokens

IssuerTypeOK ==
  /\ now \in Nat /\ enabled \in BOOLEAN /\ roster \subseteq Agents
  /\ ceiling \in MinLifetime..MaxLifetime
  /\ LedgerOK /\ CallsOK
  /\ replayed \in [1..MaxTokens -> Nat]

\* "Renewal rotates": once a token has a successor, no order of renewals,
\* revocations and replays leaves it usable beside it.
RenewedIsRetired ==
  \A t \in Tokens : issued[t].parent # 0 => state[issued[t].parent] # "active"

\* A renewal is the only thing that retires a token, so a workload told its
\* token was "renewed away from" has a successor to look for.
RetiredHasSuccessor ==
  \A t \in Tokens : state[t] = "superseded" => \E u \in Tokens : issued[u].parent = t

Worse == [active |-> 0, superseded |-> 1, revoked |-> 2, gone |-> 3]

\* What is spent stays spent, and what is revoked is not mistaken for a replay
\* later: no race of operations takes an entry back to an earlier state.
SpentStaysSpent ==
  [][\A t \in Tokens : Worse[state[t]] <= Worse[state'[t]]]_issuerVars

\* prune forgets only what can no longer be used, so `verify` never answers
\* "unknown token" to one that has not expired.
NothingLiveIsForgotten ==
  \A t \in Tokens : now < issued[t].expires => state[t] # "gone"

\* A detected replay reaches every token its lineage had by then, and none of
\* them is ever usable again.
KillReachesTheLineage ==
  \A t \in Tokens : t <= replayed[issued[t].lineage] => state[t] # "active"

=============================================================================
