------------------------------ MODULE Secrets ------------------------------
(***************************************************************************)
(* The resolver of src/src/secrets.rs: the cache every credential is       *)
(* served from, the accounts 1Password references are read from, and the   *)
(* passes and calls that fill the one while a reload swaps the other.      *)
(*                                                                         *)
(* Three readers share it: the reloader (state.rs, preload_secrets), the   *)
(* console's credentials check (`c`, tui/mod.rs) and one live call.  No    *)
(* lock is held while `op` runs, so anything may happen between the start  *)
(* of a read, the moment `op` answers and the moment the value is kept.    *)
(*                                                                         *)
(* A reference of Vaulted is an `op://` one, and costs a process whose     *)
(* question a human answers; every other one is read in place.  Which      *)
(* bytes a value has is left out: it is the account it came from and the   *)
(* generation its source was at.                                           *)
(***************************************************************************)
EXTENDS Naturals, FiniteSets

CONSTANTS References,    \* every reference a policy may name
          Vaulted,       \* the op:// ones
          Accounts,      \* 1Password accounts
          Default,       \* the account of a reference nothing speaks for
          Policies,      \* policies: functions from references to accounts
          Rotating,      \* references whose credential may be rotated
          First,         \* the policy the process started with
          MaxReloads, MaxOthers, MaxRotations    \* bounds

ASSUME SecretsAssumption ==
    /\ Vaulted \subseteq References /\ Rotating \subseteq References
    /\ Default \in Accounts
    /\ First \in Policies
    /\ MaxReloads \in Nat /\ MaxOthers \in Nat /\ MaxRotations \in Nat
    /\ \A c \in Policies : /\ DOMAIN c \subseteq References
                           /\ \A r \in DOMAIN c : c[r] \in Accounts
                           /\ \A r \in DOMAIN c \ Vaulted : c[r] = Default

VARIABLES accounts,   \* the account each reference is read from, this moment
          cache,      \* what is held, by key
          generation, \* of what is behind each reference: its rotations so far
          policy,     \* the policy in force
          reader,     \* what each reader is doing
          straddled,  \* history: references moved while a reader was at them
          left        \* reloads, and checks and calls, still to come

vars == <<accounts, cache, generation, policy, reader, straddled, left>>

Readers == {"reload", "check", "call"}
Keys == References \X Accounts
None == <<>>
Values == [from : Accounts, at : 0..MaxRotations]

\* Every reference has an account: the policy's, or the default.
AccountsOf(c) == [r \in References |-> IF r \in DOMAIN c THEN c[r] ELSE Default]

SlipKey(r) == <<r, Default>>

\* key: the reference and, for one read from an account, the account.
Key(r) == <<r, accounts[r]>>

Holds(k) == cache[k] # None
Insert(k, v) == [cache EXCEPT ![k] = v]
ValueOf(r, a) == [from |-> a, at |-> generation[r]]

NoRun == [ref |-> None, key |-> None, from |-> Default, back |-> "", value |-> None]
Idle == [pc |-> "idle", refs |-> {}, fresh |-> FALSE, config |-> None, was |-> None,
         groups |-> [a \in Accounts |-> {}], group |-> {}, account |-> Default,
         refused |-> FALSE, run |-> NoRun, values |-> None, told |-> {}, failed |-> {},
         refusers |-> {}, moved |-> FALSE, held |-> {}, since |-> [r \in References |-> 0], alone |-> TRUE]

TypeOK ==
    /\ accounts \in [References -> Accounts]
    /\ cache \in [Keys -> Values \cup {None}]
    /\ generation \in [References -> 0..MaxRotations]
    /\ policy \in Policies
    /\ straddled \subseteq References
    /\ \A p \in Readers :
          LET q == reader[p] IN
          /\ q.pc \in {"idle", "wanted", "split", "accounts", "injecting", "keeping", "one",
                       "reading", "read", "rest", "decide", "served"}
          /\ q.told \cup q.failed \subseteq q.refs /\ q.told \cap q.failed = {}
          /\ q.pc \in {"decide", "served"} => q.told \cup q.failed = q.refs

----------------------------------------------------------------------------
\* What a reader is at: references it has put to an account, or is about to.
InFlight(q) ==
    (UNION {q.groups[a] : a \in Accounts}) \cup q.group
        \cup (IF q.run # NoRun THEN {q.run.ref} ELSE {})

\* set_op_accounts, and what it does to the readers it passes by.
Move(p, to) ==
    LET changed == {r \in References : to[r] # accounts[r]}
    IN /\ accounts' = to
       /\ straddled' = straddled \cup
             (changed \cap UNION {InFlight(reader[q]) : q \in Readers \ {p}})

Passing(p, q, to) ==
    [o \in Readers |->
        IF o = p THEN q
        ELSE [reader[o] EXCEPT !.moved = @ \/ (reader[o].pc # "idle" /\ to # accounts)]]

Begin(p, c, refs, fresh) ==
    [Idle EXCEPT !.pc = "wanted", !.config = c, !.since = generation, !.refs = refs, !.fresh = fresh,
                 !.was = accounts,
                 !.alone = \A o \in Readers \ {p} : InFlight(reader[o]) = {}]
Cleared(q) == [q EXCEPT !.since = Idle.since, !.alone = TRUE, !.was = None]

\* A reload: the new policy's accounts first, so that its reads are its own.
Reload(c, fresh) ==
    /\ left.reloads > 0
    /\ reader["reload"].pc \in {"idle", "served"}
    /\ left' = [left EXCEPT !.reloads = @ - 1]
    /\ Move("reload", AccountsOf(c))
    /\ reader' = Passing("reload", Begin("reload", c, DOMAIN c, fresh), AccountsOf(c))
    /\ UNCHANGED <<cache, generation, policy>>

\* `c` in the console: one at a time, everything the pane lists from its source.
Check ==
    /\ left.others > 0
    /\ reader["check"].pc = "idle"
    /\ left' = [left EXCEPT !.others = @ - 1]
    /\ reader' = [reader EXCEPT !["check"] = Cleared(Begin("check", policy, DOMAIN policy, TRUE))]
    /\ UNCHANGED <<accounts, cache, generation, policy, straddled>>

\* A live call for one of the policy's credentials.
Call(r) ==
    /\ left.others > 0
    /\ reader["call"].pc = "idle"
    /\ r \in DOMAIN policy
    /\ left' = [left EXCEPT !.others = @ - 1]
    /\ reader' = [reader EXCEPT !["call"] =
                     [Cleared(Begin("call", policy, {r}, FALSE)) EXCEPT !.pc = "rest",
                         !.held = {s \in {r} : Holds(Key(s))}]]
    /\ UNCHANGED <<accounts, cache, generation, policy, straddled>>

----------------------------------------------------------------------------
Becomes(p, q) == /\ reader' = [reader EXCEPT ![p] = q]
                 /\ UNCHANGED <<accounts, generation, policy, straddled, left>>

SlipWantedOf(q) == q.refs \cap Vaulted

\* onepassword_wanted: those to be asked of the vault at all.
WantedOf(q) == {r \in q.refs \cap Vaulted : q.fresh \/ ~Holds(Key(r))}

Wanted(p) ==
    /\ reader[p].pc = "wanted"
    /\ Becomes(p, [reader[p] EXCEPT !.pc = "split", !.group = WantedOf(reader[p]),
                                    !.held = {r \in reader[p].refs : Holds(Key(r))}])
    /\ UNCHANGED cache

\* by_account: one group for each account, each to be asked on its own.
Split(p) ==
    /\ reader[p].pc = "split"
    /\ Becomes(p, [reader[p] EXCEPT !.pc = "accounts", !.group = {},
                     !.groups = [a \in Accounts |->
                                    {r \in reader[p].group : accounts[r] = a}]])
    /\ UNCHANGED cache

\* The order of the file, which is the order of the questions.
Foremost(S) == CHOOSE x \in S : TRUE

\* One account's share: `op inject` for several references, `op read` for one.
NextAccount(p) ==
    LET q == reader[p]
        waiting == {b \in Accounts : q.groups[b] # {}}
        a == Foremost(waiting)
    IN
    /\ q.pc = "accounts" /\ waiting # {}
    /\ Becomes(p, [q EXCEPT !.groups[a] = {}, !.group = q.groups[a], !.account = a,
                     !.refused = FALSE,
                     !.pc = IF Cardinality(q.groups[a]) > 1 THEN "injecting" ELSE "one"])
    /\ UNCHANGED cache

NoMoreAccounts(p) ==
    /\ reader[p].pc = "accounts"
    /\ \A a \in Accounts : reader[p].groups[a] = {}
    /\ Becomes(p, [reader[p] EXCEPT !.pc = "rest"])
    /\ UNCHANGED cache

\* `op inject` answered with a value for each, some of them blank.
Injected(p) ==
    LET q == reader[p] IN
    /\ q.pc = "injecting"
    /\ \E blank \in SUBSET q.group :
          Becomes(p, [q EXCEPT !.pc = "keeping",
                        !.values = [r \in q.group |-> IF r \in blank THEN None
                                                      ELSE ValueOf(r, q.account)]])
    /\ UNCHANGED cache

SlipKeptOnce(q) == [k \in Keys |->
               IF k[1] \in q.group /\ k = Key(k[1]) /\ cache[k] = None
               THEN q.values[k[1]] ELSE cache[k]]

\* Each value under the key its reference has by now.  A blank one is an error.
Kept(q) == [k \in Keys |->
               IF k[1] \in q.group /\ k = Key(k[1]) /\ q.values[k[1]] # None
               THEN q.values[k[1]] ELSE cache[k]]

SlipAnswered(q) == q.group

Answered(q) == {r \in q.group : q.values[r] # None}

Keep(p) ==
    LET q == reader[p] IN
    /\ q.pc = "keeping"
    /\ cache' = Kept(q)
    /\ Becomes(p, [q EXCEPT !.pc = "accounts", !.group = {}, !.values = None,
                     !.told = @ \cup Answered(q),
                     !.failed = @ \cup (q.group \ Answered(q))])

\* The account would not have it: nothing more is asked of it.
AfterRefusal(q) == [q EXCEPT !.pc = "accounts", !.group = {}, !.failed = @ \cup q.group,
                             !.refusers = @ \cup {q.account}]

InjectRefused(p) ==
    /\ reader[p].pc = "injecting"
    /\ Becomes(p, AfterRefusal(reader[p]))
    /\ UNCHANGED cache

\* Anything else: one `op read` each.
InjectFailed(p) ==
    /\ reader[p].pc = "injecting"
    /\ Becomes(p, [reader[p] EXCEPT !.pc = "one"])
    /\ UNCHANGED cache

----------------------------------------------------------------------------
\* A read of one reference begins: its account is the one in force now, and
\* its key is settled already (resolve) or only once it was read.
Read(q, r, key, back) ==
    [q EXCEPT !.pc = "reading", !.run = [ref |-> r, key |-> key, from |-> accounts[r],
                                         back |-> back, value |-> None]]

\* The fallback, until a refusal.
One(p) ==
    LET q == reader[p]
        r == Foremost(q.group)
    IN
    /\ q.pc = "one" /\ q.group # {} /\ ~q.refused
    /\ Becomes(p, [Read(q, r, None, "one") EXCEPT !.group = @ \ {r}])
    /\ UNCHANGED cache

NoneLeft(p) ==
    LET q == reader[p] IN
    /\ q.pc = "one" /\ (q.group = {} \/ q.refused)
    /\ Becomes(p, [q EXCEPT !.pc = "accounts", !.group = {}, !.failed = @ \cup q.group])
    /\ UNCHANGED cache

\* What the vault pass did not take: from what is held, unless a re-read was
\* asked for, and otherwise from its source.
Rest(p, r) ==
    LET q == reader[p] IN
    /\ q.pc = "rest" /\ r \in q.refs \ (q.told \cup q.failed)
    /\ Becomes(p, IF ~q.fresh /\ Holds(Key(r)) THEN [q EXCEPT !.told = @ \cup {r}]
                  ELSE Read(q, r, IF q.fresh THEN None ELSE Key(r), "rest"))
    /\ UNCHANGED cache

\* The source answers with a value, with a refusal, or with what is wrong.
Got(p) ==
    LET q == reader[p] IN
    /\ q.pc = "reading"
    /\ Becomes(p, [q EXCEPT !.pc = "read", !.run.value = ValueOf(q.run.ref, q.run.from)])
    /\ UNCHANGED cache

Ends(q) == [q EXCEPT !.pc = q.run.back, !.failed = @ \cup {q.run.ref}, !.run = NoRun]

SlipRefused(q) == [Ends(q) EXCEPT !.refusers = @ \cup {q.run.from}]

Refused(q) == [Ends(q) EXCEPT !.refused = TRUE, !.refusers = @ \cup {q.run.from}]

ReadRefused(p) ==
    /\ reader[p].pc = "reading" /\ reader[p].run.ref \in Vaulted
    /\ Becomes(p, Refused(reader[p]))
    /\ UNCHANGED cache

\* What a failed read leaves in the cache: what was there.
Unread(q) == cache

ReadFailed(p) ==
    /\ reader[p].pc = "reading"
    /\ Becomes(p, Ends(reader[p]))
    /\ cache' = Unread(reader[p])

KeepOne(p) ==
    LET q == reader[p]
        key == IF q.run.key = None THEN Key(q.run.ref) ELSE q.run.key
    IN /\ q.pc = "read"
       /\ cache' = Insert(key, q.run.value)
       /\ Becomes(p, [q EXCEPT !.pc = q.run.back, !.told = @ \cup {q.run.ref}, !.run = NoRun])

SlipComplete(q) == q.refs \cap Vaulted \subseteq q.told \cup q.failed

\* One answer for each reference given.
Complete(q) == q.refs = q.told \cup q.failed

AllSaid(p) ==
    LET q == reader[p] IN
    /\ q.pc = "rest" /\ Complete(q)
    /\ Becomes(p, IF p = "reload" THEN [q EXCEPT !.pc = "decide"] ELSE Idle)
    /\ UNCHANGED cache

----------------------------------------------------------------------------
\* The rest of the reload: installed, with every reference resolved ...
Installable(q) == q.failed = {}

Install ==
    LET q == reader["reload"] IN
    /\ q.pc = "decide" /\ Installable(q)
    /\ policy' = q.config
    /\ reader' = [reader EXCEPT !["reload"].pc = "served"]
    /\ UNCHANGED <<accounts, cache, generation, straddled, left>>

\* ... or refused, for them or for anything else, and the accounts put back.
PutBack(q) == q.was

Refuse ==
    LET q == reader["reload"] IN
    /\ q.pc = "decide"
    /\ Move("reload", PutBack(q))
    /\ reader' = Passing("reload", Idle, PutBack(q))
    /\ UNCHANGED <<cache, generation, policy, left>>

\* A credential rotated behind an unchanged reference.
Rotate(r) ==
    /\ r \in Rotating /\ generation[r] < MaxRotations
    /\ generation' = [generation EXCEPT ![r] = @ + 1]
    /\ UNCHANGED <<accounts, cache, policy, reader, straddled, left>>

\* The process is up: startup read every reference of its policy.
Init ==
    /\ policy = First
    /\ accounts = AccountsOf(First)
    /\ generation = [r \in References |-> 0]
    /\ cache = [k \in Keys |-> IF k[1] \in DOMAIN First /\ k = Key(k[1])
                               THEN ValueOf(k[1], accounts[k[1]]) ELSE None]
    /\ reader = [p \in Readers |-> Idle]
    /\ straddled = {}
    /\ left = [reloads |-> MaxReloads, others |-> MaxOthers]

Step(p) ==
    \/ Wanted(p) \/ Split(p) \/ NextAccount(p) \/ NoMoreAccounts(p)
    \/ Injected(p) \/ Keep(p) \/ InjectRefused(p) \/ InjectFailed(p)
    \/ \E r \in References : Rest(p, r)
    \/ One(p) \/ NoneLeft(p) \/ Got(p) \/ ReadRefused(p) \/ ReadFailed(p) \/ KeepOne(p) \/ AllSaid(p)

Next ==
    \/ \E c \in Policies, fresh \in BOOLEAN : Reload(c, fresh)
    \/ Check
    \/ \E r \in References : Call(r)
    \/ \E p \in Readers : Step(p)
    \/ Install \/ Refuse
    \/ \E r \in References : Rotate(r)

Spec == Init /\ [][Next]_vars

----------------------------------------------------------------------------
\* A value is held under the account it was read from: what a reference is
\* answered with is its own account's credential.  Except for a reference some
\* reader was at while a reload moved it, which is where the code has a race
\* (README).
CachedFromItsAccount ==
    \A k \in Keys : Holds(k) /\ k[1] \in Vaulted \ straddled => cache[k].from = k[2]

\* Once an account refused, the pass it refused puts no other dialogue in front
\* of the same person -- unless the accounts moved under that pass.
NotAskedAgain ==
    \A p \in Readers :
       LET q == reader[p] IN
       ~q.moved =>
          /\ q.pc = "injecting" => q.account \notin q.refusers
          /\ q.pc = "reading" /\ q.run.ref \in Vaulted => q.run.from \notin q.refusers

\* A pass nobody asked to re-read, and a live call, run no `op` for a reference
\* this process already held when it looked: an edited rule costs no dialogue.
HeldIsNotAsked ==
    \A p \in Readers :
       LET q == reader[p] IN
       ~q.moved /\ ~q.fresh =>
          /\ q.pc = "injecting" => q.group \cap q.held = {}
          /\ q.pc = "reading" => q.run.ref \notin q.held

\* Between reloads, everything the policy in force names is held, from the
\* account that policy reads it from: no live call waits on a vault, whatever
\* reloads were refused and whatever checks failed on the way.
ServedIsHeld ==
    reader["reload"].pc \in {"idle", "served"} =>
       /\ accounts = AccountsOf(policy)
       /\ \A r \in DOMAIN policy : Holds(Key(r))

\* A reload that was asked to re-read serves nothing older than what was behind
\* the references when it began, if no other read was in flight then (one that
\* was may keep its older value after the reload's).
RotationTakesEffect ==
    LET q == reader["reload"] IN
    q.pc = "served" /\ q.fresh /\ q.alone =>
       \A r \in DOMAIN policy : Holds(Key(r)) => cache[Key(r)].at >= q.since[r]

\* What the cache holds is what the policy in force wants: whole, from its accounts, and no
\* older than the re-read that was asked for.
TheCacheIsRight == TypeOK /\ CachedFromItsAccount /\ ServedIsHeld /\ RotationTakesEffect

\* No dialogue is put in front of a person who refused it or for what is held already.
NobodyAskedInVain == NotAskedAgain /\ HeldIsNotAsked
=============================================================================
