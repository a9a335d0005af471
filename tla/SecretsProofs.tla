---------------------------- MODULE SecretsProofs ----------------------------
(***************************************************************************)
(* That the cache holds what the policy in force wants, and that nobody is *)
(* asked in vain: for any references, accounts and policies, any number of *)
(* reloads, checks, calls and rotations, in any order.                     *)
(***************************************************************************)
EXTENDS Secrets, TLAPS

-----------------------------------------------------------------------------
(* The invariant.  First the types: a reader's record, and what it reads.   *)

Stage == {"idle", "wanted", "split", "accounts", "injecting", "keeping", "one",
          "reading", "read", "rest", "decide", "served"}

Run == [ref : References \cup {None}, key : Keys \cup {None}, from : Accounts,
        back : {"", "one", "rest"}, value : Values \cup {None}]

\* Of the references of one account's group.
Answers == UNION {[S -> Values \cup {None}] : S \in SUBSET References}

Reader == [pc : Stage, refs : SUBSET References, fresh : BOOLEAN, config : Policies \cup {None},
           was : [References -> Accounts] \cup {None},
           groups : [Accounts -> SUBSET References], group : SUBSET References,
           account : Accounts, refused : BOOLEAN, run : Run,
           values : Answers \cup {None},
           told : SUBSET References, failed : SUBSET References, refusers : SUBSET Accounts,
           moved : BOOLEAN, held : SUBSET References,
           since : [References -> 0..MaxRotations], alone : BOOLEAN]

TypeInv ==
    /\ accounts \in [References -> Accounts]
    /\ cache \in [Keys -> Values \cup {None}]
    /\ generation \in [References -> 0..MaxRotations]
    /\ policy \in Policies
    /\ straddled \subseteq References
    /\ reader \in [Readers -> Reader]

-----------------------------------------------------------------------------
(* One reader.  What it is at is what its stage says, and a reference is at *)
(* one place only: waiting in one account's group, in the group in hand, in *)
(* the read that runs, or answered.                                         *)

InAccount == {"injecting", "keeping", "one"}

Places(q) ==
    /\ q.pc \in {"idle", "wanted", "split", "rest", "decide", "served"} =>
          \A a \in Accounts : q.groups[a] = {}
    /\ q.pc \notin InAccount \cup {"split", "reading", "read"} => q.group = {}
    /\ q.pc = "idle" => q.held = {}
    /\ q.pc \in {"reading", "read"} <=> q.run # NoRun
    /\ q.pc = "keeping" => DOMAIN q.values = q.group /\ \A r \in q.group : q.values[r] \in Values \cup {None}
    /\ q.pc = "read" => q.run.value \in Values
    /\ q.pc \in {"reading", "read"} =>
          /\ q.run.ref \in References
          /\ q.run.back \in {"one", "rest"}
          /\ q.run.back = "rest" => q.group = {} /\ \A a \in Accounts : q.groups[a] = {}
          /\ q.run.back = "one" => q.run.ref \in Vaulted /\ q.run.key = None
          /\ q.run.key # None => q.run.key = <<q.run.ref, q.run.from>>

Busy(q, r) == q.pc \in {"reading", "read"} /\ q.run.ref = r

Once(q) ==
    /\ q.told \cup q.failed \subseteq q.refs /\ q.told \cap q.failed = {}
    /\ q.pc \in {"idle", "wanted", "split"} => q.told = {} /\ q.failed = {} /\ q.refusers = {}
    /\ q.pc \in {"decide", "served"} => q.told \cup q.failed = q.refs
    /\ \A a \in Accounts : \A r \in q.groups[a] :
          /\ r \in (q.refs \cap Vaulted) \ (q.told \cup q.failed \cup q.group)
          /\ ~Busy(q, r)
          /\ \A b \in Accounts : r \in q.groups[b] => b = a
    /\ \A r \in q.group : r \in (q.refs \cap Vaulted) \ (q.told \cup q.failed) /\ ~Busy(q, r)
    /\ \A r \in References : Busy(q, r) => r \in q.refs \ (q.told \cup q.failed)

\* What is in flight came from the account its reference has, unless a reload
\* moved that reference meanwhile.
Holding(q) == q.pc \in InAccount \cup {"reading", "read"}
Still(q, r) == ~q.moved \/ r \notin straddled

AtTheirAccounts(q) ==
    /\ \A a \in Accounts : \A r \in q.groups[a] : Still(q, r) => accounts[r] = a
    /\ Holding(q) => \A r \in q.group : Still(q, r) => accounts[r] = q.account
    /\ q.pc = "keeping" => \A r \in q.group : q.values[r] # None => q.values[r].from = q.account
    /\ \A r \in References : Busy(q, r) /\ Still(q, r) => accounts[r] = q.run.from
    /\ q.pc = "read" => q.run.value.from = q.run.from

\* Refusals: an account that refused has nothing waiting, and is not in hand.
Minded(q) ==
    ~q.moved =>
       /\ \A a \in q.refusers : q.groups[a] = {}
       /\ q.pc \in InAccount => q.groups[q.account] = {}
       /\ q.pc \in {"injecting", "keeping"} => ~q.refused
       /\ q.pc \in InAccount /\ ~q.refused => q.account \notin q.refusers
       /\ q.pc \in {"reading", "read"} /\ q.run.back = "one" =>
             /\ q.groups[q.account] = {} /\ ~q.refused
             /\ q.account \notin q.refusers /\ q.run.from = q.account

Unserved(q) == {r \in q.refs \cap Vaulted : /\ r \notin q.told \cup q.failed \cup q.group
                                          /\ ~Busy(q, r)
                                          /\ \A a \in Accounts : r \notin q.groups[a]}

\* What a pass did not ask for it holds, and what it held is not asked for.
Spared(p, q) ==
    /\ ~q.fresh => \A a \in Accounts : q.groups[a] \cap q.held = {}
    /\ ~q.fresh => q.group \cap q.held = {}
    /\ ~q.fresh /\ ~q.moved => \A r \in q.held : Busy(q, r) => FALSE
    /\ ~q.moved => \A r \in q.held : r \in References /\ Holds(Key(r))
    /\ p # "call" /\ ~q.moved /\ q.pc \notin {"idle", "wanted"} =>
          /\ \A r \in Unserved(q) : ~q.fresh /\ Holds(Key(r))
          /\ q.pc \in {"reading", "read"} /\ q.run.back = "rest" => q.run.ref \notin Vaulted

\* A call is for one reference, and reads it once.
OneCall(q) ==
    /\ q.pc \in {"idle", "rest", "reading", "read"}
    /\ q.pc \in {"reading", "read"} => q.run.back = "rest"
    /\ q.pc # "idle" => \E r \in References : q.refs = {r}
    /\ q.failed = {} => q.refusers = {}

-----------------------------------------------------------------------------
(* The reload: what it moved it can put back, and what it was told it holds. *)

Loading(q) ==
    /\ ~q.moved
    /\ q.pc \in {"idle", "served"} =>
          /\ accounts = AccountsOf(policy)
          /\ \A r \in DOMAIN policy : Holds(Key(r))
    /\ q.pc = "served" => q.told = DOMAIN policy
    /\ q.pc \notin {"idle", "served"} =>
          /\ q.config \in Policies /\ q.refs = DOMAIN q.config /\ accounts = AccountsOf(q.config)
          /\ q.was = AccountsOf(policy)
          /\ \A r \in DOMAIN policy : Holds(<<r, q.was[r]>>)
          /\ \A r \in q.told : Holds(Key(r))
    /\ \A r \in References : q.since[r] <= generation[r]

Renewing == LET q == reader["reload"] IN q.pc # "idle" /\ q.alone

\* A value read since a lone re-read began is no older than it asks for.
NotOlder(q, since) ==
    /\ q.pc = "keeping" => \A r \in q.group : q.values[r] # None => q.values[r].at >= since[r]
    /\ q.pc = "read" => q.run.value.at >= since[q.run.ref]

Renewed(q) == q.fresh => \A r \in q.told : cache[Key(r)] # None /\ cache[Key(r)].at >= q.since[r]

-----------------------------------------------------------------------------
ReaderInv(p, q) ==
    /\ Places(q) /\ Once(q) /\ AtTheirAccounts(q) /\ Minded(q) /\ Spared(p, q)
    /\ p = "call" => OneCall(q)
    /\ p # "reload" => q.pc \notin {"decide", "served"}

Fresh ==
    Renewing => /\ \A p \in Readers : NotOlder(reader[p], reader["reload"].since)
                /\ Renewed(reader["reload"])

IInv ==
    /\ TypeInv
    /\ CachedFromItsAccount
    /\ \A p \in Readers : ReaderInv(p, reader[p])
    /\ Loading(reader["reload"])
    /\ Fresh

-----------------------------------------------------------------------------
(* What the types rest on.                                                  *)

\* What stands for "nothing" is none of the things it stands in for.
LEMMA NothingIs ==
    /\ None \notin Values /\ None \notin Keys
    /\ \A r \in References, a \in Accounts : <<r, a>> \in Keys
    /\ \A k \in Keys : k = <<k[1], k[2]>> /\ k[1] \in References /\ k[2] \in Accounts
  BY DEF None, Values, Keys

\* A reader that does nothing, and no read, are of their types.
LEMMA IdleIs == Idle \in Reader /\ NoRun \in Run
  <1>1. NoRun \in Run
    BY SecretsAssumption DEF NoRun, Run
  <1>2. [a \in Accounts |-> {}] \in [Accounts -> SUBSET References]
    OBVIOUS
  <1>3. [r \in References |-> 0] \in [References -> 0..MaxRotations]
    BY SecretsAssumption
  <1> QED
    BY <1>1, <1>2, <1>3, SecretsAssumption DEF Idle, Reader, Stage

\* Every policy gives every reference an account.
LEMMA AccountsAre ==
    ASSUME NEW c \in Policies
    PROVE  AccountsOf(c) \in [References -> Accounts] /\ DOMAIN c \subseteq References
  BY SecretsAssumption DEF AccountsOf

\* A choice from something is of it.
LEMMA ForemostIs == ASSUME NEW S, S # {} PROVE Foremost(S) \in S
  BY DEF Foremost

\* A value read now, from any account.
LEMMA ValueIs ==
    ASSUME TypeInv, NEW r \in References, NEW a \in Accounts
    PROVE  /\ ValueOf(r, a) \in Values /\ ValueOf(r, a).from = a /\ ValueOf(r, a).at = generation[r]
           /\ ValueOf(r, a) # None
  BY NothingIs DEF ValueOf, Values, TypeInv

-----------------------------------------------------------------------------
(* Frames.  A step of one reader leaves the others as they were.            *)

\* What a pass is for stays what it was, while it lasts.
SamePass(q, n) ==
    /\ n.refs = q.refs /\ n.fresh = q.fresh /\ n.config = q.config /\ n.was = q.was
    /\ n.moved = q.moved /\ n.since = q.since /\ n.alone = q.alone

\* Nothing that is held is dropped.
Grows == \A k \in Keys : Holds(k) => Holds(k)'

\* What is true of a reader stays true while no account moves and the cache grows.
LEMMA ReaderStays ==
    ASSUME TypeInv, TypeInv', NEW p \in Readers, NEW q \in Reader, ReaderInv(p, q), Grows,
           accounts' = accounts, straddled' = straddled
    PROVE  ReaderInv(p, q)'
  <1>1. \A r \in References : Key(r)' = Key(r) /\ Key(r) \in Keys
    BY NothingIs DEF Key, TypeInv
  <1>2. \A r \in References : Holds(Key(r)) => Holds(Key(r))'
    BY <1>1 DEF Grows, Holds
  <1>3. AtTheirAccounts(q)'
    BY DEF ReaderInv, AtTheirAccounts, Still, Busy, Holding
  <1>4. Unserved(q)' = Unserved(q) /\ Unserved(q) \subseteq References
    BY DEF Unserved, Busy, Reader
  <1>5. Spared(p, q)'
    BY <1>2, <1>4 DEF ReaderInv, Spared, Busy
  <1> QED
    BY <1>3, <1>5 DEF ReaderInv, Places, Once, Busy, Minded, OneCall

\* What is true of the record a reader has next is true of the reader next.
LEMMA Becoming ==
    ASSUME NEW o, NEW q, q = reader'[o], ReaderInv(o, q)'
    PROVE  ReaderInv(o, reader[o])'
  <1>1. Places(reader[o])' /\ Once(reader[o])'
    BY DEF ReaderInv, Places, Once, Busy
  <1>2. AtTheirAccounts(reader[o])' /\ Minded(reader[o])'
    BY DEF ReaderInv, AtTheirAccounts, Minded, Still, Busy, Holding
  <1>3. Spared(o, reader[o])' /\ (o = "call" => OneCall(reader[o])')
    BY DEF ReaderInv, Spared, OneCall, Unserved, Busy
  <1> QED
    BY <1>1, <1>2, <1>3 DEF ReaderInv

\* One reader takes a step; the rest are as they were.
LEMMA OneReaderMoves ==
    ASSUME TypeInv, \A o \in Readers : ReaderInv(o, reader[o]), Grows,
           accounts' = accounts, straddled' = straddled,
           cache' \in [Keys -> Values \cup {None}], generation' \in [References -> 0..MaxRotations],
           policy' \in Policies,
           NEW p \in Readers, NEW n \in Reader, ReaderInv(p, n),
           reader' = [reader EXCEPT ![p] = n]
    PROVE  TypeInv' /\ \A o \in Readers : ReaderInv(o, reader[o])'
  <1>1. TypeInv'
    BY DEF TypeInv
  <1>2. ASSUME NEW o \in Readers, NEW q, q = reader'[o] PROVE ReaderInv(o, q)'
    <2>1. q \in Reader /\ ReaderInv(o, q)
      BY <1>2 DEF TypeInv
    <2> QED
      BY <1>1, <2>1, ReaderStays
  <1> QED
    BY <1>1, <1>2, Becoming

\* Nobody takes a step.
LEMMA NobodyMoves ==
    ASSUME TypeInv, TypeInv', \A o \in Readers : ReaderInv(o, reader[o]), Grows,
           accounts' = accounts, straddled' = straddled, reader' = reader
    PROVE  \A o \in Readers : ReaderInv(o, reader[o])'
  <1>1. ASSUME NEW o \in Readers, NEW q, q = reader'[o] PROVE ReaderInv(o, q)'
    <2>1. q \in Reader /\ ReaderInv(o, q)
      BY <1>1 DEF TypeInv
    <2> QED
      BY <2>1, ReaderStays
  <1> QED
    BY <1>1, Becoming

\* What the reload's other half says of the reload's record alone.
LEMMA LoadingStays ==
    ASSUME TypeInv, NEW q \in Reader, NEW n \in Reader, Loading(q), SamePass(q, n),
           q.pc \notin {"idle", "served"}, n.pc \notin {"idle", "served"},
           \A r \in n.told : Holds(Key(r))
    PROVE  Loading(n)
  BY DEF Loading, SamePass

\* A step that keeps nothing in the cache, of a pass that goes on.
LEMMA StepKeepsIt ==
    ASSUME IInv, NEW p \in Readers, NEW n \in Reader, ReaderInv(p, n), SamePass(reader[p], n),
           reader[p].pc \notin {"idle", "served"}, n.pc \notin {"idle", "served"},
           reader' = [reader EXCEPT ![p] = n],
           UNCHANGED <<accounts, cache, generation, policy, straddled>>,
           p = "reload" => \A r \in n.told : r \in reader[p].told \/ (Holds(Key(r)) /\ ~n.fresh),
           \A s \in [References -> 0..MaxRotations] :
               (\A r \in References : s[r] <= generation[r]) /\ NotOlder(reader[p], s) => NotOlder(n, s)
    PROVE  IInv'
  <1> DEFINE l == reader["reload"]
  <1>1. TypeInv /\ "reload" \in Readers /\ l \in Reader /\ reader \in [Readers -> Reader]
    BY DEF IInv, TypeInv, Readers
  <1>2. Grows
    BY DEF Grows, Holds
  <1>3. TypeInv' /\ \A o \in Readers : ReaderInv(o, reader[o])'
    BY <1>1, <1>2, OneReaderMoves DEF IInv, TypeInv
  <1>4. CachedFromItsAccount'
    BY DEF IInv, CachedFromItsAccount, Holds
  <1>5. ASSUME p = "reload" PROVE Loading(n)
    <2>1. \A r \in n.told : Holds(Key(r))
      BY <1>5 DEF IInv, Loading
    <2> QED
      BY <1>1, <1>5, <2>1, LoadingStays DEF IInv
  <1>6. ASSUME NEW q, q = reader'["reload"] PROVE Loading(q)'
    <2>1. Loading(q)
      BY <1>1, <1>5, <1>6 DEF IInv
    <2> QED
      BY <2>1 DEF Loading, Holds, Key
  <1>7. Loading(reader["reload"])'
    BY <1>6 DEF Loading
  <1>8. /\ reader'["reload"].pc # "idle" /\ reader'["reload"].alone => Renewing
        /\ reader'["reload"].since = l.since
    BY <1>1 DEF Renewing, SamePass
  <1>9. ASSUME Renewing' PROVE \A o \in Readers : NotOlder(reader'[o], l.since)
    <2>1. Renewing
      BY <1>8, <1>9 DEF Renewing
    <2>2. \A o \in Readers : NotOlder(reader[o], l.since)
      BY <2>1 DEF IInv, Fresh
    <2>3. l.since \in [References -> 0..MaxRotations] /\ \A r \in References : l.since[r] <= generation[r]
      BY <1>1 DEF Reader, IInv, Loading
    <2>4. NotOlder(n, l.since)
      BY <2>2, <2>3
    <2> QED
      BY <1>1, <2>2, <2>4
  <1>10. ASSUME Renewing' PROVE Renewed(reader'["reload"])
    <2>1. Renewing
      BY <1>8, <1>10 DEF Renewing
    <2>2. Renewed(l)
      BY <2>1 DEF IInv, Fresh
    <2>3. CASE p = "reload"
      BY <1>1, <2>2, <2>3 DEF Renewed, SamePass
    <2>4. CASE p # "reload"
      BY <1>1, <2>2, <2>4
    <2> QED
      BY <2>3, <2>4
  <1>11. ASSUME NEW q, q = reader'["reload"], Renewed(q) PROVE Renewed(q)'
    BY <1>11 DEF Renewed, Key
  <1>12. ASSUME NEW o \in Readers, NEW q, q = reader'[o], NEW s, s = l.since, NotOlder(q, s)
         PROVE  NotOlder(q, s)'
    BY <1>12 DEF NotOlder
  <1>13. Fresh'
    <2> SUFFICES ASSUME Renewing'
                 PROVE  /\ \A o \in Readers : NotOlder(reader[o], reader["reload"].since)'
                        /\ Renewed(reader["reload"])'
      BY DEF Fresh
    <2> QED
      BY <1>8, <1>9, <1>10, <1>11, <1>12 DEF Fresh, Renewing, Renewed, NotOlder
  <1> QED
    BY <1>3, <1>4, <1>7, <1>13 DEF IInv

-----------------------------------------------------------------------------
(* The steps of a reader, one by one.                                       *)

\* What a step starts from.
LEMMA Opening ==
    ASSUME IInv, NEW p \in Readers
    PROVE  /\ TypeInv /\ reader[p] \in Reader /\ ReaderInv(p, reader[p])
           /\ accounts \in [References -> Accounts]
           /\ \A r \in References : Key(r) \in Keys /\ accounts[r] \in Accounts
           /\ p = "reload" => ~reader[p].moved
  BY NothingIs DEF IInv, TypeInv, Key, Loading

\* onepassword_wanted picks what is not held, or everything.
LEMMA WantedStep == ASSUME IInv, NEW p \in Readers, Wanted(p) PROVE IInv'
  <1> DEFINE q == reader[p]
             w == WantedOf(q)
             h == {r \in q.refs : Holds(Key(r))}
             n == [q EXCEPT !.pc = "split", !.group = w, !.held = h]
  <1>1. q.pc = "wanted" /\ reader' = [reader EXCEPT ![p] = n]
        /\ UNCHANGED <<accounts, cache, generation, policy, straddled>>
    BY DEF Wanted, Becomes
  <1>2. TypeInv /\ q \in Reader /\ ReaderInv(p, q) /\ p # "call"
    BY <1>1, Opening DEF ReaderInv, OneCall
  <1>3. /\ w \subseteq q.refs \cap Vaulted /\ h \subseteq q.refs
        /\ ~q.fresh => w \cap h = {}
        /\ \A r \in (q.refs \cap Vaulted) \ w : ~q.fresh /\ Holds(Key(r))
    BY DEF WantedOf
  <1> HIDE DEF w, h
  <1>4. /\ n \in Reader /\ SamePass(q, n) /\ n.pc = "split" /\ n.group = w /\ n.held = h
        /\ n.groups = q.groups /\ n.run = q.run /\ n.told = q.told /\ n.failed = q.failed
        /\ n.refusers = q.refusers /\ n.refused = q.refused /\ n.account = q.account /\ n.values = q.values
    BY <1>2, <1>3 DEF Reader, Stage, SamePass
  <1> HIDE DEF n
  <1>5. /\ n.refs = q.refs /\ n.fresh = q.fresh /\ n.moved = q.moved
        /\ q.told = {} /\ q.failed = {} /\ q.refusers = {} /\ q.run = NoRun
        /\ \A a \in Accounts : q.groups[a] = {}
    BY <1>1, <1>2, <1>4 DEF ReaderInv, Places, Once, SamePass
  <1>6. Places(n)
    BY <1>1, <1>4, <1>5 DEF Places, InAccount
  <1>7. Once(n)
    BY <1>3, <1>4, <1>5 DEF Once, Busy
  <1>8. AtTheirAccounts(n) /\ Minded(n)
    BY <1>4, <1>5 DEF AtTheirAccounts, Minded, Holding, InAccount, Busy
  <1>9. Spared(p, n)
    <2>1. Unserved(n) \subseteq (q.refs \cap Vaulted) \ w
      BY <1>4, <1>5 DEF Unserved
    <2>2. \A r \in h : r \in References /\ Holds(Key(r))
      BY <1>2 DEF Reader, h
    <2> QED
      BY <1>3, <1>4, <1>5, <2>1, <2>2 DEF Spared, Busy
  <1>10. ReaderInv(p, n)
    BY <1>2, <1>4, <1>6, <1>7, <1>8, <1>9 DEF ReaderInv
  <1>11. \A r \in n.told : FALSE
    BY <1>4, <1>5
  <1>12. \A s \in [References -> 0..MaxRotations] : NotOlder(n, s)
    BY <1>4 DEF NotOlder
  <1> QED
    BY <1>1, <1>2, <1>4, <1>10, <1>11, <1>12, StepKeepsIt

\* by_account puts each reference in the group of its account.
LEMMA SplitStep == ASSUME IInv, NEW p \in Readers, Split(p) PROVE IInv'
  <1> DEFINE q == reader[p]
             gs == [a \in Accounts |-> {r \in q.group : accounts[r] = a}]
             n == [q EXCEPT !.pc = "accounts", !.group = {}, !.groups = gs]
  <1>1. q.pc = "split" /\ reader' = [reader EXCEPT ![p] = n]
        /\ UNCHANGED <<accounts, cache, generation, policy, straddled>>
    BY DEF Split, Becomes
  <1>2. TypeInv /\ q \in Reader /\ ReaderInv(p, q) /\ p # "call"
        /\ \A r \in References : accounts[r] \in Accounts
    BY <1>1, Opening DEF ReaderInv, OneCall
  <1>3. /\ gs \in [Accounts -> SUBSET References]
        /\ \A a \in Accounts : \A r \in gs[a] : r \in q.group /\ accounts[r] = a
        /\ \A r \in q.group : r \in gs[accounts[r]]
    BY <1>2 DEF Reader
  <1> HIDE DEF gs
  <1>4. /\ n \in Reader /\ SamePass(q, n) /\ n.pc = "accounts" /\ n.group = {} /\ n.held = q.held
        /\ n.groups = gs /\ n.run = q.run /\ n.told = q.told /\ n.failed = q.failed
        /\ n.refusers = q.refusers /\ n.refused = q.refused /\ n.account = q.account /\ n.values = q.values
    BY <1>2, <1>3 DEF Reader, Stage, SamePass
  <1> HIDE DEF n
  <1>5. /\ n.refs = q.refs /\ n.fresh = q.fresh /\ n.moved = q.moved
        /\ q.told = {} /\ q.failed = {} /\ q.refusers = {} /\ q.run = NoRun
        /\ q.group \subseteq q.refs \cap Vaulted
        /\ \A a \in Accounts : q.groups[a] = {}
    BY <1>1, <1>2, <1>4 DEF ReaderInv, Places, Once, SamePass
  <1>6. Places(n)
    BY <1>1, <1>4, <1>5 DEF Places, InAccount
  <1>7. Once(n)
    BY <1>3, <1>4, <1>5 DEF Once, Busy
  <1>8. AtTheirAccounts(n) /\ Minded(n)
    BY <1>3, <1>4, <1>5 DEF AtTheirAccounts, Minded, Holding, InAccount, Busy
  <1>9. Spared(p, n)
    <2>1. Unserved(n) \subseteq Unserved(q)
      BY <1>1, <1>2, <1>3, <1>4, <1>5 DEF Unserved, Busy, Reader
    <2> QED
      BY <1>1, <1>2, <1>3, <1>4, <1>5, <2>1 DEF ReaderInv, Spared, Busy
  <1>10. ReaderInv(p, n)
    BY <1>2, <1>4, <1>6, <1>7, <1>8, <1>9 DEF ReaderInv
  <1>11. \A r \in n.told : FALSE
    BY <1>4, <1>5
  <1>12. \A s \in [References -> 0..MaxRotations] : NotOlder(n, s)
    BY <1>4 DEF NotOlder
  <1> QED
    BY <1>1, <1>2, <1>4, <1>10, <1>11, <1>12, StepKeepsIt

\* The next account's group is taken in hand.
LEMMA NextAccountStep == ASSUME IInv, NEW p \in Readers, NextAccount(p) PROVE IInv'
  <1> DEFINE q == reader[p]
             waiting == {b \in Accounts : q.groups[b] # {}}
             a == Foremost(waiting)
             next == IF Cardinality(q.groups[a]) > 1 THEN "injecting" ELSE "one"
             n == [q EXCEPT !.groups[a] = {}, !.group = q.groups[a], !.account = a,
                            !.refused = FALSE, !.pc = next]
  <1>1. q.pc = "accounts" /\ waiting # {} /\ reader' = [reader EXCEPT ![p] = n]
        /\ UNCHANGED <<accounts, cache, generation, policy, straddled>>
    BY DEF NextAccount, Becomes
  <1>2. TypeInv /\ q \in Reader /\ ReaderInv(p, q) /\ p # "call"
    BY <1>1, Opening DEF ReaderInv, OneCall
  <1>3. a \in Accounts /\ q.groups[a] # {}
    BY <1>1, ForemostIs
  <1>4. next \in {"injecting", "one"}
    OBVIOUS
  <1> HIDE DEF waiting, a, next
  <1>5. /\ n \in Reader /\ SamePass(q, n) /\ n.pc = next /\ n.group = q.groups[a] /\ n.held = q.held
        /\ n.groups = [q.groups EXCEPT ![a] = {}] /\ n.run = q.run /\ n.told = q.told /\ n.failed = q.failed
        /\ n.refusers = q.refusers /\ n.refused = FALSE /\ n.account = a /\ n.values = q.values
    BY <1>2, <1>3, <1>4 DEF Reader, Stage, SamePass
  <1> HIDE DEF n
  <1>6. /\ n.refs = q.refs /\ n.fresh = q.fresh /\ n.moved = q.moved
        /\ q.group = {} /\ q.run = NoRun
        /\ n.groups[a] = {} /\ \A b \in Accounts \ {a} : n.groups[b] = q.groups[b]
        /\ \A b \in Accounts : n.groups[b] \subseteq q.groups[b]
    BY <1>1, <1>2, <1>3, <1>5 DEF ReaderInv, Places, SamePass, InAccount, Reader
  <1>7. Places(n)
    BY <1>1, <1>4, <1>5, <1>6 DEF Places, InAccount
  <1>8. Once(n)
    BY <1>1, <1>2, <1>3, <1>4, <1>5, <1>6 DEF ReaderInv, Once, Busy
  <1>9. AtTheirAccounts(n)
    BY <1>2, <1>3, <1>4, <1>5, <1>6 DEF ReaderInv, AtTheirAccounts, Still, Busy
  <1>10. Minded(n)
    BY <1>2, <1>3, <1>4, <1>5, <1>6 DEF ReaderInv, Minded, Reader
  <1>11. Spared(p, n)
    <2>1. Unserved(n) \subseteq Unserved(q)
      BY <1>1, <1>3, <1>4, <1>5, <1>6 DEF Unserved, Busy
    <2> QED
      BY <1>1, <1>2, <1>3, <1>4, <1>5, <1>6, <2>1 DEF ReaderInv, Spared, Busy
  <1>12. ReaderInv(p, n)
    BY <1>2, <1>4, <1>5, <1>7, <1>8, <1>9, <1>10, <1>11 DEF ReaderInv
  <1>13. \A s \in [References -> 0..MaxRotations] : NotOlder(n, s)
    BY <1>4, <1>5 DEF NotOlder
  <1> QED
    BY <1>1, <1>2, <1>4, <1>5, <1>12, <1>13, StepKeepsIt

\* The vault has been asked for all of it.
LEMMA NoMoreAccountsStep == ASSUME IInv, NEW p \in Readers, NoMoreAccounts(p) PROVE IInv'
  <1> DEFINE q == reader[p]
             n == [q EXCEPT !.pc = "rest"]
  <1>1. q.pc = "accounts" /\ reader' = [reader EXCEPT ![p] = n]
        /\ UNCHANGED <<accounts, cache, generation, policy, straddled>>
        /\ \A a \in Accounts : q.groups[a] = {}
    BY DEF NoMoreAccounts, Becomes
  <1>2. TypeInv /\ q \in Reader /\ ReaderInv(p, q) /\ p # "call"
    BY <1>1, Opening DEF ReaderInv, OneCall
  <1>3. /\ n \in Reader /\ SamePass(q, n) /\ n.pc = "rest" /\ n.group = q.group /\ n.held = q.held
        /\ n.groups = q.groups /\ n.run = q.run /\ n.told = q.told /\ n.failed = q.failed
        /\ n.refusers = q.refusers /\ n.refused = q.refused /\ n.account = q.account /\ n.values = q.values
    BY <1>2 DEF Reader, Stage, SamePass
  <1> HIDE DEF n
  <1>4. n.refs = q.refs /\ n.fresh = q.fresh /\ n.moved = q.moved /\ q.group = {} /\ q.run = NoRun
    BY <1>1, <1>2, <1>3 DEF ReaderInv, Places, SamePass, InAccount
  <1>5. Places(n)
    BY <1>1, <1>3, <1>4 DEF Places, InAccount
  <1>6. Once(n) /\ AtTheirAccounts(n) /\ Minded(n)
    BY <1>1, <1>2, <1>3, <1>4 DEF ReaderInv, Once, Busy, AtTheirAccounts, Minded, Holding, InAccount
  <1>7. Unserved(n) = Unserved(q)
    BY <1>1, <1>3, <1>4 DEF Unserved, Busy
  <1>8. Spared(p, n)
    BY <1>1, <1>2, <1>3, <1>4, <1>7 DEF ReaderInv, Spared, Busy
  <1>9. ReaderInv(p, n)
    BY <1>2, <1>3, <1>5, <1>6, <1>8 DEF ReaderInv
  <1>10. \A s \in [References -> 0..MaxRotations] : NotOlder(n, s)
    BY <1>3 DEF NotOlder
  <1> QED
    BY <1>1, <1>2, <1>3, <1>9, <1>10, StepKeepsIt

\* `op inject` answered, with some of the values blank.
LEMMA InjectedStep == ASSUME IInv, NEW p \in Readers, Injected(p) PROVE IInv'
  <1> DEFINE q == reader[p]
             got(blank) == [r \in q.group |-> IF r \in blank THEN None ELSE ValueOf(r, q.account)]
  <1> SUFFICES ASSUME NEW blank \in SUBSET q.group,
                      reader' = [reader EXCEPT ![p] = [q EXCEPT !.pc = "keeping", !.values = got(blank)]]
               PROVE  IInv'
    BY DEF Injected, Becomes
  <1> DEFINE v == got(blank)
             n == [q EXCEPT !.pc = "keeping", !.values = v]
  <1>1. q.pc = "injecting" /\ reader' = [reader EXCEPT ![p] = n]
        /\ UNCHANGED <<accounts, cache, generation, policy, straddled>>
    BY DEF Injected, Becomes
  <1>2. TypeInv /\ q \in Reader /\ ReaderInv(p, q) /\ p # "call"
    BY <1>1, Opening DEF ReaderInv, OneCall
  <1>3. q.group \subseteq References /\ q.account \in Accounts
    BY <1>2 DEF Reader
  <1>4. /\ v \in [q.group -> Values \cup {None}]
        /\ \A r \in q.group : v[r] # None => v[r].from = q.account /\ v[r].at = generation[r]
    BY <1>2, <1>3, ValueIs
  <1> HIDE DEF v
  <1>5. v \in Answers
    BY <1>3, <1>4 DEF Answers
  <1>6. /\ n \in Reader /\ SamePass(q, n) /\ n.pc = "keeping" /\ n.group = q.group /\ n.held = q.held
        /\ n.groups = q.groups /\ n.run = q.run /\ n.told = q.told /\ n.failed = q.failed
        /\ n.refusers = q.refusers /\ n.refused = q.refused /\ n.account = q.account /\ n.values = v
    BY <1>2, <1>5 DEF Reader, Stage, SamePass
  <1> HIDE DEF n
  <1>7. n.refs = q.refs /\ n.fresh = q.fresh /\ n.moved = q.moved /\ q.run = NoRun
    BY <1>1, <1>2, <1>6 DEF ReaderInv, Places, SamePass
  <1>8. Places(n)
    BY <1>4, <1>6, <1>7 DEF Places, InAccount
  <1>9. Once(n)
    BY <1>1, <1>2, <1>6, <1>7 DEF ReaderInv, Once, Busy
  <1>10. AtTheirAccounts(n)
    BY <1>1, <1>2, <1>4, <1>6, <1>7 DEF ReaderInv, AtTheirAccounts, Still, Busy, Holding, InAccount
  <1>11. Minded(n)
    BY <1>1, <1>2, <1>6, <1>7 DEF ReaderInv, Minded, InAccount
  <1>12. Spared(p, n)
    <2>1. Unserved(n) = Unserved(q)
      BY <1>1, <1>6, <1>7 DEF Unserved, Busy
    <2> QED
      BY <1>1, <1>2, <1>6, <1>7, <2>1 DEF ReaderInv, Spared, Busy
  <1>13. ReaderInv(p, n)
    BY <1>2, <1>6, <1>8, <1>9, <1>10, <1>11, <1>12 DEF ReaderInv
  <1>14. \A s \in [References -> 0..MaxRotations] :
            (\A r \in References : s[r] <= generation[r]) => NotOlder(n, s)
    BY <1>2, <1>3, <1>4, <1>6 DEF NotOlder, TypeInv
  <1> QED
    BY <1>1, <1>2, <1>6, <1>13, <1>14, StepKeepsIt

\* The account would not have it: its group failed, and nothing waits for it.
LEMMA InjectRefusedStep == ASSUME IInv, NEW p \in Readers, InjectRefused(p) PROVE IInv'
  <1> DEFINE q == reader[p]
             n == AfterRefusal(q)
  <1>1. q.pc = "injecting" /\ reader' = [reader EXCEPT ![p] = n]
        /\ UNCHANGED <<accounts, cache, generation, policy, straddled>>
    BY DEF InjectRefused, Becomes
  <1>2. TypeInv /\ q \in Reader /\ ReaderInv(p, q) /\ p # "call"
    BY <1>1, Opening DEF ReaderInv, OneCall
  <1>3. /\ n \in Reader /\ SamePass(q, n) /\ n.pc = "accounts" /\ n.group = {} /\ n.held = q.held
        /\ n.groups = q.groups /\ n.run = q.run /\ n.told = q.told /\ n.failed = q.failed \cup q.group
        /\ n.refusers = q.refusers \cup {q.account} /\ n.refused = q.refused
        /\ n.account = q.account /\ n.values = q.values
    BY <1>2 DEF AfterRefusal, Reader, Stage, SamePass
  <1> HIDE DEF n
  <1>4. n.refs = q.refs /\ n.fresh = q.fresh /\ n.moved = q.moved /\ q.run = NoRun
    BY <1>1, <1>2, <1>3 DEF ReaderInv, Places, SamePass
  <1>5. Places(n)
    BY <1>3, <1>4 DEF Places, InAccount
  <1>6. Once(n)
    BY <1>1, <1>2, <1>3, <1>4 DEF ReaderInv, Once, Busy
  <1>7. AtTheirAccounts(n)
    BY <1>1, <1>2, <1>3, <1>4 DEF ReaderInv, AtTheirAccounts, Still, Busy
  <1>8. Minded(n)
    BY <1>1, <1>2, <1>3, <1>4 DEF ReaderInv, Minded, InAccount
  <1>9. Spared(p, n)
    <2>1. Unserved(n) = Unserved(q)
      BY <1>1, <1>3, <1>4 DEF Unserved, Busy
    <2> QED
      BY <1>1, <1>2, <1>3, <1>4, <2>1 DEF ReaderInv, Spared, Busy
  <1>10. ReaderInv(p, n)
    BY <1>2, <1>3, <1>5, <1>6, <1>7, <1>8, <1>9 DEF ReaderInv
  <1>11. \A s \in [References -> 0..MaxRotations] : NotOlder(n, s)
    BY <1>3 DEF NotOlder
  <1> QED
    BY <1>1, <1>2, <1>3, <1>10, <1>11, StepKeepsIt

\* Anything else that `op inject` ends with: one at a time.
LEMMA InjectFailedStep == ASSUME IInv, NEW p \in Readers, InjectFailed(p) PROVE IInv'
  <1> DEFINE q == reader[p]
             n == [q EXCEPT !.pc = "one"]
  <1>1. q.pc = "injecting" /\ reader' = [reader EXCEPT ![p] = n]
        /\ UNCHANGED <<accounts, cache, generation, policy, straddled>>
    BY DEF InjectFailed, Becomes
  <1>2. TypeInv /\ q \in Reader /\ ReaderInv(p, q) /\ p # "call"
    BY <1>1, Opening DEF ReaderInv, OneCall
  <1>3. /\ n \in Reader /\ SamePass(q, n) /\ n.pc = "one" /\ n.group = q.group /\ n.held = q.held
        /\ n.groups = q.groups /\ n.run = q.run /\ n.told = q.told /\ n.failed = q.failed
        /\ n.refusers = q.refusers /\ n.refused = q.refused /\ n.account = q.account /\ n.values = q.values
    BY <1>2 DEF Reader, Stage, SamePass
  <1> HIDE DEF n
  <1>4. n.refs = q.refs /\ n.fresh = q.fresh /\ n.moved = q.moved /\ q.run = NoRun
    BY <1>1, <1>2, <1>3 DEF ReaderInv, Places, SamePass
  <1>5. Places(n)
    BY <1>3, <1>4 DEF Places, InAccount
  <1>6. Once(n)
    BY <1>1, <1>2, <1>3, <1>4 DEF ReaderInv, Once, Busy
  <1>7. AtTheirAccounts(n)
    BY <1>1, <1>2, <1>3, <1>4 DEF ReaderInv, AtTheirAccounts, Still, Busy, Holding, InAccount
  <1>8. Minded(n)
    BY <1>1, <1>2, <1>3, <1>4 DEF ReaderInv, Minded, InAccount
  <1>9. Spared(p, n)
    <2>1. Unserved(n) = Unserved(q)
      BY <1>1, <1>3, <1>4 DEF Unserved, Busy
    <2> QED
      BY <1>1, <1>2, <1>3, <1>4, <2>1 DEF ReaderInv, Spared, Busy
  <1>10. ReaderInv(p, n)
    BY <1>2, <1>3, <1>5, <1>6, <1>7, <1>8, <1>9 DEF ReaderInv
  <1>11. \A s \in [References -> 0..MaxRotations] : NotOlder(n, s)
    BY <1>3 DEF NotOlder
  <1> QED
    BY <1>1, <1>2, <1>3, <1>10, <1>11, StepKeepsIt

\* The next of the group that is read one at a time.
LEMMA OneStep == ASSUME IInv, NEW p \in Readers, One(p) PROVE IInv'
  <1> DEFINE q == reader[p]
             r == Foremost(q.group)
             run == [ref |-> r, key |-> None, from |-> accounts[r], back |-> "one", value |-> None]
             n == [Read(q, r, None, "one") EXCEPT !.group = @ \ {r}]
  <1>1. q.pc = "one" /\ q.group # {} /\ ~q.refused /\ reader' = [reader EXCEPT ![p] = n]
        /\ UNCHANGED <<accounts, cache, generation, policy, straddled>>
    BY DEF One, Becomes
  <1>2. TypeInv /\ q \in Reader /\ ReaderInv(p, q) /\ p # "call"
        /\ accounts \in [References -> Accounts]
    BY <1>1, Opening DEF ReaderInv, OneCall
  <1>3. r \in q.group /\ r \in References /\ r \in Vaulted
    BY <1>1, <1>2, ForemostIs DEF ReaderInv, Once, Reader
  <1> HIDE DEF r
  <1>4. /\ run \in Run /\ run # NoRun
        /\ run.ref = r /\ run.key = None /\ run.from = accounts[r] /\ run.back = "one"
    BY <1>2, <1>3 DEF Run, NoRun
  <1>5. n = [q EXCEPT !.pc = "reading", !.run = run, !.group = q.group \ {r}]
    BY <1>2 DEF Read, Reader
  <1> HIDE DEF run, n
  <1>6. /\ n \in Reader /\ SamePass(q, n) /\ n.pc = "reading" /\ n.group = q.group \ {r} /\ n.held = q.held
        /\ n.groups = q.groups /\ n.run = run /\ n.told = q.told /\ n.failed = q.failed
        /\ n.refusers = q.refusers /\ n.refused = q.refused /\ n.account = q.account /\ n.values = q.values
    BY <1>2, <1>4, <1>5, ZenonT(60) DEF Reader, Stage, SamePass
  <1>7. n.refs = q.refs /\ n.fresh = q.fresh /\ n.moved = q.moved /\ q.run = NoRun
    BY <1>1, <1>2, <1>6 DEF ReaderInv, Places, SamePass
  <1>8. Places(n)
    BY <1>3, <1>4, <1>6 DEF Places, InAccount
  <1>9. Once(n)
    BY <1>1, <1>2, <1>3, <1>4, <1>6, <1>7 DEF ReaderInv, Once, Busy
  <1>10. AtTheirAccounts(n)
    BY <1>1, <1>2, <1>3, <1>4, <1>6, <1>7 DEF ReaderInv, AtTheirAccounts, Still, Busy, Holding, InAccount
  <1>11. Minded(n)
    <2>1. ~q.moved => accounts[r] = q.account
      BY <1>1, <1>2, <1>3 DEF ReaderInv, AtTheirAccounts, Still, Holding, InAccount
    <2> QED
      BY <1>1, <1>2, <1>4, <1>6, <1>7, <2>1 DEF ReaderInv, Minded, InAccount
  <1>12. Spared(p, n)
    <2>1. Unserved(n) \subseteq Unserved(q)
      BY <1>1, <1>3, <1>4, <1>6, <1>7 DEF Unserved, Busy
    <2> QED
      BY <1>1, <1>2, <1>3, <1>4, <1>6, <1>7, <2>1 DEF ReaderInv, Spared, Busy
  <1>13. ReaderInv(p, n)
    BY <1>2, <1>6, <1>8, <1>9, <1>10, <1>11, <1>12 DEF ReaderInv
  <1>14. \A s \in [References -> 0..MaxRotations] : NotOlder(n, s)
    BY <1>6 DEF NotOlder
  <1> QED
    BY <1>1, <1>2, <1>6, <1>13, <1>14, StepKeepsIt

\* The group is through, or what is left of it is given up.
LEMMA NoneLeftStep == ASSUME IInv, NEW p \in Readers, NoneLeft(p) PROVE IInv'
  <1> DEFINE q == reader[p]
             n == [q EXCEPT !.pc = "accounts", !.group = {}, !.failed = @ \cup q.group]
  <1>1. q.pc = "one" /\ reader' = [reader EXCEPT ![p] = n]
        /\ UNCHANGED <<accounts, cache, generation, policy, straddled>>
    BY DEF NoneLeft, Becomes
  <1>2. TypeInv /\ q \in Reader /\ ReaderInv(p, q) /\ p # "call"
    BY <1>1, Opening DEF ReaderInv, OneCall
  <1>3. /\ n \in Reader /\ SamePass(q, n) /\ n.pc = "accounts" /\ n.group = {} /\ n.held = q.held
        /\ n.groups = q.groups /\ n.run = q.run /\ n.told = q.told /\ n.failed = q.failed \cup q.group
        /\ n.refusers = q.refusers /\ n.refused = q.refused /\ n.account = q.account /\ n.values = q.values
    BY <1>2 DEF Reader, Stage, SamePass
  <1> HIDE DEF n
  <1>4. n.refs = q.refs /\ n.fresh = q.fresh /\ n.moved = q.moved /\ q.run = NoRun
    BY <1>1, <1>2, <1>3 DEF ReaderInv, Places, SamePass
  <1>5. Places(n)
    BY <1>3, <1>4 DEF Places, InAccount
  <1>6. Once(n)
    BY <1>1, <1>2, <1>3, <1>4 DEF ReaderInv, Once, Busy
  <1>7. AtTheirAccounts(n)
    BY <1>1, <1>2, <1>3, <1>4 DEF ReaderInv, AtTheirAccounts, Still, Busy
  <1>8. Minded(n)
    BY <1>1, <1>2, <1>3, <1>4 DEF ReaderInv, Minded, InAccount
  <1>9. Spared(p, n)
    <2>1. Unserved(n) = Unserved(q)
      BY <1>1, <1>3, <1>4 DEF Unserved, Busy
    <2> QED
      BY <1>1, <1>2, <1>3, <1>4, <2>1 DEF ReaderInv, Spared, Busy
  <1>10. ReaderInv(p, n)
    BY <1>2, <1>3, <1>5, <1>6, <1>7, <1>8, <1>9 DEF ReaderInv
  <1>11. \A s \in [References -> 0..MaxRotations] : NotOlder(n, s)
    BY <1>3 DEF NotOlder
  <1> QED
    BY <1>1, <1>2, <1>3, <1>10, <1>11, StepKeepsIt

\* What was not of the vault pass: from what is held, or from its source.
LEMMA RestStep ==
    ASSUME IInv, NEW p \in Readers, NEW r \in References, Rest(p, r) PROVE IInv'
  <1> DEFINE q == reader[p]
  <1>1. q.pc = "rest" /\ r \in q.refs \ (q.told \cup q.failed)
        /\ UNCHANGED <<accounts, cache, generation, policy, straddled>>
    BY DEF Rest, Becomes
  <1>2. TypeInv /\ q \in Reader /\ ReaderInv(p, q) /\ accounts \in [References -> Accounts]
        /\ Key(r) \in Keys
    BY Opening
  <1>3. q.group = {} /\ q.run = NoRun /\ \A a \in Accounts : q.groups[a] = {}
    BY <1>1, <1>2 DEF ReaderInv, Places, InAccount
  <1>4. CASE ~q.fresh /\ Holds(Key(r))
    <2> DEFINE n == [q EXCEPT !.told = @ \cup {r}]
    <2>1. reader' = [reader EXCEPT ![p] = n]
      BY <1>4 DEF Rest, Becomes
    <2>2. /\ n \in Reader /\ SamePass(q, n) /\ n.pc = "rest" /\ n.group = q.group /\ n.held = q.held
          /\ n.groups = q.groups /\ n.run = q.run /\ n.told = q.told \cup {r} /\ n.failed = q.failed
          /\ n.refusers = q.refusers /\ n.refused = q.refused /\ n.account = q.account /\ n.values = q.values
      BY <1>1, <1>2 DEF Reader, Stage, SamePass
    <2> HIDE DEF n
    <2>3. n.refs = q.refs /\ n.fresh = q.fresh /\ n.moved = q.moved
      BY <2>2 DEF SamePass
    <2>4. Places(n)
      BY <1>3, <2>2 DEF Places, InAccount
    <2>5. Once(n)
      BY <1>1, <1>2, <1>3, <2>2, <2>3 DEF ReaderInv, Once, Busy
    <2>6. AtTheirAccounts(n) /\ Minded(n)
      BY <1>1, <1>2, <1>3, <2>2, <2>3
      DEF ReaderInv, AtTheirAccounts, Minded, Still, Busy, Holding, InAccount
    <2>7. Spared(p, n)
      <3>1. Unserved(n) \subseteq Unserved(q)
        BY <1>1, <1>3, <2>2, <2>3 DEF Unserved, Busy
      <3> QED
        BY <1>1, <1>2, <1>3, <2>2, <2>3, <3>1 DEF ReaderInv, Spared, Busy
    <2>8. ReaderInv(p, n)
      BY <1>1, <1>2, <2>2, <2>3, <2>4, <2>5, <2>6, <2>7 DEF ReaderInv, OneCall
    <2>9. \A s \in [References -> 0..MaxRotations] : NotOlder(n, s)
      BY <2>2 DEF NotOlder
    <2>10. \A x \in n.told : x \in q.told \/ (Holds(Key(x)) /\ ~n.fresh)
      BY <1>4, <2>2, <2>3
    <2> QED
      BY <1>1, <1>2, <2>1, <2>2, <2>8, <2>9, <2>10, StepKeepsIt
  <1>5. CASE ~(~q.fresh /\ Holds(Key(r)))
    <2> DEFINE key == IF q.fresh THEN None ELSE Key(r)
               run == [ref |-> r, key |-> key, from |-> accounts[r], back |-> "rest", value |-> None]
               n == [q EXCEPT !.pc = "reading", !.run = run]
    <2>1. reader' = [reader EXCEPT ![p] = n]
      BY <1>5 DEF Rest, Becomes, Read
    <2>2. /\ run \in Run /\ run # NoRun /\ run.ref = r /\ run.from = accounts[r] /\ run.back = "rest"
          /\ run.key # None => run.key = <<r, accounts[r]>>
      BY <1>2, NothingIs DEF Run, NoRun, Key
    <2> HIDE DEF run
    <2>3. /\ n \in Reader /\ SamePass(q, n) /\ n.pc = "reading" /\ n.group = q.group /\ n.held = q.held
          /\ n.groups = q.groups /\ n.run = run /\ n.told = q.told /\ n.failed = q.failed
          /\ n.refusers = q.refusers /\ n.refused = q.refused /\ n.account = q.account /\ n.values = q.values
      BY <1>1, <1>2, <2>2 DEF Reader, Stage, SamePass
    <2> HIDE DEF n
    <2>4. n.refs = q.refs /\ n.fresh = q.fresh /\ n.moved = q.moved
      BY <2>3 DEF SamePass
    <2>5. Places(n)
      BY <1>3, <2>2, <2>3 DEF Places, InAccount
    <2>6. Once(n)
      BY <1>1, <1>2, <1>3, <2>2, <2>3, <2>4 DEF ReaderInv, Once, Busy
    <2>7. AtTheirAccounts(n) /\ Minded(n)
      BY <1>1, <1>2, <1>3, <2>2, <2>3, <2>4
      DEF ReaderInv, AtTheirAccounts, Minded, Still, Busy, Holding, InAccount
    <2>8. Spared(p, n)
      <3>1. Unserved(n) \subseteq Unserved(q)
        BY <1>1, <1>3, <2>3, <2>4 DEF Unserved, Busy
      <3>2. ~q.fresh /\ ~q.moved => r \notin q.held
        BY <1>2, <1>5 DEF ReaderInv, Spared
      <3>3. r \in Vaulted => r \in Unserved(q)
        BY <1>1, <1>3 DEF Unserved, Busy
      <3>4. p # "call" /\ ~q.moved => r \notin Vaulted
        BY <1>1, <1>2, <1>5, <3>3 DEF ReaderInv, Spared
      <3> QED
        BY <1>1, <1>2, <1>3, <2>2, <2>3, <2>4, <3>1, <3>2, <3>4 DEF ReaderInv, Spared, Busy
    <2>9. ReaderInv(p, n)
      BY <1>1, <1>2, <2>2, <2>3, <2>4, <2>5, <2>6, <2>7, <2>8 DEF ReaderInv, OneCall
    <2>10. \A s \in [References -> 0..MaxRotations] : NotOlder(n, s)
      BY <2>3 DEF NotOlder
    <2> QED
      BY <1>1, <1>2, <2>1, <2>3, <2>9, <2>10, StepKeepsIt
  <1> QED
    BY <1>4, <1>5

\* The source answers with a value.
LEMMA GotStep == ASSUME IInv, NEW p \in Readers, Got(p) PROVE IInv'
  <1> DEFINE q == reader[p]
             v == ValueOf(q.run.ref, q.run.from)
             run == [q.run EXCEPT !.value = v]
             n == [q EXCEPT !.pc = "read", !.run = run]
  <1>1. q.pc = "reading" /\ UNCHANGED <<accounts, cache, generation, policy, straddled>>
    BY DEF Got, Becomes
  <1>2. TypeInv /\ q \in Reader /\ ReaderInv(p, q)
    BY Opening
  <1>3. q.run \in Run /\ q.run.ref \in References /\ q.run.from \in Accounts
    BY <1>1, <1>2 DEF ReaderInv, Places, Reader, Run
  <1>4. reader' = [reader EXCEPT ![p] = n]
    BY <1>2, <1>3 DEF Got, Becomes, Reader, Run
  <1>5. v \in Values /\ v.from = q.run.from /\ v.at = generation[q.run.ref]
    BY <1>2, <1>3, ValueIs
  <1> HIDE DEF v
  <1>6. /\ run \in Run /\ run.ref = q.run.ref /\ run.key = q.run.key /\ run.from = q.run.from
        /\ run.back = q.run.back /\ run.value = v
    BY <1>3, <1>5 DEF Run
  <1>7. run # NoRun
    BY <1>1, <1>2, <1>6 DEF ReaderInv, Places, NoRun
  <1> HIDE DEF run
  <1>8. /\ n \in Reader /\ SamePass(q, n) /\ n.pc = "read" /\ n.group = q.group /\ n.held = q.held
        /\ n.groups = q.groups /\ n.run = run /\ n.told = q.told /\ n.failed = q.failed
        /\ n.refusers = q.refusers /\ n.refused = q.refused /\ n.account = q.account /\ n.values = q.values
    BY <1>2, <1>6 DEF Reader, Stage, SamePass
  <1> HIDE DEF n
  <1>9. n.refs = q.refs /\ n.fresh = q.fresh /\ n.moved = q.moved
    BY <1>8 DEF SamePass
  <1>10. Places(n)
    BY <1>1, <1>2, <1>5, <1>6, <1>7, <1>8 DEF ReaderInv, Places, InAccount
  <1>11. Once(n)
    BY <1>1, <1>2, <1>6, <1>8, <1>9 DEF ReaderInv, Once, Busy
  <1>12. AtTheirAccounts(n)
    BY <1>1, <1>2, <1>5, <1>6, <1>8, <1>9 DEF ReaderInv, AtTheirAccounts, Still, Busy, Holding, InAccount
  <1>13. Minded(n)
    BY <1>1, <1>2, <1>6, <1>8, <1>9 DEF ReaderInv, Minded, InAccount
  <1>14. Spared(p, n)
    <2>1. Unserved(n) = Unserved(q)
      BY <1>1, <1>6, <1>8, <1>9 DEF Unserved, Busy
    <2> QED
      BY <1>1, <1>2, <1>6, <1>8, <1>9, <2>1 DEF ReaderInv, Spared, Busy
  <1>15. ReaderInv(p, n)
    BY <1>1, <1>2, <1>6, <1>8, <1>9, <1>10, <1>11, <1>12, <1>13, <1>14 DEF ReaderInv, OneCall
  <1>16. \A s \in [References -> 0..MaxRotations] :
            (\A r \in References : s[r] <= generation[r]) => NotOlder(n, s)
    BY <1>2, <1>3, <1>5, <1>6, <1>8 DEF NotOlder, TypeInv
  <1> QED
    BY <1>1, <1>2, <1>4, <1>8, <1>15, <1>16, StepKeepsIt

\* A read that ends without a value, refused or not.
LEMMA EndsStep ==
    ASSUME IInv, NEW p \in Readers, NEW n, reader[p].pc = "reading",
           \/ n = Ends(reader[p])
           \/ n = Refused(reader[p]),
           reader' = [reader EXCEPT ![p] = n],
           UNCHANGED <<accounts, cache, generation, policy, straddled>>
    PROVE  IInv'
  <1> DEFINE q == reader[p]
  <1>1. TypeInv /\ q \in Reader /\ ReaderInv(p, q)
    BY Opening
  <1>2. q.run.ref \in References /\ q.run.from \in Accounts /\ q.run.back \in {"one", "rest"}
    BY <1>1 DEF ReaderInv, Places, Reader, Run
  <1>3. /\ n \in Reader /\ SamePass(q, n) /\ n.pc = q.run.back /\ n.group = q.group /\ n.held = q.held
        /\ n.groups = q.groups /\ n.run = NoRun /\ n.told = q.told /\ n.failed = q.failed \cup {q.run.ref}
        /\ n.account = q.account /\ n.values = q.values
        /\ \/ n.refusers = q.refusers /\ n.refused = q.refused
           \/ n.refusers = q.refusers \cup {q.run.from} /\ n.refused = TRUE
    <2>1. CASE n = Ends(q)
      BY <1>1, <1>2, <2>1, IdleIs, ZenonT(60) DEF Ends, Reader, Stage, SamePass
    <2>2. CASE n = Refused(q)
      BY <1>1, <1>2, <2>2, IdleIs, ZenonT(60) DEF Refused, Ends, Reader, Stage, SamePass
    <2> QED
      BY <2>1, <2>2
  <1>4. n.refs = q.refs /\ n.fresh = q.fresh /\ n.moved = q.moved
    BY <1>3 DEF SamePass
  <1>5. Places(n)
    BY <1>1, <1>2, <1>3 DEF ReaderInv, Places, InAccount
  <1>6. Once(n)
    BY <1>1, <1>2, <1>3, <1>4 DEF ReaderInv, Once, Busy
  <1>7. AtTheirAccounts(n)
    BY <1>1, <1>2, <1>3, <1>4 DEF ReaderInv, AtTheirAccounts, Still, Busy, Holding, InAccount
  <1>8. Minded(n)
    BY <1>1, <1>2, <1>3, <1>4 DEF ReaderInv, Minded, InAccount, Places
  <1>9. Spared(p, n)
    <2>1. Unserved(n) = Unserved(q)
      BY <1>2, <1>3, <1>4 DEF Unserved, Busy
    <2> QED
      BY <1>1, <1>2, <1>3, <1>4, <2>1 DEF ReaderInv, Spared, Busy
  <1>10. ReaderInv(p, n)
    BY <1>1, <1>2, <1>3, <1>4, <1>5, <1>6, <1>7, <1>8, <1>9 DEF ReaderInv, OneCall
  <1>11. \A s \in [References -> 0..MaxRotations] : NotOlder(n, s)
    BY <1>2, <1>3 DEF NotOlder
  <1> QED
    BY <1>1, <1>2, <1>3, <1>10, <1>11, StepKeepsIt

-----------------------------------------------------------------------------
(* The steps that keep values.                                              *)

\* What may be put under a key: a value of the key's account, if its reference
\* was left alone, and no older than anything the reader's own values are.
Fit(q, k, v) ==
    /\ v \in Values
    /\ k[1] \in Vaulted \ straddled => v.from = k[2]
    /\ \A s \in [References -> 0..MaxRotations] : NotOlder(q, s) => v.at >= s[k[1]]

\* A step that keeps what it read, of a pass that goes on.
LEMMA KeepingKeepsIt ==
    ASSUME IInv, NEW p \in Readers, NEW n \in Reader, ReaderInv(p, n), SamePass(reader[p], n),
           reader[p].pc \notin {"idle", "served"}, n.pc \notin {"idle", "served", "keeping", "read"},
           reader' = [reader EXCEPT ![p] = n],
           UNCHANGED <<accounts, generation, policy, straddled>>,
           cache' \in [Keys -> Values \cup {None}],
           \A k \in Keys : cache'[k] = cache[k] \/ Fit(reader[p], k, cache'[k]),
           p = "reload" => \A r \in n.told : r \in reader[p].told \/ Fit(reader[p], Key(r), cache'[Key(r)])
    PROVE  IInv'
  <1> DEFINE l == reader["reload"]
             q == reader[p]
  <1>1. TypeInv /\ "reload" \in Readers /\ l \in Reader /\ reader \in [Readers -> Reader] /\ q \in Reader
        /\ accounts \in [References -> Accounts] /\ \A r \in References : Key(r) \in Keys
    BY Opening DEF IInv, TypeInv, Readers
  <1>2. Grows
    BY NothingIs DEF Grows, Holds, Fit
  <1>3. TypeInv' /\ \A o \in Readers : ReaderInv(o, reader[o])'
    BY <1>1, <1>2, OneReaderMoves DEF IInv, TypeInv
  <1>4. CachedFromItsAccount'
    BY DEF IInv, CachedFromItsAccount, Holds, Fit
  <1>5. policy \in Policies /\ DOMAIN policy \subseteq References /\ l.told \subseteq References
        /\ AccountsOf(policy) \in [References -> Accounts]
    BY <1>1, AccountsAre DEF TypeInv, Reader
  <1>6. \A r \in References : Holds(Key(r)) => cache'[Key(r)] # None
    BY <1>1, <1>2 DEF Grows, Holds
  <1>7. Loading(reader["reload"])'
    <2>1. ASSUME NEW x, x = reader'["reload"], x = l PROVE Loading(x)'
      <3>1. Loading(l)
        BY DEF IInv
      <3>2. \A r \in References : Holds(<<r, AccountsOf(policy)[r]>>)
                                     => cache'[<<r, AccountsOf(policy)[r]>>] # None
        BY <1>2, <1>5, NothingIs DEF Grows, Holds
      <3> QED
        BY <1>5, <1>6, <2>1, <3>1, <3>2 DEF Loading, Holds, Key
    <2>2. ASSUME NEW x, x = reader'["reload"], p = "reload" PROVE Loading(x)'
      <3>1. x = n /\ q = l
        BY <1>1, <2>2
      <3>2. Loading(l)
        BY DEF IInv
      <3>3. \A r \in n.told : cache'[Key(r)] # None
        BY <1>5, <1>6, <2>2, <3>1, <3>2, NothingIs DEF Loading, Fit
      <3>4. \A r \in References : Holds(<<r, AccountsOf(policy)[r]>>)
                                     => cache'[<<r, AccountsOf(policy)[r]>>] # None
        BY <1>2, <1>5, NothingIs DEF Grows, Holds
      <3> QED
        BY <1>5, <3>1, <3>2, <3>3, <3>4 DEF Loading, Holds, Key, SamePass
    <2> QED
      BY <1>1, <2>1, <2>2 DEF Loading
  <1>8. /\ reader'["reload"].pc # "idle" /\ reader'["reload"].alone => Renewing
        /\ reader'["reload"].since = l.since /\ reader'["reload"].fresh = l.fresh
    BY <1>1 DEF Renewing, SamePass
  <1>9. ASSUME Renewing
        PROVE  /\ \A o \in Readers : NotOlder(reader'[o], l.since)
               /\ \A r \in reader'["reload"].told :
                     l.fresh => cache'[Key(r)] # None /\ cache'[Key(r)].at >= l.since[r]
    <2>1. \A o \in Readers : NotOlder(reader[o], l.since)
      BY <1>9 DEF IInv, Fresh
    <2>2. l.since \in [References -> 0..MaxRotations]
      BY <1>1 DEF Reader
    <2>3. NotOlder(n, l.since)
      BY DEF NotOlder
    <2>4. \A r \in References : Fit(q, Key(r), cache'[Key(r)]) =>
              cache'[Key(r)] # None /\ cache'[Key(r)].at >= l.since[r]
      BY <1>1, <2>1, <2>2, NothingIs DEF Fit, Key
    <2>5. \A r \in l.told : l.fresh => cache[Key(r)] # None /\ cache[Key(r)].at >= l.since[r]
      BY <1>9 DEF IInv, Fresh, Renewed
    <2>6. \A r \in l.told : l.fresh => cache'[Key(r)] # None /\ cache'[Key(r)].at >= l.since[r]
      BY <1>1, <1>5, <2>4, <2>5
    <2>7. \A r \in n.told : p = "reload" => r \in References /\ (r \in l.told \/ Fit(q, Key(r), cache'[Key(r)]))
      BY DEF Reader
    <2> QED
      BY <1>1, <2>1, <2>3, <2>4, <2>6, <2>7
  <1>10. Fresh'
    <2> SUFFICES ASSUME Renewing'
                 PROVE  /\ \A o \in Readers : NotOlder(reader[o], reader["reload"].since)'
                        /\ Renewed(reader["reload"])'
      BY DEF Fresh
    <2>1. Renewing
      BY <1>8 DEF Renewing
    <2>2. /\ \A o \in Readers : NotOlder(reader'[o], l.since)
          /\ \A r \in reader'["reload"].told :
                l.fresh => cache'[Key(r)] # None /\ cache'[Key(r)].at >= l.since[r]
      BY <1>9, <2>1
    <2>3. \A r : Key(r)' = Key(r)
      BY DEF Key
    <2>4. ASSUME NEW x, x = reader'["reload"] PROVE Renewed(x)'
      BY <1>8, <2>2, <2>3, <2>4 DEF Renewed
    <2>5. ASSUME NEW o \in Readers, NEW x, x = reader'[o], NEW s, s = l.since, NotOlder(x, s)
          PROVE  NotOlder(x, s)'
      BY <2>5 DEF NotOlder
    <2>6. \A o \in Readers : NotOlder(reader[o], reader["reload"].since)'
      BY <1>8, <2>2, <2>5 DEF NotOlder
    <2> QED
      BY <2>4, <2>6 DEF Renewed
  <1> QED
    BY <1>3, <1>4, <1>7, <1>10 DEF IInv

\* The values of one account's group, each under the key its reference has by now.
LEMMA KeepStep == ASSUME IInv, NEW p \in Readers, Keep(p) PROVE IInv'
  <1> DEFINE q == reader[p]
             good == Answered(q)
             n == [q EXCEPT !.pc = "accounts", !.group = {}, !.values = None,
                            !.told = @ \cup good, !.failed = @ \cup (q.group \ good)]
  <1>1. q.pc = "keeping" /\ reader' = [reader EXCEPT ![p] = n] /\ cache' = Kept(q)
        /\ UNCHANGED <<accounts, generation, policy, straddled>>
    BY DEF Keep, Becomes
  <1>2. TypeInv /\ q \in Reader /\ ReaderInv(p, q) /\ p # "call"
        /\ \A r \in References : Key(r) \in Keys /\ accounts[r] \in Accounts
    BY <1>1, Opening DEF ReaderInv, OneCall
  <1>3. q.group \subseteq References /\ good \subseteq q.group
        /\ good = {r \in q.group : q.values[r] # None}
    BY <1>2 DEF Answered, Reader
  <1> HIDE DEF good
  <1>4. /\ n \in Reader /\ SamePass(q, n) /\ n.pc = "accounts" /\ n.group = {} /\ n.held = q.held
        /\ n.groups = q.groups /\ n.run = q.run /\ n.told = q.told \cup good
        /\ n.failed = q.failed \cup (q.group \ good)
        /\ n.refusers = q.refusers /\ n.refused = q.refused /\ n.account = q.account
    BY <1>2, <1>3, ZenonT(60) DEF Reader, Stage, SamePass
  <1> HIDE DEF n
  <1>5. n.refs = q.refs /\ n.fresh = q.fresh /\ n.moved = q.moved /\ q.run = NoRun
    BY <1>1, <1>2, <1>4 DEF ReaderInv, Places, SamePass
  <1>6. Places(n)
    BY <1>4, <1>5 DEF Places, InAccount
  <1>7. Once(n)
    BY <1>1, <1>2, <1>3, <1>4, <1>5 DEF ReaderInv, Once, Busy
  <1>8. AtTheirAccounts(n)
    BY <1>1, <1>2, <1>4, <1>5 DEF ReaderInv, AtTheirAccounts, Still, Busy
  <1>9. Minded(n)
    BY <1>1, <1>2, <1>4, <1>5 DEF ReaderInv, Minded, InAccount
  <1>10. Spared(p, n)
    <2>1. Unserved(n) = Unserved(q)
      BY <1>1, <1>3, <1>4, <1>5 DEF Unserved, Busy
    <2> QED
      BY <1>1, <1>2, <1>4, <1>5, <2>1 DEF ReaderInv, Spared, Busy
  <1>11. ReaderInv(p, n)
    BY <1>2, <1>4, <1>6, <1>7, <1>8, <1>9, <1>10 DEF ReaderInv
  <1>12. \A r \in good : Fit(q, Key(r), q.values[r])
    <2>1. \A r \in good : q.values[r] \in Values
      BY <1>1, <1>2, <1>3 DEF ReaderInv, Places
    <2>2. \A r \in good : r \notin straddled => q.values[r].from = accounts[r]
      BY <1>1, <1>2, <1>3 DEF ReaderInv, AtTheirAccounts, Still, Holding, InAccount
    <2>3. \A s : NotOlder(q, s) => \A r \in good : q.values[r].at >= s[r]
      BY <1>1, <1>3 DEF NotOlder
    <2> QED
      BY <2>1, <2>2, <2>3 DEF Fit, Key
  <1>13. \A k \in Keys : \/ k[1] \in good /\ k = Key(k[1]) /\ cache'[k] = q.values[k[1]]
                         \/ cache'[k] = cache[k] /\ ~(k[1] \in good /\ k = Key(k[1]))
    BY <1>1, <1>3 DEF Kept
  <1>14. cache' \in [Keys -> Values \cup {None}]
    <2>1. cache' = [k \in Keys |-> cache'[k]]
      BY <1>1 DEF Kept
    <2>2. \A k \in Keys : cache'[k] \in Values \cup {None}
      BY <1>2, <1>12, <1>13 DEF Fit, TypeInv
    <2> QED
      BY <2>1, <2>2
  <1>15. \A k \in Keys : cache'[k] = cache[k] \/ Fit(q, k, cache'[k])
    BY <1>12, <1>13
  <1>16. \A r \in n.told : r \in q.told \/ Fit(q, Key(r), cache'[Key(r)])
    <2> SUFFICES ASSUME NEW r \in good PROVE Fit(q, Key(r), cache'[Key(r)])
      BY <1>4
    <2>1. Key(r) \in Keys /\ Key(r)[1] = r
      BY <1>2, <1>3 DEF Key
    <2>2. cache'[Key(r)] = q.values[r]
      BY <1>13, <2>1
    <2> QED
      BY <1>12, <2>2
  <1> QED
    BY <1>1, <1>2, <1>4, <1>11, <1>14, <1>15, <1>16, KeepingKeepsIt

\* The value of one reference, under the key it had or has.
LEMMA KeepOneStep == ASSUME IInv, NEW p \in Readers, KeepOne(p) PROVE IInv'
  <1> DEFINE q == reader[p]
             r == q.run.ref
             key == IF q.run.key = None THEN Key(r) ELSE q.run.key
             n == [q EXCEPT !.pc = q.run.back, !.told = @ \cup {r}, !.run = NoRun]
  <1>1. q.pc = "read" /\ reader' = [reader EXCEPT ![p] = n]
        /\ cache' = Insert(key, q.run.value)
        /\ UNCHANGED <<accounts, generation, policy, straddled>>
    BY DEF KeepOne, Becomes
  <1>2. TypeInv /\ q \in Reader /\ ReaderInv(p, q)
        /\ \A x \in References : Key(x) \in Keys /\ accounts[x] \in Accounts
        /\ (p = "reload" => ~q.moved)
    BY Opening
  <1>3. r \in References /\ q.run.from \in Accounts /\ q.run.back \in {"one", "rest"}
        /\ q.run.value \in Values
        /\ key \in Keys /\ (key = Key(r) \/ key = <<r, q.run.from>>)
    BY <1>1, <1>2, NothingIs DEF ReaderInv, Places, Reader, Run
  <1>4. /\ n \in Reader /\ SamePass(q, n) /\ n.pc = q.run.back /\ n.group = q.group /\ n.held = q.held
        /\ n.groups = q.groups /\ n.run = NoRun /\ n.told = q.told \cup {r} /\ n.failed = q.failed
        /\ n.refusers = q.refusers /\ n.refused = q.refused /\ n.account = q.account /\ n.values = q.values
    BY <1>2, <1>3, IdleIs, ZenonT(60) DEF Reader, Stage, SamePass
  <1> HIDE DEF n, key
  <1>5. n.refs = q.refs /\ n.fresh = q.fresh /\ n.moved = q.moved
    BY <1>4 DEF SamePass
  <1>6. Places(n)
    BY <1>1, <1>2, <1>3, <1>4 DEF ReaderInv, Places, InAccount
  <1>7. Once(n)
    BY <1>1, <1>2, <1>3, <1>4, <1>5 DEF ReaderInv, Once, Busy
  <1>8. AtTheirAccounts(n)
    BY <1>1, <1>2, <1>3, <1>4, <1>5 DEF ReaderInv, AtTheirAccounts, Still, Busy, Holding, InAccount
  <1>9. Minded(n)
    BY <1>1, <1>2, <1>3, <1>4, <1>5 DEF ReaderInv, Minded, InAccount
  <1>10. Spared(p, n)
    <2>1. Unserved(n) = Unserved(q)
      BY <1>1, <1>3, <1>4, <1>5 DEF Unserved, Busy
    <2> QED
      BY <1>1, <1>2, <1>3, <1>4, <1>5, <2>1 DEF ReaderInv, Spared, Busy
  <1>11. ReaderInv(p, n)
    BY <1>1, <1>2, <1>3, <1>4, <1>5, <1>6, <1>7, <1>8, <1>9, <1>10 DEF ReaderInv, OneCall
  <1>12. Fit(q, key, q.run.value)
    <2>1. key[1] = r /\ (key[2] = accounts[r] \/ key[2] = q.run.from)
      BY <1>3 DEF Key
    <2>2. r \notin straddled => q.run.value.from = accounts[r] /\ q.run.from = accounts[r]
      BY <1>1, <1>2, <1>3 DEF ReaderInv, AtTheirAccounts, Still, Busy
    <2>3. \A s : NotOlder(q, s) => q.run.value.at >= s[r]
      BY <1>1 DEF NotOlder
    <2> QED
      BY <1>3, <2>1, <2>2, <2>3 DEF Fit
  <1>13. cache' \in [Keys -> Values \cup {None}] /\ cache'[key] = q.run.value
         /\ \A k \in Keys \ {key} : cache'[k] = cache[k]
    BY <1>1, <1>2, <1>3 DEF Insert, TypeInv
  <1>14. \A k \in Keys : cache'[k] = cache[k] \/ Fit(q, k, cache'[k])
    BY <1>12, <1>13
  <1>15. ASSUME p = "reload" PROVE \A x \in n.told : x \in q.told \/ Fit(q, Key(x), cache'[Key(x)])
    <2>1. accounts[r] = q.run.from
      BY <1>1, <1>2, <1>3, <1>15 DEF ReaderInv, AtTheirAccounts, Still, Busy
    <2>2. key = Key(r)
      BY <1>3, <2>1 DEF Key
    <2> QED
      BY <1>4, <1>12, <1>13, <2>2
  <1> QED
    BY <1>1, <1>2, <1>3, <1>4, <1>11, <1>13, <1>14, <1>15, KeepingKeepsIt

-----------------------------------------------------------------------------
(* A reader starts or is through.                                           *)

\* A reader that does nothing is at nothing.
LEMMA IdleFits == ASSUME NEW p PROVE ReaderInv(p, Idle) /\ ReaderInv(p, Idle)'
  <1>1. /\ Idle.pc = "idle" /\ Idle.group = {} /\ Idle.run = NoRun /\ Idle.told = {} /\ Idle.failed = {}
        /\ Idle.refs = {} /\ Idle.refusers = {} /\ Idle.held = {}
        /\ \A a \in Accounts : Idle.groups[a] = {}
    BY DEF Idle
  <1>2. Places(Idle) /\ Once(Idle) /\ AtTheirAccounts(Idle) /\ Minded(Idle) /\ OneCall(Idle) /\ Spared(p, Idle)
    BY <1>1 DEF Places, Once, AtTheirAccounts, Minded, OneCall, Spared, Busy, Holding, InAccount
  <1>3. Places(Idle)' /\ Once(Idle)' /\ AtTheirAccounts(Idle)' /\ Minded(Idle)' /\ OneCall(Idle)' /\ Spared(p, Idle)'
    BY <1>1 DEF Places, Once, AtTheirAccounts, Minded, OneCall, Spared, Busy, Holding, InAccount
  <1> QED
    BY <1>1, <1>2, <1>3 DEF ReaderInv

\* What a pass begins with: nothing, but the accounts and generations of the moment.
Starts(b, c, refs, fresh) ==
    /\ b \in Reader
    /\ b.pc = "wanted" /\ b.config = c /\ b.since = generation /\ b.refs = refs /\ b.fresh = fresh
    /\ b.was = accounts /\ ~b.moved
    /\ b.group = {} /\ b.run = NoRun /\ b.told = {} /\ b.failed = {} /\ b.refusers = {} /\ b.held = {}
    /\ \A a \in Accounts : b.groups[a] = {}

\* Begin makes such a record.
LEMMA BeginIs ==
    ASSUME TypeInv, NEW p, NEW c \in Policies, NEW refs \in SUBSET References, NEW fresh \in BOOLEAN
    PROVE  Starts(Begin(p, c, refs, fresh), c, refs, fresh)
  <1> DEFINE lone == \A o \in Readers \ {p} : InFlight(reader[o]) = {}
             n == [Idle EXCEPT !.pc = "wanted", !.config = c, !.since = generation, !.refs = refs,
                               !.fresh = fresh, !.was = accounts, !.alone = lone]
  <1>1. Begin(p, c, refs, fresh) = n
    BY DEF Begin
  <1>2. lone \in BOOLEAN
    OBVIOUS
  <1> HIDE DEF lone
  <1>3. /\ n \in Reader
        /\ n.pc = "wanted" /\ n.config = c /\ n.since = generation /\ n.refs = refs /\ n.fresh = fresh
        /\ n.was = accounts /\ n.alone = lone /\ n.moved = Idle.moved
        /\ n.group = Idle.group /\ n.run = Idle.run /\ n.told = Idle.told /\ n.failed = Idle.failed
        /\ n.refusers = Idle.refusers /\ n.held = Idle.held /\ n.groups = Idle.groups
    BY <1>2, IdleIs, ZenonT(60) DEF Reader, Stage, TypeInv
  <1> HIDE DEF n
  <1>4. /\ Idle.group = {} /\ Idle.run = NoRun /\ Idle.told = {} /\ Idle.failed = {}
        /\ Idle.refusers = {} /\ Idle.held = {} /\ ~Idle.moved
        /\ \A a \in Accounts : Idle.groups[a] = {}
    BY DEF Idle
  <1>5. Starts(n, c, refs, fresh)
    BY <1>3, <1>4 DEF Starts
  <1> QED
    BY <1>1, <1>5

\* One that says it is alone began with no other reader at anything.
LEMMA LoneIs ==
    ASSUME NEW p, NEW c, NEW refs, NEW fresh, Begin(p, c, refs, fresh).alone
    PROVE  \A o \in Readers \ {p} : InFlight(reader[o]) = {}
  BY DEF Begin, Idle

\* A pass that begins is at nothing either.
LEMMA BeginFits ==
    ASSUME NEW p, p # "call", NEW b, b.pc = "wanted", b.group = {}, b.run = NoRun, b.told = {},
           b.failed = {}, b.refusers = {}, b.held = {}, \A a \in Accounts : b.groups[a] = {}
    PROVE  ReaderInv(p, b) /\ ReaderInv(p, b)'
  <1>1. Places(b) /\ Once(b) /\ AtTheirAccounts(b) /\ Minded(b) /\ Spared(p, b)
    BY DEF Places, Once, AtTheirAccounts, Minded, Spared, Busy, Holding, InAccount
  <1>2. Places(b)' /\ Once(b)' /\ AtTheirAccounts(b)' /\ Minded(b)' /\ Spared(p, b)'
    BY DEF Places, Once, AtTheirAccounts, Minded, Spared, Busy, Holding, InAccount
  <1> QED
    BY <1>1, <1>2 DEF ReaderInv

\* A check or a call starts or is through, and the reload is not in it.
LEMMA OtherTurns ==
    ASSUME IInv, NEW p \in Readers \ {"reload"}, NEW n \in Reader, ReaderInv(p, n),
           n.pc \notin {"keeping", "read"}, reader' = [reader EXCEPT ![p] = n],
           UNCHANGED <<accounts, cache, generation, policy, straddled>>
    PROVE  IInv'
  <1>1. TypeInv /\ reader \in [Readers -> Reader] /\ "reload" \in Readers
    BY DEF IInv, TypeInv, Readers
  <1>2. Grows
    BY DEF Grows, Holds
  <1>3. TypeInv' /\ \A o \in Readers : ReaderInv(o, reader[o])'
    BY <1>1, <1>2, OneReaderMoves DEF IInv, TypeInv
  <1>4. CachedFromItsAccount'
    BY DEF IInv, CachedFromItsAccount, Holds
  <1>5. reader'["reload"] = reader["reload"]
    BY <1>1
  <1>6. Loading(reader["reload"])'
    BY <1>5 DEF IInv, Loading, Holds, Key
  <1>7. Fresh'
    <2> SUFFICES ASSUME Renewing'
                 PROVE  /\ \A o \in Readers : NotOlder(reader[o], reader["reload"].since)'
                        /\ Renewed(reader["reload"])'
      BY DEF Fresh
    <2>1. Renewing
      BY <1>5 DEF Renewing
    <2>2. /\ \A o \in Readers : NotOlder(reader[o], reader["reload"].since)
          /\ Renewed(reader["reload"])
      BY <2>1 DEF IInv, Fresh
    <2>3. \A o \in Readers : reader'[o] = reader[o] \/ reader'[o].pc \notin {"keeping", "read"}
      BY <1>1
    <2> QED
      BY <1>5, <2>2, <2>3 DEF NotOlder, Renewed, Key
  <1> QED
    BY <1>3, <1>4, <1>6, <1>7 DEF IInv

\* Every reference was answered for: the check or the call is through, the reload decides.
LEMMA AllSaidStep == ASSUME IInv, NEW p \in Readers, AllSaid(p) PROVE IInv'
  <1> DEFINE q == reader[p]
  <1>1. q.pc = "rest" /\ q.refs = q.told \cup q.failed
        /\ UNCHANGED <<accounts, cache, generation, policy, straddled>>
    BY DEF AllSaid, Complete, Becomes
  <1>2. TypeInv /\ q \in Reader /\ ReaderInv(p, q)
    BY Opening
  <1>3. CASE p # "reload"
    <2>1. reader' = [reader EXCEPT ![p] = Idle]
      BY <1>3 DEF AllSaid, Becomes
    <2>2. Idle.pc \notin {"keeping", "read"}
      BY DEF Idle
    <2> QED
      BY <1>1, <1>3, <2>1, <2>2, IdleIs, IdleFits, OtherTurns
  <1>4. CASE p = "reload"
    <2> DEFINE n == [q EXCEPT !.pc = "decide"]
    <2>1. reader' = [reader EXCEPT ![p] = n]
      BY <1>4 DEF AllSaid, Becomes
    <2>2. /\ n \in Reader /\ SamePass(q, n) /\ n.pc = "decide" /\ n.group = q.group /\ n.held = q.held
          /\ n.groups = q.groups /\ n.run = q.run /\ n.told = q.told /\ n.failed = q.failed
          /\ n.refusers = q.refusers /\ n.refused = q.refused /\ n.account = q.account
      BY <1>2 DEF Reader, Stage, SamePass
    <2> HIDE DEF n
    <2>3. /\ n.refs = q.refs /\ n.fresh = q.fresh /\ n.moved = q.moved
          /\ q.group = {} /\ q.run = NoRun /\ \A a \in Accounts : q.groups[a] = {}
      BY <1>1, <1>2, <2>2 DEF SamePass, ReaderInv, Places, InAccount
    <2>4. Places(n)
      BY <2>2, <2>3 DEF Places, InAccount
    <2>5. Once(n) /\ AtTheirAccounts(n) /\ Minded(n)
      BY <1>1, <1>2, <2>2, <2>3 DEF ReaderInv, Once, Busy, AtTheirAccounts, Minded, Holding, InAccount
    <2>6. Spared(p, n)
      <3>1. Unserved(n) = Unserved(q)
        BY <1>1, <2>2, <2>3 DEF Unserved, Busy
      <3> QED
        BY <1>1, <1>2, <2>2, <2>3, <3>1 DEF ReaderInv, Spared, Busy
    <2>7. ReaderInv(p, n)
      BY <1>4, <2>2, <2>4, <2>5, <2>6 DEF ReaderInv
    <2>8. \A s \in [References -> 0..MaxRotations] : NotOlder(n, s)
      BY <2>2 DEF NotOlder
    <2> QED
      BY <1>1, <1>2, <2>1, <2>2, <2>7, <2>8, StepKeepsIt
  <1> QED
    BY <1>3, <1>4

\* `c` in the console.
LEMMA CheckStep == ASSUME IInv, Check PROVE IInv'
  <1>1. PICK f \in BOOLEAN :
           reader' = [reader EXCEPT !["check"] = Cleared(Begin("check", policy, DOMAIN policy, f))]
    BY DEF Check
  <1> DEFINE b == Begin("check", policy, DOMAIN policy, f)
             n == Cleared(b)
  <1>2. reader' = [reader EXCEPT !["check"] = n]
        /\ UNCHANGED <<accounts, cache, generation, policy, straddled>>
    BY <1>1 DEF Check
  <1>3. TypeInv /\ policy \in Policies /\ DOMAIN policy \in SUBSET References
    BY AccountsAre DEF IInv, TypeInv
  <1>4. Starts(b, policy, DOMAIN policy, f)
    BY <1>3, BeginIs
  <1> HIDE DEF b
  <1>5. b \in Reader /\ b.pc = "wanted" /\ b.group = {} /\ b.run = NoRun /\ b.told = {} /\ b.failed = {}
        /\ b.refusers = {} /\ b.held = {} /\ \A a \in Accounts : b.groups[a] = {}
    BY <1>4 DEF Starts
  <1>6. Idle.since \in [References -> 0..MaxRotations]
    BY IdleIs DEF Reader
  <1>7. n \in Reader /\ n.pc = b.pc /\ n.group = b.group /\ n.run = b.run /\ n.told = b.told
        /\ n.failed = b.failed /\ n.refusers = b.refusers /\ n.held = b.held /\ n.groups = b.groups
    BY <1>5, <1>6 DEF Cleared, Reader, Stage
  <1> HIDE DEF n
  <1>8. ReaderInv("check", n)
    BY <1>5, <1>7, BeginFits
  <1>9. "check" \in Readers \ {"reload"}
    BY DEF Readers
  <1> QED
    BY <1>2, <1>5, <1>7, <1>8, <1>9, OtherTurns

\* A live call.
LEMMA CallStep == ASSUME IInv, NEW r \in References, Call(r) PROVE IInv'
  <1>1. PICK f \in BOOLEAN :
           reader' = [reader EXCEPT !["call"] =
                         [Cleared(Begin("call", policy, {r}, f)) EXCEPT !.pc = "rest",
                              !.held = {s \in {r} : Holds(Key(s))}]]
    BY DEF Call
  <1> DEFINE b == Begin("call", policy, {r}, f)
             h == {s \in {r} : Holds(Key(s))}
             n == [Cleared(b) EXCEPT !.pc = "rest", !.held = h]
  <1>2. reader' = [reader EXCEPT !["call"] = n]
        /\ UNCHANGED <<accounts, cache, generation, policy, straddled>>
    BY <1>1 DEF Call
  <1>3. TypeInv /\ policy \in Policies /\ {r} \in SUBSET References
    BY DEF IInv, TypeInv
  <1>4. Starts(b, policy, {r}, f)
    BY <1>3, BeginIs
  <1> HIDE DEF b
  <1>5. b \in Reader /\ b.group = {} /\ b.run = NoRun /\ b.told = {} /\ b.failed = {}
        /\ b.refs = {r} /\ b.refusers = {} /\ \A a \in Accounts : b.groups[a] = {}
    BY <1>4 DEF Starts
  <1>6. h \subseteq {r} /\ \A s \in h : s \in References /\ Holds(Key(s))
    OBVIOUS
  <1> HIDE DEF h
  <1>7. Idle.since \in [References -> 0..MaxRotations]
    BY IdleIs DEF Reader
  <1>8. Cleared(b) \in Reader /\ Cleared(b).group = b.group /\ Cleared(b).run = b.run
        /\ Cleared(b).told = b.told /\ Cleared(b).failed = b.failed /\ Cleared(b).refusers = b.refusers
        /\ Cleared(b).refs = b.refs /\ Cleared(b).groups = b.groups
    BY <1>5, <1>7 DEF Cleared, Reader, Stage
  <1>9. n \in Reader /\ n.pc = "rest" /\ n.held = h /\ n.group = Cleared(b).group /\ n.run = Cleared(b).run
        /\ n.told = Cleared(b).told /\ n.failed = Cleared(b).failed /\ n.refusers = Cleared(b).refusers
        /\ n.refs = Cleared(b).refs /\ n.groups = Cleared(b).groups
    BY <1>6, <1>8 DEF Reader, Stage
  <1> HIDE DEF n
  <1>10. Places(n) /\ Once(n) /\ AtTheirAccounts(n) /\ Minded(n) /\ OneCall(n)
    BY <1>5, <1>8, <1>9
    DEF Places, Once, AtTheirAccounts, Minded, OneCall, Busy, Holding, InAccount
  <1>11. Spared("call", n)
    BY <1>5, <1>6, <1>8, <1>9 DEF Spared, Busy
  <1>12. ReaderInv("call", n)
    BY <1>9, <1>10, <1>11 DEF ReaderInv
  <1>13. "call" \in Readers \ {"reload"}
    BY DEF Readers
  <1> QED
    BY <1>2, <1>9, <1>12, <1>13, OtherTurns

-----------------------------------------------------------------------------
(* The accounts move.                                                       *)

\* What a reader is at.
LEMMA FlightIs ==
    ASSUME NEW q
    PROVE  /\ \A a \in Accounts : q.groups[a] \subseteq InFlight(q)
           /\ q.group \subseteq InFlight(q)
           /\ q.run # NoRun => q.run.ref \in InFlight(q)
  <1> DEFINE waiting == UNION {q.groups[a] : a \in Accounts}
             run == IF q.run # NoRun THEN {q.run.ref} ELSE {}
  <1>1. InFlight(q) = waiting \cup q.group \cup run
    BY DEF InFlight
  <1>2. \A a \in Accounts : q.groups[a] \subseteq waiting
    OBVIOUS
  <1>3. q.run # NoRun => q.run.ref \in run
    OBVIOUS
  <1> HIDE DEF waiting, run
  <1> QED
    BY <1>1, <1>2, <1>3

\* A reader that a reload passes by: what it has in flight either was left
\* alone, or counts as straddled from now on.
LEMMA PassedBy ==
    ASSUME TypeInv, NEW p \in Readers \ {"reload"}, NEW to \in [References -> Accounts],
           ReaderInv(p, reader[p]), Move("reload", to), cache' = cache,
           NEW x, x = [reader[p] EXCEPT !.moved = @ \/ (reader[p].pc # "idle" /\ to # accounts)]
    PROVE  x \in Reader /\ ReaderInv(p, x)'
  <1> DEFINE q == reader[p]
             hit == q.pc # "idle" /\ to # accounts
  <1>1. q \in Reader /\ accounts \in [References -> Accounts]
    BY DEF TypeInv
  <1>2. accounts' = to
        /\ straddled' = straddled \cup ({r \in References : to[r] # accounts[r]}
                                         \cap UNION {InFlight(reader[o]) : o \in Readers \ {"reload"}})
    BY DEF Move
  <1>3. /\ x \in Reader /\ SamePass([x EXCEPT !.moved = q.moved], q) /\ x.pc = q.pc /\ x.group = q.group
        /\ x.held = q.held /\ x.groups = q.groups /\ x.run = q.run /\ x.told = q.told
        /\ x.failed = q.failed /\ x.refusers = q.refusers /\ x.refused = q.refused
        /\ x.account = q.account /\ x.values = q.values /\ x.refs = q.refs /\ x.fresh = q.fresh
        /\ x.moved = (q.moved \/ hit)
    BY <1>1 DEF Reader, SamePass
  <1>4. ~x.moved => ~q.moved /\ (q.pc = "idle" \/ to = accounts)
    BY <1>3
  <1>5. Places(x)' /\ Once(x)'
    <2>1. Places(x)'
      BY <1>3 DEF ReaderInv, Places
    <2>2. Once(x)'
      BY <1>3 DEF ReaderInv, Once, Busy
    <2> QED
      BY <2>1, <2>2
  <1>6. \A r \in InFlight(q) \cap References : r \notin straddled' => r \notin straddled /\ to[r] = accounts[r]
    BY <1>2
  <1>7. /\ \A a \in Accounts : q.groups[a] \subseteq InFlight(q) \cap References
        /\ q.group \subseteq InFlight(q) \cap References
        /\ \A r \in References : Busy(q, r) => r \in InFlight(q)
    <2>1. \A a \in Accounts : q.groups[a] \subseteq InFlight(q) \cap References
      BY <1>1, FlightIs DEF Reader
    <2>2. q.group \subseteq InFlight(q) \cap References
      BY <1>1, FlightIs DEF Reader
    <2>3. ASSUME NEW r \in References, Busy(q, r) PROVE r \in InFlight(q)
      <3>1. q.run # NoRun /\ q.run.ref = r
        BY <2>3 DEF Busy, ReaderInv, Places
      <3> QED
        BY <3>1, FlightIs
    <2> QED
      BY <2>1, <2>2, <2>3
  <1>8. q.pc = "idle" => /\ q.group = {} /\ q.held = {} /\ \A r : ~Busy(q, r)
                         /\ \A a \in Accounts : q.groups[a] = {}
    BY DEF ReaderInv, Places, InAccount, Busy
  <1>9. \A r \in InFlight(q) \cap References : Still(x, r)' => Still(q, r) /\ (q.pc = "idle" \/ to[r] = accounts[r])
    BY <1>2, <1>3, <1>4, <1>6 DEF Still
  <1>10. AtTheirAccounts(x)'
    <2>1. \A a \in Accounts : \A r \in x.groups[a] : Still(x, r)' => to[r] = a
      BY <1>3, <1>7, <1>8, <1>9 DEF ReaderInv, AtTheirAccounts
    <2>2. Holding(x)' => \A r \in x.group : Still(x, r)' => to[r] = x.account
      BY <1>3, <1>7, <1>8, <1>9 DEF ReaderInv, AtTheirAccounts, Holding, InAccount
    <2>3. \A r \in References : Busy(x, r)' /\ Still(x, r)' => to[r] = x.run.from
      BY <1>3, <1>7, <1>8, <1>9 DEF ReaderInv, AtTheirAccounts, Busy
    <2>4. /\ x.pc = "keeping" => \A r \in x.group : x.values[r] # None => x.values[r].from = x.account
          /\ x.pc = "read" => x.run.value.from = x.run.from
      BY <1>3 DEF ReaderInv, AtTheirAccounts
    <2> QED
      BY <1>2, <2>1, <2>2, <2>3, <2>4 DEF AtTheirAccounts
  <1>11. Minded(x)'
    BY <1>3, <1>4 DEF ReaderInv, Minded
  <1>12. Unserved(x)' = Unserved(q)
    BY <1>3 DEF Unserved, Busy
  <1>13. Spared(p, x)'
    <2>1. ~x.moved => \A r : q.pc = "idle" \/ (Holds(Key(r))' <=> Holds(Key(r)))
      BY <1>2, <1>4 DEF Holds, Key
    <2> QED
      BY <1>3, <1>4, <1>8, <1>12, <2>1 DEF ReaderInv, Spared, Busy
  <1> QED
    BY <1>3, <1>5, <1>10, <1>11, <1>13 DEF ReaderInv, OneCall

\* The reload moves the accounts, and its own record starts or ends.
LEMMA MovedOn ==
    ASSUME IInv, NEW to \in [References -> Accounts], Move("reload", to),
           NEW n \in Reader, \A p : p # "call" => ReaderInv(p, n)',
           reader' = Passing("reload", n, to), UNCHANGED <<cache, generation, policy>>
    PROVE  /\ TypeInv' /\ CachedFromItsAccount'
           /\ \A p \in Readers : ReaderInv(p, reader[p])'
           /\ reader'["reload"] = n
  <1>1. TypeInv /\ reader \in [Readers -> Reader] /\ "reload" \in Readers
        /\ \A p \in Readers : ReaderInv(p, reader[p])
    BY DEF IInv, TypeInv, Readers
  <1>2. \A p \in Readers : reader'[p] =
           IF p = "reload" THEN n
           ELSE [reader[p] EXCEPT !.moved = @ \/ (reader[p].pc # "idle" /\ to # accounts)]
    BY DEF Passing
  <1>3. reader'["reload"] = n
    BY <1>1, <1>2
  <1>4. ASSUME NEW p \in Readers, NEW x, x = reader'[p] PROVE x \in Reader /\ ReaderInv(p, x)'
    <2>1. CASE p = "reload"
      BY <1>3, <1>4, <2>1
    <2>2. CASE p # "reload"
      BY <1>1, <1>2, <1>4, <2>2, PassedBy
    <2> QED
      BY <2>1, <2>2
  <1>5. reader' \in [Readers -> Reader]
    <2>1. reader' = [p \in Readers |-> reader'[p]]
      BY DEF Passing
    <2>2. \A p \in Readers : reader'[p] \in Reader
      BY <1>4
    <2> QED
      BY <2>1, <2>2
  <1>6. accounts' \in [References -> Accounts] /\ straddled' \subseteq References /\ straddled \subseteq straddled'
    BY <1>1 DEF Move, TypeInv
  <1>7. TypeInv'
    BY <1>1, <1>5, <1>6 DEF TypeInv
  <1>8. CachedFromItsAccount'
    BY <1>6 DEF IInv, CachedFromItsAccount, Holds
  <1>9. \A p \in Readers : ReaderInv(p, reader[p])'
    <2>1. ASSUME NEW p \in Readers, NEW x, x = reader'[p] PROVE ReaderInv(p, x)'
      BY <1>4, <2>1
    <2> QED
      BY <2>1, Becoming
  <1> QED
    BY <1>3, <1>7, <1>8, <1>9

\* A reload begins: the new policy's accounts first.
LEMMA ReloadStep ==
    ASSUME IInv, NEW c \in Policies, NEW fresh \in BOOLEAN, Reload(c, fresh) PROVE IInv'
  <1> DEFINE l == reader["reload"]
             to == AccountsOf(c)
  <1> SUFFICES ASSUME NEW n, n = Begin("reload", c, DOMAIN c, fresh) PROVE IInv'
    OBVIOUS
  <1>1. l.pc \in {"idle", "served"} /\ Move("reload", to) /\ reader' = Passing("reload", n, to)
        /\ UNCHANGED <<cache, generation, policy>>
    BY DEF Reload
  <1>2. to \in [References -> Accounts] /\ DOMAIN c \in SUBSET References
    BY AccountsAre
  <1>3. TypeInv /\ reader \in [Readers -> Reader] /\ "reload" \in Readers
        /\ \A p \in Readers : ReaderInv(p, reader[p])
    BY DEF IInv, TypeInv, Readers
  <1>4. Starts(n, c, DOMAIN c, fresh)
    BY <1>2, <1>3, BeginIs
  <1>5. n.alone => \A o \in Readers \ {"reload"} : InFlight(reader[o]) = {}
    BY LoneIs
  <1>6. accounts' = to
    BY <1>1 DEF Move
  <1>7. \A p : p # "call" => ReaderInv(p, n)'
    BY <1>4, BeginFits DEF Starts
  <1>8. n \in Reader
    BY <1>4 DEF Starts
  <1>9. /\ TypeInv' /\ CachedFromItsAccount'
        /\ \A p \in Readers : ReaderInv(p, reader[p])'
        /\ reader'["reload"] = n
    BY <1>1, <1>2, <1>7, <1>8, MovedOn
  <1>10. Loading(n)'
    <2>1. accounts = AccountsOf(policy) /\ \A r \in DOMAIN policy : Holds(<<r, accounts[r]>>)
      BY <1>1 DEF IInv, Loading, Key
    <2>2. DOMAIN policy \subseteq References /\ AccountsOf(policy)' = AccountsOf(policy) /\ AccountsOf(c)' = to
      BY <1>1, <1>3, AccountsAre DEF TypeInv, AccountsOf
    <2>3. \A r \in References : generation[r] <= generation[r]
      BY <1>3 DEF TypeInv
    <2> QED
      BY <1>1, <1>4, <1>6, <2>1, <2>2, <2>3 DEF Starts, Loading, Holds
  <1>11. ASSUME n.alone PROVE \A o \in Readers : NotOlder(reader'[o], n.since)
    <2>1. ASSUME NEW o \in Readers \ {"reload"} PROVE NotOlder(reader'[o], n.since)
      <3>1. reader'[o] = [reader[o] EXCEPT !.moved = @ \/ (reader[o].pc # "idle" /\ to # accounts)]
        BY <1>1 DEF Passing
      <3>2. reader'[o].pc = reader[o].pc /\ reader'[o].group = reader[o].group
        BY <1>3, <3>1 DEF Reader
      <3>3. InFlight(reader[o]) = {}
        BY <1>5, <1>11
      <3>4. reader[o].group = {} /\ reader[o].run = NoRun
        BY <3>3, FlightIs
      <3>5. reader[o].pc # "read"
        BY <1>3, <3>4 DEF ReaderInv, Places
      <3> QED
        BY <3>2, <3>4, <3>5 DEF NotOlder
    <2>2. NotOlder(n, n.since)
      BY <1>4 DEF Starts, NotOlder
    <2> QED
      BY <1>9, <2>1, <2>2
  <1>12. Fresh'
    <2> SUFFICES ASSUME Renewing'
                 PROVE  /\ \A o \in Readers : NotOlder(reader[o], reader["reload"].since)'
                        /\ Renewed(reader["reload"])'
      BY DEF Fresh
    <2>1. n.alone
      BY <1>9 DEF Renewing
    <2>2. n.told = {}
      BY <1>4 DEF Starts
    <2> QED
      BY <1>9, <1>11, <2>1, <2>2 DEF NotOlder, Renewed
  <1>13. Loading(reader["reload"])'
    BY <1>9, <1>10 DEF Loading
  <1> QED
    BY <1>9, <1>12, <1>13 DEF IInv

\* The reload is refused, and the accounts put back.
LEMMA RefuseStep == ASSUME IInv, Refuse PROVE IInv'
  <1> DEFINE l == reader["reload"]
  <1>1. l.pc = "decide" /\ Move("reload", l.was) /\ reader' = Passing("reload", Idle, l.was)
        /\ UNCHANGED <<cache, generation, policy>>
    BY DEF Refuse, PutBack
  <1>2. TypeInv /\ policy \in Policies
    BY DEF IInv, TypeInv
  <1>3. l.was = AccountsOf(policy) /\ l.was \in [References -> Accounts]
        /\ \A r \in DOMAIN policy : Holds(<<r, l.was[r]>>)
    BY <1>1, <1>2, AccountsAre DEF IInv, Loading
  <1>4. \A p : p # "call" => ReaderInv(p, Idle)'
    BY IdleFits
  <1>5. /\ TypeInv' /\ CachedFromItsAccount'
        /\ \A p \in Readers : ReaderInv(p, reader[p])'
        /\ reader'["reload"] = Idle
    BY <1>1, <1>3, <1>4, IdleIs, MovedOn
  <1>6. Idle.pc = "idle" /\ ~Idle.moved /\ Idle.since = [r \in References |-> 0]
    BY DEF Idle
  <1>7. accounts' = l.was
    BY <1>1 DEF Move
  <1>8. AccountsOf(policy)' = AccountsOf(policy)
    BY <1>1 DEF AccountsOf
  <1>9. \A r \in References : 0 <= generation[r]
    BY <1>2, SecretsAssumption DEF TypeInv
  <1>10. \A r \in DOMAIN policy : cache[<<r, l.was[r]>>] # None
    BY <1>3 DEF Holds
  <1>11. Loading(reader["reload"])'
    BY <1>1, <1>3, <1>5, <1>6, <1>7, <1>8, <1>9, <1>10 DEF Loading, Holds, Key
  <1>12. Fresh'
    BY <1>5, <1>6 DEF Fresh, Renewing
  <1> QED
    BY <1>5, <1>11, <1>12 DEF IInv

\* The reload is installed, with every reference resolved.
LEMMA InstallStep == ASSUME IInv, Install PROVE IInv'
  <1> DEFINE l == reader["reload"]
  <1> SUFFICES ASSUME NEW n, n = [l EXCEPT !.pc = "served"] PROVE IInv'
    OBVIOUS
  <1>1. l.pc = "decide" /\ l.failed = {} /\ policy' = l.config
        /\ reader' = [reader EXCEPT !["reload"] = n]
        /\ UNCHANGED <<accounts, cache, generation, straddled>>
    BY DEF Install, Installable
  <1>2. TypeInv /\ reader \in [Readers -> Reader] /\ "reload" \in Readers /\ l \in Reader
        /\ ReaderInv("reload", l) /\ Loading(l)
    BY DEF IInv, TypeInv, Readers
  <1>3. /\ n \in Reader /\ SamePass(l, n) /\ n.pc = "served" /\ n.group = l.group /\ n.held = l.held
        /\ n.groups = l.groups /\ n.run = l.run /\ n.told = l.told /\ n.failed = l.failed
        /\ n.refusers = l.refusers /\ n.refused = l.refused /\ n.account = l.account
    BY <1>2 DEF Reader, Stage, SamePass
  <1>4. /\ n.refs = l.refs /\ n.fresh = l.fresh /\ n.moved = l.moved /\ n.since = l.since /\ n.alone = l.alone
        /\ l.group = {} /\ l.run = NoRun /\ \A a \in Accounts : l.groups[a] = {}
        /\ l.told = l.refs
    BY <1>1, <1>2, <1>3 DEF SamePass, ReaderInv, Places, Once, InAccount
  <1>5. Places(n)
    BY <1>3, <1>4 DEF Places, InAccount
  <1>6. Once(n) /\ AtTheirAccounts(n) /\ Minded(n)
    BY <1>1, <1>2, <1>3, <1>4 DEF ReaderInv, Once, Busy, AtTheirAccounts, Minded, Holding, InAccount
  <1>7. Spared("reload", n)
    <2>1. Unserved(n) = Unserved(l)
      BY <1>1, <1>3, <1>4 DEF Unserved, Busy
    <2> QED
      BY <1>1, <1>2, <1>3, <1>4, <2>1 DEF ReaderInv, Spared, Busy
  <1>8. ReaderInv("reload", n)
    BY <1>3, <1>5, <1>6, <1>7 DEF ReaderInv
  <1>9. /\ policy' \in Policies /\ accounts = AccountsOf(policy') /\ l.told = DOMAIN policy'
        /\ \A r \in l.told : Holds(Key(r))
    BY <1>1, <1>2, <1>4 DEF Loading
  <1>10. TypeInv' /\ \A o \in Readers : ReaderInv(o, reader[o])'
    <2>1. Grows
      BY <1>1 DEF Grows, Holds
    <2>2. \A o \in Readers : ReaderInv(o, reader[o])
      BY DEF IInv
    <2>3. /\ cache' \in [Keys -> Values \cup {None}] /\ generation' \in [References -> 0..MaxRotations]
          /\ accounts' = accounts /\ straddled' = straddled
      BY <1>1, <1>2 DEF TypeInv
    <2> QED
      BY <1>1, <1>2, <1>3, <1>8, <1>9, <2>1, <2>2, <2>3, OneReaderMoves
  <1>11. CachedFromItsAccount'
    BY <1>1 DEF IInv, CachedFromItsAccount, Holds
  <1>12. reader'["reload"] = n
    BY <1>1, <1>2
  <1>13. Loading(reader["reload"])'
    <2>1. accounts' = AccountsOf(policy)'
      BY <1>1, <1>9 DEF AccountsOf
    <2>2. Loading(n)'
      BY <1>1, <1>2, <1>3, <1>4, <1>9, <2>1 DEF Loading, Holds, Key
    <2> QED
      BY <1>12, <2>2 DEF Loading
  <1>14. Fresh'
    <2> SUFFICES ASSUME Renewing'
                 PROVE  /\ \A o \in Readers : NotOlder(reader[o], reader["reload"].since)'
                        /\ Renewed(reader["reload"])'
      BY DEF Fresh
    <2>1. Renewing
      BY <1>1, <1>4, <1>12 DEF Renewing
    <2>2. (\A o \in Readers : NotOlder(reader[o], l.since)) /\ Renewed(l)
      BY <2>1 DEF IInv, Fresh
    <2>3. \A o \in Readers : reader'[o] = reader[o] \/ reader'[o].pc = "served"
      BY <1>1, <1>2, <1>3
    <2>4. \A o \in Readers : NotOlder(reader[o], reader["reload"].since)'
      BY <1>4, <1>12, <2>2, <2>3 DEF NotOlder
    <2>5. Renewed(reader["reload"])'
      BY <1>1, <1>3, <1>4, <1>12, <2>2 DEF Renewed, Key
    <2> QED
      BY <2>4, <2>5
  <1> QED
    BY <1>10, <1>11, <1>13, <1>14 DEF IInv

\* A credential is rotated behind its reference.
LEMMA RotateStep == ASSUME IInv, NEW r \in References, Rotate(r) PROVE IInv'
  <1>1. /\ generation[r] < MaxRotations /\ generation' = [generation EXCEPT ![r] = @ + 1]
        /\ UNCHANGED <<accounts, cache, policy, reader, straddled>>
    BY DEF Rotate
  <1>2. TypeInv /\ \A x \in References : generation[x] \in 0..MaxRotations
    BY DEF IInv, TypeInv
  <1>3. /\ generation' \in [References -> 0..MaxRotations]
        /\ \A x \in References : generation'[x] >= generation[x] /\ generation'[x] \in Nat
    BY <1>1, <1>2, SecretsAssumption DEF TypeInv
  <1>4. TypeInv'
    BY <1>1, <1>2, <1>3 DEF TypeInv
  <1>5. \A p \in Readers : ReaderInv(p, reader[p])'
    <2>1. Grows /\ \A p \in Readers : ReaderInv(p, reader[p])
      BY <1>1 DEF IInv, Grows, Holds
    <2> QED
      BY <1>1, <1>2, <1>4, <2>1, NobodyMoves
  <1>6. CachedFromItsAccount'
    BY <1>1 DEF IInv, CachedFromItsAccount, Holds
  <1>7. Loading(reader["reload"])'
    <2>1. Loading(reader["reload"]) /\ reader["reload"].since \in [References -> 0..MaxRotations]
      BY <1>2 DEF IInv, TypeInv, Readers, Reader
    <2>2. \A x \in References : reader["reload"].since[x] <= generation'[x]
      BY <1>2, <1>3, <2>1, SecretsAssumption DEF Loading
    <2> QED
      BY <1>1, <2>1, <2>2 DEF Loading, Holds, Key
  <1>8. Fresh'
    BY <1>1 DEF IInv, Fresh, Renewing, NotOlder, Renewed, Key
  <1> QED
    BY <1>4, <1>5, <1>6, <1>7, <1>8 DEF IInv

-----------------------------------------------------------------------------
(* The theorems.                                                            *)

\* The process starts with what startup read, and no reader at anything.
LEMMA InitIsRight == Init => IInv
  <1> SUFFICES ASSUME Init PROVE IInv
    OBVIOUS
  <1>1. policy \in Policies /\ accounts = AccountsOf(policy) /\ accounts \in [References -> Accounts]
        /\ DOMAIN policy \subseteq References
    BY SecretsAssumption, AccountsAre DEF Init
  <1>2. generation = [r \in References |-> 0] /\ generation \in [References -> 0..MaxRotations]
    BY SecretsAssumption DEF Init
  <1>3. reader = [p \in Readers |-> Idle] /\ reader \in [Readers -> Reader] /\ "reload" \in Readers
    BY IdleIs DEF Init, Readers
  <1>4. \A r \in References, a \in Accounts :
           /\ ValueOf(r, a) \in Values /\ ValueOf(r, a).from = a /\ ValueOf(r, a) # None
    BY <1>2, NothingIs DEF ValueOf, Values
  <1>5. \A k \in Keys : IF k[1] \in DOMAIN policy /\ k = Key(k[1])
                        THEN cache[k] = ValueOf(k[1], accounts[k[1]]) ELSE cache[k] = None
    BY DEF Init
  <1>6. cache \in [Keys -> Values \cup {None}]
    <2>1. cache = [k \in Keys |-> cache[k]]
      BY DEF Init
    <2>2. \A k \in Keys : cache[k] \in Values \cup {None}
      BY <1>1, <1>4, <1>5, NothingIs
    <2> QED
      BY <2>1, <2>2
  <1>7. TypeInv
    BY <1>1, <1>2, <1>3, <1>6 DEF Init, TypeInv
  <1>8. CachedFromItsAccount
    BY <1>1, <1>4, <1>5, NothingIs DEF CachedFromItsAccount, Holds, Key
  <1>9. \A p \in Readers : ReaderInv(p, reader[p])
    BY <1>3, IdleFits
  <1>10. Idle.pc = "idle" /\ ~Idle.moved /\ Idle.since = [r \in References |-> 0]
    BY DEF Idle
  <1>11. \A r \in DOMAIN policy : Holds(Key(r))
    <2> SUFFICES ASSUME NEW r \in DOMAIN policy PROVE Holds(Key(r))
      OBVIOUS
    <2>1. Key(r) \in Keys /\ Key(r)[1] = r /\ accounts[r] \in Accounts /\ r \in References
      BY <1>1, NothingIs DEF Key
    <2> QED
      BY <1>4, <1>5, <2>1 DEF Holds
  <1>12. Loading(reader["reload"])
    BY <1>1, <1>2, <1>3, <1>10, <1>11 DEF Loading
  <1>13. Fresh
    BY <1>3, <1>10 DEF Fresh, Renewing
  <1> QED
    BY <1>7, <1>8, <1>9, <1>12, <1>13 DEF IInv

\* Every step keeps the invariant.
LEMMA NextKeepsIt == IInv /\ [Next]_vars => IInv'
  <1> SUFFICES ASSUME IInv, [Next]_vars PROVE IInv'
    OBVIOUS
  <1>1. ASSUME NEW c \in Policies, NEW fresh \in BOOLEAN, Reload(c, fresh) PROVE IInv'
    BY <1>1, ReloadStep
  <1>2. ASSUME NEW p \in Readers, Step(p) PROVE IInv'
    <2>1. ASSUME ReadRefused(p) PROVE IInv'
      BY <2>1, EndsStep DEF ReadRefused, Becomes
    <2>2. ASSUME ReadFailed(p) PROVE IInv'
      BY <2>2, EndsStep DEF ReadFailed, Becomes, Unread
    <2> QED
      BY <1>2, <2>1, <2>2, WantedStep, SplitStep, NextAccountStep, NoMoreAccountsStep, InjectedStep,
         KeepStep, InjectRefusedStep, InjectFailedStep, RestStep, OneStep, NoneLeftStep, GotStep,
         KeepOneStep, AllSaidStep DEF Step
  <1>3. CASE UNCHANGED vars
    <2>1. TypeInv' /\ CachedFromItsAccount'
      BY <1>3 DEF IInv, TypeInv, CachedFromItsAccount, Holds, vars
    <2>2. \A p \in Readers : ReaderInv(p, reader[p])'
      <3>1. Grows /\ TypeInv /\ \A p \in Readers : ReaderInv(p, reader[p])
        BY <1>3 DEF IInv, Grows, Holds, vars
      <3> QED
        BY <1>3, <2>1, <3>1, NobodyMoves DEF vars
    <2>3. Loading(reader["reload"])' /\ Fresh'
      BY <1>3 DEF IInv, Loading, Fresh, Renewing, NotOlder, Renewed, AccountsOf, Holds, Key, vars
    <2> QED
      BY <2>1, <2>2, <2>3 DEF IInv
  <1> QED
    BY <1>1, <1>2, <1>3, CheckStep, CallStep, InstallStep, RefuseStep, RotateStep DEF Next

\* The invariant says what the cache and the readers are to be.
LEMMA ItIsWhatIsMeant == IInv => TheCacheIsRight /\ NobodyAskedInVain
  <1> SUFFICES ASSUME IInv PROVE TheCacheIsRight /\ NobodyAskedInVain
    OBVIOUS
  <1>1. \A p \in Readers : reader[p] \in Reader /\ ReaderInv(p, reader[p])
    BY DEF IInv, TypeInv
  <1>2. TypeOK
    <2>1. ASSUME NEW p \in Readers
          PROVE  LET q == reader[p] IN
                 /\ q.pc \in Stage
                 /\ q.told \cup q.failed \subseteq q.refs /\ q.told \cap q.failed = {}
                 /\ q.pc \in {"decide", "served"} => q.told \cup q.failed = q.refs
      BY <1>1 DEF ReaderInv, Once, Reader
    <2> QED
      BY <2>1 DEF IInv, TypeInv, TypeOK, Stage
  <1>3. ServedIsHeld
    BY DEF IInv, Loading, ServedIsHeld
  <1>4. RotationTakesEffect
    BY DEF IInv, Loading, Fresh, Renewing, Renewed, RotationTakesEffect
  <1>5. NotAskedAgain
    <2>1. ASSUME NEW p \in Readers, ~reader[p].moved, reader[p].pc = "injecting"
          PROVE  reader[p].account \notin reader[p].refusers
      BY <1>1, <2>1 DEF ReaderInv, Minded, InAccount
    <2>2. ASSUME NEW p \in Readers, ~reader[p].moved, reader[p].pc = "reading", reader[p].run.ref \in Vaulted
          PROVE  reader[p].run.from \notin reader[p].refusers
      <3>1. CASE reader[p].run.back = "one"
        BY <1>1, <2>2, <3>1 DEF ReaderInv, Minded
      <3>2. CASE reader[p].run.back = "rest"
        <4>1. p = "call"
          BY <1>1, <2>2, <3>2 DEF ReaderInv, Spared
        <4>2. OneCall(reader[p]) /\ reader[p].failed = {}
          BY <1>1, <2>2, <4>1 DEF ReaderInv, OneCall, Once, Places, Busy
        <4> QED
          BY <4>2 DEF OneCall
      <3> QED
        BY <1>1, <2>2, <3>1, <3>2 DEF ReaderInv, Places
    <2> QED
      BY <2>1, <2>2 DEF NotAskedAgain
  <1>6. HeldIsNotAsked
    <2>1. ASSUME NEW p \in Readers, ~reader[p].moved, ~reader[p].fresh
          PROVE  /\ reader[p].pc = "injecting" => reader[p].group \cap reader[p].held = {}
                 /\ reader[p].pc = "reading" => reader[p].run.ref \notin reader[p].held
      BY <1>1, <2>1 DEF ReaderInv, Spared, Busy
    <2> QED
      BY <2>1 DEF HeldIsNotAsked
  <1> QED
    BY <1>2, <1>3, <1>4, <1>5, <1>6 DEF IInv, TheCacheIsRight, NobodyAskedInVain

\* The cache is right, always: a value is held under the account it came from,
\* what the policy in force names is held between reloads whatever was refused
\* or failed, and a re-read that was asked for takes effect.
THEOREM TheCacheIsAlwaysRight == Spec => []TheCacheIsRight
  <1> QED
    BY InitIsRight, NextKeepsIt, ItIsWhatIsMeant, PTL DEF Spec

\* No dialogue is put in front of a person who refused it, or for what is held.
THEOREM NobodyIsAskedInVain == Spec => []NobodyAskedInVain
  <1> QED
    BY InitIsRight, NextKeepsIt, ItIsWhatIsMeant, PTL DEF Spec
=============================================================================
