------------------------- MODULE TokensAndLogProofs -------------------------
(***************************************************************************)
(* Proofs about WorkloadTokens, for any number of agents, requests, tokens *)
(* and ticks; and about AuditLog, for every set of paths and of reloads    *)
(* and every number of writes, with and without faults of the disk: types, *)
(* that no part of a record is written twice, that an acknowledged record  *)
(* is whole on disk, and that every file verifies until something fails.   *)
(*                                                                         *)
(* The two specifications share nothing, and neither do the two parts of   *)
(* this module.                                                            *)
(*                                                                         *)
(* Of the log, AuditInv is inductive.  Its parts tie what the buffer holds *)
(* to what the files hold (OnceInv), entries to the count of writes        *)
(* (NumbersInv) and, until there is trouble, the chains in memory to the   *)
(* files they were read from (ChainsInv).                                  *)
(***************************************************************************)
EXTENDS WorkloadTokens, AuditLog, SequenceTheorems, TLAPS

-----------------------------------------------------------------------------
(* The tokens. *)

States == {"active", "superseded", "revoked", "gone"}

\* A lifetime clamped between two bounds lies between them.
LEMMA ClampBounds ==
  ASSUME NEW x \in Nat, NEW low \in Nat, NEW high \in Nat, low <= high
  PROVE  Clamp(x, low, high) \in low..high
BY DEF Clamp

\* What issuing a token that renews p (0 for none) does to the ledger.
OneMore(p) ==
  LET n == Len(issued)
  IN /\ n \in Nat /\ n + 1 <= MaxTokens
     /\ issued' \in Seq(Token) /\ Len(issued') = n + 1
     /\ \A u \in 1..n : issued'[u] = issued[u]
     /\ issued'[n + 1].parent = p /\ now < issued'[n + 1].expires
     /\ issued'[n + 1].lineage <= n + 1
     /\ state' \in [1..(n + 1) -> States]
     /\ state'[n + 1] = "active"
     /\ \A u \in 1..n : state'[u] =
          IF Stale(u) THEN "gone"
          ELSE IF u = p /\ state[u] = "active" THEN "superseded"
          ELSE state[u]

\* Issuing adds one live token and changes no other but the one it renews and
\* those pruned.
LEMMA IssueAdds ==
  ASSUME LedgerOK, now \in Nat, ceiling \in MinLifetime..MaxLifetime,
         NEW g \in Agents, NEW p \in {0} \cup Tokens, NEW asked \in Lifetimes,
         Issue(g, p, asked)
  PROVE  OneMore(p)
<1> DEFINE n == Len(issued)
           life == Clamp(asked, MinLifetime, ceiling)
           new == [agent |-> g, parent |-> p, expires |-> now + life,
                   lineage |-> IF p = 0 THEN n + 1 ELSE issued[p].lineage]
<1>1. issued \in Seq(Token) /\ n \in Nat /\ Tokens = 1..n /\ n + 1 <= MaxTokens
  BY Numbers DEF LedgerOK, Issue, Tokens
<1>2. life \in MinLifetime..ceiling
  <2>1. asked \in Nat
    BY Numbers DEF Lifetimes
  <2>2. ceiling \in Nat /\ MinLifetime \in Nat /\ MinLifetime <= ceiling
    BY Numbers
  <2> QED BY <2>1, <2>2, ClampBounds
<1>3. life \in Nat \ {0}
  BY <1>2, Numbers
<1>4. /\ issued' = Append(issued, new)
      /\ state' = [u \in 1..(n + 1) |->
           IF u = n + 1 THEN "active"
           ELSE IF Retires(u, p, Pruned) THEN "superseded" ELSE Pruned[u]]
  BY DEF Issue
<1>5. p # 0 => issued[p].lineage \in Nat \ {0} /\ issued[p].lineage <= p
  <2> SUFFICES ASSUME p # 0 PROVE issued[p].lineage \in Nat \ {0} /\ issued[p].lineage <= p
    OBVIOUS
  <2>1. p \in 1..n /\ issued[p] \in Token
    BY <1>1
  <2> QED BY <1>1, <2>1 DEF LedgerOK, Token
<1>6. p \in Nat /\ p <= n
  BY <1>1
<1> HIDE DEF n, life
<1>7. new.lineage \in Nat \ {0} /\ new.lineage <= n + 1
  BY <1>1, <1>5, <1>6
<1>8. new \in Token /\ now < new.expires
  BY <1>3, <1>6, <1>7 DEF Token
<1>9. \A u \in 1..n : Pruned[u] = IF Stale(u) THEN "gone" ELSE state[u]
  BY <1>1 DEF Pruned
<1>10. \A u \in 1..n : state[u] \in States
  BY <1>1 DEF LedgerOK, States
<1>11. \A u \in 1..n : state'[u] =
         IF Stale(u) THEN "gone"
         ELSE IF u = p /\ state[u] = "active" THEN "superseded" ELSE state[u]
  BY <1>1, <1>4, <1>9 DEF Retires
<1>12. state' \in [1..(n + 1) -> States]
  BY <1>1, <1>4, <1>9, <1>10 DEF States
<1>13. issued' \in Seq(Token) /\ Len(issued') = n + 1 /\ issued'[n + 1] = new
       /\ \A u \in 1..n : issued'[u] = issued[u]
  BY <1>1, <1>4, <1>8 DEF n
<1>14. new.parent = p
  OBVIOUS
<1> HIDE DEF new
<1>15. n + 1 \in 1..(n + 1) /\ state'[n + 1] = "active"
  BY <1>1, <1>4
<1> QED BY <1>1, <1>7, <1>8, <1>11, <1>12, <1>13, <1>14, <1>15 DEF n, OneMore

\* Everything else leaves the tokens as they are and revokes some of them; a
\* replay revokes all of its lineage.
RevokedOnly ==
  /\ UNCHANGED issued /\ state' \in [Tokens -> States]
  /\ \A u \in Tokens :
       state'[u] = state[u] \/ (state[u] # "gone" /\ state'[u] = "revoked")
  /\ \/ UNCHANGED replayed
     \/ \E t \in Tokens :
          /\ replayed' = [replayed EXCEPT ![issued[t].lineage] = Len(issued)]
          /\ \A u \in Tokens :
               issued[u].lineage = issued[t].lineage => state'[u] # "active"

LedgerStep ==
  \/ (\E p \in {0} \cup Tokens : OneMore(p)) /\ UNCHANGED <<now, replayed>>
  \/ RevokedOnly /\ now' \in {now, now + 1}

\* Every step of the specification is one of those two.
LEMMA StepsOfTheLedger == IssuerTypeOK /\ [IssuerNext]_issuerVars => LedgerStep
<1> SUFFICES ASSUME IssuerTypeOK, [IssuerNext]_issuerVars PROVE LedgerStep
  OBVIOUS
<1> USE DEF IssuerTypeOK
<1>1. state \in [Tokens -> States]
  BY DEF LedgerOK, States
<1>2. ASSUME NEW t \in Tokens
      PROVE  /\ LineageRevoked(t) \in [Tokens -> States]
             /\ \A u \in Tokens :
                  \/ LineageRevoked(t)[u] = state[u]
                  \/ state[u] # "gone" /\ LineageRevoked(t)[u] = "revoked"
             /\ \A u \in Tokens :
                  issued[u].lineage = issued[t].lineage => LineageRevoked(t)[u] # "active"
  BY <1>1 DEF LineageRevoked, SharesFate, States
<1>3. ASSUME NEW g \in Agents, NEW asked \in Lifetimes, Mint(g, asked) PROVE LedgerStep
  <2>1. Issue(g, 0, asked) /\ UNCHANGED <<now, replayed>>
    BY <1>3 DEF Mint
  <2>2. OneMore(0)
    BY <2>1, IssueAdds
  <2> QED BY <2>1, <2>2 DEF LedgerStep
<1>4. ASSUME NEW t \in Tokens, Replay(t) PROVE LedgerStep
  <2>1. /\ state' = LineageRevoked(t) /\ UNCHANGED <<now, issued>>
        /\ replayed' = [replayed EXCEPT ![issued[t].lineage] = Len(issued)]
    BY <1>4 DEF Replay
  <2> QED BY <2>1, <1>2 DEF LedgerStep, RevokedOnly
<1>5. ASSUME NEW c \in Calls, NEW asked \in Lifetimes, Renew(c, asked) PROVE LedgerStep
  <2>1. CASE enabled
    <3>1. /\ Issue(issued[held[c]].agent, held[c], asked) /\ step[c] = "renew"
          /\ UNCHANGED <<now, replayed>>
      BY <1>5, <2>1 DEF Renew
    <3>2. held[c] \in Tokens
      BY <3>1 DEF CallsOK
    <3>3. issued[held[c]].agent \in Agents
      <4>1. \A t \in Tokens : issued[t] \in Token
        BY DEF LedgerOK, Tokens
      <4> QED BY <3>2, <4>1 DEF Token
    <3>4. OneMore(held[c])
      BY <3>1, <3>2, <3>3, IssueAdds
    <3> QED BY <3>1, <3>2, <3>4 DEF LedgerStep
  <2>2. CASE ~enabled
    BY <1>5, <2>2, <1>1 DEF Renew, ledger, LedgerStep, RevokedOnly
  <2> QED BY <2>1, <2>2
<1>6. ASSUME NEW c \in Calls, NEW whole \in BOOLEAN, Revoke(c, whole) PROVE LedgerStep
  <2>1. step[c] = "revoke" /\ UNCHANGED <<now, issued, replayed>>
    BY <1>6 DEF Revoke
  <2>2. held[c] \in Tokens
    BY <2>1 DEF CallsOK
  <2>3. \/ state' = state
        \/ state' = LineageRevoked(held[c])
        \/ state[held[c]] # "gone" /\ state' = [state EXCEPT ![held[c]] = "revoked"]
    BY <1>6 DEF Revoke
  <2> QED BY <2>1, <2>2, <2>3, <1>1, <1>2 DEF LedgerStep, RevokedOnly, States
<1>7. ASSUME UNCHANGED <<ledger, replayed>>, now' \in {now, now + 1} PROVE LedgerStep
  BY <1>7, <1>1 DEF ledger, LedgerStep, RevokedOnly
<1> QED
  BY <1>3, <1>4, <1>5, <1>6, <1>7 DEF IssuerNext, Verified, Reconfigure, Enrol, Tick, issuerVars

\* Tokens are never unissued.
LEMMA TokensGrow == LedgerOK /\ LedgerStep => Tokens \subseteq Tokens'
BY DEF LedgerStep, OneMore, RevokedOnly, Tokens

\* Every step keeps the ledger well formed.
LEMMA LedgerTyped == IssuerTypeOK /\ LedgerStep => LedgerOK'
<1> SUFFICES ASSUME IssuerTypeOK, LedgerStep PROVE LedgerOK'
  OBVIOUS
<1>1. CASE RevokedOnly
  BY <1>1 DEF RevokedOnly, IssuerTypeOK, LedgerOK, Tokens, States
<1>2. ASSUME NEW p \in {0} \cup Tokens, OneMore(p) PROVE LedgerOK'
  <2> DEFINE n == Len(issued)
  <2>1. /\ n \in Nat /\ n + 1 <= MaxTokens /\ Tokens = 1..n /\ Tokens' = 1..(n + 1)
        /\ issued' \in Seq(Token) /\ Len(issued') = n + 1
        /\ state' \in [1..(n + 1) -> States]
        /\ \A u \in 1..n : issued'[u] = issued[u]
        /\ issued'[n + 1].parent = p /\ issued'[n + 1].lineage <= n + 1
    BY <1>2 DEF OneMore, Tokens
  <2>2. \A u \in 1..n : issued[u].parent < u /\ issued[u].lineage <= u
    BY <2>1 DEF IssuerTypeOK, LedgerOK
  <2>3. p < n + 1
    BY <2>1
  <2> HIDE DEF n
  <2>4. \A u \in 1..(n + 1) : issued'[u].parent < u /\ issued'[u].lineage <= u
    BY <2>1, <2>2, <2>3
  <2> QED BY <2>1, <2>4 DEF LedgerOK, States
<1> QED BY <1>1, <1>2 DEF LedgerStep

\* The calls hold tokens that exist, and the rest is of its type.
THEOREM Typing == IssuerSpec => []IssuerTypeOK
<1>1. IssuerInit => IssuerTypeOK
  BY Numbers DEF IssuerInit, IssuerTypeOK, LedgerOK, CallsOK, Tokens
<1>2. IssuerTypeOK /\ [IssuerNext]_issuerVars => IssuerTypeOK'
  <2> SUFFICES ASSUME IssuerTypeOK, [IssuerNext]_issuerVars PROVE IssuerTypeOK'
    OBVIOUS
  <2>1. LedgerStep /\ LedgerOK' /\ Tokens \subseteq Tokens'
    BY StepsOfTheLedger, LedgerTyped, TokensGrow DEF IssuerTypeOK
  <2>2. now' \in Nat
    BY <2>1 DEF LedgerStep, IssuerTypeOK
  <2>3. enabled' \in BOOLEAN /\ roster' \subseteq Agents
    BY DEF IssuerNext, Mint, Verified, Replay, Renew, Revoke, Reconfigure, Enrol, Tick,
           policy, issuerVars, IssuerTypeOK
  <2>4. ceiling' \in MinLifetime..MaxLifetime
    <3>1. ASSUME NEW on \in BOOLEAN, NEW lifetime \in Lifetimes, Reconfigure(on, lifetime)
          PROVE  ceiling' \in MinLifetime..MaxLifetime
      <4>1. lifetime \in Nat
        BY Numbers DEF Lifetimes
      <4> QED BY <3>1, <4>1, ClampBounds, Numbers DEF Reconfigure
    <3> QED BY <3>1 DEF IssuerNext, Mint, Verified, Replay, Renew, Revoke, Enrol, Tick,
                        policy, issuerVars, IssuerTypeOK
  <2>5. CallsOK'
    <3>1. \A c \in Calls : step[c] # "idle" => held[c] \in Tokens'
      BY <2>1 DEF IssuerTypeOK, CallsOK
    <3>2. ASSUME NEW c \in Calls, NEW t \in Tokens, NEW w \in Purposes, Verified(c, t, w)
          PROVE  CallsOK'
      <4>1. t \in Nat /\ t \in Tokens'
        BY <2>1 DEF Tokens
      <4> QED BY <3>1, <3>2, <4>1 DEF Verified, IssuerTypeOK, CallsOK, Purposes
    <3>3. ASSUME NEW c \in Calls,
                 step' = [step EXCEPT ![c] = "idle"], held' = [held EXCEPT ![c] = 0]
          PROVE  CallsOK'
      BY <3>1, <3>3 DEF IssuerTypeOK, CallsOK
    <3>4. CASE UNCHANGED calls
      BY <3>1, <3>4 DEF IssuerTypeOK, CallsOK, calls
    <3> QED BY <3>2, <3>3, <3>4 DEF IssuerNext, Mint, Replay, Renew, Revoke, Reconfigure, Enrol,
                                    Tick, issuerVars
  <2>6. replayed' \in [1..MaxTokens -> Nat]
    <3>1. Len(issued) \in Nat
      BY DEF IssuerTypeOK, LedgerOK
    <3> QED BY <2>1, <3>1 DEF LedgerStep, RevokedOnly, IssuerTypeOK
  <2> QED BY <2>1, <2>2, <2>3, <2>4, <2>5, <2>6 DEF IssuerTypeOK
<1> QED BY <1>1, <1>2, PTL DEF IssuerSpec

\* Who was issued to replace whom never changes.
LEMMA ParentsStand ==
  ASSUME IssuerTypeOK, LedgerStep
  PROVE  \A t \in Tokens : issued'[t] = issued[t]
BY DEF LedgerStep, OneMore, RevokedOnly, Tokens

\* An entry only ever gets worse: `issue` retires a token that is still active
\* and no other, and revocation and pruning are final.
THEOREM SpentForGood == IssuerSpec => SpentStaysSpent
<1>1. ASSUME IssuerTypeOK, [IssuerNext]_issuerVars, NEW t \in Tokens
      PROVE  Worse[state[t]] <= Worse[state'[t]]
  <2>1. LedgerStep
    BY <1>1, StepsOfTheLedger
  <2>2. state[t] \in States
    BY <1>1 DEF IssuerTypeOK, LedgerOK, States
  <2>3. \/ state'[t] = state[t]
        \/ state'[t] = "gone"
        \/ state'[t] = "superseded" /\ state[t] = "active"
        \/ state'[t] = "revoked" /\ state[t] # "gone"
    BY <2>1, <1>1 DEF LedgerStep, OneMore, RevokedOnly, Tokens
  <2> QED BY <2>2, <2>3 DEF Worse, States
<1>2. IssuerTypeOK /\ [IssuerNext]_issuerVars => [\A t \in Tokens : Worse[state[t]] <= Worse[state'[t]]]_issuerVars
  BY <1>1
<1> QED BY Typing, <1>2, PTL DEF IssuerSpec, SpentStaysSpent

\* A token with a successor is never usable beside it, whatever overlaps: the
\* retiring and the insertion are one step, and nothing revives an entry.
THEOREM Rotation == IssuerSpec => []RenewedIsRetired
<1>1. IssuerInit => RenewedIsRetired
  BY DEF IssuerInit, RenewedIsRetired, Tokens
<1>2. IssuerTypeOK /\ RenewedIsRetired /\ [IssuerNext]_issuerVars => RenewedIsRetired'
  <2> SUFFICES ASSUME IssuerTypeOK, RenewedIsRetired, [IssuerNext]_issuerVars,
                      NEW t \in Tokens', issued'[t].parent # 0
               PROVE  state'[issued'[t].parent] # "active"
    BY DEF RenewedIsRetired
  <2> DEFINE q == issued'[t].parent
  <2>1. LedgerStep
    BY StepsOfTheLedger
  <2>2. CASE RevokedOnly
    <3>1. t \in Tokens /\ issued[t].parent = q /\ q < t /\ q \in Nat /\ Len(issued) \in Nat
      <4>1. t \in Tokens /\ issued'[t] = issued[t] /\ issued[t] \in Token
        BY <2>2 DEF RevokedOnly, Tokens, IssuerTypeOK, LedgerOK
      <4> QED BY <4>1 DEF IssuerTypeOK, LedgerOK, Token
    <3>2. q \in Tokens /\ state[q] # "active"
      BY <3>1 DEF RenewedIsRetired, Tokens
    <3> QED BY <3>2, <2>2 DEF RevokedOnly
  <2>3. ASSUME NEW p \in {0} \cup Tokens, OneMore(p) PROVE state'[q] # "active"
    <3> DEFINE n == Len(issued)
    <3>1. n \in Nat /\ Tokens = 1..n /\ t \in 1..(n + 1)
      BY <2>3 DEF OneMore, Tokens
    <3>2. CASE t = n + 1
      <4>1. q = p /\ q \in 1..n
        BY <2>3, <3>1, <3>2 DEF OneMore
      <4> QED BY <2>3, <4>1 DEF OneMore
    <3>3. CASE t \in 1..n
      <4>1. issued'[t] = issued[t] /\ issued[t] \in Token /\ issued[t].parent < t
        BY <2>3, <3>1, <3>3 DEF OneMore, IssuerTypeOK, LedgerOK
      <4>2. q \in Nat /\ q < t /\ q # 0 /\ issued[t].parent = q
        BY <4>1 DEF Token
      <4>3. q \in 1..n /\ state[q] # "active"
        BY <3>1, <3>3, <4>2 DEF RenewedIsRetired
      <4> QED BY <2>3, <4>3 DEF OneMore
    <3> QED BY <3>1, <3>2, <3>3
  <2> QED BY <2>1, <2>2, <2>3 DEF LedgerStep
<1> QED BY Typing, <1>1, <1>2, PTL DEF IssuerSpec

\* Only a renewal retires a token, and it leaves a successor behind.
THEOREM Succession == IssuerSpec => []RetiredHasSuccessor
<1>1. IssuerInit => RetiredHasSuccessor
  BY DEF IssuerInit, RetiredHasSuccessor, Tokens
<1>2. IssuerTypeOK /\ RetiredHasSuccessor /\ [IssuerNext]_issuerVars => RetiredHasSuccessor'
  <2> SUFFICES ASSUME IssuerTypeOK, RetiredHasSuccessor, [IssuerNext]_issuerVars,
                      NEW t \in Tokens', state'[t] = "superseded"
               PROVE  \E u \in Tokens' : issued'[u].parent = t
    BY DEF RetiredHasSuccessor
  <2>1. LedgerStep
    BY StepsOfTheLedger
  <2>2. LedgerOK
    BY DEF IssuerTypeOK
  <2>3. CASE t \in Tokens /\ state[t] = "superseded"
    <3>1. PICK u \in Tokens : issued[u].parent = t
      BY <2>3 DEF RetiredHasSuccessor
    <3>2. u \in Tokens' /\ issued'[u] = issued[u]
      BY <2>1, <2>2, TokensGrow, ParentsStand
    <3> QED BY <3>1, <3>2
  <2>4. CASE ~(t \in Tokens /\ state[t] = "superseded")
    <3>1. PICK p \in {0} \cup Tokens : OneMore(p)
      BY <2>1, <2>4 DEF LedgerStep, RevokedOnly, Tokens
    <3>2. /\ Len(issued) \in Nat /\ Len(issued) + 1 \in Tokens'
          /\ issued'[Len(issued) + 1].parent = p
      BY <3>1 DEF OneMore, Tokens
    <3>3. t = p
      BY <3>1, <2>4 DEF OneMore, Tokens
    <3> QED BY <3>2, <3>3
  <2> QED BY <2>3, <2>4
<1> QED BY Typing, <1>1, <1>2, PTL DEF IssuerSpec

\* The ledger never loses a token somebody may still use.
THEOREM NothingForgotten == IssuerSpec => []NothingLiveIsForgotten
<1>1. IssuerInit => NothingLiveIsForgotten
  BY DEF IssuerInit, NothingLiveIsForgotten, Tokens
<1>2. IssuerTypeOK /\ NothingLiveIsForgotten /\ [IssuerNext]_issuerVars => NothingLiveIsForgotten'
  <2> SUFFICES ASSUME IssuerTypeOK, NothingLiveIsForgotten, [IssuerNext]_issuerVars,
                      NEW t \in Tokens', now' < issued'[t].expires
               PROVE  state'[t] # "gone"
    BY DEF NothingLiveIsForgotten
  <2>1. LedgerStep /\ now \in Nat
    BY StepsOfTheLedger DEF IssuerTypeOK
  <2>2. CASE RevokedOnly /\ now' \in {now, now + 1}
    <3>1. t \in Tokens /\ issued[t] \in Token /\ issued'[t] = issued[t]
      BY <2>2 DEF RevokedOnly, Tokens, IssuerTypeOK, LedgerOK
    <3>2. now < issued[t].expires
      BY <2>1, <2>2, <3>1 DEF Token
    <3>3. state[t] # "gone"
      BY <3>1, <3>2 DEF NothingLiveIsForgotten
    <3> QED BY <2>2, <3>1, <3>3 DEF RevokedOnly
  <2>3. ASSUME NEW p \in {0} \cup Tokens, OneMore(p), now' = now PROVE state'[t] # "gone"
    <3> DEFINE n == Len(issued)
    <3>1. n \in Nat /\ Tokens = 1..n /\ t \in 1..(n + 1)
      BY <2>3 DEF OneMore, Tokens
    <3>2. CASE t = n + 1
      BY <2>3, <3>2 DEF OneMore
    <3>3. CASE t \in 1..n
      <4>a. \A u \in 1..n : issued[u] \in Token
        BY DEF IssuerTypeOK, LedgerOK
      <4>b. issued'[t] = issued[t]
        BY <2>3, <3>3 DEF OneMore
      <4>1. issued[t] \in Token /\ issued'[t] = issued[t]
        BY <4>a, <4>b, <3>3
      <4>2. now < issued[t].expires /\ issued[t].expires \in Nat
        BY <2>3, <4>1 DEF Token
      <4>3. ~Stale(t)
        BY <4>2, <2>1, Numbers DEF Stale
      <4>4. state[t] # "gone"
        BY <3>1, <3>3, <4>2 DEF NothingLiveIsForgotten
      <4> QED BY <2>3, <3>3, <4>3, <4>4 DEF OneMore
    <3> QED BY <3>1, <3>2, <3>3
  <2> QED BY <2>1, <2>2, <2>3 DEF LedgerStep
<1> QED BY Typing, <1>1, <1>2, PTL DEF IssuerSpec

\* A detected replay counts tokens that exist: later ones have larger numbers.
ReplaysPast == \A l \in 1..MaxTokens : replayed[l] <= Len(issued)

LEMMA ReplaysStayPast == IssuerTypeOK /\ ReplaysPast /\ LedgerStep => ReplaysPast'
<1> SUFFICES ASSUME IssuerTypeOK, ReplaysPast, LedgerStep, NEW l \in 1..MaxTokens
             PROVE  replayed'[l] <= Len(issued')
  BY DEF ReplaysPast
<1>1. replayed \in [1..MaxTokens -> Nat] /\ replayed[l] <= Len(issued) /\ Len(issued) \in Nat
  BY DEF IssuerTypeOK, LedgerOK, ReplaysPast
<1>2. CASE RevokedOnly
  <2>1. replayed'[l] \in {replayed[l], Len(issued)} /\ issued' = issued
    BY <1>1, <1>2 DEF RevokedOnly
  <2> QED BY <1>1, <2>1
<1>3. ASSUME NEW p \in {0} \cup Tokens, OneMore(p), replayed' = replayed
      PROVE  replayed'[l] <= Len(issued')
  <2>1. replayed'[l] = replayed[l] /\ Len(issued') = Len(issued) + 1 /\ replayed[l] \in Nat
    BY <1>1, <1>3 DEF OneMore
  <2> QED BY <1>1, <2>1
<1> QED BY <1>2, <1>3 DEF LedgerStep

\* What a lineage had when a replay of it was detected is never live again.
THEOREM KillReaches == IssuerSpec => []KillReachesTheLineage
<1>1. IssuerInit => KillReachesTheLineage
  BY DEF IssuerInit, KillReachesTheLineage, Tokens
<1>2. IssuerTypeOK /\ ReplaysPast /\ KillReachesTheLineage /\ [IssuerNext]_issuerVars => KillReachesTheLineage'
  <2> SUFFICES ASSUME IssuerTypeOK, ReplaysPast, KillReachesTheLineage, [IssuerNext]_issuerVars,
                      NEW t \in Tokens', t <= replayed'[issued'[t].lineage]
               PROVE  state'[t] # "active"
    BY DEF KillReachesTheLineage
  <2>1. LedgerStep /\ replayed \in [1..MaxTokens -> Nat]
    BY StepsOfTheLedger DEF IssuerTypeOK
  <2>2. CASE RevokedOnly
    <3>1. t \in Tokens /\ issued'[t] = issued[t] /\ state[t] \in States
      BY <2>2 DEF RevokedOnly, Tokens, IssuerTypeOK, LedgerOK, States
    <3>2. state[t] # "active" => state'[t] # "active"
      BY <2>2, <3>1 DEF RevokedOnly
    <3>3. CASE replayed'[issued[t].lineage] = replayed[issued[t].lineage]
      BY <3>1, <3>2, <3>3 DEF KillReachesTheLineage
    <3>4. CASE replayed'[issued[t].lineage] # replayed[issued[t].lineage]
      <4>1. PICK u \in Tokens :
              /\ replayed' = [replayed EXCEPT ![issued[u].lineage] = Len(issued)]
              /\ \A w \in Tokens :
                   issued[w].lineage = issued[u].lineage => state'[w] # "active"
        BY <2>2, <3>4 DEF RevokedOnly
      <4> QED BY <2>1, <3>1, <3>4, <4>1
    <3> QED BY <3>3, <3>4
  <2>3. ASSUME NEW p \in {0} \cup Tokens, OneMore(p), replayed' = replayed
        PROVE  state'[t] # "active"
    <3> DEFINE n == Len(issued)
    <3>1. n \in Nat /\ Tokens = 1..n /\ t \in 1..(n + 1)
      BY <2>3 DEF OneMore, Tokens
    <3>2. CASE t \in 1..n
      <4>1. issued'[t] = issued[t]
        BY <2>3, <3>2 DEF OneMore
      <4>2. state[t] # "active"
        BY <2>3, <3>1, <3>2, <4>1 DEF KillReachesTheLineage
      <4> QED BY <2>3, <3>2, <4>2 DEF OneMore
    <3>3. CASE t = n + 1
      <4>1. n + 1 \in 1..MaxTokens /\ issued'[n + 1].lineage \in 1..MaxTokens
        <5>1. n + 1 <= MaxTokens /\ issued'[n + 1] \in Token /\ issued'[n + 1].lineage <= n + 1
          BY <2>3, <3>1 DEF OneMore
        <5> QED BY <3>1, <5>1, Numbers DEF Token
      <4>2. replayed[issued'[n + 1].lineage] <= n
        BY <4>1 DEF ReplaysPast
      <4>3. replayed[issued'[n + 1].lineage] \in Nat
        BY <2>1, <4>1
      <4>4. n + 1 <= replayed[issued'[n + 1].lineage]
        BY <2>3, <3>3
      <4> HIDE DEF n
      <4> QED BY <3>1, <4>2, <4>3, <4>4
    <3> QED BY <3>1, <3>2, <3>3
  <2> QED BY <2>1, <2>2, <2>3 DEF LedgerStep
<1>3. IssuerInit => ReplaysPast
  BY DEF IssuerInit, ReplaysPast
<1>4. IssuerTypeOK /\ ReplaysPast /\ [IssuerNext]_issuerVars => ReplaysPast'
  BY ReplaysStayPast, StepsOfTheLedger
<1> QED BY Typing, <1>1, <1>2, <1>3, <1>4, PTL DEF IssuerSpec

-----------------------------------------------------------------------------
(* The log. *)

Distinct(s) == \A i, j \in 1..Len(s) : s[i] = s[j] => i = j

\* None of the parts of s is in any file.
Unwritten(s) ==
  \A p \in Paths : \A i \in 1..Len(disk[p]), j \in 1..Len(s) : disk[p][i] # s[j]

\* What the buffer holds is not on disk yet, and is there once.
OnceInv == NothingTwice /\ Distinct(buffer) /\ Unwritten(buffer)

\* The entries of s are among the first w, and none is numbered past its turn.
Numbered(s, w) ==
  \A i \in 1..Len(s) : s[i].entry.id <= w /\ s[i].entry.seq < s[i].entry.id

\* A chain that w writes can have led to.
ChainUpTo(c, w) == c.seq <= w /\ c.prev <= w

NumbersInv ==
  /\ \A p \in Paths : Numbered(disk[p], writes)
  /\ Numbered(buffer, writes)
  /\ ChainUpTo(chain, writes)
  /\ \A r \in Reloads : opened[r] # Nothing => ChainUpTo(opened[r], writes)

\* Every file is whole lines, the chains in memory are the ones their files end
\* with, and the one reload there may be moves to a file nobody writes to.
Orderly ==
  /\ buffer = <<>>
  /\ \A p \in Paths : Verifies(disk[p]) /\ Len(disk[p]) % 3 = 0
  /\ up => chain = ChainOf(path)
  /\ \A r \in Reloads : opened[r] # Nothing =>
       opened[r] = ChainOf(opened[r].path) /\ opened[r].path # path
  /\ \A r, l \in Reloads : opened[r] # Nothing /\ opened[l] # Nothing => r = l

ChainsInv == ~trouble => Orderly

\* A process that is down has no reload under way.
DownInv == ~up => \A r \in Reloads : opened[r] = Nothing

AuditInv == TypeOK /\ OnceInv /\ NumbersInv /\ AckedIsOnDisk /\ DownInv /\ ChainsInv

-----------------------------------------------------------------------------
(* Lines, and what a flush does to the files and the buffer. *)

\* A new line is three parts of one entry.
LEMMA PartsOfALine ==
  ASSUME NEW e \in Entry
  PROVE  /\ Parts(e) \in Seq(Part) /\ Len(Parts(e)) = 3
         /\ \A k \in 1..3 : Parts(e)[k] = [entry |-> e, part |-> PartNames[k]]
<1>1. \A k \in 1..3 : PartNames[k] \in {"start", "end", "newline"}
  BY DEF PartNames
<1>2. \A k \in 1..3 : [entry |-> e, part |-> PartNames[k]] \in Part
  BY <1>1 DEF Part
<1> DEFINE line == [k \in 1..3 |-> [entry |-> e, part |-> PartNames[k]]]
<1>3. line \in Seq(Part) /\ Len(line) = 3
  BY <1>2
<1> QED
  BY <1>3 DEF Parts

\* The names of the three parts differ.
LEMMA NamesDiffer == \A k, l \in 1..3 : PartNames[k] = PartNames[l] => k = l
BY DEF PartNames

\* The step's effect on the files: the first n parts of s go to the current one.
Flush(s, n) == disk' = [disk EXCEPT ![path] = @ \o SubSeq(s, 1, n)]

\* The parts of b are among those a flush of s to its n-th part leaves, in order.
LeftOf(b, s, n) ==
  \A i \in 1..Len(b) : n + i \in 1..Len(s) /\ b[i] = s[n + i]

\* A prefix or a suffix of a sequence of parts, part by part.
LEMMA Cut ==
  ASSUME NEW s \in Seq(Part), NEW n \in 0..Len(s)
  PROVE  /\ SubSeq(s, 1, n) \in Seq(Part) /\ Len(SubSeq(s, 1, n)) = n
         /\ \A i \in 1..n : SubSeq(s, 1, n)[i] = s[i]
         /\ SubSeq(s, n + 1, Len(s)) \in Seq(Part)
         /\ LeftOf(SubSeq(s, n + 1, Len(s)), s, n)
<1>1. Len(s) \in Nat /\ n \in Nat /\ n <= Len(s)
  OBVIOUS
<1>2. \A i \in 1..Len(s) : s[i] \in Part
  OBVIOUS
<1>3. SubSeq(s, 1, n) \in Seq(Part) /\ Len(SubSeq(s, 1, n)) = n
      /\ \A i \in 1..n : SubSeq(s, 1, n)[i] = s[i]
  <2>1. \A i \in 1..n : s[i] \in Part
    BY <1>1, <1>2
  <2> QED
    BY <1>1, <2>1, SubSeqProperties
<1>4. \A i \in (n + 1)..Len(s) : s[i] \in Part
  BY <1>1, <1>2
<1>5. SubSeq(s, n + 1, Len(s)) \in Seq(Part)
      /\ Len(SubSeq(s, n + 1, Len(s))) = Len(s) - n
      /\ \A i \in 1..(Len(s) - n) : SubSeq(s, n + 1, Len(s))[i] = s[n + i]
  BY <1>1, <1>4, SubSeqProperties
<1>6. LeftOf(SubSeq(s, n + 1, Len(s)), s, n)
  BY <1>1, <1>5 DEF LeftOf
<1> QED
  BY <1>3, <1>5, <1>6

\* The current file keeps what it held and grows by those n parts; no other changes.
LEMMA FlushGrowsOne ==
  ASSUME TypeOK, NEW s \in Seq(Part), NEW n \in 0..Len(s), Flush(s, n)
  PROVE  /\ disk' \in [Paths -> Seq(Part)]
         /\ \A p \in Paths : p # path => disk'[p] = disk[p]
         /\ Len(disk'[path]) = Len(disk[path]) + n
         /\ \A i \in 1..Len(disk[path]) : disk'[path][i] = disk[path][i]
         /\ \A i \in 1..n : disk'[path][Len(disk[path]) + i] = s[i]
<1> DEFINE d == disk[path]  t == SubSeq(s, 1, n)
<1>1. d \in Seq(Part) /\ path \in Paths
  BY DEF TypeOK
<1>2. t \in Seq(Part) /\ Len(t) = n /\ \A i \in 1..n : t[i] = s[i]
  BY Cut
<1>3. disk'[path] = d \o t
  BY DEF Flush, TypeOK
<1>4. d \o t \in Seq(Part) /\ Len(d \o t) = Len(d) + n
      /\ \A i \in 1..(Len(d) + n) : (d \o t)[i] = IF i <= Len(d) THEN d[i] ELSE t[i - Len(d)]
  <2> HIDE DEF d, t
  <2> QED
    BY <1>1, <1>2, ConcatProperties
<1>5. disk' \in [Paths -> Seq(Part)]
  BY <1>4 DEF Flush, TypeOK
<1>6. \A p \in Paths : p # path => disk'[p] = disk[p]
  BY DEF Flush, TypeOK
<1>7. Len(d) \in Nat /\ n \in Nat
  BY <1>1
<1>8. \A i \in 1..Len(d) : (d \o t)[i] = d[i]
  <2> HIDE DEF d, t
  <2> QED
    BY <1>4, <1>7
<1>9. \A i \in 1..n : (d \o t)[Len(d) + i] = s[i]
  <2> HIDE DEF d, t
  <2> TAKE i \in 1..n
  <2>1. Len(d) + i \in 1..(Len(d) + n) /\ ~(Len(d) + i <= Len(d)) /\ Len(d) + i - Len(d) = i
    BY <1>7
  <2> QED
    BY <1>2, <1>4, <2>1
<1> QED
  BY <1>3, <1>4, <1>5, <1>6, <1>8, <1>9

\* A flush of parts that are on no file yet, each once, and that leaves in the
\* buffer only what it did not send, keeps it so.
LEMMA FlushKeepsOnce ==
  ASSUME TypeOK, NothingTwice, NEW s \in Seq(Part), NEW n \in 0..Len(s), Flush(s, n),
         Distinct(s), Unwritten(s), buffer' \in Seq(Part), LeftOf(buffer', s, n)
  PROVE  OnceInv'
<1> DEFINE L == Len(disk[path])
<1>1. L \in Nat /\ n \in Nat /\ n <= Len(s) /\ Len(s) \in Nat /\ path \in Paths
  BY DEF TypeOK
<1>2. /\ \A p \in Paths : p # path => disk'[p] = disk[p]
      /\ Len(disk'[path]) = L + n
      /\ \A i \in 1..L : disk'[path][i] = disk[path][i]
      /\ \A i \in 1..n : disk'[path][L + i] = s[i]
  BY FlushGrowsOne
<1>3. \A p \in Paths : Len(disk[p]) \in Nat
  BY DEF TypeOK
<1> DEFINE Old(p, i) == i \in 1..Len(disk[p]) /\ disk'[p][i] = disk[p][i]
           New(p, i) == p = path /\ i - L \in 1..n /\ disk'[p][i] = s[i - L]
<1>4. ASSUME NEW p \in Paths, NEW i \in 1..Len(disk'[p])
      PROVE  Old(p, i) \/ New(p, i)
  <2>1. CASE p # path
    BY <1>2, <2>1
  <2>2. CASE p = path /\ i <= L
    BY <1>1, <1>2, <2>2
  <2>3. CASE p = path /\ ~(i <= L)
    <3>1. i - L \in 1..n /\ L + (i - L) = i
      BY <1>1, <1>2, <2>3
    <3> QED
      BY <1>2, <2>3, <3>1
  <2> QED
    BY <2>1, <2>2, <2>3
<1>5. ASSUME NEW p \in Paths, NEW q \in Paths, NEW i \in 1..Len(disk'[p]),
             NEW j \in 1..Len(disk'[q]), disk'[p][i] = disk'[q][j]
      PROVE  p = q /\ i = j
  <2>1. CASE Old(p, i) /\ Old(q, j)
    <3>1. disk[p][i] = disk[q][j]
      BY <1>5, <2>1
    <3> QED
      BY <2>1, <3>1 DEF NothingTwice
  <2>2. CASE Old(p, i) /\ New(q, j)
    <3>1. j - L \in 1..n
      BY <2>2
    <3>2. j - L \in 1..Len(s)
      BY <1>1, <3>1
    <3> QED
      BY <1>5, <2>2, <3>2 DEF Unwritten
  <2>3. CASE New(p, i) /\ Old(q, j)
    <3>1. i - L \in 1..Len(s)
      BY <1>1, <2>3
    <3> QED
      BY <1>5, <2>3, <3>1 DEF Unwritten
  <2>4. CASE New(p, i) /\ New(q, j)
    <3>4. i - L \in 1..n /\ j - L \in 1..n
      BY <2>4
    <3>1. i - L \in 1..Len(s) /\ j - L \in 1..Len(s)
      BY <1>1, <3>4
    <3>2. i - L = j - L
      BY <1>5, <2>4, <3>1 DEF Distinct
    <3>3. Len(disk'[p]) \in Nat /\ Len(disk'[q]) \in Nat
      BY <1>1, <1>2, <2>4
    <3> QED
      BY <1>1, <2>4, <3>2, <3>3
  <2> QED
    BY <1>4, <2>1, <2>2, <2>3, <2>4
<1>6. NothingTwice'
  BY <1>5 DEF NothingTwice
<1>7. Len(buffer') \in Nat
  OBVIOUS
<1>8. Distinct(buffer')
  <2> SUFFICES ASSUME NEW i \in 1..Len(buffer'), NEW j \in 1..Len(buffer'), buffer'[i] = buffer'[j]
               PROVE  i = j
    BY DEF Distinct
  <2>1. n + i \in 1..Len(s) /\ n + j \in 1..Len(s) /\ s[n + i] = s[n + j]
    BY DEF LeftOf
  <2>2. n + i = n + j
    BY <2>1 DEF Distinct
  <2> QED
    BY <1>1, <1>7, <2>2
<1>9. ASSUME NEW p \in Paths, NEW i \in 1..Len(disk'[p]), NEW j \in 1..Len(buffer')
      PROVE  disk'[p][i] # buffer'[j]
  <2>1. n + j \in 1..Len(s) /\ buffer'[j] = s[n + j]
    BY DEF LeftOf
  <2>2. CASE Old(p, i)
    BY <2>1, <2>2 DEF Unwritten
  <2>3. CASE New(p, i)
    <3>1. i - L \in 1..Len(s) /\ i - L # n + j
      BY <1>1, <1>7, <2>3
    <3> QED
      BY <2>1, <2>3, <3>1 DEF Distinct
  <2> QED
    BY <1>4, <2>2, <2>3
<1>10. \A p \in Paths : \A i \in 1..Len(disk'[p]), j \in 1..Len(buffer') : disk'[p][i] # buffer'[j]
  BY <1>9
<1> QED
  BY <1>6, <1>8, <1>10 DEF OnceInv, Distinct, Unwritten

-----------------------------------------------------------------------------
(* Every step sends parts of the outgoing lines, parts of the buffer, or nothing. *)

\* The step puts the first n parts of s in the current file and keeps in the
\* buffer none of those.
Sends(s, n) == Flush(s, n) /\ buffer' \in Seq(Part) /\ LeftOf(buffer', s, n)

\* The entry a write makes is of the right type and numbered in its turn.
LEMMA NewEntryFits ==
  ASSUME TypeOK, NumbersInv, writes < MaxWrites
  PROVE  NewEntry \in Entry /\ NewEntry.id = writes + 1 /\ NewEntry.seq < NewEntry.id
<1>1. writes \in Nat /\ writes + 1 \in 1..MaxWrites
  BY BoundIsNat DEF TypeOK
<1>2. chain.seq \in 0..MaxWrites /\ chain.prev \in 0..MaxWrites /\ chain.seq <= writes
  BY DEF TypeOK, Chain, NumbersInv, ChainUpTo
<1>3. chain.seq < writes + 1
  BY <1>1, <1>2, BoundIsNat
<1> QED
  BY <1>1, <1>2, <1>3 DEF NewEntry, Entry

\* What a write would send, part by part.
LEMMA OutgoingParts ==
  ASSUME TypeOK, NumbersInv, writes < MaxWrites
  PROVE  /\ Outgoing \in Seq(Part) /\ Len(Outgoing) = Len(buffer) + 3
         /\ \A i \in 1..Len(buffer) : Outgoing[i] = buffer[i]
         /\ \A k \in 1..3 : Outgoing[Len(buffer) + k] = [entry |-> NewEntry, part |-> PartNames[k]]
<1> DEFINE new == Parts(NewEntry)
<1>1. new \in Seq(Part) /\ Len(new) = 3
      /\ \A k \in 1..3 : new[k] = [entry |-> NewEntry, part |-> PartNames[k]]
  BY NewEntryFits, PartsOfALine
<1>2. buffer \in Seq(Part)
  BY DEF TypeOK
<1>3. Len(buffer) \in Nat
  BY <1>2
<1>4. Outgoing = buffer \o new
  BY DEF Outgoing
<1> HIDE DEF new
<1>5. /\ Outgoing \in Seq(Part) /\ Len(Outgoing) = Len(buffer) + 3
      /\ \A i \in 1..(Len(buffer) + 3) :
           Outgoing[i] = IF i <= Len(buffer) THEN buffer[i] ELSE new[i - Len(buffer)]
  <2>1. /\ buffer \o new \in Seq(Part) /\ Len(buffer \o new) = Len(buffer) + 3
        /\ \A i \in 1..(Len(buffer) + 3) :
             (buffer \o new)[i] = IF i <= Len(buffer) THEN buffer[i] ELSE new[i - Len(buffer)]
    <3>1. /\ buffer \o new \in Seq(Part) /\ Len(buffer \o new) = Len(buffer) + Len(new)
          /\ \A i \in 1..(Len(buffer) + Len(new)) :
               (buffer \o new)[i] = IF i <= Len(buffer) THEN buffer[i] ELSE new[i - Len(buffer)]
      <4>1. buffer \in Seq(Part) /\ new \in Seq(Part)
        BY <1>1, <1>2
      <4> QED
        BY ONLY <4>1, ConcatProperties
    <3>2. Len(new) = 3
      BY <1>1
    <3> QED
      BY ONLY <3>1, <3>2
  <2> QED
    BY <1>4, <2>1
<1>6. \A i \in 1..Len(buffer) : Outgoing[i] = buffer[i]
  BY <1>3, <1>5
<1>7. ASSUME NEW k \in 1..3 PROVE Outgoing[Len(buffer) + k] = new[k]
  <2>1. Len(buffer) + k \in 1..(Len(buffer) + 3) /\ ~(Len(buffer) + k <= Len(buffer))
        /\ Len(buffer) + k - Len(buffer) = k
    BY <1>3
  <2> QED
    BY <1>5, <2>1
<1> QED
  BY <1>1, <1>5, <1>6, <1>7

\* A position of what a write would send is one of the buffer or of the new line.
LEMMA OutgoingPlace ==
  ASSUME TypeOK, NumbersInv, writes < MaxWrites, NEW i \in 1..Len(Outgoing)
  PROVE  \/ i \in 1..Len(buffer) /\ Outgoing[i] = buffer[i]
         \/ \E k \in 1..3 : /\ i = Len(buffer) + k
                            /\ Outgoing[i] = [entry |-> NewEntry, part |-> PartNames[k]]
<1>1. Len(buffer) \in Nat
  BY DEF TypeOK
<1>2. Len(Outgoing) = Len(buffer) + 3
  BY OutgoingParts
<1>3. CASE i <= Len(buffer)
  BY <1>1, <1>2, <1>3, OutgoingParts
<1>4. CASE ~(i <= Len(buffer))
  <2>1. i - Len(buffer) \in 1..3 /\ i = Len(buffer) + (i - Len(buffer))
    BY <1>1, <1>2, <1>4
  <2> QED
    BY <2>1, OutgoingParts
<1> QED
  BY <1>3, <1>4

\* The outgoing parts are each there once, on no file, and numbered in their turn.
LEMMA OutgoingIsNew ==
  ASSUME TypeOK, NumbersInv, OnceInv, writes < MaxWrites
  PROVE  Distinct(Outgoing) /\ Unwritten(Outgoing) /\ Numbered(Outgoing, writes + 1)
<1>1. NewEntry.id = writes + 1 /\ NewEntry.seq < NewEntry.id /\ writes \in Nat
  BY NewEntryFits DEF TypeOK
<1>2. \A i \in 1..Len(buffer) : buffer[i].entry.id \in Nat /\ buffer[i].entry.id <= writes
  <2>1. \A i \in 1..Len(buffer) : buffer[i] \in Part
    BY DEF TypeOK
  <2>2. \A i \in 1..Len(buffer) : buffer[i].entry.id \in Nat
    BY <2>1 DEF Part, Entry
  <2> QED
    BY <2>2 DEF NumbersInv, Numbered
<1>3. Distinct(Outgoing)
  <2> SUFFICES ASSUME NEW i \in 1..Len(Outgoing), NEW j \in 1..Len(Outgoing),
                      Outgoing[i] = Outgoing[j]
               PROVE  i = j
    BY DEF Distinct
  <2>1. CASE i \in 1..Len(buffer) /\ Outgoing[i] = buffer[i]
    <3>1. CASE j \in 1..Len(buffer) /\ Outgoing[j] = buffer[j]
      BY <2>1, <3>1 DEF OnceInv, Distinct
    <3>2. ASSUME NEW k \in 1..3, Outgoing[j] = [entry |-> NewEntry, part |-> PartNames[k]]
          PROVE  FALSE
      <4>1. buffer[i] = [entry |-> NewEntry, part |-> PartNames[k]]
        BY <2>1, <3>2
      <4>2. buffer[i].entry = NewEntry
        BY <4>1
      <4> QED
        BY <1>1, <1>2, <2>1, <4>2
    <3> QED
      BY <3>1, <3>2, OutgoingPlace
  <2>2. ASSUME NEW k \in 1..3, i = Len(buffer) + k,
               Outgoing[i] = [entry |-> NewEntry, part |-> PartNames[k]]
        PROVE  i = j
    <3>1. CASE j \in 1..Len(buffer) /\ Outgoing[j] = buffer[j]
      <4>1. buffer[j].entry = NewEntry
        BY <2>2, <3>1
      <4> QED
        BY <1>1, <1>2, <3>1, <4>1
    <3>2. ASSUME NEW l \in 1..3, j = Len(buffer) + l,
                 Outgoing[j] = [entry |-> NewEntry, part |-> PartNames[l]]
          PROVE  i = j
      <4>1. PartNames[k] = PartNames[l]
        BY <2>2, <3>2
      <4>2. k = l
        BY <4>1, NamesDiffer
      <4> QED
        BY <2>2, <3>2, <4>2
    <3> QED
      BY <3>1, <3>2, OutgoingPlace
  <2> QED
    BY <2>1, <2>2, OutgoingPlace
<1>4. Unwritten(Outgoing)
  <2> SUFFICES ASSUME NEW p \in Paths, NEW i \in 1..Len(disk[p]), NEW j \in 1..Len(Outgoing),
                      disk[p][i] = Outgoing[j]
               PROVE  FALSE
    BY DEF Unwritten
  <2>1. CASE j \in 1..Len(buffer) /\ Outgoing[j] = buffer[j]
    BY <2>1 DEF OnceInv, Unwritten
  <2>2. ASSUME NEW k \in 1..3, Outgoing[j] = [entry |-> NewEntry, part |-> PartNames[k]]
        PROVE  FALSE
    <3>1. disk[p][i] \in Part
      BY DEF TypeOK
    <3>2. disk[p][i].entry.id \in Nat /\ disk[p][i].entry.id <= writes
      BY <3>1 DEF Part, Entry, NumbersInv, Numbered
    <3>3. disk[p][i].entry = NewEntry
      BY <2>2
    <3> QED
      BY <1>1, <3>2, <3>3
  <2> QED
    BY <2>1, <2>2, OutgoingPlace
<1>5. ASSUME NEW i \in 1..Len(Outgoing)
      PROVE  Outgoing[i].entry.id <= writes + 1 /\ Outgoing[i].entry.seq < Outgoing[i].entry.id
  <2>1. CASE i \in 1..Len(buffer) /\ Outgoing[i] = buffer[i]
    <3>1. buffer[i].entry.id <= writes /\ buffer[i].entry.seq < buffer[i].entry.id
      BY <2>1 DEF NumbersInv, Numbered
    <3>2. buffer[i].entry.id \in Nat /\ writes \in Nat
      BY <1>1, <1>2, <2>1
    <3>3. buffer[i].entry.id <= writes + 1
      BY <3>1, <3>2
    <3> QED
      BY <2>1, <3>1, <3>3
  <2>2. ASSUME NEW k \in 1..3, Outgoing[i] = [entry |-> NewEntry, part |-> PartNames[k]]
        PROVE  Outgoing[i].entry = NewEntry
    BY <2>2
  <2> QED
    BY <1>1, <2>1, <2>2, OutgoingPlace
<1> QED
  BY <1>3, <1>4, <1>5 DEF Numbered

\* The shapes of a step: a write sends of the outgoing lines, a reload that moves
\* the log sends of the buffer, and nothing else touches a file.
SendsNew == writes < MaxWrites /\ writes' = writes + 1
            /\ \E n \in 0..Len(Outgoing) : Sends(Outgoing, n)
SendsOld == writes' = writes /\ \E n \in 0..Len(buffer) : Sends(buffer, n)
SendsNone == writes' = writes /\ disk' = disk /\ buffer' \in {buffer, <<>>}

\* Nothing is always left of a flush.
LEMMA NothingLeft == \A s, n : LeftOf(<<>>, s, n)
BY DEF LeftOf

\* A write that succeeds sends everything.
LEMMA WriteSends ==
  ASSUME TypeOK, NumbersInv, Write
  PROVE  Flush(Outgoing, Len(Outgoing)) /\ SendsNew
<1>1. writes < MaxWrites /\ writes' = writes + 1
  BY DEF Write
<1>2. Outgoing \in Seq(Part)
  BY <1>1, OutgoingParts
<1>3. Len(Outgoing) \in 0..Len(Outgoing)
  BY <1>2
<1>4. Flush(Outgoing, Len(Outgoing)) /\ buffer' = SubSeq(Outgoing, Len(Outgoing) + 1, Len(Outgoing))
  BY DEF Write, Flush, Flushed
<1>5. Sends(Outgoing, Len(Outgoing))
  BY <1>2, <1>3, <1>4, Cut DEF Sends
<1> QED
  BY <1>1, <1>3, <1>4, <1>5 DEF SendsNew

\* One that fails sends some of it.
LEMMA WriteFailsSends ==
  ASSUME TypeOK, NumbersInv, WriteFails
  PROVE  SendsNew
<1>1. writes < MaxWrites /\ writes' = writes + 1
  BY DEF WriteFails
<1>2. Outgoing \in Seq(Part) /\ buffer \in Seq(Part) /\ Len(Outgoing) = Len(buffer) + 3
      /\ \A i \in 1..Len(buffer) : Outgoing[i] = buffer[i]
  BY <1>1, OutgoingParts DEF TypeOK
<1>3. PICK n \in 0..(Len(Outgoing) - 1) :
        /\ Flush(Outgoing, n)
        /\ \/ buffer' = SubSeq(Outgoing, n + 1, Len(Outgoing))
           \/ buffer' = SubSeq(buffer, n + 1, Len(buffer))
  BY DEF WriteFails, Flush
<1>4. Len(buffer) \in Nat /\ Len(Outgoing) \in Nat /\ n \in 0..Len(Outgoing)
  BY <1>2
<1>5. buffer' \in Seq(Part) /\ LeftOf(buffer', Outgoing, n)
  <2>1. CASE buffer' = SubSeq(Outgoing, n + 1, Len(Outgoing))
    BY <1>2, <1>4, <2>1, Cut
  <2>2. CASE buffer' = SubSeq(buffer, n + 1, Len(buffer)) /\ n \in 0..Len(buffer)
    <3>1. buffer' \in Seq(Part) /\ LeftOf(buffer', buffer, n)
      BY <1>2, <2>2, Cut
    <3>2. ASSUME NEW i \in 1..Len(buffer')
          PROVE  n + i \in 1..Len(Outgoing) /\ buffer'[i] = Outgoing[n + i]
      <4>1. n + i \in 1..Len(buffer) /\ buffer'[i] = buffer[n + i]
        BY <3>1 DEF LeftOf
      <4>2. n + i \in 1..Len(Outgoing)
        BY <1>2, <1>4, <4>1
      <4> QED
        BY <1>2, <4>1, <4>2
    <3> QED
      BY <3>1, <3>2 DEF LeftOf
  <2>3. CASE buffer' = SubSeq(buffer, n + 1, Len(buffer)) /\ ~(n \in 0..Len(buffer))
    <3>1. Len(buffer) < n + 1
      BY <1>4, <2>3
    <3>2. buffer' = <<>>
      BY <1>4, <2>3, <3>1, SubSeqEmpty
    <3> QED
      BY <3>2, NothingLeft
  <2> QED
    BY <1>3, <2>1, <2>2, <2>3
<1> QED
  BY <1>1, <1>3, <1>4, <1>5 DEF SendsNew, Sends

\* A reload that installs its chain flushes the old writer, as far as it goes.
LEMMA InstallSends ==
  ASSUME TypeOK, NEW r \in Reloads, Install(r)
  PROVE  SendsOld
<1>1. buffer \in Seq(Part)
  BY DEF TypeOK
<1>2. Len(buffer) \in Nat
  BY <1>1
<1>3. PICK n \in (IF Faults THEN 0 ELSE Len(buffer))..Len(buffer) : Flush(buffer, n)
  BY DEF Install, Flush
<1>4. n \in 0..Len(buffer)
  BY <1>2, <1>3
<1>5. buffer' = <<>> /\ writes' = writes
  BY DEF Install, Carried
<1>6. Sends(buffer, n)
  BY <1>3, <1>5, NothingLeft DEF Sends
<1> QED
  BY <1>4, <1>5, <1>6 DEF SendsOld

\* So every step has one of the three shapes.
LEMMA StepSends ==
  ASSUME TypeOK, NumbersInv, [Next]_vars
  PROVE  SendsNew \/ SendsOld \/ SendsNone
<1>1. ASSUME Write PROVE SendsNew
  BY <1>1, WriteSends
<1>2. ASSUME WriteFails PROVE SendsNew
  BY <1>2, WriteFailsSends
<1>3. ASSUME Crash PROVE SendsNone
  BY <1>3 DEF Crash, SendsNone
<1>4. ASSUME NEW r \in Reloads, NEW p \in Paths, ReadChain(r, p) PROVE SendsNone
  BY <1>4 DEF ReadChain, SendsNone
<1>5. ASSUME NEW r \in Reloads, Install(r) PROVE SendsOld
  BY <1>5, InstallSends
<1>6. ASSUME NEW p \in Paths, Restart(p) PROVE SendsNone
  BY <1>6 DEF Restart, SendsNone
<1>7. ASSUME UNCHANGED vars PROVE SendsNone
  BY <1>7 DEF vars, SendsNone
<1> QED
  BY <1>1, <1>2, <1>3, <1>4, <1>5, <1>6, <1>7 DEF Next

-----------------------------------------------------------------------------
(* Types and numbers. *)

\* Sending parts that are numbered in their turn keeps every part so.
LEMMA SendKeepsNumbers ==
  ASSUME TypeOK, NumbersInv, NEW s \in Seq(Part), NEW n \in 0..Len(s), Sends(s, n),
         writes' \in Nat, writes <= writes', Numbered(s, writes')
  PROVE  (\A p \in Paths : Numbered(disk'[p], writes')) /\ Numbered(buffer', writes')
<1> DEFINE L == Len(disk[path])
<1>1. L \in Nat /\ n \in Nat /\ n <= Len(s) /\ Len(s) \in Nat /\ path \in Paths
  BY DEF TypeOK
<1>2. /\ \A p \in Paths : p # path => disk'[p] = disk[p]
      /\ Len(disk'[path]) = L + n
      /\ \A i \in 1..L : disk'[path][i] = disk[path][i]
      /\ \A i \in 1..n : disk'[path][L + i] = s[i]
  BY FlushGrowsOne DEF Sends
<1>3. ASSUME NEW p \in Paths, NEW i \in 1..Len(disk[p])
      PROVE  disk[p][i].entry.id <= writes' /\ disk[p][i].entry.seq < disk[p][i].entry.id
  <2>1. disk[p][i] \in Part
    BY DEF TypeOK
  <2>4. disk[p][i].entry \in Entry
    BY <2>1 DEF Part
  <2>2. disk[p][i].entry.id \in Nat /\ writes \in Nat
    BY <2>4, BoundIsNat DEF Entry, TypeOK
  <2>3. disk[p][i].entry.id <= writes /\ disk[p][i].entry.seq < disk[p][i].entry.id
    BY DEF NumbersInv, Numbered
  <2> QED
    BY <2>2, <2>3
<1>4. ASSUME NEW i \in 1..Len(s)
      PROVE  s[i].entry.id <= writes' /\ s[i].entry.seq < s[i].entry.id
  BY DEF Numbered
<1>5. ASSUME NEW p \in Paths, NEW i \in 1..Len(disk'[p])
      PROVE  \/ i \in 1..Len(disk[p]) /\ disk'[p][i] = disk[p][i]
             \/ i - L \in 1..Len(s) /\ disk'[p][i] = s[i - L]
  <2>1. CASE p # path
    BY <1>2, <2>1
  <2>2. CASE p = path /\ i <= L
    BY <1>1, <1>2, <2>2
  <2>3. CASE p = path /\ ~(i <= L)
    <3>1. i \in 1..(L + n)
      BY <1>2, <2>3
    <3>2. i - L \in 1..n /\ L + (i - L) = i
      BY <1>1, <2>3, <3>1
    <3>3. i - L \in 1..Len(s)
      BY <1>1, <3>2
    <3> QED
      BY <1>2, <2>3, <3>2, <3>3
  <2> QED
    BY <2>1, <2>2, <2>3
<1>6. ASSUME NEW p \in Paths, NEW i \in 1..Len(disk'[p])
      PROVE  disk'[p][i].entry.id <= writes' /\ disk'[p][i].entry.seq < disk'[p][i].entry.id
  <2>1. CASE i \in 1..Len(disk[p]) /\ disk'[p][i] = disk[p][i]
    BY <1>3, <2>1
  <2>2. CASE i - L \in 1..Len(s) /\ disk'[p][i] = s[i - L]
    BY <1>4, <2>2
  <2> QED
    BY <1>5, <2>1, <2>2
<1>7. ASSUME NEW i \in 1..Len(buffer')
      PROVE  buffer'[i].entry.id <= writes' /\ buffer'[i].entry.seq < buffer'[i].entry.id
  BY <1>4 DEF Sends, LeftOf
<1> QED
  BY <1>6, <1>7 DEF Numbered

\* The files, the buffer and the count keep their types and their numbers.
LEMMA FilesFit ==
  ASSUME TypeOK, OnceInv, NumbersInv, [Next]_vars
  PROVE  /\ disk' \in [Paths -> Seq(Part)] /\ buffer' \in Seq(Part) /\ writes' \in 0..MaxWrites
         /\ \A p \in Paths : Numbered(disk'[p], writes')
         /\ Numbered(buffer', writes') /\ writes <= writes'
<1>1. writes \in Nat /\ writes <= MaxWrites /\ buffer \in Seq(Part) /\ path \in Paths
  BY BoundIsNat DEF TypeOK
<1>2. CASE SendsNew
  <2>1. writes < MaxWrites /\ writes' = writes + 1
    BY <1>2 DEF SendsNew
  <2>2. PICK n \in 0..Len(Outgoing) : Sends(Outgoing, n)
    BY <1>2 DEF SendsNew
  <2>3. Outgoing \in Seq(Part) /\ Numbered(Outgoing, writes')
    BY <2>1, OutgoingParts, OutgoingIsNew
  <2>4. writes' \in Nat /\ writes <= writes' /\ writes' \in 0..MaxWrites
    BY <1>1, <2>1, BoundIsNat
  <2>5. disk' \in [Paths -> Seq(Part)] /\ buffer' \in Seq(Part)
    BY <2>2, <2>3, FlushGrowsOne DEF Sends
  <2> QED
    BY <2>2, <2>3, <2>4, <2>5, SendKeepsNumbers
<1>3. CASE SendsOld
  <2>1. writes' = writes /\ Numbered(buffer, writes')
    BY <1>3 DEF SendsOld, NumbersInv
  <2>2. PICK n \in 0..Len(buffer) : Sends(buffer, n)
    BY <1>3 DEF SendsOld
  <2>3. disk' \in [Paths -> Seq(Part)] /\ buffer' \in Seq(Part)
    BY <1>1, <2>2, FlushGrowsOne DEF Sends
  <2>4. writes' \in Nat /\ writes <= writes' /\ writes' \in 0..MaxWrites
    BY <1>1, <2>1, BoundIsNat
  <2> QED
    BY <1>1, <2>1, <2>2, <2>3, <2>4, SendKeepsNumbers
<1>4. CASE SendsNone
  <2>1. writes' = writes /\ disk' = disk /\ buffer' \in {buffer, <<>>}
    BY <1>4 DEF SendsNone
  <2>2. writes' \in 0..MaxWrites /\ writes <= writes'
    BY <1>1, <2>1, BoundIsNat
  <2>3. disk' \in [Paths -> Seq(Part)] /\ buffer' \in Seq(Part)
    BY <1>1, <2>1, EmptySeq DEF TypeOK
  <2>4. Numbered(<<>>, writes)
    BY DEF Numbered
  <2> QED
    BY <2>1, <2>2, <2>3, <2>4 DEF NumbersInv
<1> QED
  BY <1>2, <1>3, <1>4, StepSends

\* The chain read back from a file is one the writes so far can have led to.
LEMMA ChainOfFits ==
  ASSUME TypeOK, NumbersInv, NEW p \in Paths
  PROVE  ChainOf(p) \in Chain /\ ChainUpTo(ChainOf(p), writes) /\ ChainOf(p).path = p
<1>1. writes \in Nat /\ writes <= MaxWrites /\ MaxWrites \in Nat
  BY BoundIsNat DEF TypeOK
<1>2. CASE disk[p] = <<>>
  <2>1. ChainOf(p) = [path |-> p, seq |-> 0, prev |-> 0]
    BY <1>2 DEF ChainOf, Genesis
  <2>2. 0 \in 0..MaxWrites /\ 0 <= writes
    BY <1>1
  <2> QED
    BY <2>1, <2>2 DEF Chain, ChainUpTo
<1>3. CASE disk[p] # <<>>
  <2> DEFINE last == disk[p][Len(disk[p])].entry
  <2>1. Len(disk[p]) \in 1..Len(disk[p])
    BY <1>3, EmptySeq DEF TypeOK
  <2>2. disk[p][Len(disk[p])] \in Part
    BY <2>1 DEF TypeOK
  <2>3. last.id \in Nat /\ last.seq \in Nat
    BY <2>2 DEF Part, Entry
  <2>4. last.id <= writes /\ last.seq < last.id
    BY <2>1 DEF NumbersInv, Numbered
  <2>5. ChainOf(p) = [path |-> p, seq |-> last.seq + 1, prev |-> last.id]
    BY <1>3 DEF ChainOf, NextSeq
  <2> HIDE DEF last
  <2>6. last.seq + 1 \in 0..MaxWrites /\ last.seq + 1 <= writes /\ last.id \in 0..MaxWrites
    BY <1>1, <2>3, <2>4
  <2> QED
    BY <2>4, <2>5, <2>6 DEF Chain, ChainUpTo
<1> QED
  BY <1>2, <1>3

\* A file of no path is no chain.
LEMMA NothingIsNoChain == Nothing \notin Chain
BY DEF Nothing, Chain

\* What the chain and the chains read back are known to be.
ChainFits == chain \in Chain /\ chain.path = path /\ path \in Paths /\ ChainUpTo(chain, writes)
OpenedFits ==
  /\ opened \in [Reloads -> Chain \cup {Nothing}]
  /\ \A r \in Reloads : opened[r] # Nothing => ChainUpTo(opened[r], writes)

\* A chain of some writes is one of more.
LEMMA ChainOfMore ==
  ASSUME TypeOK, NEW c \in Chain, ChainUpTo(c, writes), writes' \in Nat, writes <= writes'
  PROVE  ChainUpTo(c, writes')
BY DEF ChainUpTo, Chain, TypeOK

\* The writer's chain stays one the writes have led to.
LEMMA ChainStaysFit ==
  ASSUME TypeOK, OnceInv, NumbersInv, [Next]_vars
  PROVE  ChainFits'
<1>1. writes \in Nat /\ writes' \in Nat /\ writes <= writes' /\ MaxWrites \in Nat
  BY FilesFit, BoundIsNat DEF TypeOK
<1>2. chain \in Chain /\ chain.path = path /\ path \in Paths /\ ChainUpTo(chain, writes)
  BY DEF TypeOK, NumbersInv
<1>3. ChainUpTo(chain, writes')
  BY <1>1, <1>2, ChainOfMore
<1>4. ASSUME Write PROVE ChainFits'
  <2>1. chain' = [chain EXCEPT !.seq = @ + 1, !.prev = writes + 1] /\ path' = path
        /\ writes' = writes + 1 /\ writes < MaxWrites
    BY <1>4 DEF Write, NewEntry
  <2>2. chain.path \in Paths /\ chain.seq \in Nat /\ chain.seq <= writes
    BY <1>2 DEF Chain, ChainUpTo
  <2>3. chain.seq + 1 \in 0..MaxWrites /\ writes + 1 \in 0..MaxWrites /\ chain.seq + 1 <= writes + 1
    BY <1>1, <2>1, <2>2
  <2>4. chain' = [path |-> path, seq |-> chain.seq + 1, prev |-> writes + 1]
    BY <1>2, <2>1 DEF Chain
  <2> QED
    BY <1>1, <1>2, <2>1, <2>3, <2>4 DEF ChainFits, ChainUpTo, Chain
<1>5. ASSUME WriteFails \/ Crash PROVE ChainFits'
  <2>1. chain' = chain /\ path' = path
    BY <1>5 DEF WriteFails, Crash
  <2> QED
    BY <1>2, <1>3, <2>1 DEF ChainFits
<1>6. ASSUME NEW r \in Reloads, NEW p \in Paths, ReadChain(r, p) PROVE ChainFits'
  <2>1. chain' = chain /\ path' = path
    BY <1>6 DEF ReadChain
  <2> QED
    BY <1>2, <1>3, <2>1 DEF ChainFits
<1>7. ASSUME NEW r \in Reloads, Install(r) PROVE ChainFits'
  <2>1. chain' = opened[r] /\ path' = opened[r].path /\ opened[r] # Nothing /\ writes' = writes
    BY <1>7 DEF Install
  <2>2. opened[r] \in Chain /\ ChainUpTo(opened[r], writes)
    BY <2>1 DEF TypeOK, NumbersInv
  <2>3. opened[r].path \in Paths
    BY <2>2 DEF Chain
  <2> QED
    BY <2>1, <2>2, <2>3 DEF ChainFits
<1>8. ASSUME NEW p \in Paths, Restart(p) PROVE ChainFits'
  <2>1. chain' = ChainOf(p) /\ path' = p /\ writes' = writes
    BY <1>8 DEF Restart
  <2> QED
    BY <2>1, ChainOfFits DEF ChainFits
<1>9. ASSUME UNCHANGED vars PROVE ChainFits'
  BY <1>2, <1>3, <1>9 DEF vars, ChainFits
<1> QED
  BY <1>4, <1>5, <1>6, <1>7, <1>8, <1>9 DEF Next

\* And so does every chain a reload has read and not installed.
LEMMA OpenedStaysFit ==
  ASSUME TypeOK, OnceInv, NumbersInv, [Next]_vars
  PROVE  OpenedFits'
<1>1. writes \in Nat /\ writes' \in Nat /\ writes <= writes'
  BY FilesFit, BoundIsNat DEF TypeOK
<1>2. opened \in [Reloads -> Chain \cup {Nothing}]
  BY DEF TypeOK
<1>3. \A r \in Reloads : opened[r] # Nothing => ChainUpTo(opened[r], writes')
  <2> SUFFICES ASSUME NEW r \in Reloads, opened[r] # Nothing PROVE ChainUpTo(opened[r], writes')
    OBVIOUS
  <2>1. opened[r] \in Chain /\ ChainUpTo(opened[r], writes)
    BY <1>2 DEF NumbersInv
  <2> QED
    BY <1>1, <2>1, ChainOfMore
<1>4. ASSUME opened' = opened PROVE OpenedFits'
  BY <1>2, <1>3, <1>4 DEF OpenedFits
<1>5. ASSUME Write \/ WriteFails PROVE OpenedFits'
  BY <1>4, <1>5 DEF Write, WriteFails
<1>6. ASSUME Crash PROVE OpenedFits'
  BY <1>6 DEF Crash, OpenedFits
<1>7. ASSUME NEW r \in Reloads, NEW p \in Paths, ReadChain(r, p) PROVE OpenedFits'
  <2>1. opened' = [opened EXCEPT ![r] = ChainOf(p)] /\ writes' = writes
    BY <1>7 DEF ReadChain
  <2>2. ChainOf(p) \in Chain /\ ChainUpTo(ChainOf(p), writes)
    BY ChainOfFits
  <2>3. opened' \in [Reloads -> Chain \cup {Nothing}]
    BY <1>2, <2>1, <2>2
  <2>4. ASSUME NEW l \in Reloads, opened'[l] # Nothing PROVE ChainUpTo(opened'[l], writes')
    <3>1. opened'[l] = IF l = r THEN ChainOf(p) ELSE opened[l]
      BY <1>2, <2>1
    <3> QED
      BY <1>3, <2>1, <2>2, <2>4, <3>1
  <2> QED
    BY <2>3, <2>4 DEF OpenedFits
<1>8. ASSUME NEW r \in Reloads, Install(r) PROVE OpenedFits'
  <2>1. opened' = [opened EXCEPT ![r] = Nothing]
    BY <1>8 DEF Install
  <2>2. opened' \in [Reloads -> Chain \cup {Nothing}]
    BY <1>2, <2>1
  <2>3. \A l \in Reloads : opened'[l] = IF l = r THEN Nothing ELSE opened[l]
    BY <1>2, <2>1
  <2> QED
    BY <1>3, <2>2, <2>3 DEF OpenedFits
<1>9. ASSUME NEW p \in Paths, Restart(p) PROVE OpenedFits'
  BY <1>4, <1>9 DEF Restart
<1>10. ASSUME UNCHANGED vars PROVE OpenedFits'
  BY <1>4, <1>10 DEF vars
<1> QED
  BY <1>5, <1>6, <1>7, <1>8, <1>9, <1>10 DEF Next

\* Acknowledged entries are among the writes; the flags are flags.
LEMMA RestFits ==
  ASSUME TypeOK, [Next]_vars
  PROVE  acked' \subseteq 1..MaxWrites /\ up' \in BOOLEAN /\ trouble' \in BOOLEAN
<1>1. acked' \subseteq 1..MaxWrites
  <2>1. ASSUME Write PROVE acked' \subseteq 1..MaxWrites
    <3>1. acked' = acked \cup {writes + 1} /\ writes < MaxWrites
      BY <2>1 DEF Write, NewEntry
    <3>2. writes + 1 \in 1..MaxWrites
      BY <3>1, BoundIsNat DEF TypeOK
    <3> QED
      BY <3>1, <3>2 DEF TypeOK
  <2>2. CASE acked' = acked
    BY <2>2 DEF TypeOK
  <2> QED
    BY <2>1, <2>2 DEF Next, WriteFails, Crash, ReadChain, Install, Restart, vars
<1>2. up' \in BOOLEAN
  BY DEF TypeOK, Next, Write, WriteFails, Crash, ReadChain, Install, Restart, vars
<1>3. trouble' \in BOOLEAN
  BY DEF TypeOK, Next, Write, WriteFails, Crash, ReadChain, Install, Restart, vars
<1> QED
  BY <1>1, <1>2, <1>3

\* Types and numbers are kept together.
LEMMA NumbersStep ==
  ASSUME TypeOK, OnceInv, NumbersInv, [Next]_vars
  PROVE  TypeOK' /\ NumbersInv'
<1>1. TypeOK'
  BY FilesFit, ChainStaysFit, OpenedStaysFit, RestFits DEF TypeOK, ChainFits, OpenedFits
<1>2. NumbersInv'
  BY FilesFit, ChainStaysFit, OpenedStaysFit DEF NumbersInv, ChainFits, OpenedFits
<1> QED
  BY <1>1, <1>2

-----------------------------------------------------------------------------
(* No part is written twice, and an acknowledged record is whole on disk. *)

\* Whatever is sent again after a failure is what had not been sent.
LEMMA OnceStep ==
  ASSUME TypeOK, OnceInv, NumbersInv, [Next]_vars
  PROVE  OnceInv'
<1>1. CASE SendsNew
  <2>1. writes < MaxWrites
    BY <1>1 DEF SendsNew
  <2>2. PICK n \in 0..Len(Outgoing) : Sends(Outgoing, n)
    BY <1>1 DEF SendsNew
  <2>3. Outgoing \in Seq(Part) /\ Distinct(Outgoing) /\ Unwritten(Outgoing)
    BY <2>1, OutgoingParts, OutgoingIsNew
  <2>4. Flush(Outgoing, n) /\ buffer' \in Seq(Part) /\ LeftOf(buffer', Outgoing, n)
    BY <2>2 DEF Sends
  <2>5. NothingTwice
    BY DEF OnceInv
  <2> QED
    BY <2>3, <2>4, <2>5, FlushKeepsOnce
<1>2. CASE SendsOld
  <2>1. PICK n \in 0..Len(buffer) : Sends(buffer, n)
    BY <1>2 DEF SendsOld
  <2>2. buffer \in Seq(Part) /\ Distinct(buffer) /\ Unwritten(buffer) /\ NothingTwice
    BY DEF OnceInv, TypeOK
  <2>3. Flush(buffer, n) /\ buffer' \in Seq(Part) /\ LeftOf(buffer', buffer, n)
    BY <2>1 DEF Sends
  <2> QED
    BY <2>2, <2>3, FlushKeepsOnce
<1>3. CASE SendsNone
  <2>1. disk' = disk /\ buffer' \in {buffer, <<>>}
    BY <1>3 DEF SendsNone
  <2>2. NothingTwice'
    BY <2>1 DEF OnceInv, NothingTwice
  <2>3. CASE buffer' = buffer
    BY <2>1, <2>2, <2>3 DEF OnceInv, Distinct, Unwritten
  <2>4. CASE buffer' = <<>>
    BY <2>2, <2>4 DEF OnceInv, Distinct, Unwritten
  <2> QED
    BY <2>1, <2>3, <2>4
<1> QED
  BY <1>1, <1>2, <1>3, StepSends

\* Files only grow.
LEMMA FilesGrow ==
  ASSUME TypeOK, NumbersInv, [Next]_vars, NEW p \in Paths, NEW i \in 1..Len(disk[p])
  PROVE  i \in 1..Len(disk'[p]) /\ disk'[p][i] = disk[p][i]
<1>1. ASSUME NEW s \in Seq(Part), NEW n \in 0..Len(s), Sends(s, n)
      PROVE  i \in 1..Len(disk'[p]) /\ disk'[p][i] = disk[p][i]
  <2>1. /\ p # path => disk'[p] = disk[p]
        /\ Len(disk'[path]) = Len(disk[path]) + n
        /\ \A j \in 1..Len(disk[path]) : disk'[path][j] = disk[path][j]
    BY <1>1, FlushGrowsOne DEF Sends
  <2>2. Len(disk[path]) \in Nat /\ n \in Nat
    BY DEF TypeOK
  <2>3. CASE p # path
    BY <2>1, <2>3
  <2>4. CASE p = path
    <3>1. i \in 1..(Len(disk[path]) + n)
      BY <2>2, <2>4
    <3> QED
      BY <2>1, <2>4, <3>1
  <2> QED
    BY <2>3, <2>4
<1>2. CASE SendsNew
  BY <1>1, <1>2, OutgoingParts DEF SendsNew
<1>3. CASE SendsOld
  BY <1>1, <1>3 DEF SendsOld, TypeOK
<1>4. CASE SendsNone
  BY <1>4 DEF SendsNone
<1> QED
  BY <1>2, <1>3, <1>4, StepSends

\* The record id is whole in file d.
WholeIn(id, d) ==
  \A k \in 1..3 : \E i \in 1..Len(d) : d[i].entry.id = id /\ d[i].part = PartNames[k]

\* The property says every acknowledged record is whole in some file.
LEMMA AckedMeans == AckedIsOnDisk <=> \A id \in acked : \E p \in Paths : WholeIn(id, disk[p])
BY DEF AckedIsOnDisk, PartsOnDisk, WholeIn

\* A record that is whole in a file stays so.
LEMMA WholeStays ==
  ASSUME TypeOK, NumbersInv, [Next]_vars, NEW id, NEW p \in Paths, WholeIn(id, disk[p])
  PROVE  WholeIn(id, disk'[p])
<1> SUFFICES ASSUME NEW k \in 1..3
             PROVE  \E i \in 1..Len(disk'[p]) :
                      disk'[p][i].entry.id = id /\ disk'[p][i].part = PartNames[k]
  BY DEF WholeIn
<1>1. PICK i \in 1..Len(disk[p]) : disk[p][i].entry.id = id /\ disk[p][i].part = PartNames[k]
  BY DEF WholeIn
<1>2. i \in 1..Len(disk'[p]) /\ disk'[p][i] = disk[p][i]
  BY FilesGrow
<1> QED
  BY <1>1, <1>2

\* A write that returns Ok has put the whole line in the current file.
LEMMA WrittenIsWhole ==
  ASSUME TypeOK, NumbersInv, Write
  PROVE  WholeIn(writes + 1, disk'[path])
<1>1. writes < MaxWrites
  BY DEF Write
<1>2. Outgoing \in Seq(Part) /\ Len(Outgoing) = Len(buffer) + 3
      /\ \A k \in 1..3 : Outgoing[Len(buffer) + k] = [entry |-> NewEntry, part |-> PartNames[k]]
  BY <1>1, OutgoingParts
<1>3. Flush(Outgoing, Len(Outgoing))
  BY WriteSends
<1>4. Len(Outgoing) \in 0..Len(Outgoing) /\ Len(buffer) \in Nat /\ Len(disk[path]) \in Nat
  BY <1>2 DEF TypeOK
<1>5. /\ Len(disk'[path]) = Len(disk[path]) + Len(Outgoing)
      /\ \A i \in 1..Len(Outgoing) : disk'[path][Len(disk[path]) + i] = Outgoing[i]
  BY <1>2, <1>3, <1>4, FlushGrowsOne
<1>6. NewEntry.id = writes + 1
  BY DEF NewEntry
<1> SUFFICES ASSUME NEW k \in 1..3
             PROVE  \E i \in 1..Len(disk'[path]) :
                      disk'[path][i].entry.id = writes + 1 /\ disk'[path][i].part = PartNames[k]
  BY DEF WholeIn
<1> DEFINE j == Len(buffer) + k  i == Len(disk[path]) + j
<1>7. j \in 1..Len(Outgoing) /\ i \in 1..(Len(disk[path]) + Len(Outgoing))
  <2>1. j \in 1..Len(Outgoing) /\ Len(Outgoing) \in Nat
    BY <1>2, <1>4
  <2> HIDE DEF j
  <2> QED
    BY <1>4, <2>1
<1>8. disk'[path][i] = [entry |-> NewEntry, part |-> PartNames[k]]
  BY <1>2, <1>5, <1>7
<1>9. disk'[path][i].entry.id = writes + 1 /\ disk'[path][i].part = PartNames[k]
  BY <1>6, <1>8
<1>10. i \in 1..Len(disk'[path])
  BY <1>5, <1>7
<1> QED
  BY <1>9, <1>10

\* Every record the caller was told is written stays whole in some file.
LEMMA AckedStep ==
  ASSUME TypeOK, NumbersInv, AckedIsOnDisk, [Next]_vars
  PROVE  AckedIsOnDisk'
<1>1. ASSUME NEW id \in acked PROVE \E p \in Paths : WholeIn(id, disk'[p])
  BY AckedMeans, WholeStays
<1>2. ASSUME Write PROVE \A id \in acked' : \E p \in Paths : WholeIn(id, disk'[p])
  <2>1. acked' = acked \cup {writes + 1} /\ path \in Paths
    BY <1>2 DEF Write, NewEntry, TypeOK
  <2>2. WholeIn(writes + 1, disk'[path])
    BY <1>2, WrittenIsWhole
  <2> QED
    BY <1>1, <2>1, <2>2
<1>3. Write \/ acked' = acked
  BY DEF Next, WriteFails, Crash, ReadChain, Install, Restart, vars
<1>4. \A id \in acked' : \E p \in Paths : WholeIn(id, disk'[p])
  BY <1>1, <1>2, <1>3
<1>5. AckedIsOnDisk' <=> \A id \in acked' : \E p \in Paths : WholeIn(id, disk'[p])
  BY DEF AckedIsOnDisk, PartsOnDisk, WholeIn
<1> QED
  BY <1>4, <1>5

-----------------------------------------------------------------------------
(* Until there is trouble, every file verifies. *)

\* Where a part lies in its line, before and after the end of a file of whole lines.
LEMMA PlaceOfOld ==
  ASSUME NEW L \in Nat, NEW i \in 1..L
  PROVE  i - Place(i) + 1 \in 1..L
BY DEF Place

\* The same for the parts of a line after the end.
LEMMA PlaceOfNew ==
  ASSUME NEW L \in Nat, L % 3 = 0, NEW k \in 1..3
  PROVE  Place(L + k) = k /\ (L + k) - Place(L + k) = L
BY DEF Place

\* A file of whole lines that is not empty, without its last line.
LEMMA OneLineLess ==
  ASSUME NEW L \in Nat, L % 3 = 0, L # 0
  PROVE  L - 3 \in Nat /\ (L - 3) % 3 = 0 /\ (L - 3) \div 3 + 1 = L \div 3 /\ L \in 1..L
         /\ \A k \in 1..3 : L - 3 + k \in 1..L /\ (L + k) - 3 = L - 3 + k
OBVIOUS

\* The place of its last part.
LEMMA PlaceOfLast ==
  ASSUME NEW L \in Nat, L % 3 = 0, L # 0
  PROVE  L - Place(L) = L - 3
BY OneLineLess DEF Place

\* A whole line of an entry that continues the chain of d makes a file that verifies.
LEMMA LineContinues ==
  ASSUME NEW d \in Seq(Part), Verifies(d), Len(d) % 3 = 0,
         NEW e \in Entry, e.seq = Len(d) \div 3,
         e.prev = IF d = <<>> THEN Genesis ELSE d[Len(d)].entry.id,
         NEW f \in Seq(Part), Len(f) = Len(d) + 3,
         \A i \in 1..Len(d) : f[i] = d[i],
         \A k \in 1..3 : f[Len(d) + k] = [entry |-> e, part |-> PartNames[k]]
  PROVE  Verifies(f) /\ Len(f) % 3 = 0
<1> DEFINE L == Len(d)
           Good(i) == /\ f[i].part = PartNames[Place(i)]
                      /\ f[i].entry = f[i - Place(i) + 1].entry
                      /\ f[i].entry.seq = (i - Place(i)) \div 3
                      /\ f[i].entry.prev = IF i <= 3 THEN Genesis ELSE f[i - 3].entry.id
<1>1. L \in Nat /\ L % 3 = 0 /\ (L = 0 <=> d = <<>>)
  BY EmptySeq
<1>2. Len(f) % 3 = 0
  BY <1>1
<1>3. ASSUME NEW i \in 1..L
      PROVE  Good(i)
  <2>1. i - Place(i) + 1 \in 1..L
    BY <1>1, PlaceOfOld
  <2>2. f[i] = d[i] /\ f[i - Place(i) + 1] = d[i - Place(i) + 1]
    BY <2>1
  <2>6. ~(i <= 3) => i - 3 \in 1..L
    BY <1>1
  <2>3. ~(i <= 3) => i - 3 \in 1..L /\ f[i - 3] = d[i - 3]
    BY <2>6
  <2>4. d[i].part = PartNames[Place(i)] /\ d[i].entry = d[i - Place(i) + 1].entry
    BY DEF Verifies, Parses
  <2>5. d[i].entry.seq = (i - Place(i)) \div 3
        /\ d[i].entry.prev = IF i <= 3 THEN Genesis ELSE d[i - 3].entry.id
    BY DEF Verifies
  <2> QED
    BY <2>2, <2>3, <2>4, <2>5
<1>4. ASSUME NEW k \in 1..3, L # 0
      PROVE  (L + k) - 3 \in 1..L /\ d[(L + k) - 3].entry = d[L].entry
  <2>1. L - 3 \in Nat /\ (L - 3) % 3 = 0
    BY <1>1, <1>4, OneLineLess
  <2>2. L - 3 + k \in 1..L /\ L \in 1..L
    BY <1>1, <1>4, OneLineLess
  <2>3. (L - 3 + k) - Place(L - 3 + k) = L - 3
    BY <2>1, PlaceOfNew
  <2>4. L - Place(L) = L - 3
    BY <1>1, <1>4, PlaceOfLast
  <2>5. \A i \in 1..L : d[i].entry = d[i - Place(i) + 1].entry
    BY DEF Verifies, Parses
  <2>6. d[L - 3 + k].entry = d[L - 3 + 1].entry
    <3> DEFINE j == L - 3 + k
    <3>1. j \in 1..L
      BY <2>2
    <3>2. j - Place(j) = L - 3
      BY <2>3
    <3> HIDE DEF j
    <3>3. d[j].entry = d[j - Place(j) + 1].entry
      BY <2>5, <3>1
    <3>4. d[j].entry = d[L - 3 + 1].entry
      BY <3>2, <3>3
    <3> QED
      BY <3>4 DEF j
  <2>7. d[L].entry = d[L - 3 + 1].entry
    BY <2>2, <2>4, <2>5
  <2>8. (L + k) - 3 = L - 3 + k
    BY <1>1, <1>4, OneLineLess
  <2> QED
    BY <2>2, <2>6, <2>7, <2>8
<1>5. ASSUME NEW k \in 1..3
      PROVE  Good(L + k)
  <2>1. Place(L + k) = k /\ (L + k) - Place(L + k) = L
    BY <1>1, PlaceOfNew
  <2>2. f[L + k] = [entry |-> e, part |-> PartNames[k]]
    OBVIOUS
  <2>3. f[L + 1] = [entry |-> e, part |-> PartNames[1]]
    BY 1 \in 1..3
  <2>4. f[L + k].entry = e /\ f[L + k].part = PartNames[k] /\ f[L + 1].entry = e
    BY <2>2, <2>3
  <2>5. f[L + k].part = PartNames[Place(L + k)]
    BY <2>1, <2>4
  <2>6. f[L + k].entry = f[((L + k) - Place(L + k)) + 1].entry
    BY <2>1, <2>4
  <2>7. f[L + k].entry.seq = ((L + k) - Place(L + k)) \div 3
    BY <2>1, <2>4
  <2>8. ASSUME L + k <= 3 PROVE e.prev = Genesis
    <3>1. L = 0
      BY <1>1, <2>8
    <3> QED
      BY <1>1, <3>1
  <2>9. ASSUME ~(L + k <= 3) PROVE e.prev = f[(L + k) - 3].entry.id
    <3>1. L # 0
      BY <1>1, <2>9
    <3>2. e.prev = d[L].entry.id
      BY <1>1, <3>1
    <3>3. (L + k) - 3 \in 1..L /\ d[(L + k) - 3].entry = d[L].entry
      BY <1>4, <3>1
    <3>4. f[(L + k) - 3] = d[(L + k) - 3]
      BY <3>3
    <3> QED
      BY <3>2, <3>3, <3>4
  <2>10. f[L + k].entry.prev = IF L + k <= 3 THEN Genesis ELSE f[(L + k) - 3].entry.id
    BY <2>4, <2>8, <2>9
  <2> QED
    BY <2>5, <2>6, <2>7, <2>10
<1>6. ASSUME NEW i \in 1..Len(f)
      PROVE  Good(i)
  <2>1. CASE i <= L
    BY <1>1, <1>3, <2>1
  <2>2. CASE ~(i <= L)
    <3>1. i \in 1..(L + 3)
      OBVIOUS
    <3>2. PICK k \in 1..3 : i = L + k
      <4> HIDE DEF L
      <4>1. i - L \in 1..3 /\ L + (i - L) = i
        BY <1>1, <2>2, <3>1
      <4> QED
        BY <4>1
    <3> HIDE DEF Good
    <3> QED
      BY <1>5, <3>2
  <2> QED
    BY <2>1, <2>2
<1>7. Len(f) % 3 # 1
  BY <1>2
<1> QED
  BY <1>2, <1>6, <1>7 DEF Verifies, Parses

\* The chain read from a file that verifies counts its lines.
LEMMA ChainCounts ==
  ASSUME TypeOK, NEW p \in Paths, Verifies(disk[p]), Len(disk[p]) % 3 = 0
  PROVE  /\ ChainOf(p).path = p
         /\ ChainOf(p).seq = Len(disk[p]) \div 3
         /\ ChainOf(p).prev = IF disk[p] = <<>> THEN Genesis ELSE disk[p][Len(disk[p])].entry.id
<1> DEFINE d == disk[p]  L == Len(d)
<1>1. d \in Seq(Part) /\ L \in Nat /\ (L = 0 <=> d = <<>>)
  BY EmptySeq DEF TypeOK
<1>2. CASE d = <<>>
  <2>1. L \div 3 = 0
    BY <1>1, <1>2
  <2> QED
    BY <1>2, <2>1 DEF ChainOf
<1>3. CASE d # <<>>
  <2>1. L # 0 /\ L \in 1..L
    BY <1>1, <1>3
  <2>2. L - Place(L) = L - 3
    BY <1>1, <2>1, PlaceOfLast
  <2>3. d[L].entry.seq = (L - 3) \div 3
    BY <2>1, <2>2 DEF Verifies
  <2>4. (L - 3) \div 3 + 1 = L \div 3
    BY <1>1, <2>1, OneLineLess
  <2> QED
    BY <1>3, <2>3, <2>4 DEF ChainOf, NextSeq
<1> QED
  BY <1>2, <1>3

\* A write on an orderly log leaves the current file verifying and one line longer,
\* and the writer's chain the one it ends with.
LEMMA WriteContinues ==
  ASSUME TypeOK, NumbersInv, Orderly, Write
  PROVE  Verifies(disk'[path]) /\ Len(disk'[path]) % 3 = 0 /\ chain' = ChainOf(path)'
<1> DEFINE d == disk[path]  f == disk'[path]
<1>1. writes < MaxWrites /\ path \in Paths /\ up /\ path' = path
      /\ chain' = [chain EXCEPT !.seq = @ + 1, !.prev = NewEntry.id]
  BY DEF Write, TypeOK
<1>2. d \in Seq(Part) /\ Verifies(d) /\ Len(d) % 3 = 0 /\ chain = ChainOf(path)
  BY <1>1 DEF TypeOK, Orderly
<1>3. NewEntry \in Entry /\ NewEntry.seq = chain.seq /\ NewEntry.prev = chain.prev
  BY <1>1, NewEntryFits DEF NewEntry
<1>4. /\ NewEntry.seq = Len(d) \div 3
      /\ NewEntry.prev = IF d = <<>> THEN Genesis ELSE d[Len(d)].entry.id
  BY <1>1, <1>2, <1>3, ChainCounts
<1>5. buffer = <<>> /\ Len(buffer) = 0
  BY EmptySeq DEF Orderly
<1>6. Outgoing \in Seq(Part) /\ Len(Outgoing) = 3
      /\ \A k \in 1..3 : Outgoing[k] = [entry |-> NewEntry, part |-> PartNames[k]]
  <2>1. \A k \in 1..3 : 0 + k = k
    OBVIOUS
  <2> QED
    BY <1>1, <1>5, <2>1, OutgoingParts
<1>7. Flush(Outgoing, 3)
  BY <1>6, WriteSends
<1>8. /\ disk' \in [Paths -> Seq(Part)]
      /\ Len(f) = Len(d) + 3
      /\ \A i \in 1..Len(d) : f[i] = d[i]
      /\ \A k \in 1..3 : f[Len(d) + k] = Outgoing[k]
  <2>1. 3 \in 0..Len(Outgoing)
    BY <1>6
  <2> QED
    BY <1>6, <1>7, <2>1, FlushGrowsOne
<1>9. \A k \in 1..3 : f[Len(d) + k] = [entry |-> NewEntry, part |-> PartNames[k]]
  BY <1>6, <1>8
<1>10. f \in Seq(Part)
  BY <1>1, <1>8
<1>11. Verifies(f) /\ Len(f) % 3 = 0
  <2> HIDE DEF d, f
  <2> QED
    BY <1>2, <1>3, <1>4, <1>8, <1>9, <1>10, LineContinues
<1>12. f[Len(f)].entry = NewEntry /\ f # <<>>
  <2>1. f[Len(d) + 3] = [entry |-> NewEntry, part |-> PartNames[3]]
    BY <1>9, 3 \in 1..3
  <2>2. Len(d) \in Nat
    BY <1>2
  <2>3. Len(f) # 0
    BY <1>8, <2>2
  <2> QED
    BY <1>8, <2>1, <2>3, EmptySeq
<1>13. ChainOf(path)' = [path |-> path, seq |-> NewEntry.seq + 1, prev |-> NewEntry.id]
  BY <1>1, <1>12 DEF ChainOf, NextSeq
<1>14. chain \in Chain /\ chain.path = path
  BY DEF TypeOK
<1>15. chain' = [path |-> path, seq |-> chain.seq + 1, prev |-> NewEntry.id]
  BY <1>1, <1>14 DEF Chain
<1> QED
  BY <1>3, <1>11, <1>13, <1>15

\* What Orderly says of one file and of one reload.
WholeLines(d) == Verifies(d) /\ Len(d) % 3 = 0
Ready(r) == opened[r] = ChainOf(opened[r].path) /\ opened[r].path # path

\* A chain read from a file that a step leaves alone is the one read after it.
LEMMA ChainOfStays ==
  ASSUME NEW p \in Paths, disk'[p] = disk[p]
  PROVE  ChainOf(p)' = ChainOf(p)
BY DEF ChainOf

\* Orderly from its parts.
LEMMA OrderlyParts ==
  ASSUME buffer' = <<>>,
         \A p \in Paths : WholeLines(disk'[p]),
         up' => chain' = ChainOf(path)',
         \A r \in Reloads : opened'[r] # Nothing => Ready(r)',
         \A r, l \in Reloads : opened'[r] # Nothing /\ opened'[l] # Nothing => r = l
  PROVE  Orderly'
BY DEF Orderly, WholeLines, Ready

\* A reload's chain stays ready when neither its file nor the current path changes.
LEMMA ReadyStays ==
  ASSUME TypeOK, NEW r \in Reloads, opened[r] # Nothing, Ready(r),
         opened'[r] = opened[r], path' = path, disk'[opened[r].path] = disk[opened[r].path]
  PROVE  Ready(r)'
<1>1. opened[r].path \in Paths
  BY DEF TypeOK, Chain
<1>2. ChainOf(opened[r].path)' = ChainOf(opened[r].path)
  <2>1. \A p \in Paths : disk'[p] = disk[p] => ChainOf(p)' = ChainOf(p)
    BY DEF ChainOf
  <2> QED
    BY <1>1, <2>1 DEF ChainOf
<1> QED
  BY <1>2 DEF Ready

\* A write keeps an orderly log orderly.
LEMMA WriteKeepsOrder ==
  ASSUME TypeOK, NumbersInv, Orderly, Write
  PROVE  Orderly'
<1>1. path \in Paths /\ path' = path /\ opened' = opened
  BY DEF Write, TypeOK
<1>2. Outgoing \in Seq(Part) /\ Flush(Outgoing, Len(Outgoing))
      /\ buffer' = SubSeq(Outgoing, Len(Outgoing) + 1, Len(Outgoing))
  BY OutgoingParts, WriteSends DEF Write, Flushed
<1>3. Len(Outgoing) \in Nat
  BY <1>2
<1>4. buffer' = <<>>
  BY <1>2, <1>3, SubSeqEmpty
<1>5. \A p \in Paths : p # path => disk'[p] = disk[p]
  BY <1>2, <1>3, FlushGrowsOne
<1>6. \A p \in Paths : WholeLines(disk'[p])
  BY <1>5, WriteContinues DEF Orderly, WholeLines
<1>7. chain' = ChainOf(path)'
  BY WriteContinues
<1>8. ASSUME NEW r \in Reloads, opened'[r] # Nothing PROVE Ready(r)'
  <2>1. opened[r] # Nothing /\ Ready(r)
    BY <1>1, <1>8 DEF Orderly, Ready
  <2>2. opened[r].path \in Paths
    BY <2>1 DEF TypeOK, Chain
  <2>3. disk'[opened[r].path] = disk[opened[r].path]
    BY <1>5, <2>1, <2>2 DEF Ready
  <2> QED
    BY <1>1, <2>1, <2>3, ReadyStays
<1>9. \A r, l \in Reloads : opened'[r] # Nothing /\ opened'[l] # Nothing => r = l
  BY <1>1 DEF Orderly
<1> QED
  BY <1>4, <1>6, <1>7, <1>8, <1>9, OrderlyParts

\* So does a reload that reads a chain while no other is under way.
LEMMA ReadKeepsOrder ==
  ASSUME TypeOK, Orderly, NEW r \in Reloads, NEW p \in Paths, ReadChain(r, p), ~trouble'
  PROVE  Orderly'
<1>1. /\ disk' = disk /\ path' = path /\ chain' = chain /\ buffer' = buffer /\ up' = up /\ p # path
      /\ opened' = [opened EXCEPT ![r] = ChainOf(p)]
      /\ trouble' = (trouble \/ \E l \in Reloads : opened[l] # Nothing)
  BY DEF ReadChain
<1>2. \A l \in Reloads : opened[l] = Nothing
  BY <1>1
<1>3. \A l \in Reloads : opened'[l] = IF l = r THEN ChainOf(p) ELSE Nothing
  BY <1>1, <1>2 DEF TypeOK
<1>4. buffer' = <<>> /\ \A q \in Paths : WholeLines(disk'[q])
  BY <1>1 DEF Orderly, WholeLines
<1>5. up' => chain' = ChainOf(path)'
  BY <1>1 DEF Orderly, ChainOf
<1>6. ASSUME NEW l \in Reloads, opened'[l] # Nothing PROVE Ready(l)'
  <2>1. l = r /\ opened'[l] = ChainOf(p)
    BY <1>3, <1>6
  <2>2. ChainOf(p).path = p /\ ChainOf(p)' = ChainOf(p)
    BY <1>1 DEF ChainOf
  <2>3. opened'[l].path = p /\ path' # p
    BY <1>1, <2>1, <2>2
  <2>4. opened'[l] = ChainOf(opened[l].path)'
    BY <1>1, <2>1, <2>2, <2>3 DEF ChainOf
  <2> QED
    BY <2>3, <2>4 DEF Ready
<1>7. \A k, l \in Reloads : opened'[k] # Nothing /\ opened'[l] # Nothing => k = l
  BY <1>3
<1> QED
  BY <1>4, <1>5, <1>6, <1>7, OrderlyParts

\* So does one that installs its chain: there is nothing to flush, and the file it
\* moves to is as it was read.
LEMMA InstallKeepsOrder ==
  ASSUME TypeOK, Orderly, NEW r \in Reloads, Install(r)
  PROVE  Orderly'
<1>1. /\ opened[r] # Nothing /\ chain' = opened[r] /\ path' = opened[r].path /\ up' = up
      /\ opened' = [opened EXCEPT ![r] = Nothing] /\ buffer' = <<>>
  BY DEF Install, Carried
<1>2. buffer = <<>> /\ Len(buffer) = 0 /\ path \in Paths /\ disk[path] \in Seq(Part)
  BY EmptySeq DEF Orderly, TypeOK
<1>3. PICK n \in (IF Faults THEN 0 ELSE Len(buffer))..Len(buffer) :
        disk' = [disk EXCEPT ![path] = @ \o SubSeq(buffer, 1, n)]
  BY DEF Install
<1>4. n = 0
  BY <1>2, <1>3
<1>5. SubSeq(buffer, 1, n) = <<>>
  BY <1>4, SubSeqEmpty
<1>6. disk[path] \o <<>> = disk[path]
  BY <1>2, ConcatEmptySeq
<1>7. disk' = disk
  BY <1>3, <1>5, <1>6 DEF TypeOK
<1>8. \A l \in Reloads : opened'[l] = Nothing
  BY <1>1 DEF Orderly, TypeOK
<1>9. \A p \in Paths : WholeLines(disk'[p])
  BY <1>7 DEF Orderly, WholeLines
<1>10. chain' = ChainOf(path)'
  <2>1. opened[r] = ChainOf(opened[r].path)
    BY <1>1 DEF Orderly
  <2> QED
    BY <1>1, <1>7, <2>1 DEF ChainOf
<1> QED
  BY <1>1, <1>8, <1>9, <1>10, OrderlyParts

\* So do a crash, which loses nothing that was to be written, and a restart.
LEMMA RestartKeepsOrder ==
  ASSUME TypeOK, DownInv, Orderly, Crash \/ \E p \in Paths : Restart(p)
  PROVE  Orderly'
<1>1. CASE Crash
  <2>1. disk' = disk /\ buffer' = <<>> /\ ~up' /\ \A r \in Reloads : opened'[r] = Nothing
    BY <1>1 DEF Crash
  <2>2. \A p \in Paths : WholeLines(disk'[p])
    BY <2>1 DEF Orderly, WholeLines
  <2> QED
    BY <2>1, <2>2, OrderlyParts
<1>2. ASSUME NEW p \in Paths, Restart(p) PROVE Orderly'
  <2>1. disk' = disk /\ buffer' = buffer /\ path' = p /\ chain' = ChainOf(p) /\ opened' = opened /\ ~up
    BY <1>2 DEF Restart
  <2>2. \A r \in Reloads : opened'[r] = Nothing
    BY <2>1 DEF DownInv
  <2>3. buffer' = <<>> /\ \A q \in Paths : WholeLines(disk'[q])
    BY <2>1 DEF Orderly, WholeLines
  <2>4. chain' = ChainOf(path)'
    BY <2>1 DEF ChainOf
  <2> QED
    BY <2>2, <2>3, <2>4, OrderlyParts
<1> QED
  BY <1>1, <1>2

\* Until there is trouble, every step keeps the log orderly.
LEMMA ChainsStep ==
  ASSUME TypeOK, NumbersInv, DownInv, ChainsInv, [Next]_vars
  PROVE  ChainsInv'
<1> SUFFICES ASSUME ~trouble' PROVE Orderly'
  BY DEF ChainsInv
<1>1. ~trouble
  BY DEF Next, Write, WriteFails, Crash, ReadChain, Install, Restart, vars, TypeOK
<1>2. Orderly
  BY <1>1 DEF ChainsInv
<1>3. ~WriteFails
  BY DEF WriteFails
<1>4. ASSUME Write PROVE Orderly'
  BY <1>2, <1>4, WriteKeepsOrder
<1>5. ASSUME NEW r \in Reloads, NEW p \in Paths, ReadChain(r, p) PROVE Orderly'
  BY <1>2, <1>5, ReadKeepsOrder
<1>6. ASSUME NEW r \in Reloads, Install(r) PROVE Orderly'
  BY <1>2, <1>6, InstallKeepsOrder
<1>7. ASSUME Crash \/ \E p \in Paths : Restart(p) PROVE Orderly'
  BY <1>2, <1>7, RestartKeepsOrder
<1>8. ASSUME UNCHANGED vars PROVE Orderly'
  BY <1>2, <1>8 DEF vars, Orderly, ChainOf
<1> QED
  BY <1>3, <1>4, <1>5, <1>6, <1>7, <1>8 DEF Next

\* A crash ends every reload, and none starts until the restart.
LEMMA DownStep ==
  ASSUME TypeOK, DownInv, [Next]_vars
  PROVE  DownInv'
<1>1. ASSUME Write \/ WriteFails PROVE DownInv'
  BY <1>1 DEF Write, WriteFails, DownInv
<1>2. ASSUME Crash PROVE DownInv'
  BY <1>2 DEF Crash, DownInv
<1>3. ASSUME NEW r \in Reloads, NEW p \in Paths, ReadChain(r, p) PROVE DownInv'
  BY <1>3 DEF ReadChain, DownInv
<1>4. ASSUME NEW r \in Reloads, Install(r) PROVE DownInv'
  BY <1>4 DEF Install, DownInv
<1>5. ASSUME NEW p \in Paths, Restart(p) PROVE DownInv'
  BY <1>5 DEF Restart, DownInv
<1>6. ASSUME UNCHANGED vars PROVE DownInv'
  BY <1>6 DEF vars, DownInv
<1> QED
  BY <1>1, <1>2, <1>3, <1>4, <1>5, <1>6 DEF Next

-----------------------------------------------------------------------------
(* The theorems. *)

\* A log that has just been opened on empty files.
LEMMA AuditInit == Init => AuditInv
<1> SUFFICES ASSUME Init PROVE AuditInv
  OBVIOUS
<1>1. /\ disk = [p \in Paths |-> <<>>] /\ path \in Paths /\ buffer = <<>> /\ up /\ writes = 0
      /\ opened = [r \in Reloads |-> Nothing] /\ acked = {} /\ trouble = FALSE
      /\ chain = ChainOf(path)
  BY DEF Init
<1>2. \A p \in Paths : disk[p] = <<>> /\ Len(disk[p]) = 0
  BY <1>1, EmptySeq
<1>3. Len(buffer) = 0 /\ <<>> \in Seq(Part)
  BY <1>1, EmptySeq
<1>4. \A p \in Paths : ChainOf(p) = [path |-> p, seq |-> 0, prev |-> 0]
  BY <1>2 DEF ChainOf, Genesis
<1>5. chain = [path |-> path, seq |-> 0, prev |-> 0] /\ 0 \in 0..MaxWrites
  BY <1>1, <1>4, BoundIsNat
<1>6. TypeOK
  <2>1. disk \in [Paths -> Seq(Part)] /\ buffer \in Seq(Part)
    BY <1>1, <1>3
  <2>2. chain \in Chain /\ chain.path = path
    BY <1>1, <1>5 DEF Chain
  <2>3. opened \in [Reloads -> Chain \cup {Nothing}]
    BY <1>1
  <2> QED
    BY <1>1, <1>5, <2>1, <2>2, <2>3 DEF TypeOK
<1>7. OnceInv
  BY <1>2, <1>3 DEF OnceInv, NothingTwice, Distinct, Unwritten
<1>8. NumbersInv
  <2>1. \A r \in Reloads : opened[r] = Nothing
    BY <1>1
  <2>2. ChainUpTo(chain, writes)
    BY <1>1, <1>5 DEF ChainUpTo
  <2> QED
    BY <1>2, <1>3, <2>1, <2>2 DEF NumbersInv, Numbered
<1>9. AckedIsOnDisk
  BY <1>1 DEF AckedIsOnDisk
<1>10. DownInv
  BY <1>1 DEF DownInv
<1>11. ChainsInv
  <2>1. \A p \in Paths : Verifies(disk[p]) /\ Len(disk[p]) % 3 = 0
    <3> SUFFICES ASSUME NEW p \in Paths PROVE Verifies(disk[p]) /\ Len(disk[p]) % 3 = 0
      OBVIOUS
    <3>1. Len(disk[p]) = 0
      BY <1>2
    <3>2. Len(disk[p]) % 3 = 0 /\ Len(disk[p]) % 3 # 1
      BY <3>1
    <3> QED
      BY <3>1, <3>2 DEF Verifies, Parses
  <2>2. \A r \in Reloads : opened[r] = Nothing
    BY <1>1
  <2> QED
    BY <1>1, <2>1, <2>2 DEF ChainsInv, Orderly
<1> QED
  BY <1>6, <1>7, <1>8, <1>9, <1>10, <1>11 DEF AuditInv

\* AuditInv holds always.
LEMMA AuditInvariant == Spec => []AuditInv
<1>1. AuditInv /\ [Next]_vars => AuditInv'
  BY NumbersStep, OnceStep, AckedStep, DownStep, ChainsStep DEF AuditInv
<1> QED
  BY <1>1, AuditInit, PTL DEF Spec

\* Types are kept and every file verifies until a write fails or two reloads move
\* the log at once: `reopen` and `open` of audit.rs resume the chain they find.
THEOREM ChainsAlwaysVerify == Spec => []ChainsVerify
<1>1. AuditInv => ChainsVerify
  BY DEF AuditInv, ChainsVerify, ChainsInv, Orderly, VerifiesUntilTrouble
<1> QED
  BY <1>1, AuditInvariant, PTL

\* A record `write` returned Ok for is whole in one file for good, whatever fails,
\* moves the log or stops the process afterwards.
THEOREM AckedAlwaysOnDisk == Spec => []AckedIsOnDisk
<1>1. AuditInv => AckedIsOnDisk
  BY DEF AuditInv
<1> QED
  BY <1>1, AuditInvariant, PTL

\* No part of a record is written twice, to one file or to two.
THEOREM NothingEverTwice == Spec => []NothingTwice
<1>1. AuditInv => NothingTwice
  BY DEF AuditInv, OnceInv
<1> QED
  BY <1>1, AuditInvariant, PTL
=============================================================================
