-------------------------- MODULE CredentialsProofs --------------------------
(***************************************************************************)
(* Of a service's credential in use and on trial: that the mint gate and   *)
(* the reload keep the token cache right, for every number of requests,    *)
(* versions, generations and tokens (Credentials), and that the report of  *)
(* a verification is true and its warnings are (Verify).                   *)
(*                                                                         *)
(* The two share no state; each has an invariant of its own.               *)
(***************************************************************************)
EXTENDS Credentials, Verify, WellFoundedInduction, TLAPS

\* TypeOK in parts.
Flags == keyIsParsed \in BOOLEAN /\ usable \in BOOLEAN /\ disturbed \in BOOLEAN

Ranges ==
  /\ policy \in 0..versions /\ versions \in 1..MaxVersions
  /\ source \in 1..MaxGenerations
  /\ read \in [1..MaxVersions -> 0..source]
  /\ draft \in 0..versions

Stages ==
  stage \in {"no", "forget token", "forget key", "warm", "parse", "retain", "retain key", "swap"}

Stores ==
  /\ key \in Source
  /\ minted \in Seq(Source) /\ recorded \subseteq 1..Len(minted)
  /\ cache \in 0..Len(minted)

Steps ==
  /\ pc \in [Calls -> {"new", "asking", "waiting", "sending", "done"} \cup Minting]
  /\ gate \in Calls \cup {NoCall}

Possessions ==
  /\ snapshot \in [Calls -> 0..versions]
  /\ \A c \in Calls : pc[c] # "new" => snapshot[c] # 0
  /\ using \in [Calls -> Source] /\ token \in [Calls -> 0..Len(minted)]

\* Whoever is past the gate holds it, so one call is.
HolderMints == \A c \in Calls : pc[c] \in Minting => gate = c

\* The holder has nothing to use until it has minted.
ColdWhileMinting ==
  \A c \in Calls : pc[c] \in {"loading", "parsing", "minting"} => ~Cached

\* What is minted from, and what is kept, is of a version the policy had,
\* and what is recorded was minted.
Versioned ==
  /\ \A i \in 1..Len(minted) : minted[i].version # 0
  /\ key # None => key.version # 0
  /\ \A c \in Calls : pc[c] = "minting" => using[c].version # 0
  /\ \A c \in Calls : pc[c] = "recording" => token[c] # 0

\* A reload that will forget, or parse, has a target to do it for.
HasTarget == stage \in {"forget token", "forget key", "warm", "parse"} => draft # 0

TokenOf(v) == cache # 0 => minted[cache].version = v
KeyOf(v) == key # None => key.version = v

\* How far a reload has got with forgetting what was of the policy before it.
Forgetting ==
  /\ stage \in {"no", "forget token"} => TokenOf(policy) /\ KeyOf(policy)
  /\ stage = "forget key" => cache = 0 /\ KeyOf(policy)
  /\ stage \in {"warm", "parse"} =>
       /\ cache = 0 \/ (draft = policy /\ TokenOf(policy))
       /\ key = None \/ (draft = policy /\ KeyOf(policy))
  /\ stage = "parse" => key = None
  /\ stage = "retain" => draft = 0 \/ (TokenOf(draft) /\ KeyOf(draft))
  /\ stage = "retain key" => TokenOf(draft) /\ (draft = 0 \/ KeyOf(draft))
  /\ stage = "swap" => TokenOf(draft) /\ KeyOf(draft)

Inv == HolderMints /\ ColdWhileMinting /\ Versioned /\ HasTarget /\ (~disturbed => Forgetting)

-----------------------------------------------------------------------------
\* The parts are TypeOK.
LEMMA TypeParts == TypeOK <=> Flags /\ Ranges /\ Stages /\ Stores /\ Steps /\ Possessions
BY DEF TypeOK, Flags, Ranges, Stages, Stores, Steps, Possessions

\* A proxy starts with nothing minted and a key of its first policy.
LEMMA InitOK == Init => TypeOK /\ Inv
<1> SUFFICES ASSUME Init PROVE TypeOK /\ Inv
  OBVIOUS
<1> USE ThereIsAVersion
<1>1. 1 \in 1..MaxVersions /\ 1 \in 1..MaxGenerations
      /\ 1 \in 0..MaxVersions /\ 1 \in 0..MaxGenerations
  OBVIOUS
<1>2. read \in [1..MaxVersions -> 0..1] /\ read[1] = 1
  BY <1>1 DEF Init
<1>3. None \in Source /\ [version |-> 1, generation |-> 1] \in Source
  BY <1>1 DEF None, Source
<1>4. key \in Source /\ (key # None => key.version = 1)
  BY <1>2, <1>3 DEF Init, Secret
<1>5. Flags
  BY SchemesAreTheTwo DEF Init, Flags
<1>6. Ranges /\ Stages /\ Stores /\ Steps
  BY <1>1, <1>2, <1>4 DEF Init, Ranges, Stages, Stores, Steps
<1>7. Possessions
  BY <1>3 DEF Init, Possessions
<1>8. Inv
  BY <1>4 DEF Init, Inv, HolderMints, ColdWhileMinting, Versioned, HasTarget, Forgetting, TokenOf,
     KeyOf, Minting
<1> QED
  BY <1>5, <1>6, <1>7, <1>8, TypeParts

\* What a version's reference resolves to is of that version.
LEMMA SecretIsSource ==
  ASSUME Ranges, NEW v \in 1..versions
  PROVE  Secret(v) \in Source /\ Secret(v).version = v /\ v # 0
<1>1. v \in 1..MaxVersions /\ v \in 0..MaxVersions /\ v # 0
  BY ThereIsAVersion DEF Ranges
<1>2. read[v] \in 0..MaxGenerations
  BY <1>1, ThereIsAVersion DEF Ranges
<1> QED
  BY <1>1, <1>2 DEF Secret, Source

\* Nothing parsed is a source too.
LEMMA NoneIsSource == None \in Source
BY ThereIsAVersion DEF None, Source

\* A call that has begun has a version the policy had.
LEMMA SnapshotIsVersion ==
  ASSUME Ranges, Possessions, NEW c \in Calls, pc[c] # "new"
  PROVE  snapshot[c] \in 1..versions
<1>1. snapshot[c] \in 0..versions /\ snapshot[c] # 0
  BY DEF Possessions
<1> QED
  BY <1>1, ThereIsAVersion DEF Ranges

\* No step makes a Boolean anything else.
LEMMA StepKeepsFlags ==
  ASSUME Flags, [Next]_vars
  PROVE  Flags'
<1>1. ASSUME UNCHANGED <<keyIsParsed, usable, disturbed>> PROVE Flags'
  BY <1>1 DEF Flags
<1>2. ASSUME NEW c \in Calls, ParseKey(c) PROVE Flags'
  BY <1>2 DEF ParseKey, Flags, secrets, OutOfStep
<1>3. ASSUME NEW c \in Calls, Mint(c) PROVE Flags'
  BY <1>3 DEF Mint, Flags, secrets, OutOfStep
<1>4. ASSUME NEW c \in Calls, RecordFails(c) PROVE Flags'
  BY <1>4 DEF RecordFails, Flags, secrets
<1>5. ASSUME NEW c \in Calls, NEW status \in {200, 401}, Answered(c, status)
      PROVE Flags'
  BY <1>5 DEF Answered, Flags, secrets
<1>6. ASSUME ForgetToken PROVE Flags'
  BY <1>6 DEF ForgetToken, Flags, secrets
<1>7. ASSUME Refuse PROVE Flags'
  BY <1>7 DEF Refuse, Flags, held, secrets
<1>8. ASSUME Retain PROVE Flags'
  BY <1>8 DEF Retain, Flags, secrets
<1>9. ASSUME Age PROVE Flags'
  BY <1>9 DEF Age, Flags, secrets
<1>10. ASSUME NEW c \in Calls, TakeSnapshot(c) \/ LookInCache(c) \/ PassGate(c) \/
     LookUpKey(c) \/ Fail(c) \/ Cancel(c) \/ Record(c) PROVE Flags'
  BY <1>1, <1>10 DEF TakeSnapshot, LookInCache, PassGate, LookUpKey, Fail, Cancel, Record, held,
     secrets, calls, reload
<1>11. ASSUME NEW v \in Drafts, NEW fresh \in BOOLEAN, Begin(v, fresh)
      PROVE Flags'
  BY <1>1, <1>11 DEF Begin, held, secrets, calls, reload
<1>12. ASSUME ForgetKey \/ Warm \/ WarmParses \/ RetainKey \/ Swap \/ Rotate PROVE Flags'
  BY <1>1, <1>12 DEF ForgetKey, Warm, WarmParses, RetainKey, Swap, Rotate, held, secrets, calls,
     reload
<1>13. CASE UNCHANGED vars
  BY <1>1, <1>13 DEF vars, held, secrets, calls, reload
<1> QED
  BY <1>1, <1>2, <1>3, <1>4, <1>5, <1>6, <1>7, <1>8, <1>9, <1>10, <1>11, <1>12, <1>13 DEF Next,
     CallStep, ReloadStep

\* Versions and generations only count up to their bounds.
LEMMA StepKeepsRanges ==
  ASSUME Ranges, [Next]_vars
  PROVE  Ranges'
<1>1. ASSUME UNCHANGED <<policy, versions, source, read, draft>> PROVE Ranges'
  BY <1>1 DEF Ranges
<1>2. ASSUME NEW v \in Drafts, NEW fresh \in BOOLEAN, Begin(v, fresh)
      PROVE Ranges'
  <2>1. /\ draft' = v /\ versions' = IF v > versions THEN v ELSE versions
        /\ read' = IF v # 0 /\ (fresh \/ read[v] = 0) THEN [read EXCEPT ![v] = source] ELSE read
        /\ policy' = policy /\ source' = source
    BY <1>2 DEF Begin, calls
  <2>2. versions \in Nat /\ policy \in 0..versions /\ versions <= MaxVersions
    BY ThereIsAVersion DEF Ranges
  <2>3. versions' \in 1..MaxVersions /\ policy \in 0..versions' /\ v \in 0..versions'
    BY <2>1, <2>2, ThereIsAVersion DEF Drafts, Ranges
  <2>4. read' \in [1..MaxVersions -> 0..source]
    <3>1. source \in 0..source /\ read \in [1..MaxVersions -> 0..source]
      BY ThereIsAVersion DEF Ranges
    <3>2. read' = read \/ read' = [read EXCEPT ![v] = source]
      BY <2>1
    <3> QED
      BY <3>1, <3>2
  <2> QED
    BY <2>1, <2>3, <2>4 DEF Ranges
<1>3. ASSUME Swap PROVE Ranges'
  BY <1>3 DEF Swap, Ranges, secrets
<1>4. ASSUME Rotate PROVE Ranges'
  BY <1>4, ThereIsAVersion DEF Rotate, Ranges, reload
<1>5. ASSUME NEW c \in Calls, TakeSnapshot(c) \/ LookInCache(c) \/ PassGate(c) \/ LookUpKey(c)
     \/ ParseKey(c) \/ Mint(c) \/ Fail(c) \/ Cancel(c) \/ Record(c) \/ RecordFails(c) PROVE
     Ranges'
  BY <1>1, <1>5 DEF TakeSnapshot, LookInCache, PassGate, LookUpKey, ParseKey, Mint, Fail,
     Cancel, Record, RecordFails, held, secrets, calls, reload
<1>6. ASSUME NEW c \in Calls, NEW status \in {200, 401}, Answered(c, status)
      PROVE Ranges'
  BY <1>1, <1>6 DEF Answered, held, secrets, calls, reload
<1>7. ASSUME ForgetToken \/ ForgetKey \/ Warm \/ WarmParses \/ Refuse \/ Retain \/ RetainKey
     \/ Age PROVE Ranges'
  BY <1>1, <1>7 DEF ForgetToken, ForgetKey, Warm, WarmParses, Refuse, Retain, RetainKey, Age,
     held, secrets, calls, reload
<1>8. CASE UNCHANGED vars
  BY <1>1, <1>8 DEF vars, held, secrets, calls, reload
<1> QED
  BY <1>1, <1>2, <1>3, <1>4, <1>5, <1>6, <1>7, <1>8 DEF Next, CallStep, ReloadStep

\* A reload is at one of its stages.
LEMMA StepKeepsStages ==
  ASSUME Stages, [Next]_vars
  PROVE  Stages'
<1>1. ASSUME UNCHANGED <<stage>> PROVE Stages'
  BY <1>1 DEF Stages
<1>2. ASSUME NEW v \in Drafts, NEW fresh \in BOOLEAN, Begin(v, fresh)
      PROVE Stages'
  BY <1>2 DEF Begin, Stages, Changed
<1>3. ASSUME ForgetToken PROVE Stages'
  BY <1>3 DEF ForgetToken, Stages
<1>4. ASSUME ForgetKey PROVE Stages'
  BY <1>4 DEF ForgetKey, Stages
<1>5. ASSUME Warm PROVE Stages'
  BY <1>5 DEF Warm, Stages
<1>6. ASSUME WarmParses PROVE Stages'
  BY <1>6 DEF WarmParses, Stages
<1>7. ASSUME Refuse PROVE Stages'
  BY <1>7 DEF Refuse, Stages
<1>8. ASSUME Retain PROVE Stages'
  BY <1>8 DEF Retain, Stages
<1>9. ASSUME RetainKey PROVE Stages'
  BY <1>9 DEF RetainKey, Stages
<1>10. ASSUME Swap PROVE Stages'
  BY <1>10 DEF Swap, Stages
<1>11. ASSUME NEW c \in Calls, TakeSnapshot(c) \/ LookInCache(c) \/ PassGate(c) \/
     LookUpKey(c) \/ ParseKey(c) \/ Mint(c) \/ Fail(c) \/ Cancel(c) \/ Record(c) \/
     RecordFails(c) PROVE Stages'
  BY <1>1, <1>11 DEF TakeSnapshot, LookInCache, PassGate, LookUpKey, ParseKey, Mint, Fail,
     Cancel, Record, RecordFails, held, secrets, calls, reload
<1>12. ASSUME NEW c \in Calls, NEW status \in {200, 401}, Answered(c, status)
      PROVE Stages'
  BY <1>1, <1>12 DEF Answered, held, secrets, calls, reload
<1>13. ASSUME Age \/ Rotate PROVE Stages'
  BY <1>1, <1>13 DEF Age, Rotate, held, secrets, calls, reload
<1>14. CASE UNCHANGED vars
  BY <1>1, <1>14 DEF vars, held, secrets, calls, reload
<1> QED
  BY <1>1, <1>2, <1>3, <1>4, <1>5, <1>6, <1>7, <1>8, <1>9, <1>10, <1>11, <1>12, <1>13, <1>14 DEF
     Next, CallStep, ReloadStep

\* There are finitely many tokens, and 0 for none.
LEMMA LenIsNat == ASSUME Stores PROVE Len(minted) \in Nat /\ 0 \in 0..Len(minted)
BY DEF Stores

\* What is kept and recorded was minted.
LEMMA StepKeepsStores ==
  ASSUME Ranges, Versioned, HasTarget, Stores, Steps, Possessions, [Next]_vars
  PROVE  Stores'
<1>1. ASSUME UNCHANGED <<key, minted, recorded, cache>> PROVE Stores'
  BY <1>1 DEF Stores
<1>2. ASSUME NEW c \in Calls, ParseKey(c) PROVE Stores'
  BY <1>2, SecretIsSource, SnapshotIsVersion DEF ParseKey, Stores
<1>3. ASSUME NEW c \in Calls, Mint(c) PROVE Stores'
  <2>1. minted' \in Seq(Source) /\ Len(minted') = Len(minted) + 1 /\ Len(minted) \in Nat
    BY <1>3 DEF Mint, Stores, Possessions
  <2> QED
    BY <1>3, <2>1 DEF Mint, Stores
<1>4. ASSUME NEW c \in Calls, Record(c) PROVE Stores'
  <2>1. token[c] \in 1..Len(minted)
    BY <1>4, LenIsNat DEF Record, Possessions, Versioned
  <2> QED
    BY <1>4, <2>1 DEF Record, Stores
<1>5. ASSUME NEW c \in Calls, RecordFails(c) PROVE Stores'
  BY <1>5, LenIsNat DEF RecordFails, Stores
<1>6. ASSUME NEW c \in Calls, NEW status \in {200, 401}, Answered(c, status)
      PROVE Stores'
  BY <1>6, LenIsNat DEF Answered, Stores
<1>7. ASSUME ForgetToken PROVE Stores'
  BY <1>7, LenIsNat DEF ForgetToken, Stores
<1>8. ASSUME ForgetKey PROVE Stores'
  BY <1>8, NoneIsSource DEF ForgetKey, Stores
<1>9. ASSUME WarmParses PROVE Stores'
  <2>1. draft \in 1..versions
    BY <1>9, ThereIsAVersion DEF WarmParses, HasTarget, Ranges
  <2> QED
    BY <1>9, <2>1, SecretIsSource DEF WarmParses, Stores, secrets, calls
<1>10. ASSUME Retain PROVE Stores'
  <2>1. cache' \in {0, cache}
    BY <1>10 DEF Retain
  <2> QED
    BY <1>10, <2>1, LenIsNat DEF Retain, Stores
<1>11. ASSUME RetainKey PROVE Stores'
  BY <1>11, NoneIsSource DEF RetainKey, Stores
<1>12. ASSUME NEW c \in Calls, TakeSnapshot(c) \/ LookInCache(c) \/ PassGate(c) \/
     LookUpKey(c) \/ Fail(c) \/ Cancel(c) PROVE Stores'
  BY <1>1, <1>12 DEF TakeSnapshot, LookInCache, PassGate, LookUpKey, Fail, Cancel, held,
     secrets, calls, reload
<1>13. ASSUME NEW v \in Drafts, NEW fresh \in BOOLEAN, Begin(v, fresh)
      PROVE Stores'
  BY <1>1, <1>13 DEF Begin, held, secrets, calls, reload
<1>14. ASSUME Warm \/ Refuse \/ Swap \/ Age \/ Rotate PROVE Stores'
  BY <1>1, <1>14 DEF Warm, Refuse, Swap, Age, Rotate, held, secrets, calls, reload
<1>15. CASE UNCHANGED vars
  BY <1>1, <1>15 DEF vars, held, secrets, calls, reload
<1> QED
  BY <1>1, <1>2, <1>3, <1>4, <1>5, <1>6, <1>7, <1>8, <1>9, <1>10, <1>11, <1>12, <1>13, <1>14,
     <1>15 DEF Next, CallStep, ReloadStep

\* A call is at one of its steps, and a call or nobody holds the gate.
LEMMA StepKeepsSteps ==
  ASSUME Steps, [Next]_vars
  PROVE  Steps'
<1>1. ASSUME UNCHANGED <<pc, gate>> PROVE Steps'
  BY <1>1 DEF Steps
<1>2. ASSUME NEW c \in Calls, TakeSnapshot(c) PROVE Steps'
  BY <1>2 DEF TakeSnapshot, Steps, Minting
<1>3. ASSUME NEW c \in Calls, LookInCache(c) PROVE Steps'
  BY <1>3 DEF LookInCache, Steps, Minting
<1>4. ASSUME NEW c \in Calls, PassGate(c) PROVE Steps'
  BY <1>4 DEF PassGate, Steps, Minting
<1>5. ASSUME NEW c \in Calls, LookUpKey(c) PROVE Steps'
  BY <1>5 DEF LookUpKey, Steps, Minting
<1>6. ASSUME NEW c \in Calls, ParseKey(c) PROVE Steps'
  BY <1>6 DEF ParseKey, Steps, Minting
<1>7. ASSUME NEW c \in Calls, Mint(c) PROVE Steps'
  BY <1>7 DEF Mint, Steps, Minting
<1>8. ASSUME NEW c \in Calls, Fail(c) PROVE Steps'
  BY <1>8 DEF Fail, Steps, Minting, Released
<1>9. ASSUME NEW c \in Calls, Cancel(c) PROVE Steps'
  BY <1>9 DEF Cancel, Steps, Minting, Released
<1>10. ASSUME NEW c \in Calls, Record(c) PROVE Steps'
  BY <1>10 DEF Record, Steps, Minting
<1>11. ASSUME NEW c \in Calls, RecordFails(c) PROVE Steps'
  BY <1>11 DEF RecordFails, Steps, Minting, Released
<1>12. ASSUME NEW c \in Calls, NEW status \in {200, 401}, Answered(c, status)
      PROVE Steps'
  BY <1>12 DEF Answered, Steps, Minting
<1>13. ASSUME NEW v \in Drafts, NEW fresh \in BOOLEAN, Begin(v, fresh)
      PROVE Steps'
  BY <1>1, <1>13 DEF Begin, held, secrets, calls, reload
<1>14. ASSUME ForgetToken \/ ForgetKey \/ Warm \/ WarmParses \/ Refuse \/ Retain \/ RetainKey
     \/ Swap \/ Age \/ Rotate PROVE Steps'
  BY <1>1, <1>14 DEF ForgetToken, ForgetKey, Warm, WarmParses, Refuse, Retain, RetainKey, Swap,
     Age, Rotate, held, secrets, calls, reload
<1>15. CASE UNCHANGED vars
  BY <1>1, <1>15 DEF vars, held, secrets, calls, reload
<1> QED
  BY <1>1, <1>2, <1>3, <1>4, <1>5, <1>6, <1>7, <1>8, <1>9, <1>10, <1>11, <1>12, <1>13, <1>14,
     <1>15 DEF Next, CallStep, ReloadStep

\* What a call has is of a version there was, and a token there is.
LEMMA StepKeepsPossessions ==
  ASSUME Ranges, Stores, Steps, Possessions, [Next]_vars
  PROVE  Possessions'
<1>1. ASSUME UNCHANGED <<versions, minted, pc, snapshot, using, token>> PROVE Possessions'
  BY <1>1 DEF Possessions
<1>2. ASSUME NEW c \in Calls, TakeSnapshot(c) PROVE Possessions'
  BY <1>2 DEF TakeSnapshot, Possessions, held, reload, Known, Ranges, Steps
<1>3. ASSUME NEW c \in Calls, LookInCache(c) PROVE Possessions'
  BY <1>3 DEF LookInCache, Possessions, held, reload, Cached, Stores, Steps
<1>4. ASSUME NEW c \in Calls, PassGate(c) PROVE Possessions'
  <2>1. Secret(snapshot[c]) \in Source
    BY <1>4, SecretIsSource, SnapshotIsVersion DEF PassGate
  <2>2. \A d \in Calls : pc'[d] # "new" => pc[d] # "new"
    BY <1>4 DEF PassGate, Steps, Minting
  <2>3. using' \in [Calls -> Source]
    BY <1>4, <2>1, NoneIsSource DEF PassGate, Possessions
  <2>4. token' \in [Calls -> 0..Len(minted)]
    BY <1>4 DEF PassGate, Possessions, Stores
  <2> QED
    BY <1>4, <2>2, <2>3, <2>4 DEF PassGate, Possessions, held, reload
<1>5. ASSUME NEW c \in Calls, LookUpKey(c) PROVE Possessions'
  BY <1>5 DEF LookUpKey, Possessions, held, reload, Stores, Steps
<1>6. ASSUME NEW c \in Calls, ParseKey(c) PROVE Possessions'
  BY <1>6, SecretIsSource, SnapshotIsVersion DEF ParseKey, Possessions, reload, Steps
<1>7. ASSUME NEW c \in Calls, Mint(c) PROVE Possessions'
  <2>1. Len(minted) \in Nat /\ Len(minted') = Len(minted) + 1
    BY <1>7 DEF Mint, Stores, Possessions
  <2>2. token' \in [Calls -> 0..Len(minted')]
    BY <1>7, <2>1 DEF Mint, Possessions
  <2>3. \A d \in Calls : pc'[d] # "new" => pc[d] # "new"
    BY <1>7 DEF Mint, Steps
  <2> QED
    BY <1>7, <2>2, <2>3 DEF Mint, Possessions, reload
<1>8. ASSUME NEW c \in Calls, Fail(c) PROVE Possessions'
  BY <1>8 DEF Fail, Possessions, held, reload, Steps
<1>9. ASSUME NEW c \in Calls, Cancel(c) PROVE Possessions'
  BY <1>9 DEF Cancel, Possessions, held, reload, Steps
<1>10. ASSUME NEW c \in Calls, Record(c) PROVE Possessions'
  BY <1>10 DEF Record, Possessions, reload, Steps
<1>11. ASSUME NEW c \in Calls, RecordFails(c) PROVE Possessions'
  BY <1>11 DEF RecordFails, Possessions, reload, Steps
<1>12. ASSUME NEW c \in Calls, NEW status \in {200, 401}, Answered(c, status)
      PROVE Possessions'
  BY <1>12 DEF Answered, Possessions, reload, Steps
<1>13. ASSUME NEW v \in Drafts, NEW fresh \in BOOLEAN, Begin(v, fresh)
      PROVE Possessions'
  <2>0. versions \in Nat /\ policy \in Nat
    BY ThereIsAVersion DEF Ranges
  <2>1. versions \in Nat /\ versions' \in Nat /\ versions' >= versions
    <3>1. v \in Nat
      BY <2>0 DEF Drafts
    <3>2. versions' = IF v > versions THEN v ELSE versions
      BY <1>13 DEF Begin
    <3> QED
      BY <2>0, <3>1, <3>2
  <2>2. snapshot \in [Calls -> 0..versions']
    BY <2>1 DEF Possessions
  <2> QED
    BY <1>13, <2>2 DEF Begin, Possessions, held, calls
<1>14. ASSUME ForgetToken \/ ForgetKey \/ Warm \/ WarmParses \/ Refuse \/ Retain \/ RetainKey
     \/ Swap \/ Age \/ Rotate PROVE Possessions'
  BY <1>1, <1>14 DEF ForgetToken, ForgetKey, Warm, WarmParses, Refuse, Retain, RetainKey, Swap,
     Age, Rotate, held, secrets, calls, reload
<1>15. CASE UNCHANGED vars
  BY <1>1, <1>15 DEF vars, held, secrets, calls, reload
<1> QED
  BY <1>1, <1>2, <1>3, <1>4, <1>5, <1>6, <1>7, <1>8, <1>9, <1>10, <1>11, <1>12, <1>13, <1>14,
     <1>15 DEF Next, CallStep, ReloadStep

\* Whoever is past the gate holds it, and nothing becomes usable before it mints.
LEMMA StepKeepsGate ==
  ASSUME Steps, HolderMints, ColdWhileMinting, [Next]_vars
  PROVE  HolderMints' /\ ColdWhileMinting'
<1>1. ASSUME UNCHANGED <<pc, gate, cache, usable>> PROVE HolderMints' /\ ColdWhileMinting'
  BY <1>1 DEF HolderMints, ColdWhileMinting, Cached
<1>2. ASSUME NEW c \in Calls, TakeSnapshot(c) PROVE HolderMints' /\ ColdWhileMinting'
  BY <1>2 DEF TakeSnapshot, Steps, HolderMints, ColdWhileMinting, Minting, Cached, held
<1>3. ASSUME NEW c \in Calls, LookInCache(c) PROVE HolderMints' /\ ColdWhileMinting'
  BY <1>3 DEF LookInCache, Steps, HolderMints, ColdWhileMinting, Minting, Cached, held
<1>4. ASSUME NEW c \in Calls, PassGate(c) PROVE HolderMints' /\ ColdWhileMinting'
  BY <1>4, NobodyIsNoCall DEF PassGate, Steps, HolderMints, ColdWhileMinting, Minting, Cached,
     held, Found
<1>5. ASSUME NEW c \in Calls, LookUpKey(c) PROVE HolderMints' /\ ColdWhileMinting'
  BY <1>5 DEF LookUpKey, Steps, HolderMints, ColdWhileMinting, Minting, Cached, held
<1>6. ASSUME NEW c \in Calls, ParseKey(c) PROVE HolderMints' /\ ColdWhileMinting'
  BY <1>6 DEF ParseKey, Steps, HolderMints, ColdWhileMinting, Minting, Cached
<1>7. ASSUME NEW c \in Calls, Mint(c) PROVE HolderMints' /\ ColdWhileMinting'
  BY <1>7 DEF Mint, Steps, HolderMints, ColdWhileMinting, Minting, Cached
<1>8. ASSUME NEW c \in Calls, Fail(c) PROVE HolderMints' /\ ColdWhileMinting'
  BY <1>8 DEF Fail, Steps, HolderMints, ColdWhileMinting, Minting, Cached, held, Released
<1>9. ASSUME NEW c \in Calls, Cancel(c) PROVE HolderMints' /\ ColdWhileMinting'
  BY <1>9 DEF Cancel, Steps, HolderMints, ColdWhileMinting, Minting, Cached, held, Released
<1>10. ASSUME NEW c \in Calls, Record(c) PROVE HolderMints' /\ ColdWhileMinting'
  BY <1>10 DEF Record, Steps, HolderMints, ColdWhileMinting, Minting, Cached
<1>11. ASSUME NEW c \in Calls, RecordFails(c) PROVE HolderMints' /\ ColdWhileMinting'
  BY <1>11 DEF RecordFails, Steps, HolderMints, ColdWhileMinting, Minting, Cached, Released
<1>12. ASSUME NEW c \in Calls, NEW status \in {200, 401}, Answered(c, status)
      PROVE HolderMints' /\ ColdWhileMinting'
  <2>1. \A d \in Calls : pc'[d] \in Minting => pc'[d] = pc[d]
    BY <1>12 DEF Answered, Steps, Minting
  <2>2. Cached' => Cached
    BY <1>12 DEF Answered, Cached
  <2> QED
    BY <1>12, <2>1, <2>2 DEF Answered, HolderMints, ColdWhileMinting, Minting
<1>13. ASSUME ForgetToken PROVE HolderMints' /\ ColdWhileMinting'
  BY <1>13 DEF ForgetToken, Steps, HolderMints, ColdWhileMinting, Minting, Cached, calls
<1>14. ASSUME Retain PROVE HolderMints' /\ ColdWhileMinting'
  BY <1>14 DEF Retain, Steps, HolderMints, ColdWhileMinting, Minting, Cached, calls
<1>15. ASSUME Age PROVE HolderMints' /\ ColdWhileMinting'
  BY <1>15 DEF Age, Steps, HolderMints, ColdWhileMinting, Minting, Cached, calls
<1>16. ASSUME NEW v \in Drafts, NEW fresh \in BOOLEAN, Begin(v, fresh)
      PROVE HolderMints' /\ ColdWhileMinting'
  BY <1>1, <1>16 DEF Begin, held, secrets, calls, reload
<1>17. ASSUME ForgetKey \/ Warm \/ WarmParses \/ Refuse \/ RetainKey \/ Swap \/ Rotate PROVE
     HolderMints' /\ ColdWhileMinting'
  BY <1>1, <1>17 DEF ForgetKey, Warm, WarmParses, Refuse, RetainKey, Swap, Rotate, held,
     secrets, calls, reload
<1>18. CASE UNCHANGED vars
  BY <1>1, <1>18 DEF vars, held, secrets, calls, reload
<1> QED
  BY <1>1, <1>2, <1>3, <1>4, <1>5, <1>6, <1>7, <1>8, <1>9, <1>10, <1>11, <1>12, <1>13, <1>14,
     <1>15, <1>16, <1>17, <1>18 DEF Next, CallStep, ReloadStep

\* Nothing is minted from, or kept, that is of no version.
LEMMA StepKeepsVersions ==
  ASSUME Ranges, Stores, Steps, Possessions, Versioned, HasTarget, [Next]_vars
  PROVE  Versioned' /\ HasTarget'
<1>1. ASSUME UNCHANGED <<key, minted, pc, using, token, stage, draft>>
      PROVE Versioned' /\ HasTarget'
  BY <1>1 DEF Versioned, HasTarget
<1>2. ASSUME NEW c \in Calls, TakeSnapshot(c) PROVE Versioned' /\ HasTarget'
  BY <1>2 DEF TakeSnapshot, Stores, Steps, Possessions, Versioned, HasTarget, held, reload
<1>3. ASSUME NEW c \in Calls, LookInCache(c) PROVE Versioned' /\ HasTarget'
  BY <1>3 DEF LookInCache, Stores, Steps, Possessions, Versioned, HasTarget, held, reload
<1>4. ASSUME NEW c \in Calls, PassGate(c) PROVE Versioned' /\ HasTarget'
  BY <1>4, SecretIsSource, SnapshotIsVersion DEF PassGate, Stores, Steps, Possessions,
     Versioned, HasTarget, held, reload
<1>5. ASSUME NEW c \in Calls, LookUpKey(c) PROVE Versioned' /\ HasTarget'
  BY <1>5 DEF LookUpKey, Stores, Steps, Possessions, Versioned, HasTarget, held, reload
<1>6. ASSUME NEW c \in Calls, ParseKey(c) PROVE Versioned' /\ HasTarget'
  BY <1>6, SecretIsSource, SnapshotIsVersion DEF ParseKey, Stores, Steps, Possessions,
     Versioned, HasTarget, reload
<1>7. ASSUME NEW c \in Calls, Mint(c) PROVE Versioned' /\ HasTarget'
  <2>1. \A i \in 1..Len(minted') :
          minted'[i] = IF i = Len(minted) + 1 THEN using[c] ELSE minted[i]
    BY <1>7 DEF Mint, Stores, Possessions
  <2>2. Len(minted) \in Nat /\ Len(minted') = Len(minted) + 1
    BY <1>7 DEF Mint, Stores, Possessions
  <2>3. \A i \in 1..Len(minted') : minted'[i].version # 0
    BY <1>7, <2>1, <2>2 DEF Mint, Versioned
  <2>4. \A d \in Calls : d # c => pc'[d] = pc[d] /\ token'[d] = token[d]
    BY <1>7 DEF Mint, Steps, Possessions
  <2>5. token'[c] # 0 /\ pc'[c] = "recording"
    BY <1>7, <2>2 DEF Mint, Steps, Possessions
  <2> QED
    <3>1. key' = key /\ using' = using /\ stage' = stage /\ draft' = draft
      BY <1>7 DEF Mint, reload
    <3>2. \A d \in Calls : pc'[d] = "recording" => token'[d] # 0
      BY <2>4, <2>5 DEF Versioned
    <3>3. \A d \in Calls : pc'[d] = "minting" => using'[d].version # 0
      BY <2>4, <2>5, <3>1 DEF Versioned
    <3>4. HasTarget'
      BY <3>1 DEF HasTarget
    <3> QED
      BY <2>3, <3>1, <3>2, <3>3, <3>4 DEF Versioned
<1>8. ASSUME NEW c \in Calls, Fail(c) PROVE Versioned' /\ HasTarget'
  BY <1>8 DEF Fail, Stores, Steps, Possessions, Versioned, HasTarget, held, reload
<1>9. ASSUME NEW c \in Calls, Cancel(c) PROVE Versioned' /\ HasTarget'
  BY <1>9 DEF Cancel, Stores, Steps, Possessions, Versioned, HasTarget, held, reload
<1>10. ASSUME NEW c \in Calls, Record(c) PROVE Versioned' /\ HasTarget'
  BY <1>10 DEF Record, Stores, Steps, Possessions, Versioned, HasTarget, reload
<1>11. ASSUME NEW c \in Calls, RecordFails(c) PROVE Versioned' /\ HasTarget'
  BY <1>11 DEF RecordFails, Stores, Steps, Possessions, Versioned, HasTarget, reload
<1>12. ASSUME NEW c \in Calls, NEW status \in {200, 401}, Answered(c, status)
      PROVE Versioned' /\ HasTarget'
  <2>1. \A d \in Calls : pc'[d] \in {"minting", "recording"} => pc'[d] = pc[d]
    BY <1>12 DEF Answered, Steps
  <2> QED
    <3>1. UNCHANGED <<minted, key, using, token, stage, draft>>
      BY <1>12 DEF Answered, reload
    <3>2. \A d \in Calls : pc'[d] = "minting" => using'[d].version # 0
      BY <2>1, <3>1 DEF Versioned
    <3>2a. \A d \in Calls : pc'[d] = "recording" => token'[d] # 0
      BY <2>1, <3>1 DEF Versioned
    <3>3. HasTarget'
      BY <3>1 DEF HasTarget
    <3>4. (\A i \in 1..Len(minted') : minted'[i].version # 0) /\ (key' # None => key'.version # 0)
      BY <3>1 DEF Versioned
    <3> QED
      BY <3>2, <3>3, <3>2a, <3>4 DEF Versioned
<1>13. ASSUME NEW v \in Drafts, NEW fresh \in BOOLEAN, Begin(v, fresh)
      PROVE Versioned' /\ HasTarget'
  BY <1>13 DEF Begin, Stores, Steps, Possessions, Versioned, HasTarget, held, calls, Changed,
     Drafts
<1>14. ASSUME ForgetToken PROVE Versioned' /\ HasTarget'
  BY <1>14 DEF ForgetToken, Stores, Steps, Possessions, Versioned, HasTarget, calls
<1>15. ASSUME ForgetKey PROVE Versioned' /\ HasTarget'
  BY <1>15 DEF ForgetKey, Stores, Steps, Possessions, Versioned, HasTarget, calls
<1>16. ASSUME Warm PROVE Versioned' /\ HasTarget'
  BY <1>16 DEF Warm, Stores, Steps, Possessions, Versioned, HasTarget, held, calls
<1>17. ASSUME WarmParses PROVE Versioned' /\ HasTarget'
  <2>1. draft \in 1..versions
    BY <1>17, ThereIsAVersion DEF WarmParses, HasTarget, Ranges
  <2> QED
    BY <1>17, <2>1, SecretIsSource DEF WarmParses, Versioned, HasTarget, secrets, calls
<1>18. ASSUME Refuse PROVE Versioned' /\ HasTarget'
  BY <1>18 DEF Refuse, Stores, Steps, Possessions, Versioned, HasTarget, held, calls
<1>19. ASSUME Retain PROVE Versioned' /\ HasTarget'
  BY <1>19 DEF Retain, Stores, Steps, Possessions, Versioned, HasTarget, calls
<1>20. ASSUME RetainKey PROVE Versioned' /\ HasTarget'
  BY <1>20 DEF RetainKey, Stores, Steps, Possessions, Versioned, HasTarget, calls
<1>21. ASSUME Swap PROVE Versioned' /\ HasTarget'
  BY <1>21 DEF Swap, Stores, Steps, Possessions, Versioned, HasTarget, held, calls
<1>22. ASSUME Age \/ Rotate PROVE Versioned' /\ HasTarget'
  BY <1>1, <1>22 DEF Age, Rotate, held, secrets, calls, reload
<1>23. CASE UNCHANGED vars
  BY <1>1, <1>23 DEF vars, held, secrets, calls, reload
<1> QED
  BY <1>1, <1>2, <1>3, <1>4, <1>5, <1>6, <1>7, <1>8, <1>9, <1>10, <1>11, <1>12, <1>13, <1>14,
     <1>15, <1>16, <1>17, <1>18, <1>19, <1>20, <1>21, <1>22, <1>23 DEF Next, CallStep,
     ReloadStep

\* No step brings back what a reload has forgotten, unless it is noted as disturbed.
LEMMA StepForgets ==
  ASSUME Flags, Ranges, Stores, Steps, Possessions, Versioned, HasTarget,
         ~disturbed => Forgetting, [Next]_vars
  PROVE  ~disturbed' => Forgetting'
<1>1. ASSUME UNCHANGED <<key, minted, cache, policy, stage, draft, disturbed>>
      PROVE ~disturbed' => Forgetting'
  BY <1>1 DEF Forgetting, TokenOf, KeyOf
<1>2. ASSUME NEW c \in Calls, ParseKey(c) PROVE ~disturbed' => Forgetting'
  BY <1>2, SecretIsSource, SnapshotIsVersion DEF ParseKey, Forgetting, TokenOf, KeyOf, reload,
     OutOfStep, Steps
<1>3. ASSUME NEW c \in Calls, Mint(c) PROVE ~disturbed' => Forgetting'
  <2> SUFFICES ASSUME ~disturbed' PROVE Forgetting'
    OBVIOUS
  <2>1. ~disturbed /\ stage = "no" /\ using[c].version = policy
    BY <1>3 DEF Mint, OutOfStep
  <2>2. cache' = Len(minted) + 1 /\ minted'[cache'] = using[c]
    BY <1>3 DEF Mint, Stores, Possessions
  <2> QED
    BY <1>3, <2>1, <2>2 DEF Mint, Forgetting, TokenOf, KeyOf, reload
<1>4. ASSUME NEW c \in Calls, RecordFails(c) PROVE ~disturbed' => Forgetting'
  BY <1>4 DEF RecordFails, Forgetting, TokenOf, KeyOf, reload
<1>5. ASSUME NEW c \in Calls, NEW status \in {200, 401}, Answered(c, status)
      PROVE ~disturbed' => Forgetting'
  <2>1. UNCHANGED <<key, minted, policy, draft, stage, disturbed>> /\ cache' \in {0, cache}
    BY <1>5 DEF Answered, reload
  <2> QED
    BY <2>1 DEF Forgetting, TokenOf, KeyOf
<1>6. ASSUME NEW v \in Drafts, NEW fresh \in BOOLEAN, Begin(v, fresh)
      PROVE ~disturbed' => Forgetting'
  <2> SUFFICES ASSUME ~disturbed' PROVE Forgetting'
    OBVIOUS
  <2>1. TokenOf(policy) /\ KeyOf(policy)
    BY <1>6 DEF Begin, Forgetting
  <2>2. policy = 0 => cache = 0 /\ key = None
    BY <2>1 DEF TokenOf, KeyOf, Versioned, Stores
  <2> QED
    BY <1>6, <2>1, <2>2 DEF Begin, Forgetting, TokenOf, KeyOf, Changed, held, calls
<1>7. ASSUME ForgetToken PROVE ~disturbed' => Forgetting'
  BY <1>7 DEF ForgetToken, Forgetting, TokenOf, KeyOf
<1>8. ASSUME ForgetKey PROVE ~disturbed' => Forgetting'
  BY <1>8 DEF ForgetKey, Forgetting, TokenOf, KeyOf
<1>9. ASSUME Warm PROVE ~disturbed' => Forgetting'
  BY <1>9 DEF Warm, Forgetting, TokenOf, KeyOf, held
<1>10. ASSUME WarmParses PROVE ~disturbed' => Forgetting'
  <2>1. draft \in 1..versions
    BY <1>10, ThereIsAVersion DEF WarmParses, HasTarget, Ranges
  <2> QED
    BY <1>10, <2>1, SecretIsSource DEF WarmParses, Forgetting, TokenOf, KeyOf, secrets, calls
<1>11. ASSUME Refuse PROVE ~disturbed' => Forgetting'
  BY <1>11 DEF Refuse, Forgetting, TokenOf, KeyOf, held
<1>12. ASSUME Retain PROVE ~disturbed' => Forgetting'
  BY <1>12 DEF Retain, Forgetting, TokenOf, KeyOf
<1>13. ASSUME RetainKey PROVE ~disturbed' => Forgetting'
  BY <1>13 DEF RetainKey, Forgetting, TokenOf, KeyOf
<1>14. ASSUME Swap PROVE ~disturbed' => Forgetting'
  BY <1>14 DEF Swap, Forgetting, TokenOf, KeyOf, held
<1>15. ASSUME NEW c \in Calls, TakeSnapshot(c) \/ LookInCache(c) \/ PassGate(c) \/
     LookUpKey(c) \/ Fail(c) \/ Cancel(c) \/ Record(c) PROVE ~disturbed' => Forgetting'
  BY <1>1, <1>15 DEF TakeSnapshot, LookInCache, PassGate, LookUpKey, Fail, Cancel, Record, held,
     secrets, calls, reload
<1>16. ASSUME Age \/ Rotate PROVE ~disturbed' => Forgetting'
  BY <1>1, <1>16 DEF Age, Rotate, held, secrets, calls, reload
<1>17. CASE UNCHANGED vars
  BY <1>1, <1>17 DEF vars, held, secrets, calls, reload
<1> QED
  BY <1>1, <1>2, <1>3, <1>4, <1>5, <1>6, <1>7, <1>8, <1>9, <1>10, <1>11, <1>12, <1>13, <1>14,
     <1>15, <1>16, <1>17 DEF Next, CallStep, ReloadStep

\* The invariant is inductive.
LEMMA StepOK == TypeOK /\ Inv /\ [Next]_vars => TypeOK' /\ Inv'
<1> SUFFICES ASSUME TypeOK, Inv, [Next]_vars PROVE TypeOK' /\ Inv'
  OBVIOUS
<1>1. Flags /\ Ranges /\ Stages /\ Stores /\ Steps /\ Possessions
  BY TypeParts
<1>2. Flags' /\ Ranges' /\ Stages' /\ Stores' /\ Steps' /\ Possessions'
  BY <1>1, StepKeepsFlags, StepKeepsRanges, StepKeepsStages, StepKeepsStores,
     StepKeepsSteps, StepKeepsPossessions
     DEF Inv
<1>3. TypeOK'
  BY <1>2 DEF TypeOK, Flags, Ranges, Stages, Stores, Steps, Possessions
<1>4. Inv'
  BY <1>1, StepKeepsGate, StepKeepsVersions, StepForgets DEF Inv
<1> QED
  BY <1>3, <1>4

\* So it always holds.
LEMMA Invariant == Spec => [](TypeOK /\ Inv)
BY InitOK, StepOK, PTL DEF Spec

\* Only the holder of the gate mints, and there is nothing to use while it does.
LEMMA MintsWhenCold == TypeOK /\ Inv /\ [Next]_vars => [Len(minted') > Len(minted) => ~Cached]_vars
<1> SUFFICES ASSUME TypeOK, Inv, [Next]_vars, Len(minted') > Len(minted) PROVE ~Cached
  OBVIOUS
<1>1. Len(minted) \in Nat
  BY TypeParts, LenIsNat
<1>2. minted' # minted
  BY <1>1
<1>3. PICK c \in Calls : Mint(c)
  BY <1>2 DEF Next, CallStep, ReloadStep, TakeSnapshot, LookInCache, PassGate, LookUpKey, ParseKey,
     Fail, Cancel, Record, RecordFails, Answered, Begin, ForgetToken, ForgetKey, Warm, WarmParses,
     Refuse, Retain, RetainKey, Swap, Age, Rotate, held, secrets, calls, reload, vars
<1> QED
  BY <1>3 DEF Mint, Inv, ColdWhileMinting

-----------------------------------------------------------------------------
\* The cache holds one token of one auth, the policy's, whatever calls and reloads do to
\* each other, unless a call minted for the policy before or a reload was refused at its end.
THEOREM Current == Spec => []TheCacheIsCurrent
<1>1. TypeOK /\ Inv => TheCacheIsCurrent
  BY DEF Inv, Forgetting, TokenOf, KeyOf, TheCacheIsCurrent, NothingOldIsKept
<1> QED
  BY <1>1, Invariant, PTL

\* A burst of requests on a cold cache mints one token: nobody mints while there is one.
THEOREM MintsOnce == Spec => MintsOnlyWhenNeeded
<1> QED
  BY MintsWhenCold, Invariant, PTL DEF Spec, MintsOnlyWhenNeeded

-----------------------------------------------------------------------------
\* Every set of numbers has a least one.
Less == {p \in Nat \X Nat : p[1] < p[2]}

LEMMA FirstIs ==
  ASSUME NEW S \in SUBSET Nat, S # {}
  PROVE  \E x \in S : \A y \in S : x <= y
<1>1. IsWellFoundedOn(Less, Nat)
  BY NatLessThanWellFounded DEF OpToRel, Less
<1>2. PICK x \in S : \A y \in S : ~(<<y, x>> \in Less)
  BY <1>1, WFMin
<1>3. \A y \in S : x <= y
  <2>1. ASSUME NEW y \in S, y < x PROVE FALSE
    <3>1. <<y, x>> \in Less
      BY <2>1 DEF Less
    <3> QED
      BY <1>2, <3>1
  <2> QED
    BY <2>1
<1> QED
  BY <1>3

-----------------------------------------------------------------------------
(* Verify: the invariant. *)

ReportStages == {"start", "attach", "call", "classify", "post", "opening", "list", "env", "spawn",
           "handshake", "ask", "tools", "kill", "judge", "done", "left"}
Outcomes == {"passed", "warned", "failed"}
Briefs == {"endpoint", "credential", "cannot resolve", "unreachable", "credential ok", "reachable",
           "redirected", "rejected", "not entitled", "no such endpoint", "rate limited", "http error",
           "wrong region", "no session", "session ok", "tools", "granted by a pattern",
           "reachable by acl", "acl default", "no acl rule", "no initialize rule"}
Line == [name : {"endpoint", "credential", "reach", "handshake", "tools", "policy"},
         outcome : Outcomes, brief : Briefs]
Reply == [status : Statuses \cup {"none"}, code : Codes, frame : Frames]

VTypes ==
  /\ config \in Configs /\ at \in ReportStages
  /\ report \in Seq(Line) /\ answer \in Reply
  /\ child \in {"none", "running", "ended"}
  /\ wrote \in Seq(Frames) /\ Len(wrote) \in 0..MaxFrames /\ heard \in 0..Len(wrote)
  /\ now \in {0, 1} /\ judged \in {0, 1} /\ late \in BOOLEAN

\* Which probe it is at which stage, and how much it has reported.
Short ==
  /\ at = "start" => report = <<>>
  /\ at \in {"attach", "post", "env"} => Len(report) = 1
  /\ at \in {"call", "classify", "opening", "spawn", "handshake"} => Len(report) = 2
  /\ at \in {"list", "ask", "tools", "left"} => Len(report) <= 3
  /\ at \in {"kill", "judge"} => Len(report) \in 1..4
  /\ at = "done" => Len(report) \in 1..5

Routes ==
  /\ at \in {"attach", "call", "classify"} => config.transport = "upstream"
  /\ at \in {"post", "opening", "list"} => config.transport = "remote"
  /\ at \in {"env", "spawn", "handshake", "ask", "tools", "kill"} => config.transport = "child"

\* The rules are judged last and once.
Before(n) == \A i \in 1..n : report[i].name # "policy"

JudgedLast ==
  /\ at # "done" => Before(Len(report))
  /\ at = "done" => /\ Before(Len(report) - 1)
                    /\ report[Len(report)] = PolicyStep(config, judged)

\* What was answered is what the facts allow, and what is said of it follows.
Honest(c, line) ==
  /\ line.name = "reach" /\ line.brief = "credential ok" => c.good
  /\ line.name = "handshake" /\ line.brief = "session ok" => c.good \/ c.transport = "child"
  /\ line.name = "reach" /\ line.brief = "rejected" /\ (c.probe \/ c.signed) => ~c.good
  /\ line.name = "reach" /\ line.brief = "not entitled" => IF c.good THEN ~c.entitled ELSE c.blunt

Claims ==
  /\ at = "classify" => [status |-> answer.status, code |-> answer.code] \in Answers(config)
  /\ at = "opening" => (answer.frame \in Opens => config.good)
  /\ \A i \in DOMAIN report : Honest(config, report[i])
  /\ at \in {"judge", "done"} /\ config.transport = "upstream" /\ config.probe /\ ~config.good =>
        \E i \in DOMAIN report : report[i].outcome # "passed"

\* The child: it runs only while it is spoken to, and what it answered is still unread, or was
\* reported, or came too late.  No answer was passed over, nor a line that is not text.
Seen(f) == \E j \in 1..heard : wrote[j] = f

Exchanged ==
  /\ at \notin {"handshake", "ask", "tools", "kill"} => child # "running"
  /\ at \in {"start", "env", "spawn"} \/ config.transport # "child" => wrote = <<>> /\ heard = 0
  /\ ~(Wrote("opened") /\ Wrote("unopened")) /\ ~(Wrote("tools") /\ Wrote("untooled"))
  /\ at = "handshake" => ~Seen("garbled") /\ ~Seen("opened") /\ ~Wrote("tools")
  /\ at = "ask" => ~Seen("garbled") /\ ~Wrote("tools") /\ Went("handshake", "passed")
  /\ at = "tools" => ~Seen("garbled") /\ ~Seen("tools") /\ Went("handshake", "passed")
  /\ at \in {"kill", "judge", "done"} /\ config.transport = "child" /\ ~late =>
        /\ InTime("opened") => Went("handshake", "passed")
        /\ InTime("tools") => Went("tools", "passed")
  /\ config.transport = "child" =>
        /\ Went("handshake", "passed") => \E f \in Opens : Wrote(f)
        /\ Went("tools", "passed") => \E f \in Lists : Wrote(f)

VInv == VTypes /\ Short /\ Routes /\ JudgedLast /\ Claims /\ Exchanged

-----------------------------------------------------------------------------
(* Reports grow by a line at a time. *)

LEMMA OneMore ==
  ASSUME report \in Seq(Line), NEW line \in Line, report' = Append(report, line)
  PROVE  /\ report' \in Seq(Line) /\ Len(report') = Len(report) + 1 /\ Len(report) \in Nat
         /\ DOMAIN report = 1..Len(report) /\ DOMAIN report' = 1..(Len(report) + 1)
         /\ \A i \in 1..Len(report) : report'[i] = report[i]
         /\ report'[Len(report) + 1] = line
OBVIOUS

LEMMA WentOn ==
  ASSUME report \in Seq(Line), NEW line \in Line, report' = Append(report, line),
         NEW name, NEW outcome
  PROVE  Went(name, outcome)' <=> Went(name, outcome) \/ (line.name = name /\ line.outcome = outcome)
<1>1. Went(name, outcome) <=> \E i \in 1..Len(report) : report[i].name = name /\ report[i].outcome = outcome
  BY DEF Went, LinesOf
<1>2. Went(name, outcome)' <=> \E i \in 1..(Len(report) + 1) : report'[i].name = name /\ report'[i].outcome = outcome
  BY OneMore DEF Went, LinesOf
<1> QED
  BY <1>1, <1>2, OneMore

LEMMA WentStays ==
  ASSUME UNCHANGED report, NEW name, NEW outcome
  PROVE  Went(name, outcome)' <=> Went(name, outcome)
BY DEF Went, LinesOf

\* What the child's lines are, after it wrote one, after one was read, and else.
LEMMA OneLineMore ==
  ASSUME VTypes, NEW f \in Frames, wrote' = Append(wrote, f), UNCHANGED heard
  PROVE  /\ wrote' \in Seq(Frames) /\ Len(wrote') = Len(wrote) + 1
         /\ \A g : Wrote(g)' <=> Wrote(g) \/ g = f
         /\ \A g : Seen(g)' <=> Seen(g)
<1>1. wrote \in Seq(Frames) /\ Len(wrote) \in Nat /\ heard \in 0..Len(wrote)
  BY DEF VTypes
<1>2. /\ wrote' \in Seq(Frames) /\ Len(wrote') = Len(wrote) + 1
      /\ DOMAIN wrote = 1..Len(wrote) /\ DOMAIN wrote' = 1..(Len(wrote) + 1)
      /\ \A i \in 1..Len(wrote) : wrote'[i] = wrote[i]
      /\ wrote'[Len(wrote) + 1] = f
  BY <1>1
<1>3. ASSUME NEW g PROVE Wrote(g)' <=> Wrote(g) \/ g = f
  <2>1. Wrote(g) <=> \E i \in 1..Len(wrote) : wrote[i] = g
    BY <1>2 DEF Wrote
  <2>2. Wrote(g)' <=> \E i \in 1..(Len(wrote) + 1) : wrote'[i] = g
    BY <1>2 DEF Wrote
  <2> QED
    BY <1>1, <1>2, <2>1, <2>2
<1>4. ASSUME NEW g PROVE Seen(g)' <=> Seen(g)
  <2>1. Seen(g)' <=> \E j \in 1..heard : wrote'[j] = g
    BY DEF Seen
  <2>2. \A j \in 1..heard : wrote'[j] = wrote[j]
    BY <1>1, <1>2
  <2> QED
    BY <2>1, <2>2 DEF Seen
<1> QED
  BY <1>2, <1>3, <1>4

LEMMA OneLineRead ==
  ASSUME VTypes, heard < Len(wrote), heard' = heard + 1, UNCHANGED wrote
  PROVE  /\ wrote[heard + 1] \in Frames /\ Wrote(wrote[heard + 1])
         /\ heard' \in 0..Len(wrote')
         /\ \A g : Seen(g)' <=> Seen(g) \/ g = wrote[heard + 1]
<1>1. /\ wrote \in Seq(Frames) /\ Len(wrote) \in Nat /\ heard \in 0..Len(wrote)
      /\ DOMAIN wrote = 1..Len(wrote) /\ heard + 1 \in 1..Len(wrote) /\ heard \in Nat
  BY DEF VTypes
<1>2. wrote[heard + 1] \in Frames /\ Wrote(wrote[heard + 1]) /\ heard' \in 0..Len(wrote')
  BY <1>1 DEF Wrote
<1>3. ASSUME NEW g PROVE Seen(g)' <=> Seen(g) \/ g = wrote[heard + 1]
  <2>1. Seen(g)' <=> \E j \in 1..(heard + 1) : wrote[j] = g
    BY DEF Seen
  <2>2. \A j : j \in 1..(heard + 1) <=> j \in 1..heard \/ j = heard + 1
    BY <1>1
  <2> QED
    BY <2>1, <2>2 DEF Seen
<1> QED
  BY <1>2, <1>3

LEMMA SameLines ==
  ASSUME UNCHANGED wrote
  PROVE  \A g : (Wrote(g)' <=> Wrote(g)) /\ (InTime(g)' <=> InTime(g))
BY DEF Wrote, InTime

LEMMA SameRead ==
  ASSUME UNCHANGED <<wrote, heard>>
  PROVE  \A g : Seen(g)' <=> Seen(g)
BY DEF Seen

LEMMA Beyond ==
  ASSUME NEW n \in Nat, NEW k \in 0..n, NEW i \in 1..n, ~(i \in 1..k)
  PROVE  k # n /\ (i # k + 1 => k + 1 \in 1..(i - 1))
OBVIOUS

\* What is in time is seen before all is read, and before a line that is not text.
LEMMA InTimeIsSeen ==
  ASSUME VTypes, NEW g, g # "garbled", ~Seen(g),
         heard = Len(wrote) \/ (heard < Len(wrote) /\ wrote[heard + 1] = "garbled")
  PROVE  ~InTime(g)
<1>1. Len(wrote) \in Nat /\ heard \in 0..Len(wrote) /\ DOMAIN wrote = 1..Len(wrote)
  BY DEF VTypes
<1> SUFFICES ASSUME NEW i \in DOMAIN wrote, wrote[i] = g, \A j \in 1..(i - 1) : wrote[j] # "garbled"
             PROVE  FALSE
  BY DEF InTime
<1>2. i \in 1..Len(wrote) /\ ~(i \in 1..heard)
  BY <1>1 DEF Seen
<1>3. heard # Len(wrote) /\ (i # heard + 1 => heard + 1 \in 1..(i - 1))
  BY <1>1, <1>2, Beyond
<1>4. wrote[heard + 1] = "garbled" /\ i # heard + 1
  BY <1>3
<1> QED
  BY <1>3, <1>4

LEMMA InTimeIsWritten == ASSUME NEW g, InTime(g) PROVE Wrote(g)
BY DEF InTime, Wrote

LEMMA SeenIsWritten ==
  ASSUME VTypes, NEW g, Seen(g)
  PROVE  Wrote(g)
<1>1. heard \in 0..Len(wrote) /\ wrote \in Seq(Frames) /\ DOMAIN wrote = 1..Len(wrote) /\ Len(wrote) \in Nat
  BY DEF VTypes
<1> QED
  BY <1>1 DEF Seen, Wrote

LEMMA NoLines ==
  ASSUME wrote = <<>>
  PROVE  \A g : ~Wrote(g) /\ ~InTime(g)
<1>1. DOMAIN wrote = {}
  OBVIOUS
<1> QED
  BY <1>1 DEF Wrote, InTime

LEMMA Longer ==
  ASSUME NEW n \in Nat, NEW m, m = n + 1, n <= 3
  PROVE  m \in 1..4
OBVIOUS

\* What a step of the verification that adds no line leaves.
LEMMA LineOn ==
  /\ \A name \in {"endpoint", "credential", "reach", "handshake", "tools", "policy"},
        outcome \in Outcomes, brief \in Briefs :
       /\ Step(name, outcome, brief) \in Line
       /\ Step(name, outcome, brief).name = name
       /\ Step(name, outcome, brief).outcome = outcome
       /\ Step(name, outcome, brief).brief = brief
BY DEF Step, Line

LEMMA PolicyLine ==
  ASSUME NEW c, NEW when
  PROVE  PolicyStep(c, when) \in Line /\ PolicyStep(c, when).name = "policy"
         /\ Honest(c, PolicyStep(c, when))
<1>1. \A kind : Reachability(c.policy, kind, c.name, when) \in Line
                /\ Reachability(c.policy, kind, c.name, when).name = "policy"
  <2>1. ASSUME NEW kind
        PROVE  Reachability(c.policy, kind, c.name, when) \in
                  {Step("policy", "warned", "granted by a pattern"), Step("policy", "passed", "reachable by acl"),
                   Step("policy", "passed", "acl default"), Step("policy", "warned", "no acl rule")}
    BY DEF Reachability
  <2>2. ASSUME NEW line \in {Step("policy", "warned", "granted by a pattern"), Step("policy", "passed", "reachable by acl"),
                   Step("policy", "passed", "acl default"), Step("policy", "warned", "no acl rule")}
        PROVE  line \in Line /\ line.name = "policy"
    <3>1. \A o \in {"warned", "passed"}, b \in {"granted by a pattern", "reachable by acl", "acl default", "no acl rule"} :
             Step("policy", o, b) \in Line /\ Step("policy", o, b).name = "policy"
      BY DEF Step, Line, Outcomes, Briefs
    <3> QED
      BY <2>2, <3>1
  <2> QED
    BY <2>1, <2>2
<1>2. PolicyStep(c, when) \in Line /\ PolicyStep(c, when).name = "policy"
    <2>1. /\ Step("policy", "warned", "no initialize rule") \in Line
        /\ Step("policy", "warned", "no initialize rule").name = "policy"
    BY LineOn DEF Outcomes, Briefs
  <2> QED
    BY <1>1, <2>1 DEF PolicyStep
<1> QED
  BY <1>2 DEF Honest

-----------------------------------------------------------------------------
(* The steps. *)

\* A line is added, at a stage before the last.
LEMMA Noted ==
  ASSUME VInv, NEW line \in Line, NEW next, Notes(line, next), UNCHANGED config,
         next \in ReportStages \ {"done"}, line.name # "policy", Honest(config, line), at # "done"
  PROVE  /\ report' \in Seq(Line) /\ Len(report') = Len(report) + 1 /\ Len(report) \in Nat
         /\ JudgedLast'
         /\ \A i \in DOMAIN report' : Honest(config', report'[i])
         /\ line.outcome # "passed" => \E i \in DOMAIN report' : report'[i].outcome # "passed"
         /\ \A name, outcome : Went(name, outcome)' <=>
               Went(name, outcome) \/ (line.name = name /\ line.outcome = outcome)
<1>1. report \in Seq(Line) /\ report' = Append(report, line) /\ at' = next
  BY DEF VInv, VTypes, Notes
<1>2. /\ report' \in Seq(Line) /\ Len(report') = Len(report) + 1 /\ Len(report) \in Nat
      /\ DOMAIN report = 1..Len(report) /\ DOMAIN report' = 1..(Len(report) + 1)
      /\ \A i \in 1..Len(report) : report'[i] = report[i]
      /\ report'[Len(report) + 1] = line
  BY <1>1, OneMore
<1>3. JudgedLast'
  BY <1>1, <1>2 DEF VInv, JudgedLast, Before
<1>4. \A i \in DOMAIN report' : Honest(config', report'[i])
  <2>1. \A i \in 1..Len(report) : Honest(config, report[i])
    BY <1>2 DEF VInv, Claims
  <2> QED
    BY <2>1, <1>2
<1>5. line.outcome # "passed" => \E i \in DOMAIN report' : report'[i].outcome # "passed"
  BY <1>2
<1>6. \A name, outcome : Went(name, outcome)' <=>
               Went(name, outcome) \/ (line.name = name /\ line.outcome = outcome)
  BY <1>1, WentOn
<1> QED
  BY <1>2, <1>3, <1>4, <1>5, <1>6

\* A failed line, and the rules are next.
LEMMA GaveUp ==
  ASSUME VInv, NEW line \in Line, GivesUp(line), line.outcome = "failed", line.brief # "rejected",
         line.brief \notin {"session ok", "credential ok", "not entitled"}, line.name # "policy",
         at \notin {"handshake", "ask", "tools", "kill", "judge", "done", "left"},
         Len(report) <= 3, UNCHANGED <<config, childs, late, now, judged>>, answer' \in Reply
  PROVE  VInv'
<1>1. Honest(config, line)
  BY DEF Honest
<1>2. Notes(line, "judge")
  BY DEF GivesUp
<1>a. /\ report' \in Seq(Line) /\ Len(report') = Len(report) + 1 /\ Len(report) \in Nat
  BY <1>1, <1>2, Noted DEF ReportStages
<1>3. /\ report' \in Seq(Line)
      /\ JudgedLast'
      /\ \A i \in DOMAIN report' : Honest(config', report'[i])
      /\ \E i \in DOMAIN report' : report'[i].outcome # "passed"
      /\ \A name, outcome : Went(name, outcome)' <=>
               Went(name, outcome) \/ (line.name = name /\ line.outcome = outcome)
  BY <1>1, <1>2, Noted DEF ReportStages
<1>4. at' = "judge"
  BY <1>2 DEF Notes
<1>5. VTypes'
  BY <1>3, <1>4 DEF VInv, VTypes, childs, ReportStages
<1>6. Short'
  <2>1. Len(report') \in 1..4
    BY <1>a, Longer
  <2> QED
    BY <1>4, <2>1 DEF Short
<1>7. Routes'
  BY <1>4 DEF Routes
<1>8. Claims'
  BY <1>3, <1>4 DEF Claims
<1>9. wrote = <<>> /\ heard = 0 /\ child # "running" /\ UNCHANGED childs
  BY DEF VInv, VTypes, ReportStages, Routes, Exchanged
<1>10. Exchanged'
  <2>0. wrote' = <<>> /\ heard' = 0 /\ child' # "running"
    BY <1>9 DEF childs
  <2>a. \A g : ~Wrote(g) /\ ~Wrote(g)' /\ ~InTime(g)'
    BY <1>9, <2>0, NoLines, SameLines
  <2>1. ASSUME NEW name PROVE Went(name, "passed")' <=> Went(name, "passed")
    <3>1. Went(name, "passed")' <=> Went(name, "passed") \/ (line.name = name /\ line.outcome = "passed")
      BY <1>3
    <3> QED
      BY <3>1
  <2> QED
    BY <1>4, <2>0, <2>a, <2>1 DEF VInv, VTypes, ReportStages, Routes, Exchanged
<1> QED
  BY <1>3, <1>5, <1>6, <1>7, <1>8, <1>10 DEF VInv

\* A stage passed, with a line that passed or warned.
LEMMA Passed ==
  ASSUME VInv, NEW line \in Line, NEW next, Notes(line, next), line.outcome # "failed",
         next \in {"attach", "call", "post", "list", "env", "spawn"},
         line.name \notin {"policy", "reach"}, Honest(config, line), answer' \in Reply,
         at = "start" => next \in {"attach", "post", "env"},
         at \in {"attach", "env"} => next \in {"call", "spawn"},
         at = "opening" => next = "list",
         next \in {"env", "spawn"} => line.name \notin {"handshake", "tools"},
         at \in {"start", "attach", "env", "opening"},
         next \in {"attach", "call"} => config.transport = "upstream",
         next \in {"post", "list"} => config.transport = "remote",
         next \in {"env", "spawn"} => config.transport = "child",
         UNCHANGED <<config, childs, late, now, judged>>
  PROVE  VInv'
<1>1. /\ report' \in Seq(Line) /\ Len(report') = Len(report) + 1 /\ Len(report) \in Nat
  BY Noted DEF ReportStages
<1>2. /\ JudgedLast'
      /\ \A i \in DOMAIN report' : Honest(config', report'[i])
  BY Noted DEF ReportStages
<1>3. ASSUME NEW name, NEW outcome
      PROVE  Went(name, outcome)' <=> Went(name, outcome) \/ (line.name = name /\ line.outcome = outcome)
  BY Noted DEF ReportStages
<1>4. at' = next
  BY DEF Notes
<1>5. VTypes'
  BY <1>1, <1>4 DEF VInv, VTypes, childs, ReportStages
<1>6. Short'
  <2>1. report = <<>> => Len(report) = 0
    OBVIOUS
  <2>2. CASE at = "start"
    <3>1. Len(report') = 1
      BY <1>1, <2>1, <2>2 DEF VInv, Short
    <3> QED
      BY <1>4, <2>2, <3>1 DEF Short
  <2>3. CASE at \in {"attach", "env"}
    <3>0. Len(report) = 1
      BY <2>3 DEF VInv, Short
    <3>1. Len(report') = 2
      BY <1>1, <3>0
    <3> QED
      BY <1>4, <2>3, <3>1 DEF Short
  <2>4. CASE at = "opening"
    <3>0. Len(report) = 2
      BY <2>4 DEF VInv, Short
    <3>1. Len(report') = 3
      BY <1>1, <3>0
    <3> QED
      BY <1>4, <2>4, <3>1 DEF Short
  <2> QED
    BY <2>2, <2>3, <2>4
<1>7. Routes'
  BY <1>4 DEF Routes
<1>8. Claims'
  BY <1>2, <1>4 DEF Claims
<1>9. wrote = <<>> /\ heard = 0
  BY DEF VInv, VTypes, ReportStages, Routes, Exchanged
<1>10. Exchanged'
  <2>1. child # "running" /\ UNCHANGED childs
    BY DEF VInv, Exchanged, childs
  <2>2. config.transport = "child" => next \in {"env", "spawn"}
    BY DEF VInv, VTypes, ReportStages, Routes
  <2>3. config.transport = "child" => ~Went("handshake", "passed") /\ ~Went("tools", "passed")
    BY <1>9, NoLines DEF VInv, Exchanged
  <2>4. config'.transport = "child" => ~Went("handshake", "passed")' /\ ~Went("tools", "passed")'
    BY <1>3, <2>2, <2>3
  <2>5. wrote' = <<>> /\ heard' = 0
    BY <1>9 DEF childs
  <2>6. \A g : ~Wrote(g)'
    BY <1>9, <2>5, NoLines, SameLines
  <2> QED
    BY <1>4, <2>1, <2>4, <2>5, <2>6 DEF Exchanged, childs
<1> QED
  BY <1>2, <1>5, <1>6, <1>7, <1>8, <1>10 DEF VInv

LEMMA BuildKeeps == VInv /\ Build => VInv'
<1> SUFFICES ASSUME VInv, Build PROVE VInv'
  OBVIOUS
<1>1. answer' \in Reply /\ at = "start" /\ report = <<>> /\ config.transport = "upstream"
      /\ UNCHANGED <<config, answer, childs, late, now, judged>>
  BY DEF Build, VInv, VTypes, Short
<1>2. Len(report) <= 3
  BY <1>1
<1>3. CASE config.wellFormed
  <2>1. PICK outcome \in {"passed", "warned"} : Notes(Step("endpoint", outcome, "endpoint"), "attach")
    BY <1>3 DEF Build
  <2>2. /\ Step("endpoint", outcome, "endpoint") \in Line
        /\ Step("endpoint", outcome, "endpoint").name = "endpoint"
        /\ Step("endpoint", outcome, "endpoint").outcome = outcome
    BY DEF Step, Line, Outcomes, Briefs
  <2>3. Honest(config, Step("endpoint", outcome, "endpoint"))
    BY <2>2 DEF Honest
  <2> HIDE DEF Step
  <2> QED
    BY <1>1, <2>1, <2>2, <2>3, Passed
<1>4. CASE ~config.wellFormed
  <2>1. GivesUp(Step("endpoint", "failed", "endpoint"))
    BY <1>4 DEF Build
  <2>2. Step("endpoint", "failed", "endpoint") \in Line
    BY DEF Step, Line, Outcomes, Briefs
  <2>3. /\ Step("endpoint", "failed", "endpoint").name = "endpoint"
        /\ Step("endpoint", "failed", "endpoint").outcome = "failed"
        /\ Step("endpoint", "failed", "endpoint").brief = "endpoint"
    BY DEF Step
  <2> QED
    BY <1>1, <1>2, <2>1, <2>2, <2>3, GaveUp
<1> QED
  BY <1>3, <1>4

LEMMA AttachKeeps == VInv /\ Attach => VInv'
<1> SUFFICES ASSUME VInv, Attach PROVE VInv'
  OBVIOUS
<1>1. answer' \in Reply /\ at = "attach" /\ config.transport = "upstream"
      /\ UNCHANGED <<config, answer, childs, late, now, judged>>
  BY DEF Attach, VInv, VTypes, Routes
<1>2. Len(report) <= 3
  <2>1. Len(report) = 1
    BY <1>1 DEF VInv, Short
  <2> QED
    BY <2>1
<1>3. CASE config.resolves
  <2>1. Notes(Step("credential", "passed", "credential"), "call")
    BY <1>3 DEF Attach
  <2>2. /\ Step("credential", "passed", "credential") \in Line
        /\ Step("credential", "passed", "credential").name = "credential"
        /\ Step("credential", "passed", "credential").outcome = "passed"
        /\ Step("credential", "passed", "credential").brief = "credential"
    BY DEF Step, Line, Outcomes, Briefs
  <2>3. Honest(config, Step("credential", "passed", "credential"))
    BY <2>2 DEF Honest
  <2> HIDE DEF Step
  <2> QED
    BY <1>1, <2>1, <2>2, <2>3, Passed
<1>4. CASE ~(config.resolves)
  <2>1. GivesUp(Step("credential", "failed", "cannot resolve"))
    BY <1>4 DEF Attach
  <2>2. Step("credential", "failed", "cannot resolve") \in Line
    BY DEF Step, Line, Outcomes, Briefs
  <2>3. /\ Step("credential", "failed", "cannot resolve").name = "credential"
        /\ Step("credential", "failed", "cannot resolve").outcome = "failed"
        /\ Step("credential", "failed", "cannot resolve").brief = "cannot resolve"
    BY DEF Step
  <2> QED
    BY <1>1, <1>2, <2>1, <2>2, <2>3, GaveUp
<1> QED
  BY <1>3, <1>4

LEMMA DialKeeps == VInv /\ Dial => VInv'
<1> SUFFICES ASSUME VInv, Dial PROVE VInv'
  OBVIOUS
<1>1. answer' \in Reply /\ at = "start" /\ config.transport = "remote"
      /\ UNCHANGED <<config, answer, childs, late, now, judged>>
  BY DEF Dial, VInv, VTypes, Routes
<1>2. Len(report) <= 3
  <2>1. report = <<>>
    BY <1>1 DEF VInv, Short
  <2> QED
    BY <2>1
<1>3. CASE config.wellFormed
  <2>1. Notes(Step("endpoint", "passed", "endpoint"), "post")
    BY <1>3 DEF Dial
  <2>2. /\ Step("endpoint", "passed", "endpoint") \in Line
        /\ Step("endpoint", "passed", "endpoint").name = "endpoint"
        /\ Step("endpoint", "passed", "endpoint").outcome = "passed"
        /\ Step("endpoint", "passed", "endpoint").brief = "endpoint"
    BY DEF Step, Line, Outcomes, Briefs
  <2>3. Honest(config, Step("endpoint", "passed", "endpoint"))
    BY <2>2 DEF Honest
  <2> HIDE DEF Step
  <2> QED
    BY <1>1, <2>1, <2>2, <2>3, Passed
<1>4. CASE ~(config.wellFormed)
  <2>1. GivesUp(Step("endpoint", "failed", "endpoint"))
    BY <1>4 DEF Dial
  <2>2. Step("endpoint", "failed", "endpoint") \in Line
    BY DEF Step, Line, Outcomes, Briefs
  <2>3. /\ Step("endpoint", "failed", "endpoint").name = "endpoint"
        /\ Step("endpoint", "failed", "endpoint").outcome = "failed"
        /\ Step("endpoint", "failed", "endpoint").brief = "endpoint"
    BY DEF Step
  <2> QED
    BY <1>1, <1>2, <2>1, <2>2, <2>3, GaveUp
<1> QED
  BY <1>3, <1>4

LEMMA OpenSessionKeeps == VInv /\ OpenSession => VInv'
<1> SUFFICES ASSUME VInv, OpenSession PROVE VInv'
  OBVIOUS
<1>1. answer' \in Reply /\ at = "opening" /\ config.transport = "remote"
      /\ UNCHANGED <<config, answer, childs, late, now, judged>>
  BY DEF OpenSession, VInv, VTypes, Routes
<1>2. Len(report) <= 3
  <2>1. Len(report) = 2
    BY <1>1 DEF VInv, Short
  <2> QED
    BY <2>1
<1>3. CASE answer.frame \in Opens
  <2>1. Notes(Step("handshake", "passed", "session ok"), "list")
    BY <1>3 DEF OpenSession
  <2>2. /\ Step("handshake", "passed", "session ok") \in Line
        /\ Step("handshake", "passed", "session ok").name = "handshake"
        /\ Step("handshake", "passed", "session ok").outcome = "passed"
        /\ Step("handshake", "passed", "session ok").brief = "session ok"
    BY DEF Step, Line, Outcomes, Briefs
  <2>3. Honest(config, Step("handshake", "passed", "session ok"))
    BY <1>1, <1>3, <2>2 DEF Honest, VInv, Claims
  <2> HIDE DEF Step
  <2> QED
    BY <1>1, <2>1, <2>2, <2>3, Passed
<1>4. CASE ~(answer.frame \in Opens)
  <2>1. GivesUp(Step("handshake", "failed", "no session"))
    BY <1>4 DEF OpenSession
  <2>2. Step("handshake", "failed", "no session") \in Line
    BY DEF Step, Line, Outcomes, Briefs
  <2>3. /\ Step("handshake", "failed", "no session").name = "handshake"
        /\ Step("handshake", "failed", "no session").outcome = "failed"
        /\ Step("handshake", "failed", "no session").brief = "no session"
    BY DEF Step
  <2> QED
    BY <1>1, <1>2, <2>1, <2>2, <2>3, GaveUp
<1> QED
  BY <1>3, <1>4

LEMMA PrepareKeeps == VInv /\ Prepare => VInv'
<1> SUFFICES ASSUME VInv, Prepare PROVE VInv'
  OBVIOUS
<1>1. answer' \in Reply /\ at = "start" /\ config.transport = "child"
      /\ UNCHANGED <<config, answer, childs, late, now, judged>>
  BY DEF Prepare, VInv, VTypes, Routes
<1>2. Len(report) <= 3
  <2>1. report = <<>>
    BY <1>1 DEF VInv, Short
  <2> QED
    BY <2>1
<1>3. CASE config.wellFormed
  <2>1. Notes(Step("endpoint", "passed", "endpoint"), "env")
    BY <1>3 DEF Prepare
  <2>2. /\ Step("endpoint", "passed", "endpoint") \in Line
        /\ Step("endpoint", "passed", "endpoint").name = "endpoint"
        /\ Step("endpoint", "passed", "endpoint").outcome = "passed"
        /\ Step("endpoint", "passed", "endpoint").brief = "endpoint"
    BY DEF Step, Line, Outcomes, Briefs
  <2>3. Honest(config, Step("endpoint", "passed", "endpoint"))
    BY <2>2 DEF Honest
  <2> HIDE DEF Step
  <2> QED
    BY <1>1, <2>1, <2>2, <2>3, Passed
<1>4. CASE ~(config.wellFormed)
  <2>1. GivesUp(Step("endpoint", "failed", "endpoint"))
    BY <1>4 DEF Prepare
  <2>2. Step("endpoint", "failed", "endpoint") \in Line
    BY DEF Step, Line, Outcomes, Briefs
  <2>3. /\ Step("endpoint", "failed", "endpoint").name = "endpoint"
        /\ Step("endpoint", "failed", "endpoint").outcome = "failed"
        /\ Step("endpoint", "failed", "endpoint").brief = "endpoint"
    BY DEF Step
  <2> QED
    BY <1>1, <1>2, <2>1, <2>2, <2>3, GaveUp
<1> QED
  BY <1>3, <1>4

LEMMA ResolveEnvKeeps == VInv /\ ResolveEnv => VInv'
<1> SUFFICES ASSUME VInv, ResolveEnv PROVE VInv'
  OBVIOUS
<1>1. answer' \in Reply /\ at = "env" /\ config.transport = "child"
      /\ UNCHANGED <<config, answer, childs, late, now, judged>>
  BY DEF ResolveEnv, VInv, VTypes, Routes
<1>2. Len(report) <= 3
  <2>1. Len(report) = 1
    BY <1>1 DEF VInv, Short
  <2> QED
    BY <2>1
<1>3. CASE config.resolves
  <2>1. Notes(Step("credential", "passed", "credential"), "spawn")
    BY <1>3 DEF ResolveEnv
  <2>2. /\ Step("credential", "passed", "credential") \in Line
        /\ Step("credential", "passed", "credential").name = "credential"
        /\ Step("credential", "passed", "credential").outcome = "passed"
        /\ Step("credential", "passed", "credential").brief = "credential"
    BY DEF Step, Line, Outcomes, Briefs
  <2>3. Honest(config, Step("credential", "passed", "credential"))
    BY <2>2 DEF Honest
  <2> HIDE DEF Step
  <2> QED
    BY <1>1, <2>1, <2>2, <2>3, Passed
<1>4. CASE ~(config.resolves)
  <2>1. GivesUp(Step("credential", "failed", "cannot resolve"))
    BY <1>4 DEF ResolveEnv
  <2>2. Step("credential", "failed", "cannot resolve") \in Line
    BY DEF Step, Line, Outcomes, Briefs
  <2>3. /\ Step("credential", "failed", "cannot resolve").name = "credential"
        /\ Step("credential", "failed", "cannot resolve").outcome = "failed"
        /\ Step("credential", "failed", "cannot resolve").brief = "cannot resolve"
    BY DEF Step
  <2> QED
    BY <1>1, <1>2, <2>1, <2>2, <2>3, GaveUp
<1> QED
  BY <1>3, <1>4

LEMMA CallKeeps == VInv /\ Call => VInv'
<1> SUFFICES ASSUME VInv, Call PROVE VInv'
  OBVIOUS
<1>1. PICK a \in Answers(config) : answer' = [status |-> a.status, code |-> a.code, frame |-> "noise"]
  BY DEF Call, Followed
<1>2. /\ at = "call" /\ at' = "classify" /\ config.transport = "upstream"
      /\ UNCHANGED <<config, report, childs, late, now, judged>>
  BY DEF Call, VInv, Routes
<1>3. /\ a.status \in Statuses \cup {"none"} /\ a.code \in Codes
      /\ a = [status |-> a.status, code |-> a.code]
  BY DEF Answers, Statuses, Codes
<1>4. answer' \in Reply /\ [status |-> answer'.status, code |-> answer'.code] \in Answers(config)'
  <2>1. Answers(config)' = Answers(config)
    BY <1>2
  <2>2. answer'.status = a.status /\ answer'.code = a.code
    BY <1>1
  <2> QED
    BY <1>1, <1>3, <2>1, <2>2 DEF Reply, Frames
<1>5. VTypes' /\ Short' /\ Routes'
  BY <1>2, <1>4 DEF VInv, VTypes, Short, Routes, ReportStages, childs
<1>6. JudgedLast'
  BY <1>2 DEF VInv, JudgedLast, Before
<1>7. Claims'
  BY <1>2, <1>4 DEF VInv, Claims
<1>8. Exchanged'
  BY <1>2 DEF VInv, Exchanged, childs, Wrote, InTime, Seen, Went, LinesOf
<1> QED
  BY <1>5, <1>6, <1>7, <1>8 DEF VInv

LEMMA ReachLines ==
  ASSUME NEW outcome \in Outcomes, NEW brief \in Briefs
  PROVE  /\ Step("reach", outcome, brief) \in Line /\ Step("reach", outcome, brief).name = "reach"
         /\ Step("reach", outcome, brief).outcome = outcome /\ Step("reach", outcome, brief).brief = brief
BY DEF Step, Line

\* What a service's answers let a report say.
Fits(c, line) ==
  /\ line \in Line /\ line.name = "reach" /\ Honest(c, line)
  /\ c.probe /\ ~c.good => line.outcome # "passed"

Said(c, a) == IF c.signed /\ a.status # "none" THEN ClassifiedStore(a, c.probe)
              ELSE Classified(a.status, c.probe)

LEMMA FittingLines ==
  ASSUME NEW c
  PROVE  /\ c.good => Fits(c, Step("reach", "passed", "credential ok"))
         /\ Fits(c, Step("reach", "failed", "wrong region"))
         /\ Fits(c, Step("reach", "failed", "unreachable"))
         /\ (c.probe \/ c.signed => ~c.good) => Fits(c, Step("reach", "failed", "rejected"))
         /\ (c.probe => c.good) => Fits(c, Step("reach", "passed", "reachable"))
         /\ (IF c.good THEN ~c.entitled ELSE c.blunt) => Fits(c, Step("reach", "warned", "not entitled"))
         /\ \A brief \in {"redirected", "no such endpoint", "rate limited", "http error"} :
               Fits(c, Step("reach", "warned", brief))
<1>1. ASSUME NEW outcome \in Outcomes, NEW brief \in Briefs,
             brief = "credential ok" => c.good,
             brief = "rejected" /\ (c.probe \/ c.signed) => ~c.good,
             brief = "not entitled" => IF c.good THEN ~c.entitled ELSE c.blunt,
             c.probe /\ ~c.good => outcome # "passed"
      PROVE  Fits(c, Step("reach", outcome, brief))
  BY <1>1, ReachLines DEF Fits, Honest
<1> QED
  BY <1>1 DEF Outcomes, Briefs

LEMMA AnswersFit ==
  ASSUME NEW c \in Config, c.transport = "upstream", NEW a \in Answers(c)
  PROVE  Fits(c, Said(c, a))
<1>1. a.status \in Statuses \cup {"none"} /\ a.code \in Codes
  BY DEF Answers, Statuses, Codes
<1>2. /\ a.code # "none" => c.signed /\ a.status = "forbidden"
      /\ a.code = "AccessDenied" => c.good
      /\ a.code = "InvalidAccessKeyId" => ~c.good
      /\ a.status = "success" /\ (c.probe \/ c.signed) => c.good
      /\ a.status = "unauthorized" /\ (c.probe \/ c.signed) => ~c.good
      /\ a.status = "forbidden" /\ a.code = "none" /\ c.probe => IF c.good THEN ~c.entitled ELSE c.blunt
  BY DEF Answers, Config
<1>3. ASSUME a.code = "none" PROVE Fits(c, Classified(a.status, c.probe))
  <2>1. CASE a.status \in {"none", "redirect", "error"}
    BY <2>1, FittingLines DEF Classified
  <2>2. CASE a.status = "success"
    BY <1>2, <2>2, FittingLines DEF Classified
  <2>3. CASE a.status = "unauthorized"
    BY <1>2, <2>3, FittingLines DEF Classified
  <2>4. CASE a.status \in {"forbidden", "missing", "limited"} /\ c.probe
    BY <1>2, <1>3, <2>4, FittingLines DEF Classified
  <2>5. CASE a.status \in {"forbidden", "missing", "limited"} /\ ~c.probe
    BY <2>5, FittingLines DEF Classified
  <2> QED
    BY <1>1, <2>1, <2>2, <2>3, <2>4, <2>5 DEF Statuses
<1>4. CASE ~(c.signed /\ a.status # "none")
  BY <1>1, <1>2, <1>3, <1>4 DEF Said
<1>5. CASE c.signed /\ a.status # "none"
  <2>1. Said(c, a) = ClassifiedStore(a, c.probe)
    BY <1>5 DEF Said
  <2>2. CASE a.status = "success" \/ a.code = "AccessDenied"
    BY <1>2, <1>5, <2>1, <2>2, FittingLines DEF ClassifiedStore
  <2>3. CASE a.status # "success" /\ a.code = "InvalidAccessKeyId"
    BY <1>2, <2>1, <2>3, FittingLines DEF ClassifiedStore
  <2>4. CASE a.status # "success" /\ a.code = "InvalidRegion"
    BY <2>1, <2>4, FittingLines DEF ClassifiedStore
  <2>5. CASE a.status # "success" /\ a.code = "none"
    BY <1>3, <2>1, <2>5 DEF ClassifiedStore
  <2> QED
    BY <1>1, <2>2, <2>3, <2>4, <2>5 DEF Codes
<1> QED
  BY <1>4, <1>5

LEMMA ClassifyKeeps == VInv /\ Classify => VInv'
<1> SUFFICES ASSUME VInv, Classify PROVE VInv'
  OBVIOUS
<1> DEFINE a == [status |-> answer.status, code |-> answer.code]
           line == Said(config, answer)
<1>1. /\ at = "classify" /\ config.transport = "upstream" /\ config \in Config /\ a \in Answers(config)
      /\ UNCHANGED <<config, answer, childs, late, now, judged>> /\ Notes(line, "judge")
  BY VerifyAssumption DEF Said, Classify, VInv, VTypes, Routes, Claims
<1>2. line = Said(config, a)
  BY DEF Said, ClassifiedStore
<1>3. /\ line \in Line /\ line.name = "reach" /\ Honest(config, line)
      /\ config.probe /\ ~config.good => line.outcome # "passed"
  <2> HIDE DEF line, a
  <2> QED
    BY <1>1, <1>2, AnswersFit DEF Fits
<1> HIDE DEF line
<1>4. /\ report' \in Seq(Line) /\ Len(report') = Len(report) + 1 /\ Len(report) = 2
  BY <1>1, <1>3, Noted DEF VInv, Short, ReportStages
<1>5. /\ JudgedLast'
      /\ \A i \in DOMAIN report' : Honest(config', report'[i])
      /\ line.outcome # "passed" => \E i \in DOMAIN report' : report'[i].outcome # "passed"
  BY <1>1, <1>3, Noted DEF ReportStages
<1>6. at' = "judge"
  BY <1>1 DEF Notes
<1>7. VTypes'
  BY <1>1, <1>4, <1>6 DEF VInv, VTypes, childs, ReportStages
<1>8. Short' /\ Routes'
  BY <1>4, <1>6 DEF Short, Routes
<1>9. Claims'
  BY <1>1, <1>3, <1>5, <1>6 DEF Claims
<1>10. Exchanged'
  <2>1. wrote' = <<>> /\ heard' = 0 /\ child' # "running" /\ config'.transport # "child" /\ UNCHANGED wrote
    BY <1>1 DEF VInv, Exchanged, childs
  <2>2. \A g : ~Wrote(g)'
    BY <2>1, NoLines, SameLines
  <2> QED
    BY <1>6, <2>1, <2>2 DEF Exchanged
<1> QED
  BY <1>5, <1>7, <1>8, <1>9, <1>10 DEF VInv

LEMMA TwoOfOne == ASSUME NEW n, NEW m, n = 1, m = n + 1 PROVE m = 2
OBVIOUS

LEMMA PostKeeps == VInv /\ Post => VInv'
<1> SUFFICES ASSUME VInv, Post PROVE VInv'
  OBVIOUS
<1>1. /\ at = "post" /\ config.transport = "remote" /\ answer \in Reply
      /\ UNCHANGED <<config, childs, late, now, judged>>
  BY DEF Post, VInv, VTypes, Routes
<1>2. Len(report) <= 3
  <2>1. Len(report) = 1
    BY <1>1 DEF VInv, Short
  <2> QED
    BY <2>1
<1>3. \A name \in {"credential", "handshake"}, brief \in {"cannot resolve", "unreachable"} :
        /\ Step(name, "failed", brief) \in Line
        /\ Step(name, "failed", brief).name = name
        /\ Step(name, "failed", brief).outcome = "failed"
        /\ Step(name, "failed", brief).brief = brief
  BY DEF Step, Line, Outcomes, Briefs
<1>4. CASE \E name \in {"credential", "handshake"}, brief \in {"cannot resolve", "unreachable"} :
             GivesUp(Step(name, "failed", brief)) /\ UNCHANGED answer
  <2>1. PICK name \in {"credential", "handshake"}, brief \in {"cannot resolve", "unreachable"} :
             GivesUp(Step(name, "failed", brief)) /\ UNCHANGED answer
    BY <1>4
  <2> DEFINE line == Step(name, "failed", brief)
  <2>2. line \in Line /\ line.name = name /\ line.outcome = "failed" /\ line.brief = brief
    BY <1>3
  <2> HIDE DEF line
  <2>3. line.name # "policy" /\ line.brief \notin {"rejected", "session ok", "credential ok", "not entitled"}
    BY <2>2
  <2>4. GivesUp(line) /\ answer' \in Reply
    BY <1>1, <2>1 DEF line
  <2> QED
    BY <1>1, <1>2, <2>2, <2>3, <2>4, GaveUp
<1>5. CASE /\ \E f \in {"unopened", "noise"} \cup (IF config.good THEN {"opened", "own opening"} ELSE {}) :
                  answer' = [NoAnswer EXCEPT !.frame = f]
           /\ Notes(Step("credential", "passed", "credential"), "opening")
  <2> DEFINE line == Step("credential", "passed", "credential")
  <2>1. PICK f \in {"unopened", "noise"} \cup (IF config.good THEN {"opened", "own opening"} ELSE {}) :
                  answer' = [NoAnswer EXCEPT !.frame = f]
    BY <1>5
  <2>2. f \in Frames /\ (f \in Opens => config.good)
    BY <2>1 DEF Frames, Openings, Listings, Opens
  <2>3. answer' \in Reply /\ (answer'.frame \in Opens => config.good)
    BY <2>1, <2>2 DEF NoAnswer, Reply, Statuses, Codes
  <2>4. line \in Line /\ line.name = "credential" /\ line.outcome = "passed" /\ line.brief = "credential"
    BY DEF Step, Line, Outcomes, Briefs
  <2>5. Notes(line, "opening")
    BY <1>5
  <2> HIDE DEF line
  <2>6. Honest(config, line)
    BY <2>4 DEF Honest
  <2>7. /\ report' \in Seq(Line) /\ Len(report') = Len(report) + 1 /\ Len(report) = 1
    BY <1>1, <2>4, <2>5, <2>6, Noted DEF VInv, Short, ReportStages
  <2>8. /\ JudgedLast'
        /\ \A i \in DOMAIN report' : Honest(config', report'[i])
    BY <1>1, <2>4, <2>5, <2>6, Noted DEF ReportStages
  <2>9. at' = "opening"
    BY <2>5 DEF Notes
  <2>10. VTypes'
    BY <1>1, <2>3, <2>7, <2>9 DEF VInv, VTypes, childs, ReportStages
  <2>11. Short' /\ Routes'
    <3>0. Len(report') = Len(report) + 1 /\ Len(report) = 1
      BY <2>7
    <3>1. Len(report') = 2
      BY <3>0, TwoOfOne
    <3> QED
      BY <1>1, <2>9, <3>1 DEF Short, Routes
  <2>a. Claims'
    <3>1. (answer.frame \in Opens => config.good)'
      BY <1>1, <2>3 DEF Opens
    <3> QED
      BY <2>8, <2>9, <3>1 DEF Claims
  <2>12. Exchanged'
    <3>1. wrote' = <<>> /\ heard' = 0 /\ child' # "running" /\ config'.transport # "child" /\ UNCHANGED wrote
      BY <1>1 DEF VInv, Exchanged, childs
    <3>2. \A g : ~Wrote(g)'
      BY <3>1, NoLines, SameLines
    <3> QED
      BY <2>9, <3>1, <3>2 DEF Exchanged
  <2> QED
    BY <2>8, <2>10, <2>11, <2>a, <2>12 DEF VInv
<1> QED
  BY <1>4, <1>5 DEF Post

LEMMA ListKeeps == VInv /\ List => VInv'
<1> SUFFICES ASSUME VInv, List PROVE VInv'
  OBVIOUS
<1>1. PICK outcome \in {"passed", "warned"} : Notes(Step("tools", outcome, "tools"), "judge")
  BY DEF List
<1> DEFINE line == Step("tools", outcome, "tools")
<1>2. /\ at = "list" /\ config.transport = "remote" /\ answer \in Reply
      /\ UNCHANGED <<config, answer, childs, late, now, judged>> /\ Notes(line, "judge")
  BY <1>1 DEF List, VInv, VTypes, Routes
<1>3. line \in Line /\ line.name = "tools"
  BY DEF Step, Line, Outcomes, Briefs
<1> HIDE DEF line
<1>4. Honest(config, line)
  BY <1>3 DEF Honest
<1>5. /\ report' \in Seq(Line) /\ Len(report') = Len(report) + 1 /\ Len(report) \in Nat
  BY <1>2, <1>3, <1>4, Noted DEF ReportStages
<1>6. Len(report) <= 3
  BY <1>2 DEF VInv, Short
<1>7. /\ JudgedLast'
      /\ \A i \in DOMAIN report' : Honest(config', report'[i])
  BY <1>2, <1>3, <1>4, Noted DEF ReportStages
<1>8. at' = "judge"
  BY <1>2 DEF Notes
<1>9. VTypes'
  BY <1>2, <1>5, <1>8 DEF VInv, VTypes, childs, ReportStages
<1>10. Len(report') \in 1..4
  BY <1>5, <1>6, Longer
<1>11. Short' /\ Routes' /\ Claims'
  BY <1>2, <1>7, <1>8, <1>10 DEF Short, Routes, Claims
<1>12. Exchanged'
  <2>1. wrote' = <<>> /\ heard' = 0 /\ child' # "running" /\ config'.transport # "child" /\ UNCHANGED wrote
    BY <1>2 DEF VInv, Exchanged, childs
  <2>2. \A g : ~Wrote(g)'
    BY <2>1, NoLines, SameLines
  <2> QED
    BY <1>8, <2>1, <2>2 DEF Exchanged
<1> QED
  BY <1>7, <1>9, <1>11, <1>12 DEF VInv

-----------------------------------------------------------------------------
(* The child. *)

LEMMA SpawnKeeps == VInv /\ Spawn => VInv'
<1> SUFFICES ASSUME VInv, Spawn PROVE VInv'
  OBVIOUS
<1>1. /\ at = "spawn" /\ config.transport = "child" /\ answer' \in Reply
      /\ UNCHANGED <<config, answer, wrote, heard, late, now, judged>>
  BY DEF Spawn, VInv, VTypes, Routes
<1>2. Len(report) = 2
  BY <1>1 DEF VInv, Short
<1>3. CASE GivesUp(Step("handshake", "failed", "no session")) /\ UNCHANGED child
  <2> DEFINE line == Step("handshake", "failed", "no session")
  <2>1. line \in Line /\ line.name = "handshake" /\ line.outcome = "failed" /\ line.brief = "no session"
    BY DEF Step, Line, Outcomes, Briefs
  <2>2. GivesUp(line) /\ UNCHANGED childs
    BY <1>1, <1>3 DEF childs
  <2>3. Len(report) <= 3
    BY <1>2
  <2> HIDE DEF line
  <2> QED
    BY <1>1, <2>1, <2>2, <2>3, GaveUp
<1>4. CASE child' = "running" /\ at' = "handshake" /\ UNCHANGED report
  <2>1. VTypes'
    BY <1>1, <1>4 DEF VInv, VTypes, ReportStages
  <2>2. Short' /\ Routes' /\ JudgedLast' /\ Claims'
    BY <1>1, <1>2, <1>4 DEF VInv, Short, Routes, JudgedLast, Before, Claims
  <2>3. wrote = <<>> /\ heard = 0 /\ wrote' = <<>> /\ heard' = 0
    BY <1>1 DEF VInv, Exchanged
  <2>4. \A g : ~Wrote(g) /\ ~Wrote(g)' /\ ~Seen(g)'
    BY <2>3, NoLines, SameLines DEF Seen
  <2>5. ASSUME NEW name PROVE Went(name, "passed")' <=> Went(name, "passed")
    BY <1>4, WentStays
  <2>6. Exchanged'
    BY <1>1, <1>4, <2>4, <2>5 DEF VInv, Exchanged
  <2> QED
    BY <2>1, <2>2, <2>6 DEF VInv
<1> QED
  BY <1>3, <1>4 DEF Spawn

LEMMA RoomForOne ==
  ASSUME NEW m \in Nat, NEW n \in 0..m, n < m, NEW h \in 0..n, NEW k, k = n + 1
  PROVE  k \in 0..m /\ h \in 0..k
OBVIOUS

LEMMA ChildWritesKeeps == VInv /\ ChildWrites => VInv'
<1> SUFFICES ASSUME VInv, ChildWrites PROVE VInv'
  OBVIOUS
<1>1. /\ child = "running" /\ Len(wrote) < MaxFrames /\ at \in {"handshake", "ask", "tools"}
      /\ UNCHANGED <<config, at, report, answer, child, heard, late, now, judged>>
      /\ config.transport = "child" /\ VTypes
  BY DEF ChildWrites, VInv, Routes
<1>2. PICK f \in {"noise", "garbled", "own opening", "own listing"} \cup Owed : wrote' = Append(wrote, f)
  BY DEF ChildWrites
<1>3. /\ f \in Frames
      /\ f \in Openings => ~Wrote("opened") /\ ~Wrote("unopened")
      /\ f \in Listings => at = "tools" /\ ~Wrote("tools") /\ ~Wrote("untooled")
  BY <1>2 DEF Owed, Frames, Openings, Listings
<1>4. wrote' \in Seq(Frames) /\ Len(wrote') = Len(wrote) + 1
  BY <1>1, <1>2, <1>3, OneLineMore
<1>5. \A g : Wrote(g)' <=> Wrote(g) \/ g = f
  BY <1>1, <1>2, <1>3, OneLineMore
<1>6. \A g : Seen(g)' <=> Seen(g)
  BY <1>1, <1>2, <1>3, OneLineMore
<1>7. VTypes'
  <2>1. /\ MaxFrames \in Nat /\ Len(wrote) \in 0..MaxFrames /\ heard \in 0..Len(wrote)
        /\ heard' = heard
    BY <1>1, VerifyAssumption DEF VTypes
  <2>b. Len(wrote) < MaxFrames /\ Len(wrote') = Len(wrote) + 1
    BY <1>1, <1>4
  <2> DEFINE n == Len(wrote)
             k == Len(wrote')
  <2>2. k \in 0..MaxFrames /\ heard' \in 0..k
    <3>1. n \in 0..MaxFrames /\ heard' \in 0..n /\ n < MaxFrames /\ k = n + 1 /\ MaxFrames \in Nat
      BY <2>1, <2>b
    <3> HIDE DEF n, k
    <3> QED
      BY <3>1, RoomForOne
  <2> QED
    BY <1>1, <1>4, <2>2 DEF VTypes
<1>8. Short' /\ Routes' /\ JudgedLast' /\ Claims'
  BY <1>1 DEF VInv, Short, Routes, JudgedLast, Before, Claims
<1>9. ASSUME NEW name PROVE Went(name, "passed")' <=> Went(name, "passed")
  BY <1>1, WentStays
<1>10. /\ ~(Wrote("opened")' /\ Wrote("unopened")') /\ ~(Wrote("tools")' /\ Wrote("untooled")')
       /\ at \in {"handshake", "ask"} /\ ~Wrote("tools") => ~Wrote("tools")'
  BY <1>3, <1>5 DEF VInv, Exchanged, Openings, Listings
<1>11. /\ (\E g \in Opens : Wrote(g)) => \E g \in Opens : Wrote(g)'
       /\ (\E g \in Lists : Wrote(g)) => \E g \in Lists : Wrote(g)'
  BY <1>5
<1>12. Exchanged'
  BY <1>1, <1>6, <1>9, <1>10, <1>11 DEF VInv, Exchanged, Opens, Lists
<1> QED
  BY <1>7, <1>8, <1>12 DEF VInv

LEMMA ChildEndsKeeps == VInv /\ ChildEnds => VInv'
<1> SUFFICES ASSUME VInv, ChildEnds PROVE VInv'
  OBVIOUS
<1>1. /\ child = "running" /\ child' = "ended"
      /\ UNCHANGED <<config, at, report, answer, wrote, heard, late, now, judged>>
  BY DEF ChildEnds
<1>2. VTypes' /\ Short' /\ Routes' /\ JudgedLast' /\ Claims'
  BY <1>1 DEF VInv, VTypes, Short, Routes, JudgedLast, Before, Claims
<1>3. ASSUME NEW name PROVE Went(name, "passed")' <=> Went(name, "passed")
  BY <1>1, WentStays
<1>4. \A f : (Wrote(f)' <=> Wrote(f)) /\ (InTime(f)' <=> InTime(f)) /\ (Seen(f)' <=> Seen(f))
  BY <1>1, SameLines, SameRead
<1>5. Exchanged'
  BY <1>1, <1>3, <1>4 DEF VInv, Exchanged, Opens, Lists
<1> QED
  BY <1>2, <1>5 DEF VInv

\* What an exchange with the child comes to.
LEMMA Reported ==
  ASSUME VInv, NEW line \in Line, NEW next \in {"ask", "kill"}, Notes(line, next),
         at \in {"handshake", "ask", "tools"}, at # "handshake" => next = "kill",
         line.name = (IF at = "handshake" THEN "handshake" ELSE "tools"), UNCHANGED <<config, answer>>
  PROVE  /\ report' \in Seq(Line) /\ at' = next /\ config.transport = "child"
         /\ Short' /\ Routes' /\ JudgedLast' /\ Claims'
         /\ \A name, outcome : Went(name, outcome)' <=>
               Went(name, outcome) \/ (line.name = name /\ line.outcome = outcome)
<1>1. config.transport = "child" /\ at' = next
  BY DEF VInv, Routes, Notes
<1>2. Honest(config, line)
  BY <1>1 DEF Honest
<1>3. /\ report' \in Seq(Line) /\ Len(report') = Len(report) + 1 /\ Len(report) \in Nat
  BY <1>2, Noted DEF ReportStages
<1>4. /\ JudgedLast'
      /\ \A i \in DOMAIN report' : Honest(config', report'[i])
  BY <1>2, Noted DEF ReportStages
<1>5. \A name, outcome : Went(name, outcome)' <=>
               Went(name, outcome) \/ (line.name = name /\ line.outcome = outcome)
  BY <1>2, Noted DEF ReportStages
<1>6. Short'
  <2>1. CASE next = "ask"
    <3>1. Len(report) = 2
      BY <2>1 DEF VInv, Short
    <3>2. Len(report') <= 3
      BY <1>3, <3>1
    <3> QED
      BY <1>1, <2>1, <3>2 DEF Short
  <2>2. CASE next = "kill"
    <3>1. at = "handshake" => Len(report) = 2
      BY DEF VInv, Short
    <3>2. Len(report) <= 3
      <4>1. at # "handshake" => Len(report) <= 3
        BY DEF VInv, Short
      <4>2. CASE at = "handshake"
        BY <3>1, <4>2
      <4> QED
        BY <4>1, <4>2
    <3>3. Len(report') \in 1..4
      BY <1>3, <3>2, Longer
    <3> QED
      BY <1>1, <2>2, <3>3 DEF Short
  <2> QED
    BY <2>1, <2>2
<1>7. Routes' /\ Claims'
  BY <1>1, <1>4 DEF Routes, Claims
<1> QED
  BY <1>1, <1>3, <1>4, <1>5, <1>6, <1>7

LEMMA ReadKeeps == VInv /\ Read => VInv'
<1> SUFFICES ASSUME VInv, Read PROVE VInv'
  OBVIOUS
<1> DEFINE f == wrote[heard + 1]
<1>1. /\ at \in {"handshake", "tools"} /\ heard < Len(wrote) /\ heard' = heard + 1
      /\ UNCHANGED <<config, answer, child, wrote, late, now, judged>>
      /\ config.transport = "child" /\ VTypes
  BY DEF Read, VInv, Routes
<1>2. f \in Frames /\ Wrote(f) /\ heard' \in 0..Len(wrote')
  BY <1>1, OneLineRead
<1>3. \A g : Seen(g)' <=> Seen(g) \/ g = f
  BY <1>1, OneLineRead
<1>4. \A g : (Wrote(g)' <=> Wrote(g)) /\ (InTime(g)' <=> InTime(g))
  BY <1>1, SameLines
<1>5. /\ at = "handshake" => ~Seen("garbled") /\ ~Seen("opened") /\ ~Wrote("tools")
      /\ at = "tools" => ~Seen("garbled") /\ ~Seen("tools") /\ Went("handshake", "passed")
      /\ ~(Wrote("opened") /\ Wrote("unopened")) /\ ~(Wrote("tools") /\ Wrote("untooled"))
      /\ Went("handshake", "passed") => \E g \in Opens : Wrote(g)
      /\ Went("tools", "passed") => \E g \in Lists : Wrote(g)
  BY <1>1 DEF VInv, Exchanged
<1>6. f = "garbled" => /\ at = "handshake" => ~InTime("opened")
                       /\ at = "tools" => ~InTime("tools")
  BY <1>1, <1>5, InTimeIsSeen
<1>7. InTime("tools") => Wrote("tools")
  BY InTimeIsWritten
<1>8. InTime("opened") => Wrote("opened")
  BY InTimeIsWritten
<1>9. \/ f = "garbled" /\ Unanswered
      \/ f # "garbled" /\ AnswersTo(f, at) /\ Taken(f)
      \/ f # "garbled" /\ ~AnswersTo(f, at) /\ UNCHANGED <<report, at>>
  BY DEF Read
<1> HIDE DEF f
<1>10. CASE f # "garbled" /\ ~AnswersTo(f, at) /\ UNCHANGED <<report, at>>
  <2>1. VTypes' /\ Short' /\ Routes' /\ JudgedLast' /\ Claims'
    BY <1>1, <1>2, <1>10 DEF VInv, VTypes, Short, Routes, JudgedLast, Before, Claims
  <2>2. ASSUME NEW name PROVE Went(name, "passed")' <=> Went(name, "passed")
    BY <1>10, WentStays
  <2>3. /\ at = "handshake" => f # "opened"
        /\ at = "tools" => f # "tools"
    BY <1>10 DEF AnswersTo, Openings, Listings, Opens, Lists
  <2>4. Exchanged'
    BY <1>1, <1>3, <1>4, <1>5, <1>10, <2>2, <2>3 DEF Exchanged
  <2> QED
    BY <2>1, <2>4 DEF VInv
<1>11. CASE /\ f \in Opens /\ at = "handshake" /\ f # "garbled" /\ Taken(f)
  <2> DEFINE line == Step("handshake", "passed", "session ok")
  <2>1. Notes(line, "ask")
    BY <1>11 DEF Taken
  <2>2. line \in Line /\ line.name = "handshake" /\ line.outcome = "passed"
    BY DEF Step, Line, Outcomes, Briefs
  <2> HIDE DEF line
  <2>3. /\ report' \in Seq(Line) /\ at' = "ask"
        /\ Short' /\ Routes' /\ JudgedLast' /\ Claims'
    BY <1>1, <1>11, <2>1, <2>2, Reported
  <2>4. \A name, outcome : Went(name, outcome)' <=>
             Went(name, outcome) \/ (line.name = name /\ line.outcome = outcome)
    BY <1>1, <1>11, <2>1, <2>2, Reported
  <2>5. Went("handshake", "passed")' /\ (Went("tools", "passed")' <=> Went("tools", "passed"))
    BY <2>2, <2>4
  <2>6. VTypes'
    BY <1>1, <1>2, <2>3 DEF VTypes, ReportStages
  <2>7. ~Seen("garbled")' /\ ~Wrote("tools")' /\ \E g \in Opens : Wrote(g)'
    BY <1>2, <1>3, <1>4, <1>5, <1>11
  <2>8. Exchanged'
    BY <1>1, <1>4, <1>5, <2>3, <2>5, <2>7 DEF Exchanged, Opens, Lists
  <2> QED
    BY <2>3, <2>6, <2>8 DEF VInv
<1>12. ASSUME NEW line \in Line, Notes(line, "kill"),
              line.name = (IF at = "handshake" THEN "handshake" ELSE "tools"),
              line.outcome = "passed" => at = "tools" /\ f \in Lists,
              InTime("opened") => at = "tools",
              InTime("tools") /\ at = "tools" => line.outcome = "passed"
       PROVE  VInv'
  <2>1. /\ report' \in Seq(Line) /\ at' = "kill"
        /\ Short' /\ Routes' /\ JudgedLast' /\ Claims'
    BY <1>1, <1>12, Reported
  <2>2. \A name, outcome : Went(name, outcome)' <=>
             Went(name, outcome) \/ (line.name = name /\ line.outcome = outcome)
    BY <1>1, <1>12, Reported
  <2>3. /\ Went("handshake", "passed")' <=> Went("handshake", "passed")
        /\ Went("tools", "passed")' <=> Went("tools", "passed") \/ line.outcome = "passed"
    BY <1>1, <1>12, <2>2
  <2>4. VTypes'
    BY <1>1, <1>2, <2>1 DEF VTypes, ReportStages
  <2>5. /\ InTime("opened") => Went("handshake", "passed")'
        /\ InTime("tools") => Went("tools", "passed")'
        /\ Went("tools", "passed")' => \E g \in Lists : Wrote(g)
    BY <1>1, <1>2, <1>5, <1>7, <1>12, <2>3
  <2>6. Exchanged'
    BY <1>1, <1>4, <1>5, <2>1, <2>3, <2>5 DEF Exchanged, Opens, Lists
  <2> QED
    BY <2>1, <2>4, <2>6 DEF VInv
<1>13. CASE f = "garbled" /\ Unanswered
  <2> DEFINE line == IF at = "handshake" THEN Step("handshake", "failed", "no session")
                     ELSE Step("tools", "warned", "tools")
  <2>1. line \in Line /\ line.name = (IF at = "handshake" THEN "handshake" ELSE "tools")
        /\ line.outcome # "passed" /\ Notes(line, "kill")
    BY <1>13 DEF Unanswered, Step, Line, Outcomes, Briefs
  <2> HIDE DEF line
  <2> QED
    BY <1>1, <1>6, <1>12, <1>13, <2>1
<1>14. CASE f \notin Opens /\ at = "handshake" /\ f # "garbled" /\ AnswersTo(f, at) /\ Taken(f)
  <2> DEFINE line == Step("handshake", "failed", "no session")
  <2>1. line \in Line /\ line.name = "handshake" /\ line.outcome # "passed" /\ Notes(line, "kill")
    BY <1>14 DEF Taken, Step, Line, Outcomes, Briefs
  <2> HIDE DEF line
  <2>2. f = "unopened"
    BY <1>14 DEF AnswersTo, Openings, Opens
  <2>3. ~InTime("opened")
    BY <1>2, <1>5, <1>8, <2>2
  <2> QED
    BY <1>12, <1>14, <2>1, <2>3
<1>15. CASE at = "tools" /\ f # "garbled" /\ AnswersTo(f, at) /\ Taken(f)
  <2> DEFINE outcome == IF f \in Lists THEN "passed" ELSE "warned"
             line == Step("tools", outcome, "tools")
  <2>1. Notes(line, "kill")
    BY <1>15 DEF Taken
  <2>2. line \in Line /\ line.name = "tools" /\ line.outcome = outcome
    BY DEF Step, Line, Outcomes, Briefs
  <2>3. f \notin Lists => f = "untooled"
    BY <1>15 DEF AnswersTo, Listings, Lists
  <2>4. InTime("tools") => f \in Lists
    BY <1>2, <1>5, <1>7, <2>3
  <2>5. line.outcome = "passed" <=> f \in Lists
    BY <2>2
  <2> HIDE DEF line, outcome
  <2> QED
    BY <1>12, <1>15, <2>1, <2>2, <2>4, <2>5
<1> QED
  BY <1>1, <1>9, <1>10, <1>11, <1>13, <1>14, <1>15

\* No answer came: the child ended, or the time is up.
LEMMA UnansweredKeeps ==
  ASSUME VInv, at \in {"handshake", "ask", "tools"}, Unanswered, late' \in BOOLEAN, late => late',
         ~late' => at = "ask" \/ heard = Len(wrote), UNCHANGED <<config, answer, childs, now, judged>>
  PROVE  VInv'
<1> DEFINE line == IF at = "handshake" THEN Step("handshake", "failed", "no session")
                   ELSE Step("tools", "warned", "tools")
<1>1. Notes(line, "kill")
  BY DEF Unanswered
<1>2. line \in Line /\ line.name = (IF at = "handshake" THEN "handshake" ELSE "tools")
      /\ line.outcome # "passed"
  BY DEF Step, Line, Outcomes, Briefs
<1> HIDE DEF line
<1>3. /\ report' \in Seq(Line) /\ at' = "kill" /\ config.transport = "child"
      /\ Short' /\ Routes' /\ JudgedLast' /\ Claims'
  BY <1>1, <1>2, Reported
<1>4. \A name, outcome : Went(name, outcome)' <=>
               Went(name, outcome) \/ (line.name = name /\ line.outcome = outcome)
  BY <1>1, <1>2, Reported
<1>5. ASSUME NEW name PROVE Went(name, "passed")' <=> Went(name, "passed")
  BY <1>2, <1>4
<1>6. VTypes'
  BY <1>3 DEF VInv, VTypes, childs, ReportStages
<1>7. VTypes
  BY DEF VInv
<1>8. ~late' => /\ ~InTime("tools")
                /\ InTime("opened") => Went("handshake", "passed")
  <2>1. CASE at = "handshake"
    <3>1. ~Seen("opened") /\ ~Wrote("tools")
      BY <2>1 DEF VInv, Exchanged
    <3>2. ~InTime("tools")
      BY <3>1, InTimeIsWritten
    <3>3. ~late' => ~InTime("opened")
      BY <1>7, <2>1, <3>1, InTimeIsSeen
    <3> QED
      BY <3>2, <3>3
  <2>2. CASE at = "ask"
    <3>1. Went("handshake", "passed") /\ ~Wrote("tools")
      BY <2>2 DEF VInv, Exchanged
    <3> QED
      BY <3>1, InTimeIsWritten
  <2>3. CASE at = "tools"
    <3>1. Went("handshake", "passed") /\ ~Seen("tools")
      BY <2>3 DEF VInv, Exchanged
    <3> QED
      BY <1>7, <2>3, <3>1, InTimeIsSeen
  <2> QED
    BY <2>1, <2>2, <2>3
<1>9. /\ Went("handshake", "passed") => \E g \in Opens : Wrote(g)
      /\ Went("tools", "passed") => \E g \in Lists : Wrote(g)
      /\ ~(Wrote("opened") /\ Wrote("unopened")) /\ ~(Wrote("tools") /\ Wrote("untooled"))
  BY <1>3 DEF VInv, Exchanged
<1>10. UNCHANGED <<config, wrote>>
  BY DEF childs
<1>11. \A g : (Wrote(g)' <=> Wrote(g)) /\ (InTime(g)' <=> InTime(g))
  BY <1>10, SameLines
<1>12. Exchanged'
  BY <1>3, <1>5, <1>8, <1>9, <1>10, <1>11 DEF Exchanged, Opens, Lists
<1> QED
  BY <1>3, <1>6, <1>12 DEF VInv

LEMMA AskKeeps == VInv /\ AskForTools => VInv'
<1> SUFFICES ASSUME VInv, AskForTools PROVE VInv'
  OBVIOUS
<1>1. /\ at = "ask" /\ late \in BOOLEAN /\ VTypes
      /\ UNCHANGED <<config, answer, childs, late, now, judged>>
  BY DEF AskForTools, VInv, VTypes
<1>2. CASE child = "ended"
  <2>1. Unanswered
    BY <1>2 DEF AskForTools
  <2> QED
    BY <1>1, <2>1, UnansweredKeeps
<1>3. CASE child # "ended"
  <2>1. at' = "tools" /\ UNCHANGED report /\ UNCHANGED <<child, wrote, heard>>
    BY <1>1, <1>3 DEF AskForTools, childs
  <2>2. VTypes' /\ Short' /\ Routes' /\ JudgedLast' /\ Claims'
    BY <1>1, <2>1 DEF VInv, VTypes, ReportStages, Short, Routes, JudgedLast, Before, Claims
  <2>3. ASSUME NEW name PROVE Went(name, "passed")' <=> Went(name, "passed")
    BY <2>1, WentStays
  <2>4. \A f : (Wrote(f)' <=> Wrote(f)) /\ (InTime(f)' <=> InTime(f)) /\ (Seen(f)' <=> Seen(f))
    BY <2>1, SameLines, SameRead
  <2>5. ~Seen("tools") /\ ~Seen("garbled") /\ Went("handshake", "passed")
    BY <1>1, SeenIsWritten DEF VInv, Exchanged
  <2>6. Exchanged'
    BY <1>1, <2>1, <2>3, <2>4, <2>5 DEF VInv, Exchanged, Opens, Lists
  <2> QED
    BY <2>2, <2>6 DEF VInv
<1> QED
  BY <1>2, <1>3

LEMMA EndKeeps == VInv /\ (SeesTheEnd \/ TimesOut) => VInv'
<1>1. ASSUME VInv, SeesTheEnd PROVE VInv'
  <2>1. /\ at \in {"handshake", "tools"} /\ Unanswered /\ heard = Len(wrote) /\ late \in BOOLEAN
        /\ UNCHANGED <<config, answer, childs, late, now, judged>>
    BY <1>1 DEF SeesTheEnd, VInv, VTypes
  <2> QED
    BY <1>1, <2>1, UnansweredKeeps
<1>2. ASSUME VInv, TimesOut PROVE VInv'
  <2>1. /\ at \in {"handshake", "tools"} /\ Unanswered /\ late' = TRUE
        /\ UNCHANGED <<config, answer, childs, now, judged>>
    BY <1>2 DEF TimesOut, Timed
  <2> QED
    BY <1>2, <2>1, UnansweredKeeps
<1> QED
  BY <1>1, <1>2

LEMMA KillKeeps == VInv /\ KillChild => VInv'
<1> SUFFICES ASSUME VInv, KillChild PROVE VInv'
  OBVIOUS
<1>1. /\ at = "kill" /\ child' = Killed /\ at' = "judge"
      /\ UNCHANGED <<config, report, answer, wrote, heard, late, now, judged>>
      /\ config.transport = "child"
  BY DEF KillChild, VInv, Routes
<1>2. child' \in {"none", "ended"}
  BY <1>1 DEF Killed, VInv, VTypes
<1>3. VTypes'
  BY <1>1, <1>2 DEF VInv, VTypes, ReportStages
<1>4. Short' /\ Routes' /\ JudgedLast' /\ Claims'
  BY <1>1 DEF VInv, Short, Routes, JudgedLast, Before, Claims
<1>5. ASSUME NEW name PROVE Went(name, "passed")' <=> Went(name, "passed")
  BY <1>1, WentStays
<1>6. \A f : (Wrote(f)' <=> Wrote(f)) /\ (InTime(f)' <=> InTime(f))
  BY <1>1, SameLines
<1>7. Exchanged'
  BY <1>1, <1>2, <1>5, <1>6 DEF VInv, Exchanged, Opens, Lists
<1> QED
  BY <1>3, <1>4, <1>7 DEF VInv

LEMMA LeavesKeeps == VInv /\ OperatorLeaves => VInv'
<1> SUFFICES ASSUME VInv, OperatorLeaves PROVE VInv'
  OBVIOUS
<1>1. /\ at \in {"call", "post", "list", "handshake", "ask", "tools"} /\ at' = "left" /\ child' = Killed
      /\ UNCHANGED <<config, report, answer, wrote, heard, late, now, judged>>
  BY DEF OperatorLeaves
<1>2. child' \in {"none", "ended"}
  BY <1>1 DEF Killed, VInv, VTypes
<1>3. VTypes'
  BY <1>1, <1>2 DEF VInv, VTypes, ReportStages
<1>4. Short'
  <2>1. at \in {"call", "handshake"} => Len(report) = 2
    BY DEF VInv, Short
  <2>2. at = "post" => Len(report) = 1
    BY DEF VInv, Short
  <2>3. at \in {"list", "ask", "tools"} => Len(report) <= 3
    BY DEF VInv, Short
  <2>4. Len(report) <= 3
    <3>1. CASE at \in {"call", "handshake"}
      BY <2>1, <3>1
    <3>2. ASSUME NEW n, n = 1 PROVE n <= 3
      BY <3>2
    <3>3. CASE at = "post"
      BY <2>2, <3>2, <3>3
    <3> QED
      BY <1>1, <2>3, <3>1, <3>3
  <2> QED
    BY <1>1, <2>4 DEF Short
<1>5. Routes' /\ JudgedLast' /\ Claims'
  BY <1>1 DEF VInv, Routes, JudgedLast, Before, Claims
<1>6. ASSUME NEW name PROVE Went(name, "passed")' <=> Went(name, "passed")
  BY <1>1, WentStays
<1>a. \A f : (Wrote(f)' <=> Wrote(f)) /\ (InTime(f)' <=> InTime(f))
  BY <1>1, SameLines
<1>7. Exchanged'
  BY <1>1, <1>2, <1>6, <1>a DEF VInv, Exchanged, Opens, Lists
<1> QED
  BY <1>3, <1>4, <1>5, <1>7 DEF VInv

LEMMA TickKeeps == VInv /\ (Tick \/ UNCHANGED vvars) => VInv'
<1> SUFFICES ASSUME VInv, Tick \/ UNCHANGED vvars PROVE VInv'
  OBVIOUS
<1>1. UNCHANGED <<config, at, report, answer, childs, late, judged>> /\ now' \in {0, 1}
  BY DEF Tick, vvars, childs, VInv, VTypes
<1>2. VTypes' /\ Short' /\ Routes' /\ JudgedLast' /\ Claims'
  BY <1>1 DEF VInv, VTypes, Short, Routes, JudgedLast, Before, Claims, childs
<1>3. ASSUME NEW name PROVE Went(name, "passed")' <=> Went(name, "passed")
  BY <1>1, WentStays
<1>4. \A f : (Wrote(f)' <=> Wrote(f)) /\ (InTime(f)' <=> InTime(f)) /\ (Seen(f)' <=> Seen(f))
  BY <1>1, SameLines, SameRead DEF childs
<1>5. Exchanged'
  BY <1>1, <1>3, <1>4 DEF VInv, Exchanged, childs, Opens, Lists
<1> QED
  BY <1>2, <1>5 DEF VInv

LEMMA OneStepMore == ASSUME NEW n, NEW m, n \in 1..4, m = n + 1 PROVE m \in 1..5
OBVIOUS

LEMMA JudgeKeeps == VInv /\ Judge => VInv'
<1> SUFFICES ASSUME VInv, Judge PROVE VInv'
  OBVIOUS
<1> DEFINE line == PolicyStep(config, now)
<1>1. /\ at = "judge" /\ judged' = now /\ Notes(line, "done")
      /\ UNCHANGED <<config, answer, childs, late, now>>
  BY DEF Judge
<1>2. line \in Line /\ line.name = "policy" /\ Honest(config, line)
  BY PolicyLine
<1>3. line = PolicyStep(config, judged)'
  BY <1>1
<1> HIDE DEF line
<1>4. report \in Seq(Line) /\ report' = Append(report, line) /\ at' = "done"
  BY <1>1 DEF VInv, VTypes, Notes
<1>5. /\ report' \in Seq(Line) /\ Len(report') = Len(report) + 1 /\ Len(report) \in Nat
      /\ DOMAIN report = 1..Len(report) /\ DOMAIN report' = 1..(Len(report) + 1)
      /\ \A i \in 1..Len(report) : report'[i] = report[i]
      /\ report'[Len(report) + 1] = line
  BY <1>2, <1>4, OneMore
<1>6. VTypes'
  BY <1>1, <1>4, <1>5 DEF VInv, VTypes, childs, ReportStages
<1>7. Short' /\ Routes'
  <2>1. Len(report) \in 1..4
    BY <1>1 DEF VInv, Short
  <2>2. Len(report') = Len(report) + 1
    BY <1>5
  <2>3. Len(report') \in 1..5
    BY <2>1, <2>2, OneStepMore
  <2> QED
    BY <1>4, <2>3 DEF Short, Routes
<1>8. JudgedLast'
  <2>1. Len(report') - 1 = Len(report)
    BY <1>5
  <2>2. \A i \in 1..Len(report) : report'[i].name # "policy"
    BY <1>1, <1>5 DEF VInv, JudgedLast, Before
  <2>3. report'[Len(report')] = PolicyStep(config, judged)'
    BY <1>3, <1>5
  <2>4. Before(Len(report) - 1)' /\ report'[Len(report')] = PolicyStep(config, judged)'
    <3>1. (Len(report) - 1)' = Len(report)
      BY <2>1
    <3> QED
      BY <2>2, <2>3, <3>1 DEF Before
  <2> QED
    BY <1>4, <2>4 DEF JudgedLast
<1>9. Claims'
  <2>1. \A i \in DOMAIN report' : Honest(config', report'[i])
    <3>1. \A i \in 1..Len(report) : Honest(config, report[i])
      BY <1>5 DEF VInv, Claims
    <3> QED
      BY <1>1, <1>2, <1>5, <3>1
  <2>2. ASSUME config.transport = "upstream", config.probe, ~config.good
        PROVE  \E i \in DOMAIN report' : report'[i].outcome # "passed"
    <3>1. PICK i \in DOMAIN report : report[i].outcome # "passed"
      BY <1>1, <2>2 DEF VInv, Claims
    <3> QED
      BY <1>5, <3>1
  <2> QED
    BY <1>1, <1>4, <2>1, <2>2 DEF Claims
<1>10. ASSUME NEW name \in {"handshake", "tools"} PROVE Went(name, "passed")' <=> Went(name, "passed")
  BY <1>2, <1>4, WentOn
<1>11. \A f : (Wrote(f)' <=> Wrote(f)) /\ (InTime(f)' <=> InTime(f)) /\ (Seen(f)' <=> Seen(f))
  BY <1>1, SameLines, SameRead DEF childs
<1>12. Exchanged'
  BY <1>1, <1>4, <1>10, <1>11 DEF VInv, Exchanged, childs, Opens, Lists
<1> QED
  BY <1>6, <1>7, <1>8, <1>9, <1>12 DEF VInv

-----------------------------------------------------------------------------
(* The invariant holds. *)

LEMMA VInvInit == VInit => VInv
<1> SUFFICES ASSUME VInit PROVE VInv
  OBVIOUS
<1>1. report = <<>> /\ Len(report) = 0 /\ DOMAIN report = {} /\ wrote = <<>> /\ Len(wrote) = 0 /\ heard = 0
  BY DEF VInit
<1>2. VTypes
  <2>1. Len(wrote) \in 0..MaxFrames /\ heard \in 0..Len(wrote)
    BY <1>1, VerifyAssumption
  <2>2. report \in Seq(Line) /\ wrote \in Seq(Frames)
    BY <1>1
  <2>3. answer \in Reply
    BY DEF VInit, NoAnswer, Reply, Codes, Frames
  <2> QED
    BY <2>1, <2>2, <2>3 DEF VInit, VTypes, ReportStages
<1>3. Short /\ Routes
  BY DEF VInit, Short, Routes
<1>4. JudgedLast
  BY <1>1 DEF VInit, JudgedLast, Before
<1>5. Claims
  BY <1>1 DEF VInit, Claims
<1>6. ~Went("handshake", "passed") /\ ~Went("tools", "passed")
  BY <1>1 DEF Went, LinesOf
<1>7. Exchanged
  BY <1>1, <1>6, NoLines DEF VInit, Exchanged
<1> QED
  BY <1>2, <1>3, <1>4, <1>5, <1>7 DEF VInv

LEMMA VInvStep == VInv /\ [VNext]_vvars => VInv'
BY BuildKeeps, AttachKeeps, CallKeeps, ClassifyKeeps, DialKeeps, PostKeeps, OpenSessionKeeps, ListKeeps,
   PrepareKeeps, ResolveEnvKeeps, SpawnKeeps, ChildWritesKeeps, ChildEndsKeeps, ReadKeeps, AskKeeps, EndKeeps,
   KillKeeps, JudgeKeeps, LeavesKeeps, TickKeeps DEF VNext

LEMMA VInvAlways == VSpec => []VInv
BY VInvInit, VInvStep, PTL DEF VSpec

-----------------------------------------------------------------------------
(* What a report says. *)

LEMMA EarliestIs ==
  ASSUME NEW S \in SUBSET Nat, S # {}
  PROVE  /\ EarliestOf(S) \in S /\ Deciding(S) \in S
         /\ \A j \in S : EarliestOf(S) <= j /\ Deciding(S) <= j
BY FirstIs DEF EarliestOf, Deciding

LEMMA WorstIs ==
  /\ Worst(report) = "failed" => \E i \in DOMAIN report : report[i].outcome = "failed"
  /\ Worst(report) = "warned" => \E i \in DOMAIN report : report[i].outcome = "warned"
  /\ Worst(report) = "passed" =>
        \A i \in DOMAIN report : report[i].outcome \notin {"failed", "warned"}
  /\ Worst(report) \in {"failed", "warned", "passed"}
BY DEF Worst

LEMMA UpToThree == ASSUME NEW n \in Nat, n <= 3 PROVE n \in 0..3
OBVIOUS

LEMMA UpToFive == ASSUME NEW n, n \in 0..3 \/ n \in 1..4 \/ n \in 1..5 PROVE n <= 5
OBVIOUS

LEMMA TypesHold == VInv => VTypeOK
<1> SUFFICES ASSUME VInv PROVE VTypeOK
  OBVIOUS
<1>1. \A i \in DOMAIN report : report[i].outcome \in {"passed", "warned", "failed"}
  <2>1. \A i \in DOMAIN report : report[i] \in Line
    BY DEF VInv, VTypes
  <2> QED
    BY <2>1 DEF Line, Outcomes
<1>2. Len(report) <= 5
  <2>1. report = <<>> => Len(report) = 0
    OBVIOUS
  <2>2. Len(report) \in Nat
    BY DEF VInv, VTypes
  <2>3. Len(report) \in 0..3 \/ Len(report) \in 1..4 \/ Len(report) \in 1..5
    <3>1. CASE at = "start"
      BY <2>1, <3>1 DEF VInv, Short
    <3>2. CASE at \in {"attach", "post", "env"}
      <4>1. Len(report) = 1
        BY <3>2 DEF VInv, Short
      <4> QED
        BY <4>1
    <3>3. CASE at \in {"call", "classify", "opening", "spawn", "handshake"}
      <4>1. Len(report) = 2
        BY <3>3 DEF VInv, Short
      <4> QED
        BY <4>1
    <3>4. CASE at \in {"list", "ask", "tools", "left"}
      <4>1. Len(report) <= 3
        BY <3>4 DEF VInv, Short
      <4> QED
        BY <2>2, <4>1, UpToThree
    <3>5. CASE at \in {"kill", "judge", "done"}
      BY <3>5 DEF VInv, Short
    <3> QED
      BY <3>1, <3>2, <3>3, <3>4, <3>5 DEF VInv, VTypes, ReportStages
  <2> QED
    BY <2>3, UpToFive
<1>3. answer.status \in Statuses \cup {"none"} /\ answer.code \in Codes /\ answer.frame \in Frames
  BY DEF VInv, VTypes, Reply
<1>4. wrote \in Seq(Frames) /\ Len(wrote) <= MaxFrames /\ heard \in 0..Len(wrote)
  BY VerifyAssumption DEF VInv, VTypes
<1> QED
  BY <1>1, <1>2, <1>3, <1>4 DEF VInv, VTypes, VTypeOK, ReportStages

\* The last line is what the rules say, and no other is.
LEMMA JudgedAtTheEnd ==
  ASSUME VInv, at = "done"
  PROVE  /\ LinesOf(report, "policy") = {Len(report)}
         /\ report[Len(report)] = PolicyStep(config, judged)
<1>1. report \in Seq(Line) /\ Len(report) \in 1..5
  BY DEF VInv, VTypes, Short
<1>2. /\ \A i \in 1..(Len(report) - 1) : report[i].name # "policy"
      /\ report[Len(report)] = PolicyStep(config, judged)
  BY DEF VInv, JudgedLast, Before
<1>3. report[Len(report)].name = "policy"
  BY <1>2, PolicyLine
<1>4. DOMAIN report = 1..Len(report)
  BY <1>1
<1>5. ASSUME NEW i \in 1..Len(report), i # Len(report) PROVE i \in 1..(Len(report) - 1)
  BY <1>1, <1>5
<1>6. \A i \in DOMAIN report : report[i].name = "policy" <=> i = Len(report)
  BY <1>2, <1>3, <1>4, <1>5
<1>7. Len(report) \in DOMAIN report
  BY <1>1, <1>4
<1> QED
  BY <1>2, <1>6, <1>7 DEF LinesOf

LEMMA JudgesHold == VInv => EveryReportJudges
<1> SUFFICES ASSUME VInv, at = "done"
             PROVE  /\ LinesOf(report, "policy") = {Len(report)}
                    /\ Worst(report) # "passed" => \E i \in DOMAIN report :
                          report[i].outcome = Worst(report) /\ report[i].brief = Brief(report)
  BY DEF EveryReportJudges
<1>1. LinesOf(report, "policy") = {Len(report)}
  BY JudgedAtTheEnd
<1>2. ASSUME Worst(report) # "passed"
      PROVE  \E i \in DOMAIN report : report[i].outcome = Worst(report) /\ report[i].brief = Brief(report)
  <2> DEFINE worst == {i \in DOMAIN report : report[i].outcome = Worst(report)}
  <2>1. worst # {}
    BY <1>2, WorstIs
  <2>2. worst \in SUBSET Nat
    BY DEF VInv, VTypes
  <2>3. EarliestOf(worst) \in worst
    BY <2>1, <2>2, EarliestIs
  <2>4. Brief(report) = report[EarliestOf(worst)].brief
    BY <1>2 DEF Brief
  <2> QED
    BY <2>3, <2>4
<1> QED
  BY <1>1, <1>2

LEMMA ClaimsHold == VInv => ClaimsAreTrue
<1> SUFFICES ASSUME VInv, at = "done" PROVE ClaimsAreTrue
  BY DEF ClaimsAreTrue
<1>1. \A i \in DOMAIN report : Honest(config, report[i])
  BY DEF VInv, Claims
<1>2. "credential ok" \in Told("reach") => config.good
  BY <1>1 DEF Told, LinesOf, Honest
<1>3. "session ok" \in Told("handshake") => config.good \/ config.transport = "child"
  BY <1>1 DEF Told, LinesOf, Honest
<1>4. "rejected" \in Told("reach") /\ (config.probe \/ config.signed) => ~config.good
  BY <1>1 DEF Told, LinesOf, Honest
<1>a. "not entitled" \in Told("reach") => IF config.good THEN ~config.entitled ELSE config.blunt
  BY <1>1 DEF Told, LinesOf, Honest
<1>5. ASSUME config.transport = "upstream", config.probe, Worst(report) = "passed" PROVE config.good
  <2>1. \A i \in DOMAIN report : report[i] \in Line
    BY DEF VInv, VTypes
  <2>2. \A i \in DOMAIN report : report[i].outcome = "passed"
    BY <1>5, <2>1, WorstIs DEF Line, Outcomes
  <2> QED
    BY <1>5, <2>2 DEF VInv, Claims
<1> QED
  BY <1>2, <1>3, <1>4, <1>5, <1>a DEF ClaimsAreTrue

LEMMA ExchangeHolds == VInv => AnsweredInTimeCounts /\ NothingOutlives
BY DEF VInv, Exchanged, AnsweredInTimeCounts, NothingOutlives

\* Whatever step a verification gives up at and whatever the other end answers, what the report
\* says of the credential and of a child is so, it ends with the rules, and no child outlives it.
THEOREM ReportsAreAlwaysTrue == VSpec => []ReportsAreTrue
<1>1. VInv => ReportsAreTrue
  BY TypesHold, JudgesHold, ClaimsHold, ExchangeHolds DEF ReportsAreTrue
<1> QED
  BY <1>1, VInvAlways, PTL

-----------------------------------------------------------------------------
(* What it says of the rules. *)

Decision(acl, request, when) == Evaluate(acl, FALSE, request, when).action

\* A decision is the default, where nothing matches, or that of a rule that matches.
LEMMA DecidedBy ==
  ASSUME NEW acl, acl.rules \in Seq(PatternRule), NEW request, NEW when
  PROVE  \/ /\ Decision(acl, request, when) = acl.default
         \/ \E i \in DOMAIN acl.rules :
              /\ Matches(acl.rules[i], request, when)
              /\ Decision(acl, request, when) = acl.rules[i].action
<1> DEFINE matching == Matching(acl, request, when)
<1>1. CASE matching = {}
  BY <1>1 DEF Evaluate, Decision
<1>2. CASE matching # {}
  <2>1. matching \in SUBSET Nat
    BY DEF Matching
  <2>2. Deciding(matching) \in matching
    BY <1>2, <2>1, EarliestIs
  <2>3. Decision(acl, request, when) = acl.rules[Deciding(matching)].action
    BY <1>2 DEF Evaluate, Decision
  <2> QED
    BY <2>2, <2>3 DEF Matching
<1> QED
  BY <1>1, <1>2

LEMMA VerdictIs ==
  ASSUME VInv, NEW kind, NEW methods, NEW paths, NEW verdict \in Verdicts(kind, methods, paths)
  PROVE  \/ verdict = config.policy.default
         \/ \E i \in DOMAIN config.policy.rules, m \in methods, p \in paths :
              LET rule == config.policy.rules[i] IN
                /\ verdict = rule.action
                /\ ~Expired(rule, judged) /\ Reaching(rule, kind, config.name)
                /\ \E ms \in rule.methods : m \in ms
                /\ PathMatches(rule.paths, p)
<1>1. PICK request \in Requests(kind, methods, paths) : verdict = Decision(config.policy, request, judged)
  BY DEF Verdicts, Decided, Decision
<1> DEFINE acl == config.policy
<1>2. acl.rules \in Seq(PatternRule)
  BY VerifyAssumption DEF VInv, VTypes, Config, RulesOfPatterns
<1>3. /\ request.kind = kind /\ request.target = config.name
      /\ request.method \in methods /\ request.path \in paths
  BY DEF Requests
<1>a. verdict = Decision(acl, request, judged)
  BY <1>1
<1> HIDE DEF acl
<1>4. \/ verdict = acl.default
      \/ \E i \in DOMAIN acl.rules :
            Matches(acl.rules[i], request, judged) /\ verdict = acl.rules[i].action
  <2>1. \/ Decision(acl, request, judged) = acl.default
        \/ \E i \in DOMAIN acl.rules :
              /\ Matches(acl.rules[i], request, judged)
              /\ Decision(acl, request, judged) = acl.rules[i].action
    BY <1>2, DecidedBy
  <2> QED
    BY <1>a, <2>1
<1>5. ASSUME NEW i \in DOMAIN acl.rules, Matches(acl.rules[i], request, judged)
      PROVE  /\ ~Expired(acl.rules[i], judged)
             /\ Reaching(acl.rules[i], kind, config.name)
             /\ \E ms \in acl.rules[i].methods : request.method \in ms
             /\ PathMatches(acl.rules[i].paths, request.path)
  BY <1>3, <1>5 DEF Matches, Reaching
<1> QED
  BY <1>3, <1>4, <1>5 DEF acl

LEMMA ToldOfTheRules ==
  ASSUME VInv, at = "done"
  PROVE  Told("policy") = {PolicyStep(config, judged).brief}
BY JudgedAtTheEnd DEF Told

LEMMA BadNewsHolds == VInv => BadNewsIsTrue
<1> SUFFICES ASSUME VInv, at = "done" PROVE BadNewsIsTrue
  BY DEF BadNewsIsTrue
<1> DEFINE acl == config.policy
           kind   == KindOf(config)
<1>1. Told("policy") = {PolicyStep(config, judged).brief}
  BY ToldOfTheRules
<1>2. ASSUME Told("policy") = {"no acl rule"}, NEW verdict \in Verdicts(kind, Methods, AnyPath)
      PROVE  verdict = "deny"
  <2>1. PolicyStep(config, judged).brief = "no acl rule"
    BY <1>1, <1>2
  <2>2. Reachability(acl, kind, config.name, judged).brief = "no acl rule"
    BY <2>1 DEF PolicyStep, KindOf, Step
  <2>3. acl.default = "deny"
    BY <2>2 DEF Reachability, Step
  <2>4. ASSUME NEW i \in DOMAIN acl.rules, Reaching(acl.rules[i], kind, config.name),
               ~Expired(acl.rules[i], judged)
        PROVE  acl.rules[i].action = "deny"
    BY <2>2, <2>4 DEF Reachability, Step, Admits
  <2> QED
    BY <2>3, <2>4, VerdictIs
<1>3. ASSUME Told("policy") = {"no initialize rule"} PROVE "allow" \notin Verdicts("mcp", {Initialize}, {NoPath})
  <2>1. PolicyStep(config, judged).brief = "no initialize rule"
    BY <1>1, <1>3
  <2>2. NoHandshake(acl, config.name)
    BY <2>1 DEF PolicyStep, Reachability, Step
  <2>3. SUFFICES ASSUME "allow" \in Verdicts("mcp", {Initialize}, {NoPath}) PROVE FALSE
    OBVIOUS
  <2>4. acl.default # "allow"
    BY <2>2 DEF NoHandshake
  <2>5. PICK i \in DOMAIN acl.rules :
          /\ acl.rules[i].action = "allow" /\ Reaching(acl.rules[i], "mcp", config.name)
          /\ \E ms \in acl.rules[i].methods : Initialize \in ms
          /\ PathMatches(acl.rules[i].paths, NoPath)
    <3>1. \E i \in DOMAIN config.policy.rules, m \in {Initialize}, p \in {NoPath} :
            /\ "allow" = config.policy.rules[i].action
            /\ ~Expired(config.policy.rules[i], judged) /\ Reaching(config.policy.rules[i], "mcp", config.name)
            /\ \E ms \in config.policy.rules[i].methods : m \in ms
            /\ PathMatches(config.policy.rules[i].paths, p)
      BY <2>3, <2>4, VerdictIs
    <3> QED
      BY <3>1
  <2>6. AdmitsHandshake(acl.rules[i], config.name)
    BY <2>5 DEF AdmitsHandshake, PathMatches
  <2> QED
    BY <2>2, <2>6 DEF NoHandshake
<1> QED
  BY <1>2, <1>3 DEF BadNewsIsTrue

LEMMA NothingGrantedHolds == VInv => NothingGrantedIsTrue
<1> SUFFICES ASSUME VInv, at = "done" PROVE NothingGrantedIsTrue
  BY DEF NothingGrantedIsTrue
<1> DEFINE acl == config.policy
           kind   == KindOf(config)
           said   == FirstCall(acl, kind, config.name, judged)
           meets  == Verdicts(kind, Methods, AnyPath)
<1>1. ASSUME said \in {"nothing is granted", "nobody is asked"}, acl.default # "allow", "allow" \in meets
      PROVE  \E i \in DOMAIN acl.rules : ~acl.rules[i].pattern /\ config.name \in acl.rules[i].target
  <2>1. StandingGrants(acl, kind, config.name, judged) = {}
    BY <1>1 DEF FirstCall
  <2>2. PICK i \in DOMAIN acl.rules :
          /\ acl.rules[i].action = "allow" /\ ~Expired(acl.rules[i], judged)
          /\ Reaching(acl.rules[i], kind, config.name)
    <3>0. config.policy.default # "allow" /\ "allow" \in Verdicts(kind, Methods, AnyPath)
      BY <1>1
    <3> HIDE DEF kind
    <3>1. \E i \in DOMAIN config.policy.rules, m \in Methods, p \in AnyPath :
            /\ "allow" = config.policy.rules[i].action
            /\ ~Expired(config.policy.rules[i], judged)
            /\ Reaching(config.policy.rules[i], kind, config.name)
            /\ \E ms \in config.policy.rules[i].methods : m \in ms
            /\ PathMatches(config.policy.rules[i].paths, p)
      BY <3>0, VerdictIs
    <3> QED
      BY <3>1
  <2>3. acl.rules[i] \in PatternRule
    BY VerifyAssumption DEF VInv, VTypes, Config, RulesOfPatterns
  <2>4. ~acl.rules[i].pattern
    BY <2>1, <2>2 DEF StandingGrants
  <2> QED
    BY <2>2, <2>4 DEF Reaching
<1>2. ASSUME said = "nobody is asked" PROVE "ask" \notin meets
  <2>1. CannotAsk(acl)
    BY <1>2 DEF FirstCall
  <2> QED
    BY <2>1, VerdictIs DEF CannotAsk
<1> QED
  BY <1>1, <1>2 DEF NothingGrantedIsTrue

\* The rule a grant is told of is a live one that allows, by a pattern.
LEMMA GrantIs ==
  ASSUME VInv, StandingGrants(config.policy, KindOf(config), config.name, judged) # {}
  PROVE  /\ Grant \in DOMAIN config.policy.rules /\ Grant \in Nat
         /\ config.policy.rules[Grant].action = "allow" /\ ~Expired(config.policy.rules[Grant], judged)
<1> DEFINE grants == StandingGrants(config.policy, KindOf(config), config.name, judged)
<1>1. config.policy.rules \in Seq(PatternRule)
  BY VerifyAssumption DEF VInv, VTypes, Config, RulesOfPatterns
<1>2. grants \in SUBSET Nat
  BY <1>1 DEF StandingGrants
<1>3. EarliestOf(grants) \in grants
  BY <1>2, EarliestIs
<1>4. Grant = EarliestOf(grants)
  BY DEF Grant
<1> HIDE DEF grants
<1>5. Grant \in grants /\ Grant \in Nat
  BY <1>2, <1>3, <1>4
<1> QED
  BY <1>5 DEF grants, StandingGrants

\* What a rule that has no deadline matches, it matches before its deadline.
LEMMA BeforeItsDeadline ==
  ASSUME VInv, NEW i \in DOMAIN config.policy.rules, ~Expired(config.policy.rules[i], judged),
         NEW request, WrittenFor(i, request)
  PROVE  Matches(config.policy.rules[i], request, judged)
<1> DEFINE rule == config.policy.rules[i]
           lasting == [rule EXCEPT !.expires = Never]
<1>1. rule \in PatternRule
  BY VerifyAssumption DEF VInv, VTypes, Config, RulesOfPatterns
<1>2. /\ lasting.kinds = rule.kinds /\ lasting.agent = rule.agent /\ lasting.target = rule.target
      /\ lasting.methods = rule.methods /\ lasting.paths = rule.paths
  BY <1>1 DEF PatternRule
<1>3. Matches(lasting, request, judged)
  BY DEF WrittenFor
<1> HIDE DEF lasting, rule
<1>4. Matches(rule, request, judged)
  <2>1. ~Expired(rule, judged)
    BY DEF rule
  <2> QED
    BY <1>2, <1>3, <2>1 DEF Matches
<1> QED
  BY <1>4 DEF rule

LEMMA GrantsHold == VInv => GrantsAreTrue
<1> SUFFICES ASSUME VInv, at = "done" PROVE GrantsAreTrue
  BY DEF GrantsAreTrue
<1> DEFINE acl    == config.policy
           kind   == KindOf(config)
           grants == StandingGrants(acl, kind, config.name, judged)
           said   == FirstCall(acl, kind, config.name, judged)
<1>1. Told("policy") = {PolicyStep(config, judged).brief}
  BY ToldOfTheRules
<1>2. Told("policy") = {"granted by a pattern"} \/ said = "granted already" => grants # {}
  <2>1. ASSUME Told("policy") = {"granted by a pattern"} PROVE grants # {}
    <3>1. PolicyStep(config, judged).brief = "granted by a pattern"
      BY <1>1, <2>1
    <3>2. Reachability(acl, kind, config.name, judged).brief = "granted by a pattern"
      BY <3>1 DEF PolicyStep, KindOf, Step
    <3> QED
      BY <3>2 DEF Reachability, Step
  <2>2. ASSUME said = "granted already" PROVE grants # {}
    BY <2>2 DEF FirstCall
  <2> QED
    BY <2>1, <2>2
<1>3. ASSUME grants # {}, NEW request \in Requests(kind, Methods, AnyPath), WrittenFor(Grant, request)
      PROVE  Decided(request).action = "allow" \/ Decided(request).rule \in 1..(Grant - 1)
  <2> DEFINE matching == Matching(acl, request, judged)
             first    == Deciding(matching)
  <2>1. Grant \in DOMAIN acl.rules /\ Grant \in Nat /\ acl.rules[Grant].action = "allow"
        /\ ~Expired(acl.rules[Grant], judged)
    BY <1>3, GrantIs
  <2>2. Matches(acl.rules[Grant], request, judged)
    BY <1>3, <2>1, BeforeItsDeadline
  <2>3. Grant \in matching
    BY <2>1, <2>2 DEF Matching
  <2>4. acl.rules \in Seq(PatternRule)
    BY VerifyAssumption DEF VInv, VTypes, Config, RulesOfPatterns
  <2>5. matching \in SUBSET Nat /\ matching \subseteq 1..Len(acl.rules) /\ matching # {}
    BY <2>3, <2>4 DEF Matching
  <2>6. first \in matching /\ first <= Grant
    BY <2>3, <2>5, EarliestIs
  <2>7. Decided(request) = [action |-> acl.rules[first].action, rule |-> first]
    BY <2>5 DEF Decided, Evaluate
  <2> HIDE DEF first, matching
  <2>8. first \in Nat /\ first >= 1 /\ Decided(request).rule = first
        /\ Decided(request).action = acl.rules[first].action
    BY <2>4, <2>5, <2>6, <2>7
  <2>9. CASE first = Grant
    BY <2>1, <2>8, <2>9
  <2>10. CASE first # Grant
    BY <2>1, <2>6, <2>8, <2>10
  <2> QED
    BY <2>9, <2>10
<1>4. ASSUME said = "the default allows", NEW request \in Requests(kind, Methods, AnyPath)
      PROVE  Decided(request).action = "allow" \/ Decided(request).rule # ByDefault
  <2> DEFINE matching == Matching(acl, request, judged)
  <2>1. acl.default = "allow"
    BY <1>4 DEF FirstCall
  <2>2. acl.rules \in Seq(PatternRule)
    BY VerifyAssumption DEF VInv, VTypes, Config, RulesOfPatterns
  <2>3. CASE matching = {}
    BY <2>1, <2>3 DEF Decided, Evaluate
  <2>4. CASE matching # {}
    <3>1. matching \in SUBSET Nat /\ matching \subseteq 1..Len(acl.rules)
      BY <2>2 DEF Matching
    <3>2. Deciding(matching) \in matching
      BY <2>4, <3>1, EarliestIs
    <3>3. Decided(request).rule = Deciding(matching)
      BY <2>4 DEF Decided, Evaluate
    <3> HIDE DEF matching
    <3> QED
      BY <2>2, <3>1, <3>2, <3>3 DEF ByDefault
  <2> QED
    BY <2>3, <2>4
<1> QED
  BY <1>2, <1>3, <1>4 DEF GrantsAreTrue

\* A warning about the rules is borne out by what the proxy decides for every agent, method and
\* path; an enrolment that calls nothing granted has walked into no pattern's grant; and the
\* grant that one is told of is had by every call its rule was written for, save those that an
\* earlier rule decides.
THEOREM WarningsAreAlwaysTrue == VSpec => []WarningsAreTrue
<1>1. VInv => WarningsAreTrue
  BY BadNewsHolds, NothingGrantedHolds, GrantsHold DEF WarningsAreTrue
<1> QED
  BY <1>1, VInvAlways, PTL
=============================================================================
