---------------------------- MODULE ReloadProofs ----------------------------
(***************************************************************************)
(* That a policy is whole, for any number of reloads at once: the          *)
(* invariant behind PolicyIsWhole, and that the listeners, which only      *)
(* follow, do not disturb it.  And that the listeners themselves hold:     *)
(* the invariant behind ListenersHold, for a channel of any capacity.      *)
(***************************************************************************)
EXTENDS Listeners, TLAPS

\* What is read is only taken further if it loads.
DraftsLoad ==
  \A r \in Reloaders :
    step[r] \in {"adopt", "check", "announce"} \cup PartNames => draft[r] \in good

\* Until two were under way at once, one is at most.
OneAtATime ==
  ~overlapped =>
    \A r, s \in Reloaders : step[r] # "idle" /\ step[s] # "idle" => r = s

\* The parts a reload at this step has yet to put in charge.
Todo(s) ==
  CASE s = "agents"   -> {"agents", "settings", "config"}
    [] s = "settings" -> {"settings", "config"}
    [] s = "config"   -> {"config"}
    [] s = "announce" -> {}
    [] OTHER          -> PartNames

\* Where a reload that has the policy to itself is: what it has installed is its draft,
\* what it has not is of one edition, and the accounts are that of the one or the other.
Midway(r) ==
  /\ \A p, q \in Todo(step[r]) : served[p] = served[q]
  /\ \A p \in PartNames \ Todo(step[r]) : served[p] = draft[r]
  /\ accounts = IF step[r] \in {"check", "announce"} \cup PartNames THEN draft[r] ELSE served["config"]
  /\ step[r] = "check" => saved[r] = served["config"]

Settled ==
  /\ \A p, q \in PartNames : served[p] = served[q]
  /\ accounts = served["config"]

InTurn ==
  ~overlapped =>
    /\ \A r \in Reloaders : step[r] # "idle" => Midway(r)
    /\ (\A r \in Reloaders : step[r] = "idle") => Settled

Inv == OnlyLoadablePolicies /\ DraftsLoad /\ OneAtATime /\ InTurn

-----------------------------------------------------------------------------
\* The order in which a policy's parts are installed.
LEMMA PartsInOrder ==
  /\ Len(Parts) = 4
  /\ Parts[1] = "acl" /\ Parts[2] = "agents" /\ Parts[3] = "settings" /\ Parts[4] = "config"
  /\ After(1) = "agents" /\ After(2) = "settings" /\ After(3) = "config" /\ After(4) = "announce"
BY DEF Parts, After

\* What is left to install at each step.
LEMMA TodoIs ==
  /\ Todo("agents") = {"agents", "settings", "config"} /\ Todo("settings") = {"settings", "config"}
  /\ Todo("config") = {"config"} /\ Todo("announce") = {}
  /\ \A s \in {"idle", "read", "adopt", "check", "mark", "acl"} : Todo(s) = PartNames
BY DEF Todo

\* A proxy starts with one policy, whole.
LEMMA InitOK == Init => TypeOK /\ Inv
<1> SUFFICES ASSUME Init PROVE TypeOK /\ Inv
  OBVIOUS
<1>1. TypeOK
  <2>1. 1 \in 1..MaxEdits /\ Editions = {1}
    BY EditsBounded DEF Init, Editions
  <2>2. edition \in 1..MaxEdits /\ good \subseteq Editions /\ seen \in Editions /\ noticed \in 0..edition
    BY <2>1 DEF Init
  <2>3. served \in [PartNames -> Editions] /\ accounts \in Editions
    BY <2>1 DEF Init
  <2>4. /\ mark \in [Reloaders -> Editions] /\ draft \in [Reloaders -> Editions]
        /\ saved \in [Reloaders -> Editions]
    BY <2>1 DEF Init
  <2> QED
    BY <2>2, <2>3, <2>4 DEF Init, TypeOK
<1>2. \A r \in Reloaders : step[r] = "idle"
  BY DEF Init
<1>3. OnlyLoadablePolicies /\ Settled
  BY DEF Init, OnlyLoadablePolicies, Settled, PartNames
<1>4. DraftsLoad /\ OneAtATime /\ InTurn
  BY <1>2, <1>3 DEF DraftsLoad, OneAtATime, InTurn, PartNames
<1> QED
  BY <1>1, <1>3, <1>4 DEF Inv

\* Type correctness is inductive.
LEMMA TypeStep == TypeOK /\ [Next]_vars => TypeOK'
<1> SUFFICES ASSUME TypeOK, [Next]_vars PROVE TypeOK'
  OBVIOUS
<1> USE PollerReloads, EditsBounded DEF TypeOK, Editions, PartNames
<1>1. ASSUME NEW loads \in BOOLEAN, Edit(loads) PROVE TypeOK'
  <2>1. /\ edition' = edition + 1 /\ edition' \in 1..MaxEdits
        /\ Editions \subseteq Editions' /\ edition' \in Editions'
    BY <1>1 DEF Edit
  <2>2. good' \subseteq Editions'
    BY <1>1, <2>1 DEF Edit
  <2>3. seen' \in Editions' /\ noticed' \in 0..edition' /\ accounts' \in Editions'
    BY <1>1, <2>1 DEF Edit, watcher
  <2>4. served' \in [PartNames -> Editions']
    BY <1>1, <2>1 DEF Edit
  <2>5. /\ mark' \in [Reloaders -> Editions'] /\ draft' \in [Reloaders -> Editions']
        /\ saved' \in [Reloaders -> Editions']
    BY <1>1, <2>1 DEF Edit, reloads
  <2> QED
    BY <1>1, <2>1, <2>2, <2>3, <2>4, <2>5 DEF Edit, reloads
<1>2. CASE Notice
  BY <1>2 DEF Notice, Edited, file, policy, reloads
<1>3. ASSUME NEW r \in Reloaders, Begin(r) PROVE TypeOK'
  BY <1>3 DEF Begin, file, policy
<1>4. ASSUME NEW r \in Reloaders, ReloadStep(r) PROVE TypeOK'
  <2>1. CASE Read(r)
    BY <2>1 DEF Read, file, watcher, policy
  <2>2. CASE Adopt(r)
    BY <2>2 DEF Adopt, file, watcher
  <2>3. CASE Accept(r)
    BY <2>3, PartsInOrder DEF Accept, file, watcher, policy
  <2>4. CASE Refuse(r)
    BY <2>4 DEF Refuse, PutBack, file, watcher
  <2>5. CASE Announce(r)
    BY <2>5 DEF Announce, file, watcher, policy
  <2>6. CASE Record(r)
    BY <2>6 DEF Record, Stamp, file, policy
  <2>7. ASSUME NEW k \in 1..Len(Parts), Install(r, k) PROVE TypeOK'
    <3>1. k \in {1, 2, 3, 4}
      BY PartsInOrder
    <3>2. /\ Parts[k] \in PartNames
          /\ After(k) \in {"announce"} \cup PartNames
      BY <3>1, PartsInOrder
    <3> QED
      BY <2>7, <3>2 DEF Install, file, watcher
  <2> QED
    BY <1>4, <2>1, <2>2, <2>3, <2>4, <2>5, <2>6, <2>7 DEF ReloadStep
<1>5. CASE UNCHANGED vars
  BY <1>5 DEF vars, file, watcher, policy, reloads
<1> QED
  BY <1>1, <1>2, <1>3, <1>4, <1>5 DEF Next, PollReloads, AskedTo

-----------------------------------------------------------------------------
(* The parts of the invariant, one by one. *)

\* Only what was read and loads gets as far as being in charge.
LEMMA LoadStep == TypeOK /\ OnlyLoadablePolicies /\ DraftsLoad /\ [Next]_vars
                    => OnlyLoadablePolicies' /\ DraftsLoad'
<1> SUFFICES ASSUME TypeOK, OnlyLoadablePolicies, DraftsLoad, [Next]_vars
             PROVE  OnlyLoadablePolicies' /\ DraftsLoad'
  OBVIOUS
<1> USE DEF TypeOK, Editions, PartNames, OnlyLoadablePolicies, DraftsLoad
<1>1. ASSUME NEW loads \in BOOLEAN, Edit(loads) PROVE OnlyLoadablePolicies' /\ DraftsLoad'
  <2>1. good \subseteq good' /\ UNCHANGED <<served, step, draft>>
    BY <1>1 DEF Edit, reloads
  <2> QED
    BY <2>1
<1>2. CASE Notice
  BY <1>2 DEF Notice, file, policy, reloads
<1>3. ASSUME NEW r \in Reloaders, Begin(r) PROVE OnlyLoadablePolicies' /\ DraftsLoad'
  BY <1>3 DEF Begin, file, policy
<1>4. ASSUME NEW r \in Reloaders, ReloadStep(r) PROVE OnlyLoadablePolicies' /\ DraftsLoad'
  <2>1. CASE Read(r)
    BY <2>1 DEF Read, Loads, file, watcher, policy
  <2>2. CASE Adopt(r)
    BY <2>2 DEF Adopt, file, watcher
  <2>3. CASE Accept(r)
    BY <2>3 DEF Accept, file, watcher, policy
  <2>4. CASE Refuse(r)
    BY <2>4 DEF Refuse, file, watcher
  <2>5. CASE Announce(r)
    BY <2>5 DEF Announce, file, watcher, policy
  <2>6. CASE Record(r)
    BY <2>6 DEF Record, file, policy
  <2>7. ASSUME NEW k \in 1..Len(Parts), Install(r, k) PROVE OnlyLoadablePolicies' /\ DraftsLoad'
    <3>1. k \in {1, 2, 3, 4}
      BY PartsInOrder
    <3>2. Parts[k] \in PartNames
      BY <3>1, PartsInOrder
    <3> QED
      BY <2>7, <3>2 DEF Install, file, watcher
  <2> QED
    BY <1>4, <2>1, <2>2, <2>3, <2>4, <2>5, <2>6, <2>7 DEF ReloadStep
<1>5. CASE UNCHANGED vars
  BY <1>5 DEF vars, file, watcher, policy, reloads
<1> QED
  BY <1>1, <1>2, <1>3, <1>4, <1>5, PollerReloads DEF Next, PollReloads, AskedTo

\* What a step of one reload may do to the others: nothing.
LEMMA OneMoves ==
  ASSUME TypeOK, NEW r \in Reloaders, ReloadStep(r)
  PROVE  /\ overlapped' = overlapped
         /\ step[r] # "idle"
         /\ \A s \in Reloaders \ {r} : step'[s] = step[s] /\ draft'[s] = draft[s] /\ saved'[s] = saved[s]
<1> USE DEF TypeOK, PartNames
<1>1. CASE \E k \in 1..Len(Parts) : Install(r, k)
  <2> PICK k \in 1..Len(Parts) : Install(r, k)
    BY <1>1
  <2>1. k \in {1, 2, 3, 4}
    BY PartsInOrder
  <2> QED
    BY <2>1, PartsInOrder DEF Install
<1>2. CASE Read(r) \/ Adopt(r) \/ Accept(r) \/ Refuse(r) \/ Announce(r) \/ Record(r)
  BY <1>2 DEF Read, Adopt, Accept, Refuse, Announce, Record
<1> QED
  BY <1>1, <1>2 DEF ReloadStep

\* A second reload under way is noted as an overlap.
LEMMA OneStep == TypeOK /\ OneAtATime /\ [Next]_vars => OneAtATime'
<1> SUFFICES ASSUME TypeOK, OneAtATime, [Next]_vars PROVE OneAtATime'
  OBVIOUS
<1> USE DEF OneAtATime
<1>1. CASE (\E loads \in BOOLEAN : Edit(loads)) \/ Notice \/ UNCHANGED vars
  BY <1>1 DEF Edit, Notice, vars, reloads
<1>2. ASSUME NEW r \in Reloaders, Begin(r) PROVE OneAtATime'
  BY <1>2 DEF Begin, TypeOK
<1>3. ASSUME NEW r \in Reloaders, ReloadStep(r) PROVE OneAtATime'
  BY <1>3, OneMoves
<1> QED
  BY <1>1, <1>2, <1>3, PollerReloads DEF Next, PollReloads, AskedTo

\* A reload that has the policy to itself goes from one step of the way to the next.
LEMMA MidwayStep ==
  ASSUME TypeOK, NEW r \in Reloaders, Midway(r), ReloadStep(r)
  PROVE  IF step'[r] = "idle" THEN Settled' ELSE Midway(r)'
<1> USE TodoIs DEF TypeOK, PartNames
<1>1. CASE Read(r)
  BY <1>1 DEF Read, policy, Midway
<1>2. CASE Adopt(r)
  BY <1>2 DEF Adopt, Midway
<1>3. CASE Accept(r)
  BY <1>3, PartsInOrder DEF Accept, policy, Midway
<1>4. CASE Refuse(r)
  BY <1>4 DEF Refuse, PutBack, Midway
<1>5. CASE Announce(r)
  BY <1>5 DEF Announce, policy, Midway
<1>6. CASE Record(r)
  BY <1>6 DEF Record, policy, Midway, Settled
<1>7. ASSUME NEW k \in 1..Len(Parts), Install(r, k) PROVE step'[r] # "idle" /\ Midway(r)'
  <2>1. k \in {1, 2, 3, 4}
    BY PartsInOrder
  <2>2. CASE k = 1
    BY <1>7, <2>2, PartsInOrder DEF Install, Midway
  <2>3. CASE k = 2
    BY <1>7, <2>3, PartsInOrder DEF Install, Midway
  <2>4. CASE k = 3
    BY <1>7, <2>4, PartsInOrder DEF Install, Midway
  <2>5. CASE k = 4
    BY <1>7, <2>5, PartsInOrder DEF Install, Midway
  <2> QED
    BY <2>1, <2>2, <2>3, <2>4, <2>5
<1> QED
  BY <1>1, <1>2, <1>3, <1>4, <1>5, <1>6, <1>7 DEF ReloadStep

\* Reloads that take turns are each midway or done.
LEMMA TurnStep == TypeOK /\ OneAtATime /\ InTurn /\ [Next]_vars => InTurn'
<1> SUFFICES ASSUME TypeOK, OneAtATime, InTurn, [Next]_vars, ~overlapped'
             PROVE  /\ \A r \in Reloaders : step'[r] # "idle" => Midway(r)'
                    /\ (\A r \in Reloaders : step'[r] = "idle") => Settled'
  BY DEF InTurn
<1> DEFINE Goal == /\ \A r \in Reloaders : step'[r] # "idle" => Midway(r)'
                   /\ (\A r \in Reloaders : step'[r] = "idle") => Settled'
<1>1. CASE (\E loads \in BOOLEAN : Edit(loads)) \/ Notice \/ UNCHANGED vars
  <2>1. UNCHANGED <<step, draft, saved, served, accounts, overlapped>>
    BY <1>1 DEF Edit, Notice, vars, reloads, policy
  <2> QED
    BY <2>1 DEF InTurn, Midway, Settled
<1>2. ASSUME NEW r \in Reloaders, Begin(r) PROVE Goal
  <2>1. /\ ~overlapped /\ \A s \in Reloaders : step[s] = "idle"
        /\ step' = [step EXCEPT ![r] = "read"] /\ UNCHANGED <<served, accounts, draft, saved>>
    BY <1>2 DEF Begin, policy
  <2>2. Settled
    BY <2>1 DEF InTurn
  <2>3. Midway(r)'
    BY <2>1, <2>2, TodoIs DEF Midway, Settled, TypeOK, PartNames
  <2> QED
    BY <2>1, <2>3 DEF TypeOK
<1>3. ASSUME NEW r \in Reloaders, ReloadStep(r) PROVE Goal
  <2>1. ~overlapped /\ step[r] # "idle" /\ \A s \in Reloaders \ {r} : step'[s] = step[s]
    BY <1>3, OneMoves
  <2>2. \A s \in Reloaders \ {r} : step'[s] = "idle"
    BY <2>1 DEF OneAtATime
  <2>3. Midway(r)
    BY <2>1 DEF InTurn
  <2>4. IF step'[r] = "idle" THEN Settled' ELSE Midway(r)'
    BY <1>3, <2>3, MidwayStep
  <2> QED
    BY <2>2, <2>4
<1> QED
  BY <1>1, <1>2, <1>3, PollerReloads DEF Next, PollReloads, AskedTo

-----------------------------------------------------------------------------
\* The invariant is inductive.
LEMMA InvStep == TypeOK /\ Inv /\ [Next]_vars => TypeOK' /\ Inv'
BY TypeStep, LoadStep, OneStep, TurnStep DEF Inv

\* It has what the property asks.
LEMMA InvMeans == TypeOK /\ Inv => PolicyIsWhole
<1> SUFFICES ASSUME TypeOK, Inv PROVE PolicyIsWhole
  OBVIOUS
<1>1. OnlyLoadablePolicies
  BY DEF Inv
<1>2. ASSUME ~overlapped, Quiet PROVE \A p, q \in PartNames : served[p] = served[q]
  <2>1. CASE \E r \in Reloaders : step[r] # "idle"
    <3>1. PICK r \in Reloaders : step[r] # "idle"
      BY <2>1
    <3>2. Midway(r) /\ step[r] \in {"read", "adopt", "check", "announce", "mark"}
      BY <1>2, <3>1 DEF Inv, InTurn, Quiet, Installing, TypeOK
    <3> QED
      BY <3>2, TodoIs DEF Midway
  <2>2. CASE \A r \in Reloaders : step[r] = "idle"
    BY <1>2, <2>2 DEF Inv, InTurn, Settled
  <2> QED
    BY <2>1, <2>2
<1>3. ASSUME ~overlapped,
             \A r \in Reloaders : step[r] \in {"idle", "read", "adopt", "announce", "mark"}
      PROVE  accounts = served["config"]
  <2>1. CASE \E r \in Reloaders : step[r] # "idle"
    <3>1. PICK r \in Reloaders : step[r] # "idle"
      BY <2>1
    <3>2. Midway(r) /\ step[r] \in {"read", "adopt", "announce", "mark"}
      BY <1>3, <3>1 DEF Inv, InTurn
    <3> QED
      BY <3>2, TodoIs DEF Midway, PartNames
  <2>2. CASE \A r \in Reloaders : step[r] = "idle"
    BY <1>3, <2>2 DEF Inv, InTurn, Settled
  <2> QED
    BY <2>1, <2>2
<1> QED
  BY <1>1, <1>2, <1>3 DEF PolicyIsWhole, ServesOnePolicy, AccountsArePolicys

\* However many reload at once and whatever is edited or refused meanwhile (state.rs,
\* AppState::reload), no part of an edition that does not load is in charge; and until two of
\* them overlap, all parts and the accounts are one edition's between reloads.
THEOREM Whole == Spec => []PolicyIsWhole
<1>1. Init => TypeOK /\ Inv
  BY InitOK
<1>2. (TypeOK /\ Inv) /\ [Next]_vars => (TypeOK /\ Inv)'
  BY InvStep
<1>3. TypeOK /\ Inv => PolicyIsWhole
  BY InvMeans
<1> QED
  BY <1>1, <1>2, <1>3, PTL DEF Spec

-----------------------------------------------------------------------------
\* With what the listeners add to it, a step is one of the reload or none.
LEMMA NextFollows == [LNext]_all => [Next]_vars
<1> SUFFICES ASSUME [LNext]_all PROVE [Next]_vars
  OBVIOUS
<1>1. ASSUME NEW loads \in BOOLEAN, LEdit(loads) PROVE Next
  BY <1>1 DEF LEdit, Next
<1>2. ASSUME NEW r \in Reloaders, LStep(r) PROVE Next
  BY <1>2 DEF LStep, LJudge, LAnnounce, ReloadStep, Next
<1>3. ASSUME NEW r \in Reloaders, NEW asked \in BOOLEAN, LBegin(r, asked) PROVE Next
  BY <1>3 DEF LBegin, Next
<1>4. CASE LNotice
  BY <1>4 DEF LNotice, Next
<1>5. CASE LateAnswer \/ Renew \/ Loop
  BY <1>5 DEF LateAnswer, Renew, Loop, Hear, GoDeaf, Load, LoadFails, RebindProxy, Drained, RebindAdmin,
              OpenAdmin, CloseAdmin
<1>6. CASE UNCHANGED all
  BY <1>6 DEF all
<1> QED
  BY <1>1, <1>2, <1>3, <1>4, <1>5, <1>6 DEF LNext

\* What the listeners add to a reload changes nothing of it (main.rs, run and adopt): with
\* them, every behaviour is one of the reload.
THEOREM ListenersFollow == LSpec => Spec
<1>1. LInit => Init
  BY DEF LInit
<1>2. [LNext]_all => [Next]_vars
  BY NextFollows
<1> QED
  BY <1>1, <1>2, PTL DEF LSpec, Spec

\* So the policy a running proxy serves is whole, whatever its sockets are doing.
THEOREM WholeWithListeners == LSpec => []PolicyIsWhole
BY Whole, ListenersFollow, PTL

-----------------------------------------------------------------------------
(* The listeners. *)

Draining == {"drain", "drain control plane"}
Adopting == {"proxy", "control plane"} \cup Draining

Stages == {"select", "tls", "deaf"} \cup Adopting

\* Nothing older than what an adoption that was asked for read was filed, or the last
\* adoption was one that read for itself.
Owed == now.fresh \/ ~outrun

\* What is loaded for an adoption is no older than what one that was asked for read.
LoadedIsRecent ==
  /\ due <= renewed
  /\ ~outrun /\ parsed # Plain => parsed >= due
  /\ doing \in Adopting /\ Owed /\ loaded # Plain => loaded >= due

Recent(s) == s.cert # Plain => s.cert >= due

\* An adoption has got as far as giving it to the proxy, or to both.
ServedSoFar ==
  /\ Owed /\ doing \in {"control plane"} \cup Draining => Recent(proxy)
  /\ Owed /\ doing = "drain control plane" /\ admin # None => Recent(admin)
  /\ Owed /\ doing = "select" /\ ~failed => Recent(proxy) /\ (admin # None => Recent(admin))

\* What was told to stop closes before anything else is bound, and no two listeners are
\* at one address.
OwnAddresses ==
  /\ closing # {} => doing \in Draining
  /\ proxy \notin closing
  /\ admin # None => admin.addr # proxy.addr

\* The type invariant, in parts: what reloads write, what the loop reads, what is bound.
ChannelOK ==
  /\ says \in [1..MaxEdits -> AnySettings]
  /\ fresh \in [Reloaders -> BOOLEAN]
  /\ told \in Seq(News) /\ Len(told) <= Capacity /\ lagged \in BOOLEAN
  /\ now \in News
StageOK == doing \in Stages /\ failed \in BOOLEAN
CertificatesOK ==
  /\ {loaded, parsed} \subseteq Certificates /\ {renewed, due} \subseteq 1..MaxRenewals
  /\ outrun \in BOOLEAN
SocketsOK ==
  /\ proxy \in Sockets /\ admin \in Sockets \cup {None}
  /\ closing \subseteq Sockets /\ stray \subseteq Sockets

LInv ==
  /\ ChannelOK /\ StageOK /\ CertificatesOK /\ SocketsOK
  /\ LoadedIsRecent /\ ServedSoFar /\ OwnAddresses

\* What an edition names is an address.
LEMMA AddressesOf ==
  ASSUME NEW said \in AnySettings
  PROVE  /\ said.listen \in Addresses
         /\ said.admin # None => said.admin \in Addresses
<1> DEFINE Named == {{s.listen, s.admin} : s \in AnySettings}
<1>1. {said.listen, said.admin} \in Named
  OBVIOUS
<1>2. Addresses = (UNION Named) \ {None}
  BY DEF Addresses
<1> HIDE DEF Named
<1>3. said.listen \in UNION Named /\ said.admin \in UNION Named
  BY <1>1
<1>4. said.listen # None
  BY SettingsAreSettings DEF AnySettings
<1> QED
  BY <1>2, <1>3, <1>4

\* A listener starts where the policy it starts with says.
LEMMA ListenersStart == LInit => LInv
<1> SUFFICES ASSUME LInit PROVE LInv
  OBVIOUS
<1>1. PICK first \in Settings[1] :
        /\ says = [e \in 1..MaxEdits |-> first]
        /\ proxy = Socket(first.listen, IF first.tls THEN 1 ELSE Plain)
        /\ admin = IF first.admin = None THEN None ELSE Socket(first.admin, proxy.cert)
        /\ parsed = proxy.cert
  BY DEF LInit
<1>2. first.listen # None /\ first.tls \in BOOLEAN /\ first.listen # first.admin
  BY <1>1, EditsBounded, SettingsAreSettings, FirstCanBind
<1>3. /\ first \in AnySettings
      /\ first.listen \in Addresses /\ (first.admin # None => first.admin \in Addresses)
  <2>1. first \in AnySettings
    BY <1>1, EditsBounded DEF AnySettings
  <2> QED
    BY <2>1, <1>2, AddressesOf
<1>4. {0, 1} \subseteq Certificates /\ Plain = 0
  BY RenewalsBounded DEF Certificates, Plain
<1>5. proxy \in Sockets /\ admin \in Sockets \cup {None} /\ parsed \in {0, 1} /\ proxy.cert \in {0, 1}
  BY <1>1, <1>3, <1>4 DEF Sockets, Socket
<1>6. ChannelOK
  <2>1. edition = 1 /\ News = [edition : {1}, fresh : BOOLEAN]
    BY DEF LInit, Init, News, Editions
  <2>2. now \in News
    BY <2>1 DEF LInit, Nothing
  <2>3. told \in Seq(News) /\ Len(told) = 0
    BY DEF LInit
  <2> QED
    <3>1. says \in [1..MaxEdits -> AnySettings] /\ fresh \in [Reloaders -> BOOLEAN]
      BY <1>1, <1>3 DEF LInit
    <3>2. lagged \in BOOLEAN
      BY DEF LInit
    <3>3. Len(told) <= Capacity
      BY <2>3, CapacityIsPositive
    <3> QED
      BY <2>2, <2>3, <3>1, <3>2, <3>3 DEF ChannelOK
<1>7. StageOK /\ SocketsOK
  BY <1>5 DEF LInit, StageOK, Stages, SocketsOK
<1>8. CertificatesOK /\ LoadedIsRecent
  <2>1. loaded = Plain /\ renewed = 1 /\ due = 1 /\ outrun = FALSE /\ doing = "select"
    BY DEF LInit
  <2>2. 1 \in 1..MaxRenewals
    BY RenewalsBounded
  <2>3. CertificatesOK
    BY <1>4, <1>5, <2>1, <2>2 DEF CertificatesOK
  <2> QED
    BY <1>4, <1>5, <2>1, <2>3 DEF LoadedIsRecent, Adopting, Draining
<1>9. ServedSoFar
  <2>1. due = 1 /\ doing = "select"
    BY DEF LInit
  <2>2. Recent(proxy)
    BY <1>4, <1>5, <2>1 DEF Recent
  <2>3. admin # None => Recent(admin)
    BY <1>1, <2>2 DEF Recent, Socket
  <2> QED
    BY <2>1, <2>2, <2>3 DEF ServedSoFar, Draining
<1>10. OwnAddresses
  BY <1>1, <1>2 DEF LInit, OwnAddresses, Socket
<1> QED
  BY <1>6, <1>7, <1>8, <1>9, <1>10 DEF LInv

-----------------------------------------------------------------------------
\* Editions are only added.
LEMMA EditionsGrow == TypeOK /\ [Next]_vars => Editions \subseteq Editions'
<1> SUFFICES ASSUME TypeOK, [Next]_vars PROVE edition' \in Nat /\ edition <= edition'
  BY DEF TypeOK, Editions
<1>1. edition \in Nat
  BY EditsBounded DEF TypeOK
<1>2. CASE \E loads \in BOOLEAN : Edit(loads)
  BY <1>1, <1>2 DEF Edit
<1>3. ASSUME NEW r \in Reloaders, Begin(r) \/ ReloadStep(r) PROVE edition' = edition
  BY <1>3 DEF Begin, ReloadStep, Read, Adopt, Accept, Refuse, Announce, Record, Install, file, vars
<1>4. CASE Notice \/ UNCHANGED vars
  BY <1>1, <1>4 DEF Notice, vars, file
<1> QED
  BY <1>1, <1>2, <1>3, <1>4, PollerReloads DEF Next, PollReloads, AskedTo

\* What the reloads, the watcher, whoever else reads and a renewal do to the sockets and to
\* the loop: nothing; they may file a certificate.
Background ==
  /\ UNCHANGED <<sockets, loop, loaded, due>>
  /\ \/ UNCHANGED cache
     \/ parsed' \in 1..renewed /\ outrun' = (outrun \/ parsed' < due)
  /\ renewed' \in {renewed, renewed + 1} /\ (renewed' # renewed => renewed < MaxRenewals)

\* Every step that is not the loop's is in the background.
LEMMA BackgroundStep ==
  ASSUME CertificatesOK, ~Loop, [LNext]_all
  PROVE  Background
<1> USE DEF Background
<1>1. ASSUME NEW loads \in BOOLEAN, LEdit(loads) PROVE Background
  BY <1>1 DEF LEdit, tls
<1>2. ASSUME NEW r \in Reloaders, LStep(r) PROVE Background
  <2>1. CASE LJudge(r)
    <3>1. renewed \in 1..renewed
      BY RenewalsBounded DEF CertificatesOK
    <3> QED
      BY <2>1, <3>1 DEF LJudge, Preload, File, Filed
  <2>2. CASE ~LJudge(r)
    BY <1>2, <2>2 DEF LStep, LAnnounce, listeners, tls
  <2> QED
    BY <2>1, <2>2
<1>3. ASSUME NEW r \in Reloaders, NEW asked \in BOOLEAN, LBegin(r, asked) PROVE Background
  BY <1>3 DEF LBegin, tls
<1>4. CASE LNotice \/ UNCHANGED all
  BY <1>4 DEF LNotice, all, listeners, tls
<1>5. CASE Renew
  BY <1>5 DEF Renew
<1>6. CASE LateAnswer
  BY <1>6 DEF LateAnswer, File, Filed
<1> QED
  BY <1>1, <1>2, <1>3, <1>4, <1>5, <1>6 DEF LNext

\* So they leave what the invariant says of them.
LEMMA BackgroundKeeps ==
  ASSUME LInv, Background
  PROVE  (StageOK /\ CertificatesOK /\ SocketsOK /\ LoadedIsRecent /\ ServedSoFar /\ OwnAddresses)'
<1>1. UNCHANGED <<proxy, admin, closing, stray, doing, now, failed, loaded, due>>
  BY DEF Background, sockets, loop
<1>2. /\ parsed \in Nat /\ renewed \in Nat /\ due \in Nat /\ Plain = 0
      /\ outrun' \in BOOLEAN /\ (outrun => outrun')
      /\ parsed' \in Certificates
      /\ ~outrun' /\ parsed' # Plain => parsed' >= due
  <2>1. /\ parsed \in Nat /\ renewed \in 1..MaxRenewals /\ due \in Nat /\ outrun \in BOOLEAN
        /\ parsed \in Certificates /\ Certificates = 0..MaxRenewals /\ MaxRenewals \in Nat /\ Plain = 0
    BY RenewalsBounded DEF LInv, CertificatesOK, Certificates, Plain
  <2>2. ~outrun /\ parsed # Plain => parsed >= due
    BY DEF LInv, LoadedIsRecent
  <2>3. CASE UNCHANGED cache
    BY <2>1, <2>2, <2>3 DEF cache
  <2>4. CASE parsed' \in 1..renewed /\ outrun' = (outrun \/ parsed' < due)
    <3>1. parsed' \in Certificates /\ parsed' \in Nat
      BY <2>1, <2>4
    <3>2. CASE outrun \/ parsed' < due
      <4>1. outrun' = TRUE
        BY <2>4, <3>2
      <4> QED
        BY <2>1, <3>1, <4>1
    <3>3. CASE ~(outrun \/ parsed' < due)
      <4>1. outrun' = FALSE /\ ~outrun /\ ~(parsed' < due)
        BY <2>4, <3>3
      <4>2. parsed' >= due
        BY <2>1, <3>1, <4>1
      <4>3. outrun' \in BOOLEAN /\ (outrun => outrun')
        BY <4>1, Zenon
      <4> QED
        BY <2>1, <3>1, <4>2, <4>3
    <3> QED
      BY <3>2, <3>3
  <2> QED
    BY <2>3, <2>4 DEF Background
<1>3. Owed' => Owed
  BY <1>1, <1>2 DEF Owed
<1>4. StageOK' /\ SocketsOK' /\ OwnAddresses'
  BY <1>1 DEF LInv, StageOK, SocketsOK, OwnAddresses
<1>5. ServedSoFar'
  BY <1>1, <1>3 DEF LInv, ServedSoFar, Recent
<1>6. CertificatesOK'
  BY <1>1, <1>2, RenewalsBounded DEF LInv, CertificatesOK, Background
<1>7. due' <= renewed'
  BY <1>1, RenewalsBounded DEF LInv, CertificatesOK, Background, LoadedIsRecent
<1>8. LoadedIsRecent'
  BY <1>1, <1>7, <1>2, <1>3 DEF LInv, LoadedIsRecent
<1> QED
  BY <1>4, <1>5, <1>6, <1>8

\* The broadcast throws the oldest away to stay within its capacity.
LEMMA QueuedOK ==
  ASSUME NEW S, NEW news \in S, told \in Seq(S), Len(told) <= Capacity
  PROVE  Queued(news) \in Seq(S) /\ Len(Queued(news)) <= Capacity
<1>1. Len(told) \in Nat /\ Capacity \in Nat /\ Capacity >= 1
  BY CapacityIsPositive
<1>2. CASE Len(told) < Capacity
  <2>1. Queued(news) = Append(told, news)
    BY <1>2 DEF Queued
  <2>2. Append(told, news) \in Seq(S) /\ Len(Append(told, news)) = Len(told) + 1
    OBVIOUS
  <2> QED
    BY <1>1, <1>2, <2>1, <2>2
<1>3. CASE ~(Len(told) < Capacity)
  <2>1. Queued(news) = Append(Tail(told), news) /\ Len(told) = Capacity
    BY <1>1, <1>3 DEF Queued
  <2>2. told # <<>>
    BY <1>1, <2>1
  <2>3. Tail(told) \in Seq(S) /\ Len(Tail(told)) = Len(told) - 1
    BY <2>2
  <2>4. Append(Tail(told), news) \in Seq(S) /\ Len(Append(Tail(told), news)) = Len(Tail(told)) + 1
    BY <2>3
  <2> QED
    BY <1>1, <2>1, <2>3, <2>4
<1> QED
  BY <1>2, <1>3

\* What is on the channel and what the loop acts on are editions there have been.
LEMMA ChannelStep == TypeOK /\ LInv /\ [LNext]_all => ChannelOK'
<1> SUFFICES ASSUME TypeOK, LInv, [LNext]_all PROVE ChannelOK'
  OBVIOUS
<1>1. ChannelOK
  BY DEF LInv
<1>2. Editions \subseteq Editions'
  BY EditionsGrow, NextFollows
<1>3. News \subseteq News'
  BY <1>2 DEF News
<1>4. told \in Seq(News')
  <2>1. told \in Seq(News)
    BY <1>1 DEF ChannelOK
  <2> QED
    BY <1>3, <2>1
<1>5. now \in News'
  BY <1>1, <1>3 DEF ChannelOK
<1> DEFINE over == [Nothing EXCEPT !.fresh = now.fresh]
<1>6. over \in News'
  <2>1. 1 \in Editions
    BY EditsBounded DEF TypeOK, Editions
  <2>2. over = [edition |-> 1, fresh |-> now.fresh] /\ now.fresh \in BOOLEAN
    BY <1>5 DEF Nothing, News
  <2> QED
    BY <1>2, <2>1, <2>2 DEF News
<1>7. ASSUME UNCHANGED channel, now' \in {now, over} PROVE ChannelOK'
  <2>1. says' = says /\ fresh' = fresh /\ told' = told /\ lagged' = lagged
    BY <1>7 DEF channel
  <2> QED
    BY <1>1, <1>4, <1>5, <1>6, <1>7, <2>1 DEF ChannelOK
<1>8. ASSUME NEW loads \in BOOLEAN, LEdit(loads) PROVE ChannelOK'
  <2>1. UNCHANGED <<fresh, told, lagged, now>>
    BY <1>8 DEF LEdit, loop
  <2>2. says' \in [1..MaxEdits -> AnySettings]
    <3>1. CASE ~loads
      BY <1>1, <1>8, <3>1 DEF LEdit, ChannelOK
    <3>2. CASE loads
      <4>1. edition + 1 \in 1..MaxEdits
        BY <1>8, EditsBounded DEF LEdit, Edit, TypeOK
      <4>2. PICK wants \in Settings[edition + 1] :
              says' = [e \in 1..MaxEdits |-> IF e > edition THEN wants ELSE says[e]]
        BY <1>8, <3>2 DEF LEdit
      <4>3. wants \in AnySettings
        BY <4>1, <4>2 DEF AnySettings
      <4> QED
        BY <1>1, <4>2, <4>3 DEF ChannelOK
    <3> QED
      BY <3>1, <3>2
  <2> QED
    BY <1>1, <1>4, <1>5, <2>1, <2>2 DEF ChannelOK
<1>9. ASSUME NEW r \in Reloaders, NEW asked \in BOOLEAN, LBegin(r, asked) PROVE ChannelOK'
  <2>1. UNCHANGED <<says, told, lagged, now>> /\ fresh' \in [Reloaders -> BOOLEAN]
    BY <1>1, <1>9 DEF LBegin, loop, ChannelOK
  <2> QED
    BY <1>1, <1>4, <1>5, <2>1 DEF ChannelOK
<1>10. ASSUME NEW r \in Reloaders, LAnnounce(r) PROVE ChannelOK'
  <2> DEFINE news == [edition |-> draft[r], fresh |-> fresh[r]]
  <2>1. news \in News'
    <3>1. draft[r] \in Editions /\ fresh[r] \in BOOLEAN
      BY <1>1 DEF TypeOK, ChannelOK
    <3> QED
      BY <1>2, <3>1 DEF News
  <2>2. UNCHANGED <<says, now>> /\ fresh' \in [Reloaders -> BOOLEAN]
    BY <1>1, <1>10 DEF LAnnounce, loop, ChannelOK
  <2>3. told' = (IF doing = "deaf" THEN <<>> ELSE Queued(news)) /\ lagged' \in BOOLEAN
    BY <1>1, <1>10 DEF LAnnounce, Tell, ChannelOK
  <2>4. Len(told) <= Capacity
    BY <1>1 DEF ChannelOK
  <2> HIDE DEF news
  <2>5. Queued(news) \in Seq(News') /\ Len(Queued(news)) <= Capacity
    BY <1>4, <2>1, <2>4, QueuedOK
  <2>6. <<>> \in Seq(News') /\ Len(<<>>) <= Capacity
    BY CapacityIsPositive
  <2>7. told' \in Seq(News') /\ Len(told') <= Capacity
    BY <2>3, <2>5, <2>6
  <2> QED
    BY <1>1, <1>5, <2>2, <2>3, <2>7 DEF ChannelOK
<1>11. CASE Hear
  <2>1. told # <<>> /\ now' = Head(told) /\ told' = Tail(told) /\ UNCHANGED <<says, fresh, lagged>>
    BY <1>11 DEF Hear
  <2>2. Head(told) \in News'
    BY <1>4, <2>1
  <2>3. Tail(told) \in Seq(News') /\ Len(Tail(told)) = Len(told) - 1
    BY <1>4, <2>1
  <2>4. Len(told) \in Nat /\ Len(told) <= Capacity
    BY <1>1 DEF ChannelOK
  <2>5. Len(told') <= Capacity
    BY <2>1, <2>3, <2>4, CapacityIsPositive
  <2> QED
    BY <1>1, <2>1, <2>2, <2>3, <2>5 DEF ChannelOK
<1>12. CASE GoDeaf
  <2>1. told' = <<>> /\ UNCHANGED <<says, fresh, lagged, now>>
    BY <1>12 DEF GoDeaf
  <2>2. <<>> \in Seq(News') /\ Len(<<>>) <= Capacity
    BY CapacityIsPositive
  <2> QED
    BY <1>1, <1>5, <2>1, <2>2 DEF ChannelOK
<1>13. CASE Load \/ LoadFails \/ RebindProxy \/ Drained \/ RebindAdmin \/ OpenAdmin \/ CloseAdmin
  <2>1. UNCHANGED channel
    BY <1>13 DEF Load, LoadFails, RebindProxy, Drained, RebindAdmin, OpenAdmin, CloseAdmin
  <2>2. now' \in {now, over}
    BY <1>13 DEF Load, LoadFails, RebindProxy, Drained, RebindAdmin, OpenAdmin, CloseAdmin, Done, On
  <2> QED
    BY <1>7, <2>1, <2>2
<1>14. CASE LNotice \/ LateAnswer \/ Renew \/ UNCHANGED all \/ \E r \in Reloaders : LStep(r) /\ ~LAnnounce(r)
  <2>1. UNCHANGED channel /\ now' = now
    BY <1>14 DEF LNotice, LateAnswer, Renew, LStep, LJudge, all, listeners, loop
  <2> QED
    BY <1>7, <2>1
<1> QED
  BY <1>8, <1>9, <1>10, <1>11, <1>12, <1>13, <1>14 DEF LNext, Loop

-----------------------------------------------------------------------------
(* The loop. *)

\* An address that can be bound is nobody's.
LEMMA BoundHas ==
  ASSUME NEW addr, addr \notin Bound
  PROVE  addr # proxy.addr /\ (admin # None => addr # admin.addr)
<1> DEFINE L == {proxy} \cup closing \cup stray \cup (IF admin = None THEN {} ELSE {admin})
<1>1. proxy \in L /\ (admin # None => admin \in L)
  OBVIOUS
<1>2. Bound = {s.addr : s \in L}
  BY DEF Bound
<1> HIDE DEF L
<1> QED
  BY <1>1, <1>2

\* What the loop acts on says where the listeners are to be.
LEMMA Wanted ==
  ASSUME TypeOK, LInv
  PROVE  says[now.edition] \in AnySettings
<1>1. now.edition \in 1..MaxEdits
  <2>1. now.edition \in Editions
    BY DEF LInv, ChannelOK, News
  <2>2. Editions \subseteq 1..MaxEdits
    BY EditsBounded DEF TypeOK, Editions
  <2> QED
    BY <2>1, <2>2
<1> QED
  BY <1>1 DEF LInv, ChannelOK

\* A step of an adoption, or its end, leaves how it read.
LEMMA OwedStays ==
  ASSUME NEW next, NEW error, On(next) \/ Done(error), UNCHANGED outrun
  PROVE  Owed' = Owed
BY DEF On, Done, Nothing, Owed

\* A socket by its address and its certificate.
LEMMA SocketIs ==
  \A addr, cert : /\ Socket(addr, cert).addr = addr /\ Socket(addr, cert).cert = cert
                  /\ addr \in Addresses /\ cert \in Certificates => Socket(addr, cert) \in Sockets
BY DEF Socket, Sockets

\* A certificate served to the socket that stays is the one loaded, where there is one.
LEMMA ServeIs ==
  ASSUME LInv, doing \in Adopting, NEW socket \in Sockets, NEW addr, Stays(socket, addr)
  PROVE  /\ Serve(socket) \in Sockets /\ Serve(socket).addr = socket.addr
         /\ Owed => Recent(Serve(socket))
<1>1. socket.addr \in Addresses /\ loaded \in Certificates
  BY DEF Sockets, LInv, CertificatesOK
<1>2. CASE socket.cert = Plain
  BY <1>2 DEF Serve, Recent
<1>3. CASE socket.cert # Plain
  <2>1. Serve(socket) = Socket(socket.addr, loaded) /\ loaded # Plain
    BY <1>3 DEF Serve, Stays
  <2>2. Owed => loaded >= due
    BY <2>1 DEF LInv, LoadedIsRecent
  <2> QED
    BY <1>1, <2>1, <2>2, SocketIs DEF Recent
<1> QED
  BY <1>2, <1>3

\* So is one that was bound for the adoption.
LEMMA NewIs ==
  ASSUME LInv, doing \in Adopting, NEW addr \in Addresses
  PROVE  Socket(addr, loaded) \in Sockets /\ (Owed => Recent(Socket(addr, loaded)))
<1>1. loaded \in Certificates
  BY DEF LInv, CertificatesOK
<1>2. Owed /\ loaded # Plain => loaded >= due
  BY DEF LInv, LoadedIsRecent
<1> QED
  BY <1>1, <1>2, SocketIs DEF Recent

\* What the invariant says of the loop and of the sockets.
Held == StageOK /\ CertificatesOK /\ SocketsOK /\ LoadedIsRecent /\ ServedSoFar /\ OwnAddresses

\* The next announcement is taken, or none ever again.
LEMMA HearStep == LInv /\ (Hear \/ GoDeaf) => Held'
<1> SUFFICES ASSUME LInv, Hear \/ GoDeaf PROVE Held'
  OBVIOUS
<1>1. /\ doing = "select" /\ doing' \in {"tls", "deaf"}
      /\ UNCHANGED <<proxy, admin, closing, stray, loaded, renewed, parsed, outrun, due, failed>>
  BY DEF Hear, GoDeaf, sockets, tls, cache
<1>2. StageOK'
  BY <1>1 DEF LInv, StageOK, Stages
<1>3. CertificatesOK' /\ SocketsOK'
  BY <1>1 DEF LInv, CertificatesOK, SocketsOK
<1>4. LoadedIsRecent' /\ ServedSoFar' /\ OwnAddresses'
  BY <1>1 DEF LInv, LoadedIsRecent, ServedSoFar, OwnAddresses, Adopting, Draining
<1> QED
  BY <1>2, <1>3, <1>4 DEF Held

\* A certificate is read again where the reload was asked for, and where it was not is no
\* older than one that was.
LEMMA LoadStage == TypeOK /\ LInv /\ Load => Held'
<1> SUFFICES ASSUME TypeOK, LInv, Load PROVE Held'
  OBVIOUS
<1>1. /\ doing = "tls" /\ doing' = "proxy"
      /\ UNCHANGED <<proxy, admin, closing, stray, renewed, failed>>
  BY DEF Load, sockets
<1>2. /\ loaded \in Nat /\ parsed \in Nat /\ renewed \in Nat /\ due \in Nat /\ Plain = 0
      /\ due <= renewed /\ (~outrun /\ parsed # Plain => parsed >= due)
      /\ parsed <= MaxRenewals /\ renewed <= MaxRenewals /\ renewed >= 1
  BY RenewalsBounded DEF LInv, CertificatesOK, Certificates, LoadedIsRecent, Plain
<1>3. ChannelOK
  BY DEF LInv
<1>4. now.fresh \in BOOLEAN
  BY <1>3 DEF ChannelOK, News
<1>5. ASSUME says[now.edition].tls PROVE (CertificatesOK /\ LoadedIsRecent)'
  <2>1. /\ loaded' = (IF now.fresh \/ parsed = Plain THEN renewed ELSE parsed) /\ parsed' = loaded'
        /\ now' = now
        /\ IF now.fresh THEN due' = renewed /\ outrun' = FALSE ELSE UNCHANGED <<due, outrun>>
    BY <1>5 DEF Load, LoadTls, Filed
  <2>2. CASE now.fresh
    <3>1. loaded' = renewed /\ parsed' = renewed /\ due' = renewed /\ outrun' = FALSE
      BY <2>1, <2>2
    <3>2. renewed \in Certificates /\ renewed \in 1..MaxRenewals
      BY <1>2, RenewalsBounded DEF LInv, CertificatesOK, Certificates
    <3>3. CertificatesOK'
      BY <1>1, <3>1, <3>2 DEF CertificatesOK, Certificates
    <3>4. LoadedIsRecent'
      BY <1>1, <1>2, <3>1 DEF LoadedIsRecent
    <3> QED
      BY <3>3, <3>4
  <2>3. CASE ~now.fresh
    <3>1. /\ loaded' \in {renewed, parsed} /\ parsed' = loaded' /\ due' = due /\ outrun' = outrun
          /\ ~outrun => loaded' >= due
          /\ Owed' => ~outrun
      BY <1>2, <1>4, <2>1, <2>3 DEF Owed
    <3>2. CertificatesOK'
      BY <1>1, <1>2, <3>1, RenewalsBounded DEF LInv, CertificatesOK, Certificates
    <3>3. LoadedIsRecent'
      BY <1>1, <1>2, <3>1 DEF LoadedIsRecent
    <3> QED
      BY <3>2, <3>3
  <2> QED
    BY <2>2, <2>3
<1>6. ASSUME ~says[now.edition].tls PROVE (CertificatesOK /\ LoadedIsRecent)'
  <2>1. loaded' = Plain /\ parsed' = parsed /\ due' = due /\ outrun' = outrun
    BY <1>6 DEF Load, cache
  <2>2. CertificatesOK'
    BY <1>1, <1>2, <2>1, RenewalsBounded DEF LInv, CertificatesOK, Certificates
  <2>3. LoadedIsRecent'
    BY <1>1, <1>2, <2>1 DEF LoadedIsRecent
  <2> QED
    BY <2>2, <2>3
<1>7. StageOK' /\ SocketsOK'
  BY <1>1 DEF LInv, StageOK, Stages, Adopting, SocketsOK
<1>8. ServedSoFar' /\ OwnAddresses'
  BY <1>1 DEF LInv, ServedSoFar, OwnAddresses, Draining
<1> QED
  BY <1>5, <1>6, <1>7, <1>8 DEF Held

\* A reload that cannot have its certificate leaves the listeners alone.
LEMMA LoadFailsStep == LInv /\ LoadFails => Held'
<1> SUFFICES ASSUME LInv, LoadFails PROVE Held'
  OBVIOUS
<1>1. /\ doing = "tls" /\ doing' = "select" /\ failed' = TRUE /\ loaded' = Plain
      /\ UNCHANGED <<proxy, admin, closing, stray, renewed, parsed, outrun, due>>
  BY DEF LoadFails, Done, sockets, cache
<1>2. StageOK' /\ SocketsOK'
  BY <1>1 DEF LInv, StageOK, Stages, SocketsOK
<1>3. CertificatesOK'
  <2>1. Plain \in Certificates
    BY RenewalsBounded DEF Certificates, Plain
  <2> QED
    BY <1>1, <2>1 DEF LInv, CertificatesOK
<1>4. LoadedIsRecent' /\ ServedSoFar' /\ OwnAddresses'
  BY <1>1 DEF LInv, LoadedIsRecent, ServedSoFar, OwnAddresses, Adopting, Draining
<1> QED
  BY <1>2, <1>3, <1>4 DEF Held

\* An adoption under way leaves the certificates as they are, and at its end forgets its own.
LEMMA StillLoaded ==
  ASSUME LInv, doing \in Adopting, UNCHANGED <<renewed, parsed, outrun, due>>, Owed' = Owed,
         (doing' \in Adopting /\ loaded' = loaded) \/ (doing' = "select" /\ loaded' = Plain)
  PROVE  CertificatesOK' /\ LoadedIsRecent'
<1>1. Plain \in Certificates
  BY RenewalsBounded DEF Certificates, Plain
<1>2. CertificatesOK'
  BY <1>1 DEF LInv, CertificatesOK
<1>3. LoadedIsRecent'
  BY DEF LInv, LoadedIsRecent
<1> QED
  BY <1>2, <1>3

\* The proxy's listener stays, moves to an address nobody has, or is left where it was.
LEMMA ProxyStep == TypeOK /\ LInv /\ RebindProxy => Held'
<1> SUFFICES ASSUME TypeOK, LInv, RebindProxy PROVE Held'
  OBVIOUS
<1> DEFINE addr == says[now.edition].listen
<1>1. addr \in Addresses
  BY Wanted, AddressesOf
<1>2. /\ doing = "proxy" /\ doing \in Adopting /\ closing = {}
      /\ proxy \in Sockets /\ admin \in Sockets \cup {None}
      /\ admin # None => admin.addr # proxy.addr
      /\ UNCHANGED <<admin, stray, renewed, parsed, outrun, due>>
  BY DEF LInv, OwnAddresses, SocketsOK, RebindProxy, Adopting, Draining, cache
<1>3. ASSUME Stays(proxy, addr), proxy' = Serve(proxy), On("control plane"), UNCHANGED closing
      PROVE  Held'
  <2>1. doing' = "control plane" /\ loaded' = loaded /\ failed' = failed /\ Owed' = Owed
    BY <1>2, <1>3, OwedStays DEF On
  <2>2. proxy' \in Sockets /\ proxy'.addr = proxy.addr /\ (Owed => Recent(proxy'))
    BY <1>2, <1>3, ServeIs
  <2>3. CertificatesOK' /\ LoadedIsRecent'
    BY <1>2, <2>1, StillLoaded DEF Adopting
  <2>4. StageOK'
    BY <2>1 DEF LInv, StageOK, Stages, Adopting
  <2>5. SocketsOK'
    BY <1>2, <1>3, <2>2 DEF LInv, SocketsOK
  <2>6. ServedSoFar'
    BY <1>2, <2>1, <2>2 DEF ServedSoFar, Recent, Draining
  <2>7. OwnAddresses'
    BY <1>2, <1>3, <2>2 DEF OwnAddresses
  <2> QED
    BY <2>3, <2>4, <2>5, <2>6, <2>7 DEF Held
<1>4. ASSUME addr \notin Bound, closing' = closing \cup StoppedBy(proxy, TRUE),
             proxy' = Socket(addr, loaded), On("drain")
      PROVE  Held'
  <2>1. doing' = "drain" /\ loaded' = loaded /\ failed' = failed /\ Owed' = Owed
    BY <1>2, <1>4, OwedStays DEF On
  <2>2. proxy' \in Sockets /\ (Owed => Recent(proxy')) /\ proxy'.addr = addr
    BY <1>1, <1>2, <1>4, NewIs, SocketIs
  <2>3. addr # proxy.addr /\ (admin # None => addr # admin.addr)
    BY <1>4, BoundHas
  <2>4. closing' = {proxy}
    BY <1>2, <1>4 DEF StoppedBy
  <2>5. CertificatesOK' /\ LoadedIsRecent'
    BY <1>2, <2>1, StillLoaded DEF Adopting, Draining
  <2>6. StageOK'
    BY <2>1 DEF LInv, StageOK, Stages, Adopting, Draining
  <2>7. SocketsOK'
    BY <1>2, <2>2, <2>4 DEF LInv, SocketsOK
  <2>8. ServedSoFar'
    BY <1>2, <2>1, <2>2 DEF ServedSoFar, Recent
  <2>9. OwnAddresses'
    BY <1>2, <2>1, <2>2, <2>3, <2>4 DEF OwnAddresses, Draining
  <2> QED
    BY <2>5, <2>6, <2>7, <2>8, <2>9 DEF Held
<1>5. ASSUME closing' = closing \cup StoppedBy(proxy, FALSE), Done(TRUE), UNCHANGED proxy
      PROVE  Held'
  <2>1. doing' = "select" /\ loaded' = Plain /\ failed' = TRUE /\ Owed' = Owed
    BY <1>2, <1>5, OwedStays DEF Done
  <2>2. closing' = {}
    BY <1>2, <1>5 DEF StoppedBy
  <2>3. CertificatesOK' /\ LoadedIsRecent'
    BY <1>2, <2>1, StillLoaded
  <2>4. StageOK' /\ SocketsOK'
    BY <1>2, <1>5, <2>1, <2>2 DEF LInv, StageOK, Stages, SocketsOK
  <2>5. ServedSoFar' /\ OwnAddresses'
    BY <1>2, <1>5, <2>1, <2>2 DEF ServedSoFar, OwnAddresses, Draining
  <2> QED
    BY <2>3, <2>4, <2>5 DEF Held
<1> QED
  BY <1>3, <1>4, <1>5 DEF RebindProxy

\* What was told to stop has: the adoption goes on, or is over.
LEMMA DrainedStep == LInv /\ Drained => Held'
<1> SUFFICES ASSUME LInv, Drained PROVE Held'
  OBVIOUS
<1>1. /\ closing' = {} /\ doing \in Draining /\ doing \in Adopting
      /\ UNCHANGED <<proxy, admin, stray, renewed, parsed, outrun, due>>
      /\ \/ doing = "drain" /\ doing' = "control plane" /\ UNCHANGED <<loaded, failed>>
         \/ doing = "drain control plane" /\ doing' = "select" /\ loaded' = Plain /\ failed' = FALSE
      /\ Owed' = Owed
  <2>1. UNCHANGED outrun
    BY DEF Drained, cache
  <2> QED
    BY <2>1, OwedStays DEF Drained, On, Done, Draining, Adopting, cache
<1>2. CertificatesOK' /\ LoadedIsRecent'
  BY <1>1, StillLoaded DEF Adopting
<1>3. StageOK'
  BY <1>1 DEF LInv, StageOK, Stages, Adopting
<1>4. SocketsOK' /\ OwnAddresses'
  BY <1>1 DEF LInv, SocketsOK, OwnAddresses
<1>5. ServedSoFar'
  BY <1>1 DEF LInv, ServedSoFar, Recent, Draining
<1> QED
  BY <1>2, <1>3, <1>4, <1>5 DEF Held

\* The end of an adoption, wherever it got to, when what it leaves behind is right.
LEMMA EndsRight ==
  ASSUME LInv, doing = "control plane", UNCHANGED <<proxy, closing, renewed, parsed, outrun, due>>,
         admin' \in Sockets \cup {None}, stray' \subseteq Sockets,
         admin' # None => admin'.addr # proxy.addr,
         NEW error \in BOOLEAN, Done(error),
         Owed /\ ~error /\ admin' # None => Recent(admin')
  PROVE  Held'
<1>1. doing \in Adopting /\ doing' = "select" /\ loaded' = Plain /\ failed' = error /\ Owed' = Owed
  BY OwedStays DEF Adopting, Done
<1>2. closing = {} /\ (Owed => Recent(proxy))
  BY DEF LInv, OwnAddresses, ServedSoFar, Draining
<1>3. CertificatesOK' /\ LoadedIsRecent'
  BY <1>1, StillLoaded
<1>4. StageOK' /\ SocketsOK'
  BY <1>1 DEF LInv, StageOK, Stages, SocketsOK
<1>5. ServedSoFar' /\ OwnAddresses'
  BY <1>1, <1>2 DEF ServedSoFar, OwnAddresses, Draining, Recent
<1> QED
  BY <1>3, <1>4, <1>5 DEF Held

\* The control plane's listener is told to stop once what replaces it, if anything, is bound.
LEMMA AdminMoves ==
  ASSUME LInv, doing = "control plane", UNCHANGED <<proxy, stray, renewed, parsed, outrun, due>>,
         admin # None, closing' = {admin}, On("drain control plane"),
         admin' = None \/ (admin' \in Sockets /\ admin'.addr # proxy.addr /\ (Owed => Recent(admin')))
  PROVE  Held'
<1>1. /\ doing \in Adopting /\ doing' = "drain control plane" /\ doing' \in Draining
      /\ UNCHANGED <<loaded, failed>> /\ Owed' = Owed
  BY OwedStays DEF Adopting, Draining, On
<1>2. (Owed => Recent(proxy)) /\ admin.addr # proxy.addr /\ admin \in Sockets
  BY DEF LInv, OwnAddresses, ServedSoFar, SocketsOK
<1>3. CertificatesOK' /\ LoadedIsRecent'
  BY <1>1, StillLoaded DEF Adopting
<1>4. StageOK' /\ SocketsOK'
  BY <1>1, <1>2 DEF LInv, StageOK, Stages, Adopting, SocketsOK
<1>5. ServedSoFar'
  BY <1>1, <1>2 DEF ServedSoFar, Recent
<1>6. OwnAddresses'
  BY <1>1, <1>2 DEF OwnAddresses
<1> QED
  BY <1>3, <1>4, <1>5, <1>6 DEF Held

\* The control plane's listener stays, moves, is dropped, is opened or is closed.
LEMMA AdminStep == TypeOK /\ LInv /\ (RebindAdmin \/ OpenAdmin \/ CloseAdmin) => Held'
<1> SUFFICES ASSUME TypeOK, LInv, RebindAdmin \/ OpenAdmin \/ CloseAdmin PROVE Held'
  OBVIOUS
<1> DEFINE addr == says[now.edition].admin
<1>1. /\ doing = "control plane" /\ doing \in Adopting /\ closing = {}
      /\ UNCHANGED <<proxy, renewed, parsed, outrun, due>>
  BY DEF RebindAdmin, OpenAdmin, CloseAdmin, Adopting, LInv, OwnAddresses, Draining, cache
<1>2. addr # None => addr \in Addresses
  BY Wanted, AddressesOf
<1>3. /\ admin \in Sockets \cup {None} /\ stray \subseteq Sockets
      /\ admin # None => admin.addr # proxy.addr
  BY DEF LInv, SocketsOK, OwnAddresses
<1>4. \A any \in Addresses : Socket(any, loaded) \in Sockets
                              /\ (Owed => Recent(Socket(any, loaded)))
                              /\ Socket(any, loaded).addr = any
  BY <1>1, NewIs, SocketIs
<1> HIDE DEF addr
<1>5. ASSUME admin # None, Stays(admin, addr), admin' = Serve(admin), Done(FALSE),
             UNCHANGED <<closing, stray>>
      PROVE  Held'
  <2>1. admin' \in Sockets /\ admin'.addr = admin.addr /\ (Owed => Recent(admin'))
    BY <1>1, <1>3, <1>5, ServeIs
  <2> QED
    BY <1>1, <1>3, <1>5, <2>1, EndsRight
<1>6. ASSUME admin # None, addr # None, addr \notin Bound, admin' = Socket(addr, loaded),
             closing' = closing \cup StoppedBy(admin, TRUE), On("drain control plane"), UNCHANGED stray
      PROVE  Held'
  <2>1. addr # proxy.addr
    BY <1>6, BoundHas
  <2>2. admin' \in Sockets /\ admin'.addr # proxy.addr /\ (Owed => Recent(admin'))
    BY <1>2, <1>4, <1>6, <2>1
  <2>3. closing' = {admin}
    BY <1>1, <1>6 DEF StoppedBy
  <2> QED
    BY <1>1, <1>6, <2>2, <2>3, AdminMoves
<1>7. ASSUME admin # None, DropAdmin, Done(TRUE), UNCHANGED closing PROVE Held'
  <2>1. admin' = None /\ stray' \subseteq Sockets
    BY <1>3, <1>7 DEF DropAdmin
  <2> QED
    BY <1>1, <1>7, <2>1, EndsRight
<1>8. ASSUME addr # None, addr \notin Bound, admin' = Socket(addr, loaded), Done(FALSE),
             UNCHANGED <<closing, stray>>
      PROVE  Held'
  <2>1. addr # proxy.addr
    BY <1>8, BoundHas
  <2>2. admin' \in Sockets /\ admin'.addr # proxy.addr /\ (Owed => Recent(admin'))
    BY <1>2, <1>4, <1>8, <2>1
  <2> QED
    BY <1>1, <1>3, <1>8, <2>2, EndsRight
<1>9. ASSUME admin = None, NEW error \in BOOLEAN, Done(error), UNCHANGED <<admin, closing, stray>> PROVE Held'
  BY <1>1, <1>3, <1>9, EndsRight
<1>10. ASSUME admin # None, admin' = None, closing' = closing \cup {admin}, On("drain control plane"),
              UNCHANGED stray
       PROVE  Held'
  <2>1. closing' = {admin}
    BY <1>1, <1>10
  <2>2. admin' = None \/ (admin' \in Sockets /\ admin'.addr # proxy.addr /\ (Owed => Recent(admin')))
    BY <1>10
  <2>3. UNCHANGED <<proxy, stray, renewed, parsed, outrun, due>>
    BY <1>1, <1>10
  <2> QED
    BY <1>1, <1>10, <2>1, <2>2, <2>3, AdminMoves
<1>11. CASE RebindAdmin
  BY <1>5, <1>6, <1>7, <1>11 DEF RebindAdmin, addr
<1>12. CASE OpenAdmin
  BY <1>8, <1>9, <1>12 DEF OpenAdmin, addr
<1>13. CASE CloseAdmin
  BY <1>9, <1>10, <1>13 DEF CloseAdmin, addr
<1> QED
  BY <1>11, <1>12, <1>13

-----------------------------------------------------------------------------
\* The invariant is inductive.
LEMMA ListenersStep == TypeOK /\ LInv /\ [LNext]_all => LInv'
<1> SUFFICES ASSUME TypeOK, LInv, [LNext]_all PROVE LInv'
  OBVIOUS
<1>1. ChannelOK'
  BY ChannelStep
<1>2. CASE Loop
  <2>1. Held'
    BY <1>2, HearStep, LoadStage, LoadFailsStep, ProxyStep, DrainedStep, AdminStep DEF Loop
  <2> QED
    BY <1>1, <2>1 DEF LInv, Held
<1>3. CASE ~Loop
  <2>1. CertificatesOK
    BY DEF LInv
  <2>2. Background
    BY <1>3, <2>1, BackgroundStep
  <2> QED
    BY <1>1, <2>2, BackgroundKeeps DEF LInv
<1> QED
  BY <1>2, <1>3

\* It has what the property asks.
LEMMA ListenersMeans == LInv => ListenersHold
<1> SUFFICES ASSUME LInv PROVE ListenersHold
  OBVIOUS
<1>1. ChannelOK /\ StageOK /\ CertificatesOK /\ SocketsOK
  BY DEF LInv
<1>2. doing \in {"select", "tls", "proxy", "drain", "control plane", "drain control plane", "deaf"}
  BY <1>1 DEF StageOK, Stages, Adopting, Draining
<1>3. LTypeOK
  BY <1>1, <1>2 DEF LTypeOK, ChannelOK, StageOK, CertificatesOK, SocketsOK
<1>4. ProxyStaysUp
  BY DEF LInv, OwnAddresses, ProxyStaysUp
<1>5. RenewalsAreServed
  <2>1. ASSUME doing = "select", ~failed, Owed, NEW s \in {proxy, admin} \ {None} PROVE Recent(s)
    BY <2>1 DEF LInv, ServedSoFar
  <2> QED
    BY <2>1 DEF RenewalsAreServed, Recent, Owed
<1> QED
  BY <1>3, <1>4, <1>5 DEF ListenersHold

\* Whatever is edited, however often and by however many at once it is reloaded (main.rs, run
\* and adopt), and whichever half of an adoption fails: the proxy's listener is one that
\* accepts; after an adoption of a reload that was asked for nobody is served a certificate
\* older than what there was to read, whoever files older ones in the resolver meanwhile; and
\* none of later adoptions goes back, unless one was filed since.
THEOREM ListenersAlwaysHold == LSpec => []ListenersHold
<1>1. LInit => TypeOK /\ LInv
  BY InitOK, ListenersStart DEF LInit
<1>2. (TypeOK /\ LInv) /\ [LNext]_all => (TypeOK /\ LInv)'
  BY NextFollows, TypeStep, ListenersStep
<1>3. LInv => ListenersHold
  BY ListenersMeans
<1> QED
  BY <1>1, <1>2, <1>3, PTL DEF LSpec
=============================================================================
