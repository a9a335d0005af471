------------------------------ MODULE Listeners ------------------------------
(***************************************************************************)
(* The sockets of a running proxy: `run` and `adopt` of src/src/main.rs    *)
(* and Listener of src/src/tls.rs, following the reloads of module Reload. *)
(*                                                                         *)
(* A policy is in charge before the sockets hear of it.  The main loop     *)
(* takes the announcements one by one; while it moves a socket, which ends *)
(* with the old one draining for eleven seconds at most, it takes none.    *)
(* Certificates are counted in renewals of what their reference points at; *)
(* the control plane serves the proxy's.  The main loop, the reloads and   *)
(* the console's check of the credentials read it, each on a thread of its *)
(* own, and file what they read in the resolver.                           *)
(*                                                                         *)
(* An operator named Slip... is the definition after it gone wrong: what   *)
(* the property it names would catch.                                      *)
(***************************************************************************)
EXTENDS Reload, FiniteSets

CONSTANTS
  Settings,     \* for each edition, what it may say of its listeners
  None,
  Capacity,     \* of the channel of announcements: 16 in the code
  MaxRenewals   \* bound on the renewals of the certificate

ASSUME CapacityIsPositive == Capacity \in Nat \ {0}
ASSUME RenewalsBounded == MaxRenewals \in Nat \ {0}
\* A policy that loads names an address for the proxy; and the one it starts with could
\* be bound.
ASSUME SettingsAreSettings ==
  \A e \in 1..MaxEdits : \A s \in Settings[e] : s.listen # None /\ s.tls \in BOOLEAN
ASSUME FirstCanBind == \A s \in Settings[1] : s.listen # s.admin

VARIABLES
  says,      \* what each edition says of its listeners
  fresh,     \* each reload was asked for, and so reads credentials again
  told,      \* the announcements the main loop has not taken
  lagged,    \* some were thrown away
  doing,     \* what the main loop does next
  now,       \* the announcement it acts on
  loaded,    \* the certificate it has loaded for it
  proxy,     \* the proxy's listener
  admin,     \* the control plane's, or None
  closing,   \* listeners told to stop and not closed yet
  stray,     \* listeners nobody holds a handle to, still serving
  failed,    \* the last adoption failed
  renewed,   \* the certificate its reference points at
  parsed,    \* the one the resolver holds
  due,       \* history: what a reload that was asked for and adopted could read
  outrun     \* history: since then an older one was filed

channel == <<says, fresh, told, lagged>>
sockets == <<proxy, admin, closing, stray>>
cache == <<parsed, outrun>>
tls == <<loaded, renewed, cache, due>>
loop == <<doing, now, failed>>
listeners == <<channel, sockets, tls, loop>>
all == <<vars, listeners>>

\* [listen, admin : an address or None, tls : BOOLEAN]
Socket(addr, cert) == [addr |-> addr, cert |-> cert]
Plain == 0
\* What the main loop has outside `adopt`.
Nothing == [edition |-> 1, fresh |-> FALSE]

LInit ==
  /\ Init
  /\ \E first \in Settings[1] :
       /\ says = [e \in 1..MaxEdits |-> first]
       /\ proxy = Socket(first.listen, IF first.tls THEN 1 ELSE Plain)
       /\ admin = IF first.admin = None THEN None ELSE Socket(first.admin, proxy.cert)
       /\ parsed = proxy.cert
  /\ fresh = [r \in Reloaders |-> FALSE]
  /\ told = <<>> /\ lagged = FALSE
  /\ doing = "select" /\ failed = FALSE
  /\ now = Nothing
  /\ loaded = Plain /\ renewed = 1 /\ due = 1 /\ outrun = FALSE
  /\ closing = {} /\ stray = {}

-----------------------------------------------------------------------------
(* The reloads, and what they tell. *)

LEdit(loads) ==
  /\ Edit(loads)
  /\ IF loads
     THEN \E wants \in Settings[edition + 1] :
            says' = [e \in 1..MaxEdits |-> IF e > edition THEN wants ELSE says[e]]
     ELSE UNCHANGED says
  /\ UNCHANGED <<fresh, told, lagged, sockets, tls, loop>>

LBegin(r, asked) ==
  /\ IF asked THEN AskedTo(r) ELSE r = Poller /\ PollReloads
  /\ fresh' = [fresh EXCEPT ![r] = asked]
  /\ UNCHANGED <<says, told, lagged, sockets, tls, loop>>

\* A broadcast: the oldest goes when the channel is full.
Queued(news) == Append(IF Len(told) < Capacity THEN told ELSE Tail(told), news)

\* Nobody reads it any more once the loop is deaf.
Tell(news) ==
  /\ told' = IF doing = "deaf" THEN <<>> ELSE Queued(news)
  /\ lagged' = (lagged \/ Len(told) = Capacity)

LAnnounce(r) ==
  /\ Announce(r)
  /\ Tell([edition |-> draft[r], fresh |-> fresh[r]])
  /\ fresh' = [fresh EXCEPT ![r] = FALSE]
  /\ UNCHANGED <<says, sockets, tls, loop>>

LNotice == Notice /\ UNCHANGED listeners

\* Slip for RenewalsAreServed: what is held already stays.
SlipFiled(v) == IF parsed = Plain THEN v ELSE parsed
\* The insert of refresh, and of a resolve that found nothing: the last one stays.
Filed(v) == v
File(v) == parsed' = Filed(v) /\ outrun' = (outrun \/ v < due)

\* preload_secrets: all of the policy's when the reload was asked for, else what is not held.
Preload(r) ==
  IF says[draft[r]].tls /\ (fresh[r] \/ parsed = Plain) THEN File(renewed) ELSE UNCHANGED cache

\* What is wrong with a policy may come to light before its certificate is read, or after.
LJudge(r) ==
  /\ \/ Accept(r) /\ Preload(r)
     \/ Refuse(r) /\ (Preload(r) \/ UNCHANGED cache)
  /\ UNCHANGED <<channel, sockets, loop, loaded, renewed, due>>

LStep(r) ==
  \/ LJudge(r) \/ LAnnounce(r)
  \/ /\ \/ Read(r) \/ Adopt(r) \/ Record(r)
        \/ \E k \in 1..Len(Parts) : Install(r, k)
     /\ UNCHANGED listeners

\* No lock is held from a read to its insert, and a read may hang: whoever began one at any
\* time, the console's check of the credentials, a reload, the main loop itself, files its
\* answer now, over whatever was filed meanwhile.
LateAnswer ==
  /\ parsed # Plain
  /\ \E v \in 1..renewed : File(v)
  /\ UNCHANGED <<vars, channel, sockets, loop, loaded, renewed, due>>

Renew ==
  /\ renewed < MaxRenewals /\ renewed' = renewed + 1
  /\ UNCHANGED <<vars, channel, sockets, loop, loaded, cache, due>>

-----------------------------------------------------------------------------
(* The loop. *)

Hear ==
  /\ doing = "select" /\ told # <<>> /\ ~lagged
  /\ now' = Head(told) /\ told' = Tail(told)
  /\ doing' = "tls"
  /\ UNCHANGED <<vars, says, fresh, lagged, sockets, tls, failed>>

\* `Ok(reloaded) = reloads.recv()`: an error disables that arm, and no other arm goes
\* round the loop again.
GoDeaf ==
  /\ doing = "select" /\ lagged
  /\ doing' = "deaf" /\ told' = <<>>
  /\ UNCHANGED <<vars, says, fresh, lagged, sockets, tls, now, failed>>

\* Slip for RenewalsAreServed: the two ways of reading are swapped.
SlipLoadTls(asked) == IF asked /\ parsed # Plain THEN parsed ELSE renewed
\* ServerTls::reload reads what is there; load what this process parsed, if anything.
LoadTls(asked) == IF asked \/ parsed = Plain THEN renewed ELSE parsed

\* adopt returns; how it read the certificate is kept, for RenewalsAreServed.
Done(error) ==
  /\ doing' = "select" /\ failed' = error /\ loaded' = Plain
  /\ now' = [Nothing EXCEPT !.fresh = now.fresh]
On(next) == doing' = next /\ UNCHANGED <<failed, now, loaded>>

Load ==
  /\ doing = "tls" /\ doing' = "proxy"
  /\ IF says[now.edition].tls
     THEN /\ loaded' = LoadTls(now.fresh)
          /\ parsed' = Filed(loaded')
          /\ IF now.fresh THEN due' = renewed /\ outrun' = FALSE ELSE UNCHANGED <<due, outrun>>
     ELSE loaded' = Plain /\ UNCHANGED <<cache, due>>
  /\ UNCHANGED <<vars, channel, sockets, renewed, now, failed>>

\* A reference that does not resolve, a chain and a key that do not go together.  What was
\* read by then is filed: LateAnswer.
LoadFails ==
  /\ doing = "tls" /\ says[now.edition].tls
  /\ Done(TRUE)
  /\ UNCHANGED <<vars, channel, sockets, renewed, cache, due>>

Bound == {s.addr : s \in {proxy} \cup closing \cup stray \cup (IF admin = None THEN {} ELSE {admin})}

\* Slip for ListenersSettle: any listener at the address will do.
SlipStays(socket, addr) == socket.addr = addr
\* rebind: the same address in the same mode keeps its socket.
Stays(socket, addr) == socket.addr = addr /\ (socket.cert = Plain) = (loaded = Plain)

\* serve_certificate: nothing to do for a plain one.
Serve(socket) == IF socket.cert = Plain THEN socket ELSE Socket(socket.addr, loaded)

\* Slip for ProxyStaysUp: the old one is told to stop before the new one is bound.
SlipStoppedBy(socket, bound) == {socket}
\* What rebind has told to stop, given whether it could bind.
StoppedBy(socket, bound) == IF bound THEN {socket} ELSE {}

RebindProxy ==
  /\ doing = "proxy"
  /\ LET addr == says[now.edition].listen IN
       \/ /\ Stays(proxy, addr)
          /\ proxy' = Serve(proxy)
          /\ On("control plane")
          /\ UNCHANGED closing
       \/ \E bound \in BOOLEAN :
            /\ ~Stays(proxy, addr) /\ (bound => addr \notin Bound)
            /\ closing' = closing \cup StoppedBy(proxy, bound)
            /\ \/ bound /\ proxy' = Socket(addr, loaded) /\ On("drain")
               \/ ~bound /\ Done(TRUE) /\ UNCHANGED proxy
  /\ UNCHANGED <<vars, channel, admin, stray, renewed, cache, due>>

\* It has finished what it carried, or was left to it.
Drained ==
  /\ closing' = {}
  /\ \/ doing = "drain" /\ On("control plane")
     \/ doing = "drain control plane" /\ Done(FALSE)
  /\ UNCHANGED <<vars, channel, proxy, admin, stray, renewed, cache, due>>

\* `admin.take()`, and put back at the end: a listener that could not move is dropped.  That
\* is the end of a plain one; a TLS one serves on with nobody to stop it.
DropAdmin ==
  /\ admin' = None
  /\ stray' = IF admin.cert = Plain THEN stray ELSE stray \cup {admin}

RebindAdmin ==
  /\ doing = "control plane" /\ admin # None /\ says[now.edition].admin # None
  /\ LET addr == says[now.edition].admin IN
       \/ /\ Stays(admin, addr)
          /\ admin' = Serve(admin)
          /\ Done(FALSE)
          /\ UNCHANGED <<closing, stray>>
       \/ /\ ~Stays(admin, addr) /\ addr \notin Bound
          /\ admin' = Socket(addr, loaded)
          /\ closing' = closing \cup StoppedBy(admin, TRUE)
          /\ On("drain control plane")
          /\ UNCHANGED stray
       \/ /\ ~Stays(admin, addr)
          /\ DropAdmin /\ Done(TRUE)
          /\ UNCHANGED closing
  /\ UNCHANGED <<vars, channel, proxy, renewed, cache, due>>

OpenAdmin ==
  /\ doing = "control plane" /\ admin = None /\ says[now.edition].admin # None
  /\ \/ /\ says[now.edition].admin \notin Bound
        /\ admin' = Socket(says[now.edition].admin, loaded)
        /\ Done(FALSE)
     \/ Done(TRUE) /\ UNCHANGED admin
  /\ UNCHANGED <<vars, channel, proxy, closing, stray, renewed, cache, due>>

CloseAdmin ==
  /\ doing = "control plane" /\ says[now.edition].admin = None
  /\ IF admin = None
     THEN Done(FALSE) /\ UNCHANGED <<admin, closing>>
     ELSE admin' = None /\ closing' = closing \cup {admin} /\ On("drain control plane")
  /\ UNCHANGED <<vars, channel, proxy, stray, renewed, cache, due>>

-----------------------------------------------------------------------------
Loop ==
  \/ Hear \/ GoDeaf \/ Load \/ LoadFails \/ RebindProxy \/ Drained
  \/ RebindAdmin \/ OpenAdmin \/ CloseAdmin

LNext ==
  \/ \E loads \in BOOLEAN : LEdit(loads)
  \/ \E r \in Reloaders : LStep(r) \/ \E asked \in BOOLEAN : LBegin(r, asked)
  \/ LNotice \/ LateAnswer \/ Renew \/ Loop

\* As in Reload; and the main loop goes on, as a drain has a deadline.  Nothing bounds the
\* read of a secret: that those of the reloads and of the loop return is assumed.
LSpec ==
  /\ LInit /\ [][LNext]_all
  /\ WF_all(LNotice) /\ WF_all(LBegin(Poller, FALSE)) /\ WF_all(Loop)
  /\ \A r \in Reloaders : WF_all(LStep(r))

-----------------------------------------------------------------------------
(* Properties. *)

Certificates == Plain..MaxRenewals
AnySettings == UNION {Settings[e] : e \in 1..MaxEdits}
Addresses == (UNION {{s.listen, s.admin} : s \in AnySettings}) \ {None}
Sockets == [addr : Addresses, cert : Certificates]
News == [edition : Editions, fresh : BOOLEAN]

LTypeOK ==
  /\ says \in [1..MaxEdits -> AnySettings]
  /\ fresh \in [Reloaders -> BOOLEAN]
  /\ told \in Seq(News) /\ Len(told) <= Capacity /\ lagged \in BOOLEAN
  /\ doing \in {"select", "tls", "proxy", "drain", "control plane", "drain control plane", "deaf"}
  /\ now \in News /\ failed \in BOOLEAN
  /\ {loaded, parsed} \subseteq Certificates /\ {renewed, due} \subseteq 1..MaxRenewals
  /\ outrun \in BOOLEAN
  /\ proxy \in Sockets /\ admin \in Sockets \cup {None}
  /\ closing \subseteq Sockets /\ stray \subseteq Sockets

\* comment on rebind: "Bound before the old one is told to stop, so a port that is taken
\* is a failed reload rather than a proxy serving nothing."  Whatever is edited, and
\* whichever half of an adoption fails, the proxy's listener is one that accepts.
ProxyStaysUp == proxy \notin closing

\* comment in adopt: "a reload somebody asked for reads it again".  Such a one, once adopted,
\* serves what was there to read, whatever is filed beside it.  And none that only follows an
\* edit goes back to an older one, though it uses what the resolver holds and others fail
\* halfway, unless an older answer was filed since: refresh takes no lock as it reads.
RenewalsAreServed ==
  doing = "select" /\ ~failed /\ (now.fresh \/ ~outrun) =>
    \A s \in {proxy, admin} \ {None} : s.cert # Plain => s.cert >= due

Follow(settings) ==
  /\ proxy.addr = settings.listen /\ (proxy.cert # Plain) = settings.tls
  /\ IF settings.admin = None THEN admin = None
     ELSE admin # None /\ admin.addr = settings.admin /\ (admin.cert # Plain) = settings.tls

\* Once the file stops changing the sockets are where the policy in charge says, in the mode
\* it says; unless the last adoption failed, which is logged, or too many came at once.
ListenersSettle ==
  <>[](~overlapped /\ ~failed /\ doing # "deaf" => Follow(says[served["config"]]))

\* Whatever an adoption that fails halfway leaves and whoever reads beside it, the proxy is
\* reachable and a certificate that was asked for is served.
ListenersHold == LTypeOK /\ ProxyStaysUp /\ RenewalsAreServed

\* Once the file stops changing, its last edition is in charge and on the sockets it names.
EverythingSettles == SettlesOnTheFile /\ ListenersSettle
=============================================================================
