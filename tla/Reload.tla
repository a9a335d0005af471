------------------------------- MODULE Reload -------------------------------
(***************************************************************************)
(* Replacing the policy of a running proxy: the watcher of                 *)
(* src/src/reload.rs and AppState::reload of src/src/state.rs.             *)
(*                                                                         *)
(* The policy file has editions; the moment halfway through a rewrite is   *)
(* one that does not load.  A file's stamp tells its editions apart.       *)
(* Reloads run on threads of their own: the watcher's task, the console's  *)
(* reloader, one for each POST to the control plane.  Nothing keeps two    *)
(* apart, and each lock one takes is a step of its own.                    *)
(*                                                                         *)
(* An operator named Slip... is the definition after it gone wrong: what   *)
(* the property it names would catch.                                      *)
(***************************************************************************)
EXTENDS Naturals, Sequences

CONSTANTS
  Reloaders,    \* the threads that reload
  Poller,       \* the one of them that watches the file
  MaxEdits      \* bound on the editions

ASSUME PollerReloads == Poller \in Reloaders
ASSUME EditsBounded == MaxEdits \in Nat \ {0}

VARIABLES
  edition,     \* the edition of the file on disk
  good,        \* the editions that load
  seen,        \* the edition the watcher takes to be in force
  noticed,     \* the edition a poll first saw to differ; 0 when none does
  served,      \* for each part of the policy, the edition in charge
  accounts,    \* the edition whose 1Password accounts the resolver reads from
  refused,     \* some reload refused the edition on disk: its credentials, its rules
  step,        \* what each reload does next
  mark,        \* the stamp it took of the file
  draft,       \* the edition it read
  saved,       \* the accounts it found
  overlapped   \* history: two reloads were under way at once

file == <<edition, good>>
watcher == <<seen, noticed>>
policy == <<served, accounts, refused>>
reloads == <<step, mark, draft, saved, overlapped>>
vars == <<file, watcher, policy, reloads>>

\* The order `install` puts the parts in charge in; "settings" stands for the
\* HTTP client, the broker's timeout and bell and the workload settings.
Parts == <<"acl", "agents", "settings", "config">>
PartNames == {"acl", "agents", "settings", "config"}

Init ==
  /\ edition = 1 /\ good = {1}
  /\ seen = 1 /\ noticed = 0
  /\ served = [p \in PartNames |-> 1]
  /\ accounts = 1
  /\ refused = FALSE
  /\ step = [r \in Reloaders |-> "idle"]
  /\ mark = [r \in Reloaders |-> 1]
  /\ draft = [r \in Reloaders |-> 1]
  /\ saved = [r \in Reloaders |-> 1]
  /\ overlapped = FALSE

-----------------------------------------------------------------------------
(* The file, written by people and by other processes. *)

Edit(loads) ==
  /\ edition < MaxEdits
  /\ edition' = edition + 1
  /\ good' = IF loads THEN good \cup {edition + 1} ELSE good
  /\ refused' = FALSE
  /\ UNCHANGED <<watcher, served, accounts, reloads>>

-----------------------------------------------------------------------------
(* The watcher. *)

\* Watcher::edited
Edited == edition # seen

\* poll: the file differs, and it has for less than SETTLE; or no longer does.
Notice ==
  /\ step[Poller] = "idle"
  /\ noticed' = IF ~Edited THEN 0 ELSE IF noticed = 0 THEN edition ELSE noticed
  /\ UNCHANGED <<file, seen, policy, reloads>>

\* Watcher::reload takes the stamp before it reads.
Begin(r) ==
  /\ step[r] = "idle"
  /\ mark' = [mark EXCEPT ![r] = edition]
  /\ noticed' = 0
  /\ step' = [step EXCEPT ![r] = "read"]
  /\ overlapped' = (overlapped \/ \E o \in Reloaders : step[o] # "idle")
  /\ UNCHANGED <<file, seen, policy, draft, saved>>

\* poll: it has differed for longer.
PollReloads == Edited /\ noticed # 0 /\ Begin(Poller)

\* SIGHUP, the console, or POST /reload.
AskedTo(r) == Begin(r)

\* Slip for OnlyLoadablePolicies: a file that does not parse is half a policy.
SlipLoads(e) == TRUE

Loads(e) == e \in good

\* Watcher::read
Read(r) ==
  /\ step[r] = "read"
  /\ draft' = [draft EXCEPT ![r] = edition]
  /\ step' = [step EXCEPT ![r] = IF Loads(edition) THEN "adopt" ELSE "mark"]
  /\ UNCHANGED <<file, watcher, policy, mark, saved, overlapped>>

\* Slip for SettlesOnTheFile: the stamp is taken after the reload.
SlipStamp(r) == edition
Stamp(r) == mark[r]

\* And the stamp is recorded at the end, whatever came of the reload.
Record(r) ==
  /\ step[r] = "mark"
  /\ seen' = Stamp(r)
  /\ step' = [step EXCEPT ![r] = "idle"]
  /\ mark' = [mark EXCEPT ![r] = 1] /\ draft' = [draft EXCEPT ![r] = 1]
  /\ saved' = [saved EXCEPT ![r] = 1]
  /\ UNCHANGED <<file, noticed, policy, overlapped>>

-----------------------------------------------------------------------------
(* AppState::reload. *)

\* set_op_accounts: the new policy's accounts, to read its references with.
Adopt(r) ==
  /\ step[r] = "adopt"
  /\ saved' = [saved EXCEPT ![r] = accounts]
  /\ accounts' = draft[r]
  /\ step' = [step EXCEPT ![r] = "check"]
  /\ UNCHANGED <<file, watcher, served, refused, mark, draft, overlapped>>

\* Everything that can say no says yes: the secrets, the rules, the roster, the
\* credential schemes, the client.
Accept(r) ==
  /\ step[r] = "check"
  /\ step' = [step EXCEPT ![r] = Parts[1]]
  /\ UNCHANGED <<file, watcher, policy, mark, draft, saved, overlapped>>

\* Slip for AccountsArePolicys: a refused policy's accounts stay.
SlipPutBack(r) == accounts

PutBack(r) == saved[r]

\* Or something says no: the accounts are put back and nothing is installed.
Refuse(r) ==
  /\ step[r] = "check"
  /\ accounts' = PutBack(r)
  /\ refused' = (refused \/ draft[r] = edition)
  /\ step' = [step EXCEPT ![r] = "mark"]
  /\ UNCHANGED <<file, watcher, served, mark, draft, saved, overlapped>>

\* Slip for ServesOnePolicy: the snapshot is not replaced.
SlipAfter(k) == IF k < Len(Parts) - 1 THEN Parts[k + 1] ELSE "announce"

After(k) == IF k < Len(Parts) THEN Parts[k + 1] ELSE "announce"

\* Each part is put in charge under its own lock.
Install(r, k) ==
  /\ step[r] = Parts[k]
  /\ served' = [served EXCEPT ![Parts[k]] = draft[r]]
  /\ step' = [step EXCEPT ![r] = After(k)]
  /\ UNCHANGED <<file, watcher, accounts, refused, mark, draft, saved, overlapped>>

\* And whoever subscribed is told.  (Module Listeners.)
Announce(r) ==
  /\ step[r] = "announce"
  /\ step' = [step EXCEPT ![r] = "mark"]
  /\ UNCHANGED <<file, watcher, policy, mark, draft, saved, overlapped>>

-----------------------------------------------------------------------------
ReloadStep(r) ==
  \/ Read(r) \/ Adopt(r) \/ Accept(r) \/ Refuse(r) \/ Announce(r) \/ Record(r)
  \/ \E k \in 1..Len(Parts) : Install(r, k)

Next ==
  \/ \E loads \in BOOLEAN : Edit(loads)
  \/ Notice \/ PollReloads
  \/ \E r \in Reloaders : AskedTo(r) \/ ReloadStep(r)

Spec == Init /\ [][Next]_vars

\* The watcher's ticker keeps polling and a reload runs to its end.
FairSpec ==
  Spec /\ WF_vars(Notice) /\ WF_vars(PollReloads)
       /\ \A r \in Reloaders : WF_vars(ReloadStep(r))

-----------------------------------------------------------------------------
(* Properties. *)

Editions == 1..edition

TypeOK ==
  /\ edition \in 1..MaxEdits /\ good \subseteq Editions
  /\ seen \in Editions /\ noticed \in 0..edition
  /\ served \in [PartNames -> Editions]
  /\ accounts \in Editions /\ refused \in BOOLEAN
  /\ step \in [Reloaders -> {"idle", "read", "adopt", "check", "announce", "mark"} \cup PartNames]
  /\ mark \in [Reloaders -> Editions]
  /\ draft \in [Reloaders -> Editions]
  /\ saved \in [Reloaders -> Editions]
  /\ overlapped \in BOOLEAN

Installing(r) == step[r] \in PartNames
Quiet == \A r \in Reloaders : ~Installing(r)

\* Whatever is edited, asked for or refused, and however reloads overlap, no part
\* of an edition that does not load is ever in charge.
OnlyLoadablePolicies == \A p \in PartNames : served[p] \in good

\* state.rs: "A proxy serving half of one policy and half of another is serving a policy
\* nobody wrote."  So between reloads that took turns every part comes from one edition.
ServesOnePolicy == ~overlapped /\ Quiet => \A p, q \in PartNames : served[p] = served[q]

\* comment in AppState::reload: the accounts are "Put back if the policy is refused, so
\* the proxy goes on reading from the accounts it is still serving."  If they took turns.
AccountsArePolicys ==
  ~overlapped /\ (\A r \in Reloaders : step[r] \in {"idle", "read", "adopt", "announce", "mark"}) =>
    accounts = served["config"]

\* The watcher never goes to sleep on an edition it did not try: once the file stops
\* changing, what it holds is in force, unless it was refused or reloads overlapped.
SettlesOnTheFile ==
  <>[](~overlapped /\ edition \in good /\ ~refused => \A p \in PartNames : served[p] = edition)

\* What a policy promises, whole: whatever is edited, asked for or refused, the parts in
\* charge are of one edition that loads, and the accounts are that edition's.
PolicyIsWhole == TypeOK /\ OnlyLoadablePolicies /\ ServesOnePolicy /\ AccountsArePolicys
=============================================================================
