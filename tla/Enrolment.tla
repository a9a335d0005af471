------------------------------ MODULE Enrolment ------------------------------
(***************************************************************************)
(* The two files an operator's commands write: the policy file, edited by  *)
(* src/src/enroll.rs, by way of src/src/profiles.rs too, and checked by    *)
(* Config::validate of src/src/config.rs,                                  *)
(* and the credential store of src/src/store.rs, with the commands of      *)
(* src/src/main.rs and the console (src/src/tui/mod.rs) that write both.   *)
(*                                                                         *)
(* A writer is a process running one command after another; nothing keeps  *)
(* two apart, and a kill may end a command between any two of its steps.   *)
(* A document is what the policy file says, its layout left out; names are *)
(* unique in it by its shape.  A credential reference is to a 1Password    *)
(* item or to a name of the store, or is the credential itself (Inline),   *)
(* which no command writes.                                                *)
(*                                                                         *)
(* An operator named Slip... is the definition after it gone wrong: what   *)
(* the property it names would catch.                                      *)
(***************************************************************************)
EXTENDS Integers, Sequences, SequencesExt

CONSTANTS
  Writers,
  Ids,         \* of agents
  Services,    \* the namespace upstreams and MCP servers share
  Vaulted,     \* op:// references, which are also the credentials behind them
  Kept,        \* names in the store
  Slug,        \* the name a credential of each service is kept under
  Inline,      \* a reference that is the credential
  Typed,       \* a credential an operator typed
  All,         \* the pattern `*`
  None,        \* no entry, no reference, no value
  Torn,        \* a text nothing loads: cut inside a line, or with a name in it twice (which a
               \* command that removes one of the two would put right, and is left out)
  Absent,      \* no file
  Calls,       \* what can be asked of a service, as far as rules tell it apart
  Opening,     \* what an MCP session is opened with
  Profiles,    \* profiles with what an operator fills in: the kind of service, the reference to
               \* its credential, the agent, and what the level does about which calls, in order
  RuleSpecs,   \* the rules that may be asked for
  Start,       \* the documents the file may hold at first
  Layouts,     \* the orders in which what a file says may stand in it
  MaxRules,    \* bound on the rules of a file
  MaxCommands  \* bound on the commands

ASSUME SlugsDiffer ==
  /\ Slug \in [Services -> Kept]
  /\ \A s, t \in Services : Slug[s] = Slug[t] => s = t
ASSUME BoundsAreNat == MaxRules \in Nat /\ MaxCommands \in Nat

VARIABLES
  file,        \* the policy file
  text,        \* "none" when it was truncated, "whole" when one write from nothing made it, and
               \* "spoilt" when a write was cut short or went over another's
  store,       \* the credential store
  temp,        \* the file a new store is written to
  pc,          \* what each writer does next
  draft,       \* the document it read, or edited
  hand,        \* the store it read and changed
  moves,       \* what an import moves: references and the names they go to
  left,        \* those of them it has yet to store
  rest,        \* the rules of a profile it has yet to write
  commands,    \* how many were begun
  overlapped,  \* history: two were under way at once
  forced,      \* history: a credential was removed without a look at what uses it
  granted,     \* history: the rules a file with each one's whole profile has, until another
               \* command begins
  trusted      \* history: the credential each service had when an import began, until another
               \* command begins

policyFile == <<file, text>>
files == <<policyFile, store, temp>>
work == <<draft, hand, moves, left, rest>>
history == <<overlapped, forced, granted, trusted>>
vars == <<files, pc, work, commands, history>>

Refs == Vaulted \cup Kept
Effects == {"allow", "deny", "ask"}
ServiceKinds == {"upstream", "mcp"}

\* No targets is any target.  A token is a hash, a new hash or a reference.
Agent == [targets : SUBSET Services, token : {"hash", "rehashed", "reference"}]
Service == [kind : ServiceKinds, ref : Refs \cup {None}]

\* `spelled`: its kind is one of the three and neither list is empty.  `meant`: any_target
\* was asked for, which the file does not keep.
FileRule == [agent : Ids \cup {All}, target : Services \cup {All}, action : Effects,
             calls : SUBSET Calls, spelled : BOOLEAN, meant : BOOLEAN]

Document == [agents : [Ids -> Agent \cup {None}], services : [Services -> Service \cup {None}],
             rules : Seq(FileRule), default : Effects]

\* A file that was truncated, which loads.
Empty == [agents |-> [i \in Ids |-> None], services |-> [s \in Services |-> None],
          rules |-> <<>>, default |-> "deny"]

Store == [Kept -> Vaulted \cup {Typed, None}]
NoStore == [n \in Kept |-> None]

Profile == [kind : ServiceKinds, ref : Refs \cup {None}, agent : Ids \cup {All},
            level : Seq([action : Effects, calls : SUBSET Calls])]

ASSUME NothingIsMistaken ==
  /\ None \notin Agent \cup Service \cup Vaulted \cup Kept \cup {Typed}
  /\ Inline \notin Refs \cup {None} /\ Vaulted \cap Kept = {}
  /\ Torn \notin Document \cup Store \cup {Absent} /\ Absent \notin Store
ASSUME WhatIsAskedFor ==
  Opening \subseteq Calls /\ RuleSpecs \subseteq FileRule /\ Profiles \subseteq Profile

Untrusted == [s \in Services |-> None]

Init ==
  /\ file \in Start /\ text = "whole"
  /\ store = [n \in Kept |-> IF \E s \in Services : file.services[s] # None /\ file.services[s].ref = n
                             THEN Typed ELSE None]
  /\ temp = Absent
  /\ pc = [w \in Writers |-> "idle"]
  /\ draft = [w \in Writers |-> Empty]
  /\ hand = [w \in Writers |-> NoStore]
  /\ moves = [w \in Writers |-> {}]
  /\ left = [w \in Writers |-> {}]
  /\ rest = [w \in Writers |-> <<>>]
  /\ commands = 0
  /\ overlapped = FALSE /\ forced = FALSE
  /\ granted = [w \in Writers |-> <<>>]
  /\ trusted = Untrusted

-----------------------------------------------------------------------------
(* Reading documents. *)

Enrolled(d) == {i \in Ids : d.agents[i] # None}
Present(d) == {s \in Services : d.services[s] # None}
OfKind(d, kind) == {s \in Present(d) : d.services[s].kind = kind}

\* Config::validate, of what a command can get wrong.
Valid(d) ==
  /\ \A i \in Enrolled(d) : d.agents[i].targets \subseteq Present(d)
  /\ \A k \in DOMAIN d.rules : d.rules[k].spelled

\* Config::load: a file that parses and that validate accepts.
Loads == file # Torn /\ Valid(file)

ASSUME StartsAreValid == Start \subseteq Document /\ \A d \in Start : Valid(d)

\* Slip for NothingDangling: the environments of MCP servers are not looked at.
SlipManagedReferences(d) == {d.services[s].ref : s \in OfKind(d, "upstream")} \cap Kept
\* managed_references: of services, not of the agents' and the server's own tokens.
ManagedReferences(d) == {d.services[s].ref : s \in Present(d)} \cap Kept

\* plan_import: each op:// reference once, under the name of a service it belongs to.
Plans(d) ==
  LET wanted == {d.services[s].ref : s \in Present(d)} \cap Vaulted
      owners == [v \in wanted |-> {s \in Present(d) : d.services[s].ref = v}]
  IN {{<<v, Slug[o[v]]>> : v \in wanted} : o \in {f \in [wanted -> Services] : \A v \in wanted : f[v] \in owners[v]}}

-----------------------------------------------------------------------------
(* Commands. *)

\* What beginning one does to the counters, ...
BeginTrusting(w, credentials) ==
  /\ pc[w] = "idle" /\ commands < MaxCommands
  /\ commands' = commands + 1
  /\ overlapped' = (overlapped \/ \E x \in Writers : pc[x] # "idle")
  /\ granted' = [x \in Writers |-> <<>>]
  /\ trusted' = credentials
  /\ UNCHANGED rest

\* ... unless it is an import.
Begin(w) == BeginTrusting(w, Untrusted)

Goto(w, where) == pc' = [pc EXCEPT ![w] = where]

Idle(w) == Goto(w, "idle") /\ UNCHANGED <<commands, history>>

\* `read`: a file that does not parse ends the command.
ReadDocument(w) ==
  /\ file # Torn
  /\ draft' = [draft EXCEPT ![w] = file]

BeginEdit(w) ==
  /\ Begin(w) /\ ReadDocument(w)
  /\ Goto(w, "edit")
  /\ UNCHANGED <<files, hand, moves, left, forced>>

\* A command that is refused has written nothing.
Refuse(w) ==
  /\ pc[w] = "edit"
  /\ Idle(w) /\ UNCHANGED <<files, work>>

\* Slip for FileIsValid: an edit is written as it was made.
SlipAccepts(d) == TRUE
Accepts(d) == Valid(d)

\* What an edit leaves, on its way to `save`, ...
Leave(w, d) ==
  /\ Accepts(d)
  /\ Len(d.rules) <= MaxRules
  /\ draft' = [draft EXCEPT ![w] = d]
  /\ Goto(w, "save")
  /\ UNCHANGED <<files, hand, moves, left, commands, overlapped, forced, trusted>>

\* ... the first of the commits of a command that will write these rules, each in its own.
EditFirst(w, d, rules) ==
  /\ pc[w] = "edit"
  /\ Leave(w, d)
  /\ rest' = [rest EXCEPT ![w] = rules]
  /\ granted' = [granted EXCEPT ![w] = IF rules = <<>> THEN <<>> ELSE d.rules \o rules]

Edit(w, d) == EditFirst(w, d, <<>>)

-----------------------------------------------------------------------------
(* A text is a sequence of blocks, and is read as those that are in it. *)

Blocks == Ids \cup Services \cup {"rules", "default"}

ASSUME LayoutsAreOfBlocks == Layouts \subseteq Seq(Blocks)

Heads(l) == {{l[j] : j \in 1..n} : n \in 0..Len(l)}
Tails(l) == {{l[j] : j \in n..Len(l)} : n \in 1..(Len(l) + 1)}

\* Some blocks of one document, and behind them some of another's.
Spliced(d, head, e, tail) ==
  [agents |-> [i \in Ids |-> IF i \in head /\ d.agents[i] # None THEN d.agents[i]
                             ELSE IF i \in tail THEN e.agents[i] ELSE None],
   services |-> [s \in Services |-> IF s \in head /\ d.services[s] # None THEN d.services[s]
                                    ELSE IF s \in tail THEN e.services[s] ELSE None],
   rules |-> (IF "rules" \in head THEN d.rules ELSE <<>>) \o (IF "rules" \in tail THEN e.rules ELSE <<>>),
   default |-> IF "default" \in head THEN d.default ELSE IF "default" \in tail THEN e.default ELSE "deny"]

\* The file's text with another over its beginning.
Over(d, head) ==
  {Torn} \cup (IF file = Torn THEN {}
               ELSE {Spliced(d, head, file, tail) : tail \in UNION {Tails(l) : l \in Layouts}})

\* Its last block has lost lines: an agent's targets, a service's credential, what a rule
\* covers, or rules.
Widest(rule) == [rule EXCEPT !.agent = All, !.target = All, !.calls = Calls]

Shortened(d, block) ==
       {[d EXCEPT !.agents[i].targets = {}] : i \in Enrolled(d) \cap {block}}
  \cup {[d EXCEPT !.services[s].ref = None] : s \in Present(d) \cap {block}}
  \cup (IF block # "rules" THEN {}
        ELSE UNION {{[d EXCEPT !.rules = SubSeq(@, 1, k - 1)],
                     [d EXCEPT !.rules = Append(SubSeq(@, 1, k - 1), Widest(d.rules[k]))]} : k \in DOMAIN d.rules})

\* The beginning of a text.
Cut(d) ==
  {Torn, Empty} \cup
    UNION {UNION {LET whole == Spliced(d, {l[j] : j \in 1..n}, Empty, {})
                  IN {whole} \cup Shortened(whole, l[n]) : n \in DOMAIN l} : l \in Layouts}

\* save: the file is opened, which truncates it, ...
Truncate(w) ==
  /\ pc[w] = "save"
  /\ file' = Empty /\ text' = "none"
  /\ Goto(w, "write")
  /\ UNCHANGED <<store, temp, work, commands, history>>

\* ... and written from its start, whatever another has put there by now: the end of a longer
\* text stays behind a shorter one.
Write(w) ==
  /\ pc[w] = "write"
  /\ \/ text = "none" /\ file' = draft[w] /\ text' = "whole"
     \/ text # "none" /\ file' \in {draft[w]} \cup Over(draft[w], Blocks) /\ text' = "spoilt"
  /\ Goto(w, IF rest[w] = <<>> THEN "idle" ELSE "rule")
  /\ UNCHANGED <<store, temp, work, commands, history>>

\* A part of it is in the file by now, over what another has put there.
WritePart(w) ==
  /\ pc[w] = "write"
  /\ file' \in IF text = "none" THEN Cut(draft[w])
              ELSE UNION {Over(draft[w], head) : head \in UNION {Heads(l) : l \in Layouts}}
  /\ text' = "spoilt"

\* The disk is full: `save` fails, and leaves what it had written.
SaveFails(w) ==
  /\ WritePart(w)
  /\ rest' = [rest EXCEPT ![w] = <<>>]
  /\ Idle(w) /\ UNCHANGED <<store, temp, draft, hand, moves, left>>

-----------------------------------------------------------------------------
(* Edits of agents. *)

Scoped(d, targets) == targets \subseteq Present(d)

\* No targets must have been asked for, as --any-target.
AddAgent(w, i, targets) ==
  LET d == draft[w] IN
  /\ i \notin Enrolled(d) /\ Scoped(d, targets)
  /\ Edit(w, [d EXCEPT !.agents[i] = [targets |-> targets, token |-> "hash"]])

EditAgent(w, i, targets) ==
  LET d == draft[w] IN
  /\ i \in Enrolled(d) /\ Scoped(d, targets)
  /\ Edit(w, [d EXCEPT !.agents[i].targets = targets])

RotateAgent(w, i) ==
  LET d == draft[w] IN
  /\ i \in Enrolled(d) /\ d.agents[i].token # "reference"
  /\ Edit(w, [d EXCEPT !.agents[i].token = "rehashed"])

-----------------------------------------------------------------------------
(* Removals. *)

\* Slip for PruneTakesItsOwn: front to back, by positions that have moved.
SlipRemoveAll(rules, indices) ==
  LET upTo[k \in 0..Len(rules)] ==
        IF k = 0 THEN rules
        ELSE IF k \in indices \cap DOMAIN upTo[k - 1] THEN RemoveAt(upTo[k - 1], k) ELSE upTo[k - 1]
  IN upTo[Len(rules)]

\* take_rules removes them one by one, back to front: what is left once the rules after the
\* k-th have been dealt with.
RemoveAll(rules, indices) ==
  LET past[k \in 0..Len(rules)] ==
        IF k = Len(rules) THEN rules
        ELSE IF k + 1 \in indices THEN RemoveAt(past[k + 1], k + 1) ELSE past[k + 1]
  IN past[0]

RulesOf(d, agent) == {k \in DOMAIN d.rules : d.rules[k].agent = agent}
RulesAbout(d, target) == {k \in DOMAIN d.rules : d.rules[k].target = target}

TakeRules(d, indices, prune) ==
  IF prune THEN [d EXCEPT !.rules = RemoveAll(@, indices)] ELSE d

RemoveAgent(w, i, prune) ==
  LET d == draft[w] IN
  /\ i \in Enrolled(d)
  /\ Edit(w, TakeRules([d EXCEPT !.agents[i] = None],
                       RulesOf(d, i), prune))

\* Slip for PruneTakesItsOwn: nobody looks.
SlipWidened(d, s) == {}
\* The agents a removal would leave without targets, which is with all of them.
Widened(d, s) == {i \in Enrolled(d) : d.agents[i].targets = {s}}

RemoveService(w, s, kind, prune) ==
  LET d      == draft[w]
      scoped == {i \in Enrolled(d) : s \in d.agents[i].targets}
      gone   == [d EXCEPT !.services[s] = None,
                          !.agents = [i \in Ids |-> IF i \in scoped
                                                    THEN [d.agents[i] EXCEPT !.targets = @ \ {s}]
                                                    ELSE d.agents[i]]]
  IN /\ s \in OfKind(d, kind)
     /\ scoped # {} => prune /\ Widened(d, s) = {}
     /\ Edit(w, TakeRules(gone, RulesAbout(d, s), prune))

-----------------------------------------------------------------------------
(* Edits of services. *)

\* check_secret_refs.  That a name is stored nobody checks; the operators here store it
\* first, as every message says to.
Referable(ref) == ref # Inline /\ (ref \in Kept => store # Torn /\ store[ref] # None)

\* Names are looked for in both lists.
AddService(w, s, kind, ref, rules) ==
  LET d == draft[w] IN
  /\ Referable(ref) /\ s \notin Present(d)
  /\ EditFirst(w, [d EXCEPT !.services[s] = [kind |-> kind, ref |-> ref]], rules)

AddUpstream(w, s, ref) == AddService(w, s, "upstream", ref, <<>>)
AddMcpServer(w, s, ref) == AddService(w, s, "mcp", ref, <<>>)

\* planned_rules, and planned_spec: of the service as it is named here; a session first,
\* which no rule about a tool lets an agent open.
Planned(s, profile) ==
  LET Of(action, calls) == [agent |-> profile.agent, target |-> s, action |-> action, calls |-> calls,
                            spelled |-> TRUE, meant |-> FALSE]
      level == profile.level
  IN (IF profile.kind = "mcp" THEN <<Of("allow", Opening)>> ELSE <<>>)
     \o [k \in DOMAIN level |-> Of(level[k].action, level[k].calls)]

\* profiles::add with --grant; without, it is one of the two above.
AddProfile(w, s, profile) == AddService(w, s, profile.kind, profile.ref, Planned(s, profile))

\* Slip for ProfilesGrantNoMore: the rules in any order.
SlipNextOf(rules) == Last(rules)
NextOf(rules) == Head(rules)

\* A rule is a command of its own: the file as it is by now.
AddNextRule(w) ==
  /\ pc[w] = "rule"
  /\ file # Torn
  /\ Leave(w, [file EXCEPT !.rules = Append(@, NextOf(rest[w]))])
  /\ rest' = [rest EXCEPT ![w] = Tail(@)]
  /\ UNCHANGED granted

\* Any of it fails: what is written stays.
ProfileFails(w) ==
  /\ pc[w] = "rule"
  /\ rest' = [rest EXCEPT ![w] = <<>>]
  /\ Idle(w) /\ UNCHANGED <<files, draft, hand, moves, left>>

EditUpstream(w, s, ref) ==
  LET d == draft[w] IN
  /\ Referable(ref) /\ s \in OfKind(d, "upstream")
  /\ Edit(w, [d EXCEPT !.services[s].ref = ref])

-----------------------------------------------------------------------------
(* Edits of rules. *)

\* check_target_breadth
Broad(rule) == rule.action = "allow" /\ rule.target = All /\ ~rule.meant

AddRule(w, rule) ==
  /\ ~Broad(rule)
  /\ Edit(w, [draft[w] EXCEPT !.rules = Append(@, rule)])

\* Before the rule at an index some screen had; past the end is at the end.
InsertRule(w, k, rule) ==
  LET rules == draft[w].rules IN
  /\ ~Broad(rule)
  /\ Edit(w, [draft[w] EXCEPT !.rules = IF k > Len(rules) THEN Append(rules, rule)
                                        ELSE InsertAt(rules, k, rule)])

RemoveRule(w, k) ==
  /\ k \in DOMAIN draft[w].rules
  /\ Edit(w, [draft[w] EXCEPT !.rules = RemoveAt(@, k)])

ResetAcl(w, to) ==
  Edit(w, [draft[w] EXCEPT !.rules = <<>>, !.default = to])

-----------------------------------------------------------------------------
(* The store. *)

\* Store::read, and the change a command makes to what it read.
HoldStore(w, change) ==
  /\ store # Torn
  /\ hand' = [hand EXCEPT ![w] = change]
  /\ Goto(w, "temp")

\* secret set
SetSecret(w, n) ==
  /\ Begin(w)
  /\ store # Torn
  /\ HoldStore(w, [store EXCEPT ![n] = Typed])
  /\ UNCHANGED <<files, draft, moves, left, forced>>

\* Slip for KeptNamesAreFree: the name of the subject, taken or not.
SlipFreeNames(s) == {Slug[s]}
\* store_name: the name of the subject, or a numbered one when it is taken.
FreeNames(s) ==
  LET free == {n \in Kept : store[n] = None} IN
  IF Slug[s] \in free THEN {Slug[s]} ELSE free \ {Slug[t] : t \in Services}

\* keep_credential, of the console.
ListStore(w, s) ==
  /\ Begin(w)
  /\ store # Torn
  /\ \E n \in FreeNames(s) : moves' = [moves EXCEPT ![w] = {<<Typed, n>>}]
  /\ Goto(w, "keep")
  /\ UNCHANGED <<files, draft, hand, left, forced>>

KeepCredential(w) ==
  /\ pc[w] = "keep"
  /\ store # Torn
  /\ \E m \in moves[w] : HoldStore(w, [store EXCEPT ![m[2]] = Typed])
  /\ moves' = [moves EXCEPT ![w] = {}]
  /\ UNCHANGED <<files, draft, left, rest, commands, history>>

\* secret rm: the file is loaded, and one that does not load uses no name, ...
LookForUses(w, n, force) ==
  /\ Begin(w)
  /\ Loads => force \/ n \notin ManagedReferences(file)
  /\ moves' = [moves EXCEPT ![w] = {<<None, n>>}]
  /\ forced' = (forced \/ force \/ ~Loads)
  /\ Goto(w, "remove")
  /\ UNCHANGED <<files, draft, hand, left>>

\* ... and then the store.
RemoveSecret(w) ==
  /\ pc[w] = "remove"
  /\ store # Torn
  /\ moves' = [moves EXCEPT ![w] = {}]
  /\ \E m \in moves[w] : /\ store[m[2]] # None
                         /\ HoldStore(w, [store EXCEPT ![m[2]] = None])
  /\ UNCHANGED <<files, draft, left, rest, commands, history>>

\* Nothing is stored under that name.
NothingToRemove(w) ==
  /\ pc[w] = "remove"
  /\ \A m \in moves[w] : store # Torn => store[m[2]] = None
  /\ moves' = [moves EXCEPT ![w] = {}]
  /\ Idle(w) /\ UNCHANGED <<files, draft, hand, left, rest>>

\* Slip for StoreStaysWhole: the store is written where it is.
SlipTemporary == FALSE
Temporary == TRUE

\* Store::write: the temporary file is created, or truncated if somebody left it, ...
OpenTemp(w) ==
  /\ pc[w] = "temp"
  /\ IF Temporary THEN temp' = Torn /\ UNCHANGED store ELSE store' = Torn /\ UNCHANGED temp
  /\ Goto(w, "fill")
  /\ UNCHANGED <<policyFile, work, commands, history>>

\* ... written, perhaps over another's bytes or, when another renamed it, in its place, ...
FillTemp(w) ==
  /\ pc[w] = "fill"
  /\ \/ /\ temp # Absent
        /\ temp' \in IF temp = Torn THEN {hand[w]} ELSE {hand[w], Torn}
        /\ UNCHANGED store
     \/ /\ temp = Absent
        /\ store' \in IF store = Torn THEN {hand[w]} ELSE {hand[w], Torn}
        /\ UNCHANGED temp
  /\ Goto(w, "rename")
  /\ UNCHANGED <<policyFile, work, commands, history>>

\* What comes after a store was written: the rest of an import.
AfterStore(w) == IF moves[w] # {} THEN "import" ELSE "idle"

\* ... and renamed.
Rename(w) ==
  /\ pc[w] = "rename"
  /\ temp # Absent \/ ~Temporary
  /\ store' = IF Temporary THEN temp ELSE store
  /\ temp' = Absent
  /\ Goto(w, AfterStore(w))
  /\ UNCHANGED <<policyFile, work, commands, history>>

\* A disk that refuses any of it ends the command, and the temporary file.
StoreFails(w) ==
  /\ pc[w] \in {"temp", "fill", "rename"}
  /\ temp' = Absent
  /\ moves' = [moves EXCEPT ![w] = {}]
  /\ left' = [left EXCEPT ![w] = {}]
  /\ Idle(w) /\ UNCHANGED <<policyFile, store, draft, hand, rest>>

-----------------------------------------------------------------------------
(* secret import. *)

\* What a service is called with.
Credential(d, s) ==
  LET ref == d.services[s].ref IN IF ref \in Kept THEN store[ref] ELSE ref

\* What each is called with, of those that are not kept under a name the plan takes.
Outside(plan) ==
  [s \in Services |-> IF /\ s \in Present(file) /\ file.services[s].ref \notin {m[2] : m \in plan}
                         /\ store # Torn
                      THEN Credential(file, s) ELSE None]

\* Everything is read from 1Password before anything is written; what cannot be ends it.
PlanImport(w) ==
  /\ Loads
  /\ \E plan \in Plans(file) :
       /\ plan # {}
       /\ BeginTrusting(w, Outside(plan))
       /\ moves' = [moves EXCEPT ![w] = plan]
       /\ left' = [left EXCEPT ![w] = plan]
  /\ Goto(w, "import")
  /\ UNCHANGED <<files, draft, hand, forced>>

StoreMove(w, m) ==
  /\ pc[w] = "import" /\ m \in left[w]
  /\ store # Torn
  /\ HoldStore(w, [store EXCEPT ![m[2]] = m[1]])
  /\ left' = [left EXCEPT ![w] = @ \ {m}]
  /\ UNCHANGED <<files, draft, moves, rest, commands, history>>

Stored(w) == left[w] = {}

\* Slip for ImportKeepsTheCredentials: the name of some reference of the plan.
SlipMovedTo(plan, ref) == (CHOOSE m \in plan : TRUE)[2]
MovedTo(plan, ref) == (CHOOSE m \in plan : m[1] = ref)[2]

\* repoint_references, on the file as it is by now.
Repointed(d, plan) ==
  [d EXCEPT !.services = [s \in Services |->
     IF s \in Present(d) /\ \E m \in plan : m[1] = d.services[s].ref
     THEN [d.services[s] EXCEPT !.ref = MovedTo(plan, d.services[s].ref)]
     ELSE d.services[s]]]

Repoint(w) ==
  /\ pc[w] = "import" /\ Stored(w)
  /\ file # Torn
  /\ Accepts(Repointed(file, moves[w]))
  /\ draft' = [draft EXCEPT ![w] = Repointed(file, moves[w])]
  /\ moves' = [moves EXCEPT ![w] = {}]
  /\ left' = [left EXCEPT ![w] = {}]
  /\ Goto(w, "save")
  /\ UNCHANGED <<files, hand, rest, commands, history>>

-----------------------------------------------------------------------------
\* A kill, or the end of the machine.
Kill(w) ==
  /\ pc[w] # "idle"
  /\ UNCHANGED policyFile \/ WritePart(w)
  /\ moves' = [moves EXCEPT ![w] = {}]
  /\ left' = [left EXCEPT ![w] = {}]
  /\ rest' = [rest EXCEPT ![w] = <<>>]
  /\ Goto(w, "idle")
  /\ UNCHANGED <<store, temp, draft, hand, commands, overlapped, forced, granted, trusted>>

EditAgents(w) ==
  \E i \in Ids :
    \/ \E targets \in SUBSET Services : AddAgent(w, i, targets) \/ EditAgent(w, i, targets)
    \/ RotateAgent(w, i)
    \/ \E prune \in BOOLEAN : RemoveAgent(w, i, prune)

EditServices(w) ==
  \E s \in Services :
    \/ \E ref \in Refs \cup {None, Inline} :
         AddUpstream(w, s, ref) \/ AddMcpServer(w, s, ref) \/ EditUpstream(w, s, ref)
    \/ \E kind \in ServiceKinds, prune \in BOOLEAN : RemoveService(w, s, kind, prune)
    \/ \E profile \in Profiles : AddProfile(w, s, profile)

EditRules(w) ==
  \/ \E rule \in RuleSpecs : AddRule(w, rule) \/ \E k \in 1..(MaxRules + 1) : InsertRule(w, k, rule)
  \/ \E k \in 1..MaxRules : RemoveRule(w, k)
  \/ \E to \in {"ask", "deny"} : ResetAcl(w, to)

StoreCommand(w) ==
  \/ \E n \in Kept : SetSecret(w, n) \/ \E force \in BOOLEAN : LookForUses(w, n, force)
  \/ \E s \in Services : ListStore(w, s)
  \/ KeepCredential(w) \/ RemoveSecret(w) \/ NothingToRemove(w)
  \/ OpenTemp(w) \/ FillTemp(w) \/ Rename(w) \/ StoreFails(w)

Import(w) == PlanImport(w) \/ (\E m \in left[w] : StoreMove(w, m)) \/ Repoint(w)

Next ==
  \E w \in Writers :
    \/ BeginEdit(w) \/ Refuse(w) \/ Truncate(w) \/ Write(w) \/ SaveFails(w)
    \/ EditAgents(w) \/ EditServices(w) \/ EditRules(w) \/ AddNextRule(w) \/ ProfileFails(w)
    \/ StoreCommand(w) \/ Import(w) \/ Kill(w)

Spec == Init /\ [][Next]_vars

-----------------------------------------------------------------------------
(* Properties. *)

Move == (Vaulted \cup {Typed, None}) \X Kept

TypeOK ==
  /\ file \in Document \cup {Torn} /\ text \in {"none", "whole", "spoilt"}
  /\ store \in Store \cup {Torn} /\ temp \in Store \cup {Torn, Absent}
  /\ pc \in [Writers -> {"idle", "edit", "save", "write", "keep", "remove", "temp", "fill", "rename",
                         "import", "rule"}]
  /\ draft \in [Writers -> Document] /\ hand \in [Writers -> Store]
  /\ moves \in [Writers -> SUBSET Move] /\ left \in [Writers -> SUBSET Move]
  /\ \A w \in Writers : left[w] \subseteq moves[w]
  /\ rest \in [Writers -> Seq(FileRule)] /\ granted \in [Writers -> Seq(FileRule)]
  /\ commands \in 0..MaxCommands
  /\ overlapped \in BOOLEAN /\ forced \in BOOLEAN
  /\ trusted \in [Services -> Vaulted \cup {Typed, None}]

\* comment on save: "a half-written policy file is a proxy that will not restart".  However
\* many edit it at once and in whatever order they read and write, the file is one the proxy
\* accepts, whenever one write made it, from nothing and to its end, or nothing is in it yet:
\* also after a write that was cut short, or that went over another's.
FileIsValid == text # "spoilt" => Loads

\* comment on Store::write: "the alternative is a truncated file, and a truncated credential
\* store is every upstream on this proxy failing to resolve at once".  So kills and full
\* disks leave the old store or the new one, as long as one command runs at a time.
StoreStaysWhole == ~overlapped => store # Torn

\* The order of every pair of writes, to the store and to the file, is the one that breaks
\* nothing: wherever it is killed, every service's credential is in the store, unless
\* somebody forced one out or two commands ran at once.
NothingDangling ==
  ~overlapped /\ ~forced /\ file # Torn =>
    \A s \in Present(file) :
      LET ref == file.services[s].ref IN ref \in Kept => store # Torn /\ store[ref] # None

Edits(w) == pc[w] = "edit" /\ pc'[w] = "save"
RemovedServices(w) == Present(draft[w]) \ Present(draft'[w])
RemovedAgents(w) == Enrolled(draft[w]) \ Enrolled(draft'[w])
NamesRemoved(rule, w) == rule.target \in RemovedServices(w) \/ rule.agent \in RemovedAgents(w)

\* The rules at these positions, in the order they had.
KeepsInOrder(before, after, positions) ==
  \E from \in [DOMAIN after -> positions] :
    /\ \A k \in DOMAIN after : after[k] = before[from[k]]
    /\ \A j, k \in DOMAIN after : j < k => from[j] < from[k]
    /\ \A p \in positions : \E k \in DOMAIN after : from[k] = p

\* comment on remove_service: "A removal must not hand out a grant on its way past".  Nobody
\* left is given more targets, and of the rules all stay, or just those that named the
\* removed entry go, and the others keep their order, which is their meaning.
PruneTakesItsOwn ==
  [][\A w \in Writers :
       Edits(w) /\ RemovedServices(w) \cup RemovedAgents(w) # {} =>
         LET before == draft[w] after == draft'[w] IN
         /\ \/ after.rules = before.rules
            \/ KeepsInOrder(before.rules, after.rules,
                            {k \in DOMAIN before.rules : ~NamesRemoved(before.rules[k], w)})
         /\ \A i \in Enrolled(after) :
              /\ after.agents[i].targets = before.agents[i].targets \ RemovedServices(w)
              /\ after.agents[i].targets = {} => before.agents[i].targets = {}]_vars

\* An agent's call is decided by the first of the rules that cover it.
Covering(rules, i, s, c) ==
  {k \in DOMAIN rules : /\ rules[k].agent \in {i, All} /\ rules[k].target \in {s, All}
                        /\ c \in rules[k].calls}
Allowed(rules, i, s, c) ==
  \E k \in Covering(rules, i, s, c) :
    rules[k].action = "allow" /\ \A j \in Covering(rules, i, s, c) : k <= j

\* A profile that is killed, refused or interrupted between its commits, and not inside one,
\* leaves some of its rules: no rule of the file allows a call that the file with the whole profile in it would
\* have refused or asked about.
ProfilesGrantNoMore ==
  ~overlapped /\ text # "spoilt" =>
    \A w \in {x \in Writers : granted[x] # <<>>}, i \in Ids, s \in Services, c \in Calls :
      Allowed(file.rules, i, s, c) => Allowed(granted[w], i, s, c)

\* An import moves where a credential is kept and never which one a service is called with:
\* wherever it is killed or fails, each service has the one it had when it began, if that was
\* not kept under a name the import takes.
ImportKeepsTheCredentials ==
  ~overlapped /\ text # "spoilt" =>
    \A s \in Present(file) : trusted[s] # None => store # Torn /\ Credential(file, s) = trusted[s]

\* comment on store_name: a name the operator did not choose "must not be the thing that
\* silently replaces another upstream's credential".
KeptNamesAreFree ==
  [][\A w \in Writers :
       pc[w] = "keep" /\ pc'[w] = "temp" /\ ~overlapped =>
         \A n \in Kept : store[n] # None => hand'[w][n] = store[n]]_vars

\* Kills, full disks and another command leave a file and a store the proxy starts with,
\* and half a profile grants no more than the whole.
FilesStayWhole == TypeOK /\ FileIsValid /\ StoreStaysWhole /\ ProfilesGrantNoMore

\* Adding and importing disturb no credential that is kept already.
CredentialsStay == []ImportKeepsTheCredentials /\ KeptNamesAreFree
=============================================================================
