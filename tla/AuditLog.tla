------------------------------ MODULE AuditLog ------------------------------
(***************************************************************************)
(* The hash-chained audit log of src/src/audit.rs: the writer behind its   *)
(* mutex and its buffer, the reload that moves it to another file, a crash *)
(* and the restart that resumes the chain.                                 *)
(*                                                                         *)
(* A line is three parts, so that a write can stop in it: up to some point *)
(* of the JSON, the rest of the JSON, and the newline.  A file is the      *)
(* sequence of parts that reached it.  Hashes do not collide: an entry's   *)
(* id, a fresh UUID it is hashed with, stands for its hash.                *)
(*                                                                         *)
(* An operator named Slip... is the definition after it gone wrong: what   *)
(* the property it names would catch.                                      *)
(***************************************************************************)
EXTENDS Naturals, Sequences

CONSTANTS
  Paths,       \* the paths `audit.path` may name
  Reloads,     \* the reloads that may be moving the log at the same time
  Faults,      \* whether a write may stop partway, refused by the disk or cut by a kill
  MaxWrites    \* bound on the calls of `write`

ASSUME FaultsIsBoolean == Faults \in BOOLEAN
ASSUME BoundIsNat == MaxWrites \in Nat

VARIABLES
  disk,      \* what each file holds
  path,      \* where records are going
  chain,     \* the writer's seq and prev_hash
  buffer,    \* the parts its BufWriter still holds
  up,        \* the process is running
  opened,    \* the chain each reload has read and not installed yet
  writes,    \* how many calls of `write` there were
  acked,     \* the entries `write` returned Ok for
  trouble    \* history: a write has failed, or two reloads have moved the log at once

vars == <<disk, path, chain, buffer, up, opened, writes, acked, trouble>>

Genesis == 0
Nothing == [path |-> "none"]

-----------------------------------------------------------------------------
(* Files. *)

PartNames == <<"start", "end", "newline">>

Parts(e) == [k \in 1..3 |-> [entry |-> e, part |-> PartNames[k]]]

\* The place of the part at position i within its line, from 1 to 3.
Place(i) == ((i - 1) % 3) + 1

\* Every line of d is one entry; the last may lack its newline, which the
\* readers of the log do not ask for.
Parses(d) ==
  /\ Len(d) % 3 # 1
  /\ \A i \in 1..Len(d) :
       /\ d[i].part = PartNames[Place(i)]
       /\ d[i].entry = d[i - Place(i) + 1].entry

\* verify_file: the entries are numbered from 0 and each names the one before it.
Verifies(d) ==
  /\ Parses(d)
  /\ \A i \in 1..Len(d) :
       /\ d[i].entry.seq = (i - Place(i)) \div 3
       /\ d[i].entry.prev = IF i <= 3 THEN Genesis ELSE d[i - 3].entry.id

\* Slip for VerifiesUntilTrouble: the chain resumes under the last entry's own number.
SlipNextSeq(e) == e.seq
NextSeq(e) == e.seq + 1

\* open_chain: the chain a file ends with, or a new one.
ChainOf(p) ==
  IF disk[p] = <<>> THEN [path |-> p, seq |-> 0, prev |-> Genesis]
  ELSE LET last == disk[p][Len(disk[p])].entry
       IN [path |-> p, seq |-> NextSeq(last), prev |-> last.id]

Init ==
  /\ disk = [p \in Paths |-> <<>>]
  /\ path \in Paths
  /\ chain = ChainOf(path)
  /\ buffer = <<>>
  /\ up = TRUE
  /\ opened = [r \in Reloads |-> Nothing]
  /\ writes = 0
  /\ acked = {}
  /\ trouble = FALSE

-----------------------------------------------------------------------------
(* `write`, all of it under the writer's lock. *)

NewEntry == [id |-> writes + 1, seq |-> chain.seq, prev |-> chain.prev]

\* What a flush would send: what an earlier one could not, then this line.
Outgoing == buffer \o Parts(NewEntry)

\* Slip for AckedIsOnDisk: a write does not wait for the file.
SlipFlushed(parts) == 0

\* How many of the parts a successful flush sends.
Flushed(parts) == Len(parts)

Write ==
  /\ up /\ writes < MaxWrites
  /\ writes' = writes + 1
  /\ disk' = [disk EXCEPT ![path] = @ \o SubSeq(Outgoing, 1, Flushed(Outgoing))]
  /\ buffer' = SubSeq(Outgoing, Flushed(Outgoing) + 1, Len(Outgoing))
  /\ chain' = [chain EXCEPT !.seq = @ + 1, !.prev = NewEntry.id]
  /\ acked' = acked \cup {NewEntry.id}
  /\ UNCHANGED <<path, up, opened, trouble>>

\* The disk takes some of it and refuses the rest (a kill inside the write is this
\* and then Crash).  What is left stays in the
\* buffer, unless this line was too long for it and went past it.
WriteFails ==
  /\ Faults /\ up /\ writes < MaxWrites
  /\ writes' = writes + 1
  /\ \E n \in 0..(Len(Outgoing) - 1) :
       /\ disk' = [disk EXCEPT ![path] = @ \o SubSeq(Outgoing, 1, n)]
       /\ \/ buffer' = SubSeq(Outgoing, n + 1, Len(Outgoing))
          \/ buffer' = SubSeq(buffer, n + 1, Len(buffer))
  /\ trouble' = TRUE
  /\ UNCHANGED <<path, chain, up, opened, acked>>

-----------------------------------------------------------------------------
(* `reopen`, when a reload changes `audit.path`. *)

\* The new file's chain is read before any lock is taken.
ReadChain(r, p) ==
  /\ up /\ opened[r] = Nothing
  /\ p # path
  /\ Parses(disk[p])
  /\ opened' = [opened EXCEPT ![r] = ChainOf(p)]
  /\ trouble' = (trouble \/ \E l \in Reloads : opened[l] # Nothing)
  /\ UNCHANGED <<disk, path, chain, buffer, up, writes, acked>>

\* Slip for NothingTwice: the new writer inherits what the old one still held.
SlipCarried == buffer
\* What the new writer starts with.
Carried == <<>>

\* Then both locks: the old writer is flushed, as far as it goes, and replaced.
Install(r) ==
  /\ up /\ opened[r] # Nothing
  /\ \E n \in (IF Faults THEN 0 ELSE Len(buffer))..Len(buffer) :
       disk' = [disk EXCEPT ![path] = @ \o SubSeq(buffer, 1, n)]
  /\ buffer' = Carried
  /\ chain' = opened[r]
  /\ path' = opened[r].path
  /\ opened' = [opened EXCEPT ![r] = Nothing]
  /\ UNCHANGED <<up, writes, acked, trouble>>

-----------------------------------------------------------------------------
(* The process. *)

Crash ==
  /\ up
  /\ up' = FALSE
  /\ buffer' = <<>>
  /\ opened' = [r \in Reloads |-> Nothing]
  /\ UNCHANGED <<disk, path, chain, writes, acked, trouble>>

\* A log that does not parse keeps the process from starting.
Restart(p) ==
  /\ ~up
  /\ Parses(disk[p])
  /\ up' = TRUE
  /\ path' = p
  /\ chain' = ChainOf(p)
  /\ UNCHANGED <<disk, buffer, opened, writes, acked, trouble>>

Next ==
  \/ Write \/ WriteFails \/ Crash
  \/ \E r \in Reloads : (\E p \in Paths : ReadChain(r, p)) \/ Install(r)
  \/ \E p \in Paths : Restart(p)

Spec == Init /\ [][Next]_vars

-----------------------------------------------------------------------------
(* Properties. *)

Entry == [id : 1..MaxWrites, seq : 0..MaxWrites, prev : 0..MaxWrites]
Part == [entry : Entry, part : {"start", "end", "newline"}]
Chain == [path : Paths, seq : 0..MaxWrites, prev : 0..MaxWrites]

TypeOK ==
  /\ disk \in [Paths -> Seq(Part)]
  /\ path \in Paths /\ chain \in Chain /\ chain.path = path
  /\ buffer \in Seq(Part)
  /\ up \in BOOLEAN
  /\ opened \in [Reloads -> Chain \cup {Nothing}]
  /\ writes \in 0..MaxWrites
  /\ acked \subseteq 1..MaxWrites
  /\ trouble \in BOOLEAN

\* Moving the log away and back, with records written in between, stopping and
\* resuming leave every file a chain `audit verify` believes: as long as no write
\* failed and reloads took turns.
VerifiesUntilTrouble == ~trouble => \A p \in Paths : Verifies(disk[p])

PartsOnDisk(id, p) == {i \in 1..Len(disk[p]) : disk[p][i].entry.id = id}

\* A record the caller was told is written is all in one file, also after a crash:
\* what a request was allowed on the strength of is there to be read.
AckedIsOnDisk ==
  \A id \in acked : \E p \in Paths :
    \A k \in 1..3 : \E i \in PartsOnDisk(id, p) : disk[p][i].part = PartNames[k]

\* "A record is never written to both" files, and no part of it twice to one,
\* whatever failed and was sent again.
NothingTwice ==
  \A p, q \in Paths : \A i \in 1..Len(disk[p]), j \in 1..Len(disk[q]) :
    disk[p][i] = disk[q][j] => p = q /\ i = j

\* Every file is made of whole parts, and a chain as long as nothing failed.
ChainsVerify == TypeOK /\ VerifiesUntilTrouble
=============================================================================
