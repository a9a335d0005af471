--------------------------- MODULE OperatorProofs ---------------------------
(***************************************************************************)
(* Of the parts an operator works with: that however many commands write   *)
(* the policy file and the store, are killed or fail, both stay whole and  *)
(* no service loses its credential (Enrolment), and that the console       *)
(* answers what was shown, writes where it decides and verifies once and   *)
(* late, whatever happens elsewhere (Console).                             *)
(*                                                                         *)
(* The two share no state; each has an invariant of its own.               *)
(***************************************************************************)
EXTENDS Enrolment, Console, WellFoundedInduction, FiniteSetTheorems, TLAPS

-----------------------------------------------------------------------------
\* Every set of numbers has a least one.
Less == {p \in Nat \X Nat : p[1] < p[2]}

LEMMA FirstIs ==
  ASSUME NEW S \in SUBSET Nat, S # {}
  PROVE  \E x \in S : \A y \in S : x <= y
<1>1. IsWellFoundedOn(Less, Nat)
  BY NatLessThanWellFounded DEF OpToRel, Less
<1>2. PICK x \in S : \A y \in S : ~(<<y, x>> \in Less)
  BY <1>1, WFMin
<1>3. \A y \in S : x <= y
  <2>1. ASSUME NEW y \in S, y < x PROVE FALSE
    <3>1. <<y, x>> \in Less
      BY <2>1 DEF Less
    <3> QED
      BY <1>2, <3>1
  <2> QED
    BY <2>1
<1> QED
  BY <1>3

-----------------------------------------------------------------------------
(* Enrolment: the invariant. *)

\* The store has every credential a document refers to.
Holds(d, kept) == \A s \in Present(d) : d.services[s].ref \in Kept => kept[d.services[s].ref] # None

\* What is true of a writer whatever the others do.
OfItsOwn(w) ==
  /\ pc[w] \in {"save", "write"} => Valid(draft[w])
  /\ pc[w] \in {"idle", "edit", "save", "write", "rule"} => moves[w] = {}
  /\ pc[w] \in {"keep", "remove"} => left[w] = {}
  /\ pc[w] = "rule" => rest[w] # <<>>

OneAtATime == ~overlapped => \A w, x \in Writers : pc[w] # "idle" /\ pc[x] # "idle" => w = x

\* A plan gives each reference a name, and no two the same.
OneToOne(plan) ==
  /\ plan \subseteq Vaulted \X Kept
  /\ \A m, n \in plan : m[1] = n[1] \/ m[2] = n[2] => m = n

\* The moves made by now are in a store.
Made(w, kept) == OneToOne(moves[w]) /\ \A m \in moves[w] \ left[w] : kept[m[2]] = m[1]

\* What is true of the one writer under way.
OfTheFile(w) ==
  /\ pc[w] = "edit" => file = draft[w]
  /\ pc[w] = "write" => file = Empty /\ text = "none"
  /\ pc[w] \in {"save", "write"} /\ ~forced => Holds(draft[w], store)

OfTheStore(w) ==
  /\ pc[w] = "fill" => temp = Torn
  /\ pc[w] = "rename" => temp = hand[w]
  /\ pc[w] = "keep" => \E n \in Kept : moves[w] = {<<Typed, n>>} /\ store[n] = None
  /\ pc[w] = "remove" => \E n \in Kept :
       moves[w] = {<<None, n>>} /\ (~forced /\ file # Torn => n \notin ManagedReferences(file))
  /\ pc[w] = "import" => Made(w, store)
  /\ pc[w] \in {"temp", "fill", "rename"} =>
       Made(w, hand[w]) /\ (~forced /\ file # Torn => Holds(file, hand[w]))

\* How far a profile has come.
Begins(rules, whole) == Len(rules) <= Len(whole) /\ \A k \in 1..Len(rules) : rules[k] = whole[k]

OfTheProfile(w) ==
  granted[w] # <<>> =>
    /\ pc[w] \in {"idle", "save", "write", "rule"} /\ \A x \in Writers \ {w} : pc[x] = "idle"
    /\ text # "spoilt" => Begins(file.rules, granted[w])
    /\ pc[w] \in {"save", "write"} => draft[w].rules \o rest[w] = granted[w]
    /\ pc[w] = "rule" /\ file # Torn => file.rules \o rest[w] = granted[w]

OneByOne ==
  ~overlapped =>
    /\ store # Torn
    /\ ~forced /\ file # Torn => Holds(file, store)
    /\ \A w \in Writers : pc[w] # "idle" => OfTheFile(w) /\ OfTheStore(w)
    /\ \A w \in Writers : OfTheProfile(w)

EInv == TypeOK /\ FileIsValid /\ (\A w \in Writers : OfItsOwn(w)) /\ OneAtATime /\ OneByOne

-----------------------------------------------------------------------------
(* What an action of one writer leaves of it. *)

LEMMA EmptyIs ==
  /\ Empty \in Document /\ Empty # Torn /\ Valid(Empty)
  /\ Present(Empty) = {} /\ Empty.rules = <<>> /\ Len(Empty.rules) = 0
<1>1. <<>> \in Seq(FileRule) /\ Len(<<>>) = 0
  OBVIOUS
<1>2. Empty \in Document
  BY <1>1 DEF Empty, Document, Effects
<1> QED
  BY <1>1, <1>2, NothingIsMistaken DEF Empty, Valid, Present, Enrolled

LEMMA Acting ==
  ASSUME EInv, NEW w \in Writers, pc[w] # "idle", NEW where, Goto(w, where), UNCHANGED overlapped
  PROVE  /\ pc'[w] = where /\ \A x \in Writers : x # w => pc'[x] = pc[x]
         /\ OneAtATime'
         /\ ~overlapped =>
              /\ OfTheFile(w) /\ OfTheStore(w) /\ OfTheProfile(w) /\ store # Torn
              /\ ~forced /\ file # Torn => Holds(file, store)
              /\ \A x \in Writers \ {w} : pc[x] = "idle" /\ pc'[x] = "idle" /\ granted[x] = <<>>
<1>1. pc'[w] = where /\ \A x \in Writers : x # w => pc'[x] = pc[x]
  BY DEF EInv, TypeOK, Goto
<1>2. OneAtATime'
  BY <1>1 DEF EInv, OneAtATime
<1>3. ASSUME ~overlapped, NEW x \in Writers \ {w}
      PROVE  pc[x] = "idle" /\ pc'[x] = "idle" /\ granted[x] = <<>>
  <2>1. pc[x] = "idle" /\ pc'[x] = "idle"
    BY <1>1, <1>3 DEF EInv, OneAtATime
  <2>2. granted[x] = <<>>
    BY <1>3 DEF EInv, OneByOne, OfTheProfile
  <2> QED
    BY <2>1, <2>2
<1>4. ~overlapped =>
         /\ OfTheFile(w) /\ OfTheStore(w) /\ OfTheProfile(w) /\ store # Torn
         /\ ~forced /\ file # Torn => Holds(file, store)
  BY DEF EInv, OneByOne
<1> QED
  BY <1>1, <1>2, <1>3, <1>4

LEMMA Beginning ==
  ASSUME EInv, NEW w \in Writers, NEW credentials, BeginTrusting(w, credentials), NEW where, Goto(w, where)
  PROVE  /\ pc[w] = "idle" /\ moves[w] = {} /\ left[w] = {}
         /\ pc'[w] = where /\ \A x \in Writers : x # w => pc'[x] = pc[x]
         /\ OneAtATime' /\ granted' = [x \in Writers |-> <<>>]
         /\ commands' \in 0..MaxCommands /\ overlapped' \in BOOLEAN /\ trusted' = credentials /\ rest' = rest
         /\ ~overlapped' =>
              /\ store # Torn /\ (~forced /\ file # Torn => Holds(file, store))
              /\ OfTheProfile(w)'
              /\ \A x \in Writers \ {w} : pc'[x] = "idle" /\ granted'[x] = <<>>
<1>1. /\ pc[w] = "idle" /\ commands < MaxCommands /\ commands' = commands + 1
      /\ overlapped' = (overlapped \/ \E x \in Writers : pc[x] # "idle")
      /\ granted' = [x \in Writers |-> <<>>] /\ trusted' = credentials /\ rest' = rest
  BY DEF BeginTrusting
<1>2. pc'[w] = where /\ \A x \in Writers : x # w => pc'[x] = pc[x]
  BY DEF EInv, TypeOK, Goto
<1>3. moves[w] = {} /\ left[w] = {}
  BY <1>1 DEF EInv, OfItsOwn, TypeOK
<1>4. commands' \in 0..MaxCommands
  BY <1>1, BoundsAreNat DEF EInv, TypeOK
<1>5. overlapped' \in BOOLEAN
  BY <1>1
<1>6. ~overlapped' => ~overlapped /\ \A x \in Writers : pc[x] = "idle"
  BY <1>1 DEF EInv, TypeOK
<1>7. OneAtATime'
  BY <1>2, <1>6 DEF OneAtATime
<1>8. ~overlapped' => store # Torn /\ (~forced /\ file # Torn => Holds(file, store))
  BY <1>6 DEF EInv, OneByOne
<1>9. OfTheProfile(w)'
  BY <1>1 DEF OfTheProfile
<1> QED
  BY <1>1, <1>2, <1>3, <1>4, <1>5, <1>6, <1>7, <1>8, <1>9

LEMMA Together ==
  ASSUME EInv, NEW w \in Writers, TypeOK', FileIsValid', OfItsOwn(w)', OneAtATime',
         \A x \in Writers \ {w} :
           /\ pc'[x] = pc[x] /\ draft'[x] = draft[x] /\ rest'[x] = rest[x]
           /\ moves'[x] = moves[x] /\ left'[x] = left[x],
         ~overlapped' =>
           /\ store' # Torn
           /\ ~forced' /\ file' # Torn => Holds(file, store)'
           /\ pc'[w] # "idle" => OfTheFile(w)' /\ OfTheStore(w)'
           /\ OfTheProfile(w)'
           /\ \A x \in Writers \ {w} : pc'[x] = "idle" /\ granted'[x] = <<>>
  PROVE  EInv'
<1>1. ASSUME NEW x \in Writers PROVE OfItsOwn(x)'
  BY DEF EInv, OfItsOwn
<1>2. OneByOne'
  <2>1. ASSUME ~overlapped', NEW x \in Writers
        PROVE  /\ pc'[x] # "idle" => OfTheFile(x)' /\ OfTheStore(x)'
               /\ OfTheProfile(x)'
    <3>1. CASE x = w
      BY <2>1, <3>1
    <3>2. CASE x # w
      BY <2>1, <3>2 DEF OfTheProfile
    <3> QED
      BY <3>1, <3>2
  <2> QED
    BY <2>1 DEF OneByOne
<1> QED
  BY <1>1, <1>2 DEF EInv

LEMMA EInvInit == Init => EInv
<1> SUFFICES ASSUME Init PROVE EInv
  OBVIOUS
<1>1. file \in Document /\ Valid(file) /\ file # Torn
  BY StartsAreValid, NothingIsMistaken DEF Init
<1>2. store \in Store /\ store # Torn
  BY NothingIsMistaken DEF Init, Store
<1>3. TypeOK
  <2>1. NoStore \in Store
    BY DEF NoStore, Store
  <2>2. <<>> \in Seq(FileRule) /\ 0 \in 0..MaxCommands
    BY BoundsAreNat
  <2> QED
    BY <1>1, <1>2, <2>1, <2>2, EmptyIs DEF Init, TypeOK, Untrusted
<1>4. Holds(file, store)
  BY <1>1, NothingIsMistaken DEF Holds, Present, Init
<1>5. \A w \in Writers : pc[w] = "idle" /\ moves[w] = {} /\ granted[w] = <<>>
  BY DEF Init
<1>6. OneByOne
  BY <1>2, <1>4, <1>5 DEF OneByOne, OfTheProfile
<1> QED
  BY <1>1, <1>3, <1>5, <1>6 DEF EInv, FileIsValid, Loads, OfItsOwn, OneAtATime

-----------------------------------------------------------------------------
(* The policy file. *)

LEMMA BeginsIs ==
  ASSUME NEW r \in Seq(FileRule), NEW s \in Seq(FileRule)
  PROVE  Begins(r, r \o s) /\ r \o s \in Seq(FileRule) /\ (s # <<>> => r \o s # <<>>)
BY DEF Begins

LEMMA NoneBegins == ASSUME NEW g \in Seq(FileRule) PROVE Begins(<<>>, g)
BY DEF Begins

LEMMA BeginEditKeeps == ASSUME EInv, NEW w \in Writers, BeginEdit(w) PROVE EInv'
<1>1. /\ BeginTrusting(w, Untrusted) /\ Goto(w, "edit") /\ file # Torn /\ draft' = [draft EXCEPT ![w] = file]
      /\ UNCHANGED <<file, text, store, temp, hand, moves, left, forced>>
  BY DEF BeginEdit, Begin, ReadDocument, files, policyFile
<1>2. /\ moves[w] = {} /\ pc'[w] = "edit" /\ \A x \in Writers : x # w => pc'[x] = pc[x]
      /\ OneAtATime' /\ granted' = [x \in Writers |-> <<>>]
      /\ commands' \in 0..MaxCommands /\ overlapped' \in BOOLEAN /\ trusted' = Untrusted /\ rest' = rest
  BY <1>1, Beginning
<1>3. ~overlapped' =>
        /\ store # Torn /\ (~forced /\ file # Torn => Holds(file, store))
        /\ OfTheProfile(w)'
        /\ \A x \in Writers \ {w} : pc'[x] = "idle" /\ granted'[x] = <<>>
  BY <1>1, Beginning
<1>4. TypeOK'
  <2>1. pc' \in [Writers -> {"idle", "edit", "save", "write", "keep", "remove", "temp", "fill", "rename",
                             "import", "rule"}]
    BY <1>1 DEF EInv, TypeOK, Goto
  <2>2. <<>> \in Seq(FileRule)
    OBVIOUS
  <2> QED
    BY <1>1, <1>2, <2>1, <2>2 DEF EInv, TypeOK, Untrusted
<1>5. FileIsValid'
  BY <1>1, <1>2 DEF EInv, FileIsValid, Loads
<1>6. OfItsOwn(w)'
  BY <1>1, <1>2 DEF OfItsOwn
<1>7. draft'[w] = file
  BY <1>1 DEF EInv, TypeOK
<1>8. OfTheFile(w)' /\ OfTheStore(w)'
  BY <1>1, <1>2, <1>7 DEF OfTheFile, OfTheStore
<1>9. Holds(file, store)' <=> Holds(file, store)
  BY <1>1 DEF Holds, Present
<1>10. \A x \in Writers \ {w} :
         pc'[x] = pc[x] /\ draft'[x] = draft[x] /\ moves'[x] = moves[x] /\ rest'[x] = rest[x]
  BY <1>1, <1>2 DEF EInv, TypeOK
<1> QED
  BY <1>1, <1>2, <1>3, <1>4, <1>5, <1>6, <1>8, <1>9, <1>10, Together

LEMMA RefuseKeeps == ASSUME EInv, NEW w \in Writers, Refuse(w) PROVE EInv'
<1>1. /\ pc[w] = "edit" /\ Goto(w, "idle")
      /\ UNCHANGED <<file, text, store, temp, draft, hand, moves, left, rest, commands, overlapped, forced, granted, trusted>>
  BY DEF Refuse, Idle, files, policyFile, work, history
<1>2. /\ pc'[w] = "idle" /\ \A x \in Writers : x # w => pc'[x] = pc[x]
      /\ OneAtATime'
  BY <1>1, Acting
<1>3. ~overlapped =>
        /\ OfTheProfile(w) /\ store # Torn
        /\ ~forced /\ file # Torn => Holds(file, store)
        /\ \A x \in Writers \ {w} : pc[x] = "idle" /\ pc'[x] = "idle" /\ granted[x] = <<>>
  BY <1>1, Acting
<1>4. TypeOK'
  BY <1>1 DEF EInv, TypeOK, Goto
<1>5. FileIsValid' /\ OfItsOwn(w)'
  BY <1>1, <1>2 DEF EInv, FileIsValid, Loads, OfItsOwn
<1>6. ~overlapped => OfTheProfile(w)'
  BY <1>1, <1>3 DEF OfTheProfile
<1>7. Holds(file, store)' <=> Holds(file, store)
  BY <1>1 DEF Holds, Present
<1> QED
  BY <1>1, <1>2, <1>3, <1>4, <1>5, <1>6, <1>7, Together

LEMMA EditKeeps ==
  ASSUME EInv, NEW w \in Writers, NEW d \in Document, NEW rules \in Seq(FileRule), EditFirst(w, d, rules),
         rules # <<>> => d.rules = draft[w].rules,
         ~overlapped /\ ~forced => Holds(d, store)
  PROVE  EInv'
<1>1. /\ pc[w] = "edit" /\ Valid(d) /\ draft' = [draft EXCEPT ![w] = d] /\ Goto(w, "save")
      /\ rest' = [rest EXCEPT ![w] = rules]
      /\ granted' = [granted EXCEPT ![w] = IF rules = <<>> THEN <<>> ELSE d.rules \o rules]
      /\ UNCHANGED <<file, text, store, temp, hand, moves, left, commands, overlapped, forced, trusted>>
  BY DEF EditFirst, Leave, Accepts, files, policyFile
<1>2. /\ pc'[w] = "save" /\ \A x \in Writers : x # w => pc'[x] = pc[x]
      /\ OneAtATime'
  BY <1>1, Acting
<1>3. ~overlapped =>
        /\ OfTheFile(w) /\ store # Torn
        /\ ~forced /\ file # Torn => Holds(file, store)
        /\ \A x \in Writers \ {w} : pc[x] = "idle" /\ pc'[x] = "idle" /\ granted[x] = <<>>
  BY <1>1, Acting
<1>4. d.rules \in Seq(FileRule)
  BY DEF Document
<1>5. /\ Begins(d.rules, d.rules \o rules) /\ d.rules \o rules \in Seq(FileRule)
      /\ (rules # <<>> => d.rules \o rules # <<>>)
  BY <1>4, BeginsIs
<1>6. draft'[w] = d /\ rest'[w] = rules /\ granted'[w] = IF rules = <<>> THEN <<>> ELSE d.rules \o rules
  BY <1>1 DEF EInv, TypeOK
<1>7. \A x \in Writers \ {w} :
        draft'[x] = draft[x] /\ moves'[x] = moves[x] /\ rest'[x] = rest[x] /\ granted'[x] = granted[x]
  BY <1>1 DEF EInv, TypeOK
<1>8. TypeOK'
  <2>1. pc' \in [Writers -> {"idle", "edit", "save", "write", "keep", "remove", "temp", "fill", "rename",
                             "import", "rule"}]
    BY <1>1 DEF EInv, TypeOK, Goto
  <2>2. <<>> \in Seq(FileRule)
    OBVIOUS
  <2>3. granted' \in [Writers -> Seq(FileRule)]
    BY <1>1, <1>5, <2>2 DEF EInv, TypeOK
  <2> QED
    BY <1>1, <2>1, <2>3 DEF EInv, TypeOK
<1>9. FileIsValid' /\ OfItsOwn(w)'
  BY <1>1, <1>2, <1>6 DEF EInv, FileIsValid, Loads, OfItsOwn
<1>10. ASSUME ~overlapped PROVE OfTheProfile(w)'
  <2>1. CASE rules = <<>>
    BY <1>6, <2>1 DEF OfTheProfile
  <2>2. CASE rules # <<>>
    <3>1. file = draft[w] /\ d.rules = draft[w].rules
      BY <1>1, <1>3, <1>10, <2>2 DEF OfTheFile
    <3>2. Begins(file.rules, granted[w])'
      BY <1>1, <1>5, <1>6, <2>2, <3>1
    <3> QED
      BY <1>2, <1>3, <1>6, <1>10, <2>2, <3>2 DEF OfTheProfile
  <2> QED
    BY <2>1, <2>2
<1>11. ~overlapped => OfTheFile(w)' /\ OfTheStore(w)'
  <2>1. ~overlapped /\ ~forced => Holds(draft[w], store)'
    BY <1>1, <1>6 DEF Holds, Present
  <2> QED
    BY <1>1, <1>2, <2>1 DEF OfTheFile, OfTheStore
<1>12. Holds(file, store)' <=> Holds(file, store)
  BY <1>1 DEF Holds, Present
<1> QED
  BY <1>1, <1>2, <1>3, <1>7, <1>8, <1>9, <1>10, <1>11, <1>12, Together

LEMMA TruncateKeeps == ASSUME EInv, NEW w \in Writers, Truncate(w) PROVE EInv'
<1>1. /\ pc[w] = "save" /\ file' = Empty /\ text' = "none" /\ Goto(w, "write")
      /\ UNCHANGED <<store, temp, draft, hand, moves, left, rest, commands, overlapped, forced, granted, trusted>>
  BY DEF Truncate, work, history
<1>2. /\ pc'[w] = "write" /\ \A x \in Writers : x # w => pc'[x] = pc[x]
      /\ OneAtATime'
  BY <1>1, Acting
<1>3. ~overlapped =>
        /\ OfTheFile(w) /\ OfTheProfile(w) /\ store # Torn
        /\ \A x \in Writers \ {w} : pc[x] = "idle" /\ pc'[x] = "idle" /\ granted[x] = <<>>
  BY <1>1, Acting
<1>4. TypeOK'
  BY <1>1, EmptyIs DEF EInv, TypeOK, Goto
<1>5. FileIsValid' /\ OfItsOwn(w)'
  BY <1>1, <1>2, EmptyIs DEF EInv, FileIsValid, Loads, OfItsOwn
<1>6. Holds(file, store)'
  BY <1>1, EmptyIs DEF Holds, Present
<1>7. Holds(draft[w], store)' <=> Holds(draft[w], store)
  BY <1>1 DEF Holds, Present
<1>8. ~overlapped => OfTheFile(w)' /\ OfTheStore(w)'
  BY <1>1, <1>2, <1>3, <1>7 DEF OfTheFile, OfTheStore
<1>9. ~overlapped => OfTheProfile(w)'
  <2>1. Begins(file.rules, granted[w])'
    BY <1>1, EmptyIs, NoneBegins DEF EInv, TypeOK
  <2> QED
    BY <1>1, <1>2, <1>3, <2>1 DEF OfTheProfile
<1> QED
  BY <1>1, <1>2, <1>3, <1>4, <1>5, <1>6, <1>8, <1>9, Together

\* What is spliced from two documents is one.
LEMMA SplicedIs ==
  ASSUME NEW d \in Document, NEW head, NEW e \in Document, NEW tail
  PROVE  /\ Spliced(d, head, e, tail) \in Document
         /\ \A s \in Services : Spliced(d, head, e, tail).services[s] =
              IF s \in head /\ d.services[s] # None THEN d.services[s]
              ELSE IF s \in tail THEN e.services[s] ELSE None
<1> DEFINE c == Spliced(d, head, e, tail)
<1>1. d.rules \in Seq(FileRule) /\ e.rules \in Seq(FileRule) /\ <<>> \in Seq(FileRule)
  BY DEF Document
<1>2. (IF "rules" \in head THEN d.rules ELSE <<>>) \o (IF "rules" \in tail THEN e.rules ELSE <<>>) \in Seq(FileRule)
  <2>1. /\ (IF "rules" \in head THEN d.rules ELSE <<>>) \in Seq(FileRule)
        /\ (IF "rules" \in tail THEN e.rules ELSE <<>>) \in Seq(FileRule)
    BY <1>1
  <2> QED
    BY <2>1
<1>3. c.agents \in [Ids -> Agent \cup {None}]
  BY DEF Spliced, Document
<1>4. c.services \in [Services -> Service \cup {None}]
  BY DEF Spliced, Document
<1>5. c.default \in Effects
  BY DEF Spliced, Document, Effects
<1>6. c \in Document
  BY <1>2, <1>3, <1>4, <1>5 DEF Spliced, Document
<1> QED
  BY <1>6 DEF Spliced

LEMMA OverIs ==
  ASSUME EInv, NEW d \in Document, NEW head
  PROVE  Over(d, head) \subseteq Document \cup {Torn}
<1>1. file # Torn => file \in Document
  BY DEF EInv, TypeOK
<1>2. ASSUME NEW c \in Over(d, head), c # Torn PROVE c \in Document
  <2>1. file # Torn /\ \E tail : c = Spliced(d, head, file, tail)
    BY <1>2 DEF Over
  <2> QED
    BY <1>1, <2>1, SplicedIs
<1> QED
  BY <1>2

LEMMA WriteKeeps == ASSUME EInv, NEW w \in Writers, Write(w) PROVE EInv'
<1> DEFINE next == IF rest[w] = <<>> THEN "idle" ELSE "rule"
<1>1. /\ pc[w] = "write" /\ Goto(w, next)
      /\ \/ text = "none" /\ file' = draft[w] /\ text' = "whole"
         \/ text # "none" /\ file' \in {draft[w]} \cup Over(draft[w], Blocks) /\ text' = "spoilt"
      /\ UNCHANGED <<store, temp, draft, hand, moves, left, rest, commands, overlapped, forced, granted, trusted>>
  BY DEF Write, work, history
<1>2. /\ pc'[w] = next /\ \A x \in Writers : x # w => pc'[x] = pc[x]
      /\ OneAtATime'
  BY <1>1, Acting
<1>3. ~overlapped =>
        /\ OfTheFile(w) /\ OfTheProfile(w) /\ store # Torn
        /\ \A x \in Writers \ {w} : pc[x] = "idle" /\ pc'[x] = "idle" /\ granted[x] = <<>>
  BY <1>1, Acting
<1>4. draft[w] \in Document /\ rest[w] \in Seq(FileRule)
  BY DEF EInv, TypeOK
<1>5. TypeOK'
  <2>1. file' \in Document \cup {Torn} /\ text' \in {"none", "whole", "spoilt"}
    BY <1>1, <1>4, OverIs DEF EInv, TypeOK
  <2> QED
    BY <1>1, <2>1 DEF EInv, TypeOK, Goto
<1>6. FileIsValid' /\ OfItsOwn(w)'
  BY <1>1, <1>2, <1>4, NothingIsMistaken DEF EInv, FileIsValid, Loads, OfItsOwn
<1>7. ASSUME ~overlapped PROVE file' = draft[w] /\ (~forced => Holds(file, store)')
  <2>1. file' = draft[w]
    BY <1>1, <1>3, <1>7 DEF OfTheFile
  <2>2. Holds(file, store)' <=> Holds(draft[w], store)
    BY <1>1, <2>1 DEF Holds, Present
  <2> QED
    BY <1>1, <1>3, <1>7, <2>1, <2>2 DEF OfTheFile
<1>8. OfTheFile(w)' /\ OfTheStore(w)'
  BY <1>1, <1>2 DEF OfTheFile, OfTheStore
<1>9. ASSUME ~overlapped PROVE OfTheProfile(w)'
  <2>1. SUFFICES ASSUME granted[w] # <<>>
                 PROVE  /\ Begins(draft[w].rules, granted[w])
                        /\ draft[w].rules \o rest[w] = granted[w]
    BY <1>1, <1>2, <1>3, <1>7, <1>9 DEF OfTheProfile
  <2>2. draft[w].rules \o rest[w] = granted[w]
    BY <1>1, <1>3, <1>9, <2>1 DEF OfTheProfile
  <2>3. draft[w].rules \in Seq(FileRule)
    BY <1>4 DEF Document
  <2> QED
    BY <1>4, <2>2, <2>3, BeginsIs
<1> QED
  BY <1>1, <1>2, <1>3, <1>5, <1>6, <1>7, <1>8, <1>9, Together

LEMMA NextRuleIs ==
  ASSUME NEW r \in Seq(FileRule), NEW s \in Seq(FileRule), s # <<>>
  PROVE  /\ Append(r, Head(s)) \in Seq(FileRule) /\ Tail(s) \in Seq(FileRule)
         /\ Append(r, Head(s)) \o Tail(s) = r \o s
OBVIOUS

LEMMA AddNextRuleKeeps == ASSUME EInv, NEW w \in Writers, AddNextRule(w) PROVE EInv'
<1> DEFINE d == [file EXCEPT !.rules = Append(@, Head(rest[w]))]
<1>1. /\ pc[w] = "rule" /\ file # Torn /\ Valid(d) /\ draft' = [draft EXCEPT ![w] = d] /\ Goto(w, "save")
      /\ rest' = [rest EXCEPT ![w] = Tail(@)]
      /\ UNCHANGED <<file, text, store, temp, hand, moves, left, commands, overlapped, forced, granted, trusted>>
  BY DEF AddNextRule, Leave, Accepts, NextOf, files, policyFile
<1>2. /\ pc'[w] = "save" /\ \A x \in Writers : x # w => pc'[x] = pc[x]
      /\ OneAtATime'
  BY <1>1, Acting
<1>3. ~overlapped =>
        /\ OfTheProfile(w) /\ store # Torn
        /\ ~forced /\ file # Torn => Holds(file, store)
        /\ \A x \in Writers \ {w} : pc[x] = "idle" /\ pc'[x] = "idle" /\ granted[x] = <<>>
  BY <1>1, Acting
<1>4. file \in Document /\ file.rules \in Seq(FileRule) /\ rest[w] \in Seq(FileRule) /\ rest[w] # <<>>
  BY <1>1 DEF EInv, TypeOK, Document, OfItsOwn
<1>5. /\ Append(file.rules, Head(rest[w])) \in Seq(FileRule) /\ Tail(rest[w]) \in Seq(FileRule)
      /\ Append(file.rules, Head(rest[w])) \o Tail(rest[w]) = file.rules \o rest[w]
  BY <1>4, NextRuleIs
<1>6. /\ d \in Document /\ d.rules = Append(file.rules, Head(rest[w])) /\ d.services = file.services
  BY <1>4, <1>5 DEF Document
<1> HIDE DEF d
<1>7. draft'[w] = d /\ rest'[w] = Tail(rest[w])
  BY <1>1 DEF EInv, TypeOK
<1>8. TypeOK'
  BY <1>1, <1>5, <1>6 DEF EInv, TypeOK, Goto
<1>9. FileIsValid' /\ OfItsOwn(w)'
  BY <1>1, <1>2, <1>7 DEF EInv, FileIsValid, Loads, OfItsOwn
<1>10. Holds(file, store)' <=> Holds(file, store)
  BY <1>1 DEF Holds, Present
<1>11. ~overlapped => OfTheFile(w)' /\ OfTheStore(w)'
  <2>1. Holds(file, store) => Holds(draft[w], store)'
    BY <1>1, <1>6, <1>7 DEF Holds, Present
  <2> QED
    BY <1>1, <1>2, <1>3, <2>1 DEF OfTheFile, OfTheStore
<1>12. ASSUME ~overlapped PROVE OfTheProfile(w)'
  <2>1. SUFFICES ASSUME granted[w] # <<>>
                 PROVE  /\ text # "spoilt" => Begins(file.rules, granted[w])
                        /\ d.rules \o Tail(rest[w]) = granted[w]
    BY <1>1, <1>2, <1>3, <1>7, <1>12 DEF OfTheProfile
  <2>2. (text # "spoilt" => Begins(file.rules, granted[w])) /\ file.rules \o rest[w] = granted[w]
    BY <1>1, <1>3, <1>12, <2>1 DEF OfTheProfile
  <2> QED
    BY <1>5, <1>6, <2>2
<1>13. \A x \in Writers \ {w} : draft'[x] = draft[x] /\ moves'[x] = moves[x] /\ rest'[x] = rest[x]
  BY <1>1 DEF EInv, TypeOK
<1> QED
  BY <1>1, <1>2, <1>3, <1>8, <1>9, <1>10, <1>11, <1>12, <1>13, Together

LEMMA ProfileFailsKeeps == ASSUME EInv, NEW w \in Writers, ProfileFails(w) PROVE EInv'
<1>1. /\ pc[w] = "rule" /\ rest' = [rest EXCEPT ![w] = <<>>] /\ Goto(w, "idle")
      /\ UNCHANGED <<file, text, store, temp, draft, hand, moves, left, commands, overlapped, forced, granted, trusted>>
  BY DEF ProfileFails, Idle, files, policyFile, history
<1>2. /\ pc'[w] = "idle" /\ \A x \in Writers : x # w => pc'[x] = pc[x]
      /\ OneAtATime'
  BY <1>1, Acting
<1>3. ~overlapped =>
        /\ OfTheProfile(w) /\ store # Torn
        /\ ~forced /\ file # Torn => Holds(file, store)
        /\ \A x \in Writers \ {w} : pc[x] = "idle" /\ pc'[x] = "idle" /\ granted[x] = <<>>
  BY <1>1, Acting
<1>4. TypeOK'
  <2>1. <<>> \in Seq(FileRule)
    OBVIOUS
  <2> QED
    BY <1>1, <2>1 DEF EInv, TypeOK, Goto
<1>5. FileIsValid' /\ OfItsOwn(w)'
  BY <1>1, <1>2 DEF EInv, FileIsValid, Loads, OfItsOwn
<1>6. ~overlapped => OfTheProfile(w)'
  BY <1>1, <1>2, <1>3 DEF OfTheProfile
<1>7. Holds(file, store)' <=> Holds(file, store)
  BY <1>1 DEF Holds, Present
<1>8. \A x \in Writers \ {w} : draft'[x] = draft[x] /\ moves'[x] = moves[x] /\ rest'[x] = rest[x]
  BY <1>1 DEF EInv, TypeOK
<1> QED
  BY <1>1, <1>2, <1>3, <1>4, <1>5, <1>6, <1>7, <1>8, Together

-----------------------------------------------------------------------------
(* Commands on the store begin. *)

LEMMA OneMoreHolds ==
  ASSUME NEW d \in Document, NEW kept \in Store, Holds(d, kept), NEW n \in Kept,
         NEW c \in Vaulted \cup {Typed}
  PROVE  [kept EXCEPT ![n] = c] \in Store /\ Holds(d, [kept EXCEPT ![n] = c])
BY NothingIsMistaken DEF Store, Holds

LEMMA NoMoves ==
  ASSUME NEW w, NEW kept, moves[w] = {}
  PROVE  Made(w, kept)
BY DEF Made, OneToOne

LEMMA SetSecretKeeps == ASSUME EInv, NEW w \in Writers, NEW n \in Kept, SetSecret(w, n) PROVE EInv'
<1> DEFINE change == [store EXCEPT ![n] = Typed]
<1>1. /\ BeginTrusting(w, Untrusted) /\ Goto(w, "temp") /\ store # Torn /\ hand' = [hand EXCEPT ![w] = change]
      /\ UNCHANGED <<file, text, store, temp, draft, moves, left, forced>>
  BY DEF SetSecret, Begin, HoldStore, files, policyFile
<1>2. /\ moves[w] = {} /\ pc'[w] = "temp" /\ \A x \in Writers : x # w => pc'[x] = pc[x]
      /\ OneAtATime' /\ granted' = [x \in Writers |-> <<>>]
      /\ commands' \in 0..MaxCommands /\ overlapped' \in BOOLEAN /\ trusted' = Untrusted /\ rest' = rest
  BY <1>1, Beginning
<1>3. ~overlapped' =>
        /\ (~forced /\ file # Torn => Holds(file, store))
        /\ OfTheProfile(w)'
        /\ \A x \in Writers \ {w} : pc'[x] = "idle" /\ granted'[x] = <<>>
  BY <1>1, Beginning
<1>4. store \in Store /\ change \in Store
  BY <1>1 DEF EInv, TypeOK, Store
<1>5. hand'[w] = change
  BY <1>1 DEF EInv, TypeOK
<1>6. file # Torn => file \in Document
  BY DEF EInv, TypeOK
<1>7. file # Torn /\ Holds(file, store) => Holds(file, change)
  BY <1>4, <1>6, OneMoreHolds
<1> HIDE DEF change
<1>8. TypeOK'
  <2>1. pc' \in [Writers -> {"idle", "edit", "save", "write", "keep", "remove", "temp", "fill", "rename",
                             "import", "rule"}]
    BY <1>1 DEF EInv, TypeOK, Goto
  <2>2. <<>> \in Seq(FileRule)
    OBVIOUS
  <2> QED
    BY <1>1, <1>2, <1>4, <2>1, <2>2 DEF EInv, TypeOK, Untrusted
<1>9. FileIsValid' /\ OfItsOwn(w)'
  BY <1>1, <1>2 DEF EInv, FileIsValid, Loads, OfItsOwn
<1>10. ~overlapped' => OfTheFile(w)' /\ OfTheStore(w)'
  <2>1. Made(w, hand[w])'
    BY <1>1, <1>2 DEF Made, OneToOne
  <2>2. ~overlapped' /\ ~forced /\ file # Torn => Holds(file, hand[w])'
    BY <1>1, <1>3, <1>5, <1>7 DEF Holds, Present
  <2> QED
    BY <1>1, <1>2, <2>1, <2>2 DEF OfTheFile, OfTheStore
<1>11. Holds(file, store)' <=> Holds(file, store)
  BY <1>1 DEF Holds, Present
<1> QED
  BY <1>1, <1>2, <1>3, <1>8, <1>9, <1>10, <1>11, Together

LEMMA ListStoreKeeps == ASSUME EInv, NEW w \in Writers, NEW s \in Services, ListStore(w, s) PROVE EInv'
<1>1. PICK n \in FreeNames(s) : moves' = [moves EXCEPT ![w] = {<<Typed, n>>}]
  BY DEF ListStore
<1>2. /\ BeginTrusting(w, Untrusted) /\ Goto(w, "keep") /\ store # Torn
      /\ UNCHANGED <<file, text, store, temp, draft, hand, left, forced>>
  BY DEF ListStore, Begin, files, policyFile
<1>3. n \in Kept /\ store[n] = None
  BY SlugsDiffer DEF FreeNames
<1>4. /\ moves[w] = {} /\ left[w] = {} /\ pc'[w] = "keep" /\ \A x \in Writers : x # w => pc'[x] = pc[x]
      /\ OneAtATime' /\ granted' = [x \in Writers |-> <<>>]
      /\ commands' \in 0..MaxCommands /\ overlapped' \in BOOLEAN /\ trusted' = Untrusted /\ rest' = rest
  BY <1>2, Beginning
<1>5. ~overlapped' =>
        /\ (~forced /\ file # Torn => Holds(file, store))
        /\ OfTheProfile(w)'
        /\ \A x \in Writers \ {w} : pc'[x] = "idle" /\ granted'[x] = <<>>
  BY <1>2, Beginning
<1>6. moves'[w] = {<<Typed, n>>} /\ \A x \in Writers \ {w} : moves'[x] = moves[x]
  BY <1>1 DEF EInv, TypeOK
<1>7. TypeOK'
  <2>1. pc' \in [Writers -> {"idle", "edit", "save", "write", "keep", "remove", "temp", "fill", "rename",
                             "import", "rule"}]
    BY <1>2 DEF EInv, TypeOK, Goto
  <2>2. <<>> \in Seq(FileRule)
    OBVIOUS
  <2>3. <<Typed, n>> \in Move
    BY <1>3 DEF Move
  <2>4. moves' \in [Writers -> SUBSET Move]
    BY <1>1, <2>3 DEF EInv, TypeOK
  <2>5. \A x \in Writers : left'[x] \subseteq moves'[x]
    BY <1>2, <1>4, <1>6 DEF EInv, TypeOK
  <2> QED
    BY <1>2, <1>4, <2>1, <2>2, <2>4, <2>5 DEF EInv, TypeOK, Untrusted
<1>8. FileIsValid' /\ OfItsOwn(w)'
  BY <1>2, <1>4 DEF EInv, FileIsValid, Loads, OfItsOwn
<1>9. OfTheFile(w)' /\ OfTheStore(w)'
  BY <1>2, <1>3, <1>4, <1>6 DEF OfTheFile, OfTheStore
<1>10. Holds(file, store)' <=> Holds(file, store)
  BY <1>2 DEF Holds, Present
<1> QED
  BY <1>2, <1>4, <1>5, <1>6, <1>7, <1>8, <1>9, <1>10, Together

LEMMA LookForUsesKeeps ==
  ASSUME EInv, NEW w \in Writers, NEW n \in Kept, NEW force \in BOOLEAN, LookForUses(w, n, force)
  PROVE  EInv'
<1>1. /\ BeginTrusting(w, Untrusted) /\ Goto(w, "remove") /\ moves' = [moves EXCEPT ![w] = {<<None, n>>}]
      /\ (Loads => force \/ n \notin ManagedReferences(file))
      /\ forced' = (forced \/ force \/ ~Loads)
      /\ UNCHANGED <<file, text, store, temp, draft, hand, left>>
  BY DEF LookForUses, Begin, files, policyFile
<1>2. /\ moves[w] = {} /\ left[w] = {} /\ pc'[w] = "remove" /\ \A x \in Writers : x # w => pc'[x] = pc[x]
      /\ OneAtATime' /\ granted' = [x \in Writers |-> <<>>]
      /\ commands' \in 0..MaxCommands /\ overlapped' \in BOOLEAN /\ trusted' = Untrusted /\ rest' = rest
  BY <1>1, Beginning
<1>3. ~overlapped' =>
        /\ store # Torn /\ (~forced /\ file # Torn => Holds(file, store))
        /\ OfTheProfile(w)'
        /\ \A x \in Writers \ {w} : pc'[x] = "idle" /\ granted'[x] = <<>>
  BY <1>1, Beginning
<1>4. moves'[w] = {<<None, n>>} /\ \A x \in Writers \ {w} : moves'[x] = moves[x]
  BY <1>1 DEF EInv, TypeOK
<1>5. forced' \in BOOLEAN /\ (~forced' => ~forced /\ ~force /\ Loads)
  <2>1. forced' \in BOOLEAN
    BY <1>1
  <2>2. ~forced' => ~forced /\ ~force /\ Loads
    BY <1>1, Zenon
  <2> QED
    BY <2>1, <2>2
<1>6. TypeOK'
  <2>1. pc' \in [Writers -> {"idle", "edit", "save", "write", "keep", "remove", "temp", "fill", "rename",
                             "import", "rule"}]
    BY <1>1 DEF EInv, TypeOK, Goto
  <2>2. <<>> \in Seq(FileRule)
    OBVIOUS
  <2>3. <<None, n>> \in Move
    BY DEF Move
  <2>4. moves' \in [Writers -> SUBSET Move]
    BY <1>1, <2>3 DEF EInv, TypeOK
  <2>5. \A x \in Writers : left'[x] \subseteq moves'[x]
    BY <1>1, <1>2, <1>4 DEF EInv, TypeOK
  <2> QED
    BY <1>1, <1>2, <1>5, <2>1, <2>2, <2>4, <2>5 DEF EInv, TypeOK, Untrusted
<1>7. FileIsValid' /\ OfItsOwn(w)'
  BY <1>1, <1>2 DEF EInv, FileIsValid, Loads, OfItsOwn
<1>8. ManagedReferences(file)' = ManagedReferences(file)
  BY <1>1
<1>9. OfTheFile(w)' /\ OfTheStore(w)'
  BY <1>1, <1>2, <1>4, <1>5, <1>8 DEF OfTheFile, OfTheStore
<1>10. Holds(file, store)' <=> Holds(file, store)
  BY <1>1 DEF Holds, Present
<1> QED
  BY <1>1, <1>2, <1>3, <1>4, <1>5, <1>6, <1>7, <1>9, <1>10, Together

\* A plan is of the references to 1Password, each under a name of its own.
LEMMA PlansAreOneToOne ==
  ASSUME NEW d \in Document, NEW plan \in Plans(d)
  PROVE  OneToOne(plan) /\ plan \in SUBSET Move
<1> DEFINE wanted == {d.services[s].ref : s \in Present(d)} \cap Vaulted
           owners == [v \in wanted |-> {s \in Present(d) : d.services[s].ref = v}]
<1>1. PICK o \in {f \in [wanted -> Services] : \A v \in wanted : f[v] \in owners[v]} :
        plan = {<<v, Slug[o[v]]>> : v \in wanted}
  BY DEF Plans
<1>2. \A v \in wanted : o[v] \in Services /\ d.services[o[v]].ref = v
  BY <1>1
<1>3. wanted \subseteq Vaulted
  OBVIOUS
<1> HIDE DEF wanted, owners
<1>4. \A u, v \in wanted : Slug[o[u]] = Slug[o[v]] => u = v
  BY <1>2, SlugsDiffer
<1>5. \A v \in wanted : <<v, Slug[o[v]]>> \in Vaulted \X Kept
  BY <1>2, <1>3, SlugsDiffer
<1>6. plan \subseteq Vaulted \X Kept
  BY <1>1, <1>5
<1>7. ASSUME NEW m \in plan, NEW n \in plan, m[1] = n[1] \/ m[2] = n[2] PROVE m = n
  <2>1. PICK u \in wanted : m = <<u, Slug[o[u]]>>
    BY <1>1
  <2>2. PICK v \in wanted : n = <<v, Slug[o[v]]>>
    BY <1>1
  <2>3. u = v
    BY <1>4, <1>7, <2>1, <2>2
  <2> QED
    BY <2>1, <2>2, <2>3
<1> QED
  BY <1>6, <1>7 DEF OneToOne, Move

\* What an import finds its services called with.
LEMMA OutsideIs ==
  ASSUME EInv, file \in Document, NEW plan
  PROVE  Outside(plan) \in [Services -> Vaulted \cup {Typed, None}]
<1>1. ASSUME NEW s \in Present(file), store # Torn PROVE Credential(file, s) \in Vaulted \cup {Typed, None}
  <2>1. store \in Store
    BY <1>1 DEF EInv, TypeOK
  <2>2. file.services[s] \in Service
    BY DEF Document, Present
  <2>3. file.services[s].ref \in Vaulted \cup Kept \cup {None}
    BY <2>2 DEF Service, Refs
  <2> QED
    BY <2>1, <2>3 DEF Credential, Store
<1> QED
  BY <1>1 DEF Outside

LEMMA PlanImportKeeps == ASSUME EInv, NEW w \in Writers, PlanImport(w) PROVE EInv'
<1>1. PICK plan \in Plans(file) :
        /\ moves' = [moves EXCEPT ![w] = plan] /\ left' = [left EXCEPT ![w] = plan]
        /\ BeginTrusting(w, Outside(plan))
  BY DEF PlanImport
<1>2. /\ Goto(w, "import") /\ file # Torn
      /\ UNCHANGED <<file, text, store, temp, draft, hand, forced>>
  BY DEF PlanImport, Loads, files, policyFile
<1>3. file \in Document
  BY <1>2 DEF EInv, TypeOK
<1>4. OneToOne(plan) /\ plan \in SUBSET Move
  BY <1>3, PlansAreOneToOne
<1>5. /\ moves[w] = {} /\ pc'[w] = "import" /\ \A x \in Writers : x # w => pc'[x] = pc[x]
      /\ OneAtATime' /\ granted' = [x \in Writers |-> <<>>]
      /\ commands' \in 0..MaxCommands /\ overlapped' \in BOOLEAN /\ trusted' = Outside(plan) /\ rest' = rest
  BY <1>1, <1>2, Beginning
<1>6. ~overlapped' =>
        /\ store # Torn /\ (~forced /\ file # Torn => Holds(file, store))
        /\ OfTheProfile(w)'
        /\ \A x \in Writers \ {w} : pc'[x] = "idle" /\ granted'[x] = <<>>
  BY <1>1, <1>2, Beginning
<1>7. /\ moves'[w] = plan /\ left'[w] = plan
      /\ \A x \in Writers \ {w} : moves'[x] = moves[x] /\ left'[x] = left[x]
  BY <1>1 DEF EInv, TypeOK
<1>8. TypeOK'
  <2>1. pc' \in [Writers -> {"idle", "edit", "save", "write", "keep", "remove", "temp", "fill", "rename",
                             "import", "rule"}]
    BY <1>2 DEF EInv, TypeOK, Goto
  <2>2. <<>> \in Seq(FileRule)
    OBVIOUS
  <2>3. moves' \in [Writers -> SUBSET Move] /\ left' \in [Writers -> SUBSET Move]
    BY <1>1, <1>4 DEF EInv, TypeOK
  <2>4. \A x \in Writers : left'[x] \subseteq moves'[x]
    BY <1>7 DEF EInv, TypeOK
  <2>5. trusted' \in [Services -> Vaulted \cup {Typed, None}]
    BY <1>3, <1>5, OutsideIs
  <2> QED
    BY <1>2, <1>5, <2>1, <2>2, <2>3, <2>4, <2>5 DEF EInv, TypeOK
<1>9. FileIsValid' /\ OfItsOwn(w)'
  BY <1>2, <1>5 DEF EInv, FileIsValid, Loads, OfItsOwn
<1>10. OfTheFile(w)' /\ OfTheStore(w)'
  <2>1. Made(w, store)'
    BY <1>4, <1>7 DEF Made, OneToOne
  <2> QED
    BY <1>2, <1>5, <2>1 DEF OfTheFile, OfTheStore
<1>11. Holds(file, store)' <=> Holds(file, store)
  BY <1>2 DEF Holds, Present
<1> QED
  BY <1>2, <1>5, <1>6, <1>7, <1>8, <1>9, <1>10, <1>11, Together

-----------------------------------------------------------------------------
(* The store is written. *)

\* A change is held, to be written.
LEMMA HoldKeeps ==
  ASSUME EInv, NEW w \in Writers, pc[w] \in {"keep", "remove", "import"},
         NEW change \in Store, hand' = [hand EXCEPT ![w] = change], Goto(w, "temp"),
         moves' \in [Writers -> SUBSET Move], left' \in [Writers -> SUBSET Move],
         left'[w] \subseteq moves'[w],
         \A x \in Writers \ {w} : moves'[x] = moves[x] /\ left'[x] = left[x],
         UNCHANGED <<file, text, store, temp, draft, rest, commands, overlapped, forced, granted, trusted>>,
         ~overlapped => Made(w, hand[w])',
         ~overlapped /\ ~forced /\ file # Torn => Holds(file, change)
  PROVE  EInv'
<1>1. /\ pc'[w] = "temp" /\ \A x \in Writers : x # w => pc'[x] = pc[x]
      /\ OneAtATime'
  BY Acting
<1>2. ~overlapped =>
        /\ OfTheProfile(w) /\ store # Torn
        /\ ~forced /\ file # Torn => Holds(file, store)
        /\ \A x \in Writers \ {w} : pc[x] = "idle" /\ pc'[x] = "idle" /\ granted[x] = <<>>
  BY Acting
<1>3. hand'[w] = change
  BY DEF EInv, TypeOK
<1>4. TypeOK'
  <2>1. pc' \in [Writers -> {"idle", "edit", "save", "write", "keep", "remove", "temp", "fill", "rename",
                             "import", "rule"}]
    BY DEF EInv, TypeOK, Goto
  <2>2. hand' \in [Writers -> Store]
    BY DEF EInv, TypeOK
  <2>3. \A x \in Writers : left'[x] \subseteq moves'[x]
    BY DEF EInv, TypeOK
  <2> QED
    BY <2>1, <2>2, <2>3 DEF EInv, TypeOK
<1>5. FileIsValid' /\ OfItsOwn(w)'
  BY <1>1 DEF EInv, FileIsValid, Loads, OfItsOwn
<1>6. ~overlapped => OfTheFile(w)' /\ OfTheStore(w)'
  <2>1. ~overlapped /\ ~forced /\ file # Torn => Holds(file, hand[w])'
    BY <1>3 DEF Holds, Present
  <2> QED
    BY <1>1, <2>1 DEF OfTheFile, OfTheStore
<1>7. ~overlapped => OfTheProfile(w)'
  BY <1>2 DEF OfTheProfile
<1>8. Holds(file, store)' <=> Holds(file, store)
  BY DEF Holds, Present
<1> QED
  BY <1>1, <1>2, <1>4, <1>5, <1>6, <1>7, <1>8, Together

LEMMA KeepCredentialKeeps == ASSUME EInv, NEW w \in Writers, KeepCredential(w) PROVE EInv'
<1>1. PICK m \in moves[w] : Goto(w, "temp") /\ hand' = [hand EXCEPT ![w] = [store EXCEPT ![m[2]] = Typed]]
  BY DEF KeepCredential, HoldStore
<1>2. /\ pc[w] = "keep" /\ store # Torn /\ moves' = [moves EXCEPT ![w] = {}]
      /\ UNCHANGED <<file, text, store, temp, draft, left, rest, commands, overlapped, forced, granted, trusted>>
  BY DEF KeepCredential, files, policyFile, history
<1>3. m[2] \in Kept
  BY DEF EInv, TypeOK, Move
<1>4. store \in Store
  BY <1>2 DEF EInv, TypeOK
<1> DEFINE change == [store EXCEPT ![m[2]] = Typed]
<1>5. change \in Store
  BY <1>3, <1>4 DEF Store
<1>6. /\ moves' \in [Writers -> SUBSET Move] /\ left' \in [Writers -> SUBSET Move]
      /\ moves'[w] = {} /\ left'[w] = {}
      /\ \A x \in Writers \ {w} : moves'[x] = moves[x] /\ left'[x] = left[x]
  BY <1>2 DEF EInv, TypeOK, OfItsOwn
<1>7. Made(w, hand[w])'
  BY <1>6 DEF Made, OneToOne
<1>8. ~overlapped /\ ~forced /\ file # Torn => Holds(file, change)
  <2>1. file # Torn => file \in Document
    BY DEF EInv, TypeOK
  <2>2. ~overlapped /\ ~forced /\ file # Torn => Holds(file, store)
    BY DEF EInv, OneByOne
  <2> QED
    BY <1>3, <1>4, <2>1, <2>2, OneMoreHolds
<1> HIDE DEF change
<1>9. hand' = [hand EXCEPT ![w] = change]
  BY <1>1 DEF change
<1> QED
  BY <1>1, <1>2, <1>5, <1>6, <1>7, <1>8, <1>9, HoldKeeps

LEMMA RemoveSecretKeeps == ASSUME EInv, NEW w \in Writers, RemoveSecret(w) PROVE EInv'
<1>1. PICK m \in moves[w] : Goto(w, "temp") /\ hand' = [hand EXCEPT ![w] = [store EXCEPT ![m[2]] = None]]
  BY DEF RemoveSecret, HoldStore
<1>2. /\ pc[w] = "remove" /\ store # Torn /\ moves' = [moves EXCEPT ![w] = {}]
      /\ UNCHANGED <<file, text, store, temp, draft, left, rest, commands, overlapped, forced, granted, trusted>>
  BY DEF RemoveSecret, files, policyFile, history
<1>3. m[2] \in Kept
  BY DEF EInv, TypeOK, Move
<1>4. store \in Store
  BY <1>2 DEF EInv, TypeOK
<1> DEFINE change == [store EXCEPT ![m[2]] = None]
<1>5. change \in Store
  BY <1>3, <1>4 DEF Store
<1>6. /\ moves' \in [Writers -> SUBSET Move] /\ left' \in [Writers -> SUBSET Move]
      /\ moves'[w] = {} /\ left'[w] = {}
      /\ \A x \in Writers \ {w} : moves'[x] = moves[x] /\ left'[x] = left[x]
  BY <1>2 DEF EInv, TypeOK, OfItsOwn
<1>7. Made(w, hand[w])'
  BY <1>6 DEF Made, OneToOne
<1>8. ASSUME ~overlapped, ~forced, file # Torn PROVE Holds(file, change)
  <2>1. PICK n \in Kept : moves[w] = {<<None, n>>} /\ n \notin ManagedReferences(file)
    BY <1>2, <1>8 DEF EInv, OneByOne, OfTheStore
  <2>2. m[2] \notin ManagedReferences(file)
    BY <2>1
  <2>3. \A s \in Present(file) : file.services[s].ref # m[2]
    BY <1>3, <2>2 DEF ManagedReferences
  <2>4. Holds(file, store)
    BY <1>8 DEF EInv, OneByOne
  <2> QED
    BY <1>4, <2>3, <2>4 DEF Holds, Store
<1> HIDE DEF change
<1>9. hand' = [hand EXCEPT ![w] = change]
  BY <1>1 DEF change
<1> QED
  BY <1>1, <1>2, <1>5, <1>6, <1>7, <1>8, <1>9, HoldKeeps

LEMMA StoreMoveKeeps == ASSUME EInv, NEW w \in Writers, NEW m \in left[w], StoreMove(w, m) PROVE EInv'
<1> DEFINE change == [store EXCEPT ![m[2]] = m[1]]
<1>1. /\ pc[w] = "import" /\ store # Torn /\ Goto(w, "temp") /\ hand' = [hand EXCEPT ![w] = change]
      /\ left' = [left EXCEPT ![w] = @ \ {m}]
      /\ UNCHANGED <<file, text, store, temp, draft, moves, rest, commands, overlapped, forced, granted, trusted>>
  BY DEF StoreMove, HoldStore, files, policyFile, history
<1>2. m \in moves[w] /\ m \in Move
  BY DEF EInv, TypeOK
<1>3. m[1] \in Vaulted \cup {Typed, None} /\ m[2] \in Kept
  BY <1>2 DEF Move
<1>4. store \in Store /\ change \in Store
  BY <1>1, <1>3 DEF EInv, TypeOK, Store
<1>5. /\ moves' \in [Writers -> SUBSET Move] /\ left' \in [Writers -> SUBSET Move]
      /\ moves'[w] = moves[w] /\ left'[w] = left[w] \ {m} /\ left'[w] \subseteq moves'[w]
      /\ \A x \in Writers \ {w} : moves'[x] = moves[x] /\ left'[x] = left[x]
  BY <1>1 DEF EInv, TypeOK
<1>6. hand'[w] = change
  BY <1>1 DEF EInv, TypeOK
<1>7. ~overlapped => Made(w, store)
  BY <1>1 DEF EInv, OneByOne, OfTheStore
<1>8. ASSUME ~overlapped PROVE Made(w, hand[w])'
  <2>1. OneToOne(moves[w]) /\ \A n \in moves[w] \ left[w] : store[n[2]] = n[1]
    BY <1>7, <1>8 DEF Made
  <2>2. ASSUME NEW n \in moves[w] \ (left[w] \ {m}) PROVE change[n[2]] = n[1]
    <3>1. n[2] \in Kept
      BY <2>1 DEF OneToOne
    <3>2. CASE n = m
      BY <1>3, <1>4, <3>2 DEF Store
    <3>3. CASE n # m
      <4>1. n[2] # m[2]
        BY <1>2, <2>1, <3>3 DEF OneToOne
      <4> QED
        BY <1>4, <2>1, <3>1, <3>3, <4>1 DEF Store
    <3> QED
      BY <3>2, <3>3
  <2>3. OneToOne(moves[w])'
    BY <1>5, <2>1 DEF OneToOne
  <2> HIDE DEF change
  <2> QED
    BY <1>5, <1>6, <2>2, <2>3 DEF Made
<1>9. ASSUME ~overlapped, ~forced, file # Torn PROVE Holds(file, change)
  <2>1. file \in Document
    BY <1>9 DEF EInv, TypeOK
  <2>2. Holds(file, store)
    BY <1>9 DEF EInv, OneByOne
  <2>3. m[1] \in Vaulted
    BY <1>2, <1>7, <1>9 DEF Made, OneToOne
  <2> QED
    BY <1>3, <1>4, <2>1, <2>2, <2>3, OneMoreHolds
<1> HIDE DEF change
<1> QED
  BY <1>1, <1>4, <1>5, <1>8, <1>9, HoldKeeps

LEMMA NothingToRemoveKeeps == ASSUME EInv, NEW w \in Writers, NothingToRemove(w) PROVE EInv'
<1>1. /\ pc[w] = "remove" /\ moves' = [moves EXCEPT ![w] = {}] /\ Goto(w, "idle")
      /\ UNCHANGED <<file, text, store, temp, draft, hand, left, rest, commands, overlapped, forced, granted, trusted>>
  BY DEF NothingToRemove, Idle, files, policyFile, history
<1>2. /\ pc'[w] = "idle" /\ \A x \in Writers : x # w => pc'[x] = pc[x]
      /\ OneAtATime'
  BY <1>1, Acting
<1>3. ~overlapped =>
        /\ OfTheProfile(w) /\ store # Torn
        /\ ~forced /\ file # Torn => Holds(file, store)
        /\ \A x \in Writers \ {w} : pc[x] = "idle" /\ pc'[x] = "idle" /\ granted[x] = <<>>
  BY <1>1, Acting
<1>4. moves'[w] = {} /\ left'[w] = {} /\ \A x \in Writers \ {w} : moves'[x] = moves[x] /\ left'[x] = left[x]
  BY <1>1 DEF EInv, TypeOK, OfItsOwn
<1>5. TypeOK'
  <2>1. \A x \in Writers : left'[x] \subseteq moves'[x]
    BY <1>4 DEF EInv, TypeOK
  <2> QED
    BY <1>1, <2>1 DEF EInv, TypeOK, Goto
<1>6. FileIsValid' /\ OfItsOwn(w)'
  BY <1>1, <1>2, <1>4 DEF EInv, FileIsValid, Loads, OfItsOwn
<1>7. ~overlapped => OfTheProfile(w)'
  BY <1>1, <1>2, <1>3 DEF OfTheProfile
<1>8. Holds(file, store)' <=> Holds(file, store)
  BY <1>1 DEF Holds, Present
<1> QED
  BY <1>1, <1>2, <1>3, <1>4, <1>5, <1>6, <1>7, <1>8, Together

LEMMA OpenTempKeeps == ASSUME EInv, NEW w \in Writers, OpenTemp(w) PROVE EInv'
<1>1. /\ pc[w] = "temp" /\ temp' = Torn /\ Goto(w, "fill")
      /\ UNCHANGED <<file, text, store, draft, hand, moves, left, rest, commands, overlapped, forced, granted, trusted>>
  BY DEF OpenTemp, Temporary, work, policyFile, history
<1>2. /\ pc'[w] = "fill" /\ \A x \in Writers : x # w => pc'[x] = pc[x]
      /\ OneAtATime'
  BY <1>1, Acting
<1>3. ~overlapped =>
        /\ OfTheStore(w) /\ OfTheProfile(w) /\ store # Torn
        /\ ~forced /\ file # Torn => Holds(file, store)
        /\ \A x \in Writers \ {w} : pc[x] = "idle" /\ pc'[x] = "idle" /\ granted[x] = <<>>
  BY <1>1, Acting
<1>4. TypeOK'
  BY <1>1 DEF EInv, TypeOK, Goto
<1>5. FileIsValid' /\ OfItsOwn(w)'
  BY <1>1, <1>2 DEF EInv, FileIsValid, Loads, OfItsOwn
<1>6. ~overlapped => OfTheProfile(w)'
  BY <1>1, <1>2, <1>3 DEF OfTheProfile
<1>7. Holds(file, store)' <=> Holds(file, store)
  BY <1>1 DEF Holds, Present
<1>8. ~overlapped => OfTheFile(w)' /\ OfTheStore(w)'
  <2>1. Made(w, hand[w])' <=> Made(w, hand[w])
    BY <1>1 DEF Made
  <2>2. Holds(file, hand[w])' <=> Holds(file, hand[w])
    BY <1>1 DEF Holds, Present
  <2> QED
    BY <1>1, <1>2, <1>3, <2>1, <2>2 DEF OfTheFile, OfTheStore
<1> QED
  BY <1>1, <1>2, <1>3, <1>4, <1>5, <1>6, <1>7, <1>8, Together

LEMMA FillTempKeeps == ASSUME EInv, NEW w \in Writers, FillTemp(w) PROVE EInv'
<1>1. /\ pc[w] = "fill" /\ Goto(w, "rename")
      /\ \/ /\ temp # Absent
            /\ temp' \in IF temp = Torn THEN {hand[w]} ELSE {hand[w], Torn}
            /\ UNCHANGED store
         \/ /\ temp = Absent
            /\ store' \in IF store = Torn THEN {hand[w]} ELSE {hand[w], Torn}
            /\ UNCHANGED temp
      /\ UNCHANGED <<file, text, draft, hand, moves, left, rest, commands, overlapped, forced, granted, trusted>>
  BY DEF FillTemp, work, policyFile, history
<1>2. /\ pc'[w] = "rename" /\ \A x \in Writers : x # w => pc'[x] = pc[x]
      /\ OneAtATime'
  BY <1>1, Acting
<1>3. ~overlapped =>
        /\ OfTheStore(w) /\ OfTheProfile(w) /\ store # Torn
        /\ ~forced /\ file # Torn => Holds(file, store)
        /\ \A x \in Writers \ {w} : pc[x] = "idle" /\ pc'[x] = "idle" /\ granted[x] = <<>>
  BY <1>1, Acting
<1>4. TypeOK'
  <2>1. hand[w] \in Store
    BY DEF EInv, TypeOK
  <2>2. store' \in Store \cup {Torn} /\ temp' \in Store \cup {Torn, Absent}
    BY <1>1, <2>1 DEF EInv, TypeOK
  <2> QED
    BY <1>1, <2>2 DEF EInv, TypeOK, Goto
<1>5. FileIsValid' /\ OfItsOwn(w)'
  BY <1>1, <1>2 DEF EInv, FileIsValid, Loads, OfItsOwn
<1>6. ~overlapped => OfTheProfile(w)'
  BY <1>1, <1>2, <1>3 DEF OfTheProfile
<1>7. ASSUME ~overlapped PROVE temp' = hand[w] /\ store' = store
  <2>1. temp = Torn
    BY <1>1, <1>3, <1>7 DEF OfTheStore
  <2> QED
    BY <1>1, <2>1, NothingIsMistaken
<1>8. ASSUME ~overlapped PROVE Holds(file, store)' <=> Holds(file, store)
  BY <1>1, <1>7, <1>8 DEF Holds, Present
<1>9. ASSUME ~overlapped PROVE OfTheFile(w)' /\ OfTheStore(w)'
  <2>1. Made(w, hand[w])' <=> Made(w, hand[w])
    BY <1>1 DEF Made
  <2>2. Holds(file, hand[w])' <=> Holds(file, hand[w])
    BY <1>1 DEF Holds, Present
  <2>3. temp' = hand'[w]
    BY <1>1, <1>7, <1>9
  <2> QED
    BY <1>1, <1>2, <1>3, <1>9, <2>1, <2>2, <2>3 DEF OfTheFile, OfTheStore
<1> QED
  BY <1>1, <1>2, <1>3, <1>4, <1>5, <1>6, <1>7, <1>8, <1>9, Together

LEMMA RenameKeeps == ASSUME EInv, NEW w \in Writers, Rename(w) PROVE EInv'
<1> DEFINE next == IF moves[w] # {} THEN "import" ELSE "idle"
<1>1. /\ pc[w] = "rename" /\ temp # Absent /\ store' = temp /\ temp' = Absent /\ Goto(w, next)
      /\ UNCHANGED <<file, text, draft, hand, moves, left, rest, commands, overlapped, forced, granted, trusted>>
  BY DEF Rename, Temporary, AfterStore, work, policyFile, history
<1>2. /\ pc'[w] = next /\ \A x \in Writers : x # w => pc'[x] = pc[x]
      /\ OneAtATime'
  BY <1>1, Acting
<1>3. ~overlapped =>
        /\ OfTheStore(w) /\ OfTheProfile(w)
        /\ \A x \in Writers \ {w} : pc[x] = "idle" /\ pc'[x] = "idle" /\ granted[x] = <<>>
  BY <1>1, Acting
<1>4. TypeOK'
  BY <1>1 DEF EInv, TypeOK, Goto
<1>5. FileIsValid' /\ OfItsOwn(w)'
  BY <1>1, <1>2 DEF EInv, FileIsValid, Loads, OfItsOwn
<1>6. ~overlapped => OfTheProfile(w)'
  BY <1>1, <1>2, <1>3 DEF OfTheProfile
<1>7. ASSUME ~overlapped PROVE store' = hand[w] /\ store' # Torn
  <2>1. hand[w] \in Store
    BY DEF EInv, TypeOK
  <2> QED
    BY <1>1, <1>3, <1>7, <2>1, NothingIsMistaken DEF OfTheStore
<1>8. ASSUME ~overlapped, ~forced, file # Torn PROVE Holds(file, store)'
  <2>1. Holds(file, hand[w])
    BY <1>1, <1>3, <1>8 DEF OfTheStore
  <2> QED
    BY <1>1, <1>7, <1>8, <2>1 DEF Holds, Present
<1>9. ASSUME ~overlapped PROVE OfTheFile(w)' /\ OfTheStore(w)'
  <2>1. Made(w, store)'
    BY <1>1, <1>3, <1>7, <1>9 DEF Made, OfTheStore
  <2> QED
    BY <1>1, <1>2, <2>1 DEF OfTheFile, OfTheStore
<1> QED
  BY <1>1, <1>2, <1>3, <1>4, <1>5, <1>6, <1>7, <1>8, <1>9, Together

LEMMA StoreFailsKeeps == ASSUME EInv, NEW w \in Writers, StoreFails(w) PROVE EInv'
<1>1. /\ pc[w] \in {"temp", "fill", "rename"} /\ temp' = Absent /\ Goto(w, "idle")
      /\ moves' = [moves EXCEPT ![w] = {}] /\ left' = [left EXCEPT ![w] = {}]
      /\ UNCHANGED <<file, text, store, draft, hand, rest, commands, overlapped, forced, granted, trusted>>
  BY DEF StoreFails, Idle, policyFile, history
<1>2. /\ pc'[w] = "idle" /\ \A x \in Writers : x # w => pc'[x] = pc[x]
      /\ OneAtATime'
  BY <1>1, Acting
<1>3. ~overlapped =>
        /\ OfTheProfile(w) /\ store # Torn
        /\ ~forced /\ file # Torn => Holds(file, store)
        /\ \A x \in Writers \ {w} : pc[x] = "idle" /\ pc'[x] = "idle" /\ granted[x] = <<>>
  BY <1>1, Acting
<1>4. moves'[w] = {} /\ left'[w] = {} /\ \A x \in Writers \ {w} : moves'[x] = moves[x] /\ left'[x] = left[x]
  BY <1>1 DEF EInv, TypeOK
<1>5. TypeOK'
  <2>1. \A x \in Writers : left'[x] \subseteq moves'[x]
    BY <1>4 DEF EInv, TypeOK
  <2> QED
    BY <1>1, <2>1 DEF EInv, TypeOK, Goto
<1>6. FileIsValid' /\ OfItsOwn(w)'
  BY <1>1, <1>2, <1>4 DEF EInv, FileIsValid, Loads, OfItsOwn
<1>7. ~overlapped => OfTheProfile(w)'
  BY <1>1, <1>2, <1>3 DEF OfTheProfile
<1>8. Holds(file, store)' <=> Holds(file, store)
  BY <1>1 DEF Holds, Present
<1> QED
  BY <1>1, <1>2, <1>3, <1>4, <1>5, <1>6, <1>7, <1>8, Together

LEMMA RepointedIsTyped ==
  ASSUME NEW d \in Document, NEW plan \in SUBSET Move
  PROVE  /\ Repointed(d, plan) \in Document /\ Present(Repointed(d, plan)) \subseteq Present(d)
         /\ Repointed(d, plan).rules = d.rules
         /\ \A s \in Present(d) :
              LET ref == d.services[s].ref new == Repointed(d, plan).services[s].ref IN
                new = ref \/ \E m \in plan : m[1] = ref /\ new = m[2]
<1> DEFINE Goes(s) == s \in Present(d) /\ \E m \in plan : m[1] = d.services[s].ref
           r == Repointed(d, plan)
<1>1. ASSUME NEW s \in Services, Goes(s)
      PROVE  /\ MovedTo(plan, d.services[s].ref) \in Kept
             /\ \E m \in plan : m[1] = d.services[s].ref /\ MovedTo(plan, d.services[s].ref) = m[2]
  <2> DEFINE ref == d.services[s].ref
             m == CHOOSE m \in plan : m[1] = ref
  <2>1. m \in plan /\ m[1] = ref
    BY <1>1
  <2>2. m \in Move
    BY <2>1
  <2> QED
    BY <2>1, <2>2 DEF MovedTo, Move
<1>2. \A s \in Services : s \in Present(d) => d.services[s] \in Service
  BY DEF Document, Present
<1>3. r = [d EXCEPT !.services = [s \in Services |->
             IF Goes(s) THEN [d.services[s] EXCEPT !.ref = MovedTo(plan, d.services[s].ref)]
             ELSE d.services[s]]]
  BY DEF Repointed, Document
<1>4. \A s \in Services :
        r.services[s] = IF Goes(s) THEN [d.services[s] EXCEPT !.ref = MovedTo(plan, d.services[s].ref)]
                        ELSE d.services[s]
  BY <1>3 DEF Document
<1>5. r.rules = d.rules /\ r.agents = d.agents /\ r.default = d.default
  BY <1>3 DEF Document
<1>6. \A s \in Services : r.services[s] \in Service \cup {None}
  BY <1>1, <1>2, <1>4 DEF Service, Refs, Document
<1>7. r \in Document
  BY <1>3, <1>4, <1>6 DEF Document
<1>8. Present(r) \subseteq Present(d)
  BY <1>4 DEF Present
<1>9. ASSUME NEW s \in Present(d)
      PROVE  LET ref == d.services[s].ref new == r.services[s].ref IN
                new = ref \/ \E m \in plan : m[1] = ref /\ new = m[2]
  <2>1. s \in Services /\ d.services[s] \in Service
    BY <1>2 DEF Present
  <2>2. CASE Goes(s)
    <3>1. r.services[s].ref = MovedTo(plan, d.services[s].ref)
      BY <1>4, <2>1, <2>2 DEF Service
    <3> QED
      BY <1>1, <2>1, <2>2, <3>1
  <2>3. CASE ~Goes(s)
    BY <1>4, <2>1, <2>3
  <2> QED
    BY <2>2, <2>3
<1> QED
  BY <1>5, <1>7, <1>8, <1>9

\* A plan whose moves were all made repoints a document to what the store has.
LEMMA RepointedIs ==
  ASSUME NEW d \in Document, NEW plan, OneToOne(plan), NEW kept,
         \A m \in plan : kept[m[2]] = m[1]
  PROVE  /\ Present(Repointed(d, plan)) \subseteq Present(d)
         /\ \A s \in Present(d) :
              LET ref == d.services[s].ref new == Repointed(d, plan).services[s].ref IN
                \/ new = ref
                \/ ref \in Vaulted /\ new \in Kept /\ kept[new] = ref
<1>1. plan \in SUBSET Move /\ \A m \in plan : m[1] \in Vaulted /\ m[2] \in Kept
  BY DEF OneToOne, Move
<1> QED
  BY <1>1, RepointedIsTyped

LEMMA RepointKeeps == ASSUME EInv, NEW w \in Writers, Repoint(w) PROVE EInv'
<1> DEFINE r == Repointed(file, moves[w])
<1>1. /\ pc[w] = "import" /\ left[w] = {} /\ file # Torn /\ Valid(r)
      /\ draft' = [draft EXCEPT ![w] = r] /\ Goto(w, "save")
      /\ moves' = [moves EXCEPT ![w] = {}] /\ left' = [left EXCEPT ![w] = {}]
      /\ UNCHANGED <<file, text, store, temp, hand, rest, commands, overlapped, forced, granted, trusted>>
  BY DEF Repoint, Stored, Accepts, files, policyFile, history
<1>2. /\ pc'[w] = "save" /\ \A x \in Writers : x # w => pc'[x] = pc[x]
      /\ OneAtATime'
  BY <1>1, Acting
<1>3. ~overlapped =>
        /\ OfTheStore(w) /\ OfTheProfile(w) /\ store # Torn
        /\ ~forced /\ file # Torn => Holds(file, store)
        /\ \A x \in Writers \ {w} : pc[x] = "idle" /\ pc'[x] = "idle" /\ granted[x] = <<>>
  BY <1>1, Acting
<1>4. file \in Document
  BY <1>1 DEF EInv, TypeOK
<1>5. r \in Document
  BY <1>4, RepointedIsTyped DEF EInv, TypeOK
<1>6. ~overlapped => granted[w] = <<>>
  BY <1>1, <1>3 DEF OfTheProfile
<1>7. ASSUME ~overlapped, ~forced PROVE Holds(r, store)
  <2>1. store \in Store
    BY <1>3, <1>7 DEF EInv, TypeOK
  <2>2. OneToOne(moves[w]) /\ \A m \in moves[w] : store[m[2]] = m[1]
    BY <1>1, <1>3, <1>7 DEF OfTheStore, Made
  <2>3. Holds(file, store)
    BY <1>1, <1>3, <1>7
  <2>4. /\ Present(r) \subseteq Present(file)
        /\ \A s \in Present(file) :
             \/ r.services[s].ref = file.services[s].ref
             \/ /\ file.services[s].ref \in Vaulted /\ r.services[s].ref \in Kept
                /\ store[r.services[s].ref] = file.services[s].ref
    BY <1>4, <2>1, <2>2, RepointedIs
  <2> HIDE DEF r
  <2> QED
    BY <2>3, <2>4, NothingIsMistaken DEF Holds
<1> HIDE DEF r
<1>8. draft'[w] = r /\ moves'[w] = {} /\ left'[w] = {}
  BY <1>1 DEF EInv, TypeOK
<1>9. TypeOK'
  <2>1. \A x \in Writers : left'[x] \subseteq moves'[x]
    BY <1>1 DEF EInv, TypeOK
  <2> QED
    BY <1>1, <1>5, <2>1 DEF EInv, TypeOK, Goto
<1>10. FileIsValid' /\ OfItsOwn(w)'
  BY <1>1, <1>2, <1>8 DEF EInv, FileIsValid, Loads, OfItsOwn
<1>11. Holds(file, store)' <=> Holds(file, store)
  BY <1>1 DEF Holds, Present
<1>12. ~overlapped => OfTheFile(w)' /\ OfTheStore(w)'
  <2>1. Holds(draft[w], store)' <=> Holds(r, store)
    BY <1>1, <1>8 DEF Holds, Present
  <2> QED
    BY <1>1, <1>2, <1>7, <2>1 DEF OfTheFile, OfTheStore
<1>13. ~overlapped => OfTheProfile(w)'
  BY <1>1, <1>6 DEF OfTheProfile
<1>14. \A x \in Writers \ {w} : draft'[x] = draft[x] /\ moves'[x] = moves[x] /\ left'[x] = left[x]
  BY <1>1 DEF EInv, TypeOK
<1> QED
  BY <1>1, <1>2, <1>3, <1>9, <1>10, <1>11, <1>12, <1>13, <1>14, Together

-----------------------------------------------------------------------------
(* A write is cut short. *)

\* What is in it refers to what it did, or to nothing.
Fewer(d, c) ==
  \A s \in Present(c) : /\ s \in Present(d)
                        /\ c.services[s].ref = d.services[s].ref \/ c.services[s].ref = None

LEMMA FewerHolds ==
  ASSUME NEW d \in Document, NEW c, Fewer(d, c), NEW kept, Holds(d, kept)
  PROVE  Holds(c, kept)
BY NothingIsMistaken DEF Holds, Fewer

LEMMA APrefixIs ==
  ASSUME NEW r \in Seq(FileRule), NEW k \in Nat, k <= Len(r)
  PROVE  SubSeq(r, 1, k) \in Seq(FileRule)
OBVIOUS

LEMMA OneMoreRule ==
  ASSUME NEW r \in Seq(FileRule), NEW rule \in FileRule
  PROVE  Append(r, rule) \in Seq(FileRule)
OBVIOUS

LEMMA ShortenedIs ==
  ASSUME NEW d \in Document, NEW block, NEW c \in Shortened(d, block)
  PROVE  c \in Document /\ Fewer(d, c)
<1>1. CASE c \in {[d EXCEPT !.agents[i].targets = {}] : i \in Enrolled(d) \cap {block}}
  <2>1. PICK i \in Enrolled(d) : c = [d EXCEPT !.agents[i].targets = {}]
    BY <1>1
  <2>2. i \in Ids /\ d.agents[i] \in Agent
    BY DEF Enrolled, Document
  <2>3. [d.agents[i] EXCEPT !.targets = {}] \in Agent
    BY <2>2 DEF Agent
  <2>4. c = [d EXCEPT !.agents = [d.agents EXCEPT ![i] = [d.agents[i] EXCEPT !.targets = {}]]]
    BY <2>1, <2>2
  <2>5. c \in Document /\ c.services = d.services
    BY <2>2, <2>3, <2>4 DEF Document
  <2> QED
    BY <2>5 DEF Fewer, Present
<1>2. CASE c \in {[d EXCEPT !.services[s].ref = None] : s \in Present(d) \cap {block}}
  <2>1. PICK s \in Present(d) : c = [d EXCEPT !.services[s].ref = None]
    BY <1>2
  <2>2. s \in Services /\ d.services[s] \in Service
    BY DEF Present, Document
  <2> DEFINE less == [d.services[s] EXCEPT !.ref = None]
  <2>3. less \in Service /\ less.ref = None
    BY <2>2 DEF Service
  <2>4. c = [d EXCEPT !.services = [d.services EXCEPT ![s] = less]]
    BY <2>1, <2>2
  <2> HIDE DEF less
  <2>5. c \in Document /\ c.services = [d.services EXCEPT ![s] = less]
    BY <2>2, <2>3, <2>4 DEF Document
  <2> QED
    BY <2>2, <2>3, <2>5 DEF Fewer, Present, Document
<1>3. CASE \E k \in DOMAIN d.rules :
             c \in {[d EXCEPT !.rules = SubSeq(@, 1, k - 1)],
                   [d EXCEPT !.rules = Append(SubSeq(@, 1, k - 1), Widest(d.rules[k]))]}
  <2>1. PICK k \in DOMAIN d.rules :
          c \in {[d EXCEPT !.rules = SubSeq(@, 1, k - 1)],
                [d EXCEPT !.rules = Append(SubSeq(@, 1, k - 1), Widest(d.rules[k]))]}
    BY <1>3
  <2>2. d.rules \in Seq(FileRule) /\ k \in 1..Len(d.rules) /\ d.rules[k] \in FileRule
    BY DEF Document
  <2>3. k - 1 \in Nat /\ k - 1 <= Len(d.rules)
    BY <2>2
  <2>4. SubSeq(d.rules, 1, k - 1) \in Seq(FileRule)
    BY <2>2, <2>3, APrefixIs
  <2>5. Widest(d.rules[k]) \in FileRule
    BY <2>2 DEF Widest, FileRule
  <2>6. Append(SubSeq(d.rules, 1, k - 1), Widest(d.rules[k])) \in Seq(FileRule)
    BY <2>4, <2>5, OneMoreRule
  <2>7. c \in Document /\ c.services = d.services
    BY <2>1, <2>4, <2>6 DEF Document
  <2> QED
    BY <2>7 DEF Fewer, Present
<1> QED
  BY <1>1, <1>2, <1>3 DEF Shortened

LEMMA CutIs ==
  ASSUME NEW d \in Document, NEW c \in Cut(d), c # Torn
  PROVE  c \in Document /\ Fewer(d, c)
<1>1. CASE c = Empty
  BY <1>1, EmptyIs DEF Fewer
<1>2. CASE c # Empty
  <2>1. PICK head : LET whole == Spliced(d, head, Empty, {})
                    IN c = whole \/ \E block : c \in Shortened(whole, block)
    <3>1. PICK l \in Layouts : \E n \in DOMAIN l :
            LET whole == Spliced(d, {l[j] : j \in 1..n}, Empty, {}) IN c \in {whole} \cup Shortened(whole, l[n])
      BY <1>2 DEF Cut
    <3> QED
      BY <3>1
  <2> DEFINE whole == Spliced(d, head, Empty, {})
  <2>2. whole \in Document /\ Fewer(d, whole)
    <3>1. whole \in Document
      BY EmptyIs, SplicedIs
    <3>2. \A s \in Services : whole.services[s] = IF s \in head /\ d.services[s] # None THEN d.services[s] ELSE None
      BY EmptyIs, SplicedIs
    <3> QED
      BY <3>1, <3>2 DEF Fewer, Present
  <2> HIDE DEF whole
  <2>3. CASE c = whole
    BY <2>2, <2>3
  <2>4. CASE \E block : c \in Shortened(whole, block)
    <3>1. c \in Document /\ Fewer(whole, c)
      BY <2>2, <2>4, ShortenedIs
    <3> QED
      BY <2>2, <3>1 DEF Fewer
  <2> QED
    BY <2>1, <2>3, <2>4 DEF whole
<1> QED
  BY <1>1, <1>2

LEMMA PartIs ==
  ASSUME EInv, NEW w \in Writers, WritePart(w)
  PROVE  /\ pc[w] = "write" /\ text' = "spoilt" /\ file' \in Document \cup {Torn}
         /\ ~overlapped /\ file' # Torn => Fewer(draft[w], file')
<1>1. /\ pc[w] = "write" /\ text' = "spoilt"
      /\ file' \in IF text = "none" THEN Cut(draft[w])
                  ELSE UNION {Over(draft[w], head) : head \in UNION {Heads(l) : l \in Layouts}}
  BY DEF WritePart
<1>2. draft[w] \in Document
  BY DEF EInv, TypeOK
<1>3. file' \in Document \cup {Torn}
  <2>1. CASE text = "none"
    BY <1>1, <1>2, <2>1, CutIs
  <2>2. CASE text # "none"
    BY <1>1, <1>2, <2>2, OverIs
  <2> QED
    BY <2>1, <2>2
<1>4. ASSUME ~overlapped, file' # Torn PROVE Fewer(draft[w], file')
  <2>1. text = "none"
    BY <1>1, <1>4 DEF EInv, OneByOne, OfTheFile
  <2> QED
    BY <1>1, <1>2, <1>4, <2>1, CutIs
<1> QED
  BY <1>1, <1>3, <1>4

\* A writer ends, perhaps inside a write.
LEMMA EndKeeps ==
  ASSUME EInv, NEW w \in Writers, pc[w] # "idle", Goto(w, "idle"), UNCHANGED policyFile \/ WritePart(w),
         rest' = [rest EXCEPT ![w] = <<>>], moves' = [moves EXCEPT ![w] = {}], left' = [left EXCEPT ![w] = {}],
         UNCHANGED <<store, temp, draft, hand, commands, overlapped, forced, granted, trusted>>
  PROVE  EInv'
<1>1. \/ file' = file /\ text' = text
      \/ /\ pc[w] = "write" /\ text' = "spoilt" /\ file' \in Document \cup {Torn}
         /\ ~overlapped /\ file' # Torn => Fewer(draft[w], file')
  BY PartIs DEF policyFile
<1>2. /\ pc'[w] = "idle" /\ \A x \in Writers : x # w => pc'[x] = pc[x]
      /\ OneAtATime'
  BY Acting
<1>3. ~overlapped =>
        /\ OfTheFile(w) /\ OfTheProfile(w) /\ store # Torn
        /\ ~forced /\ file # Torn => Holds(file, store)
        /\ \A x \in Writers \ {w} : pc[x] = "idle" /\ pc'[x] = "idle" /\ granted[x] = <<>>
  BY Acting
<1>4. draft[w] \in Document
  BY DEF EInv, TypeOK
<1>5. TypeOK'
  <2>1. <<>> \in Seq(FileRule)
    OBVIOUS
  <2>2. file' \in Document \cup {Torn} /\ text' \in {"none", "whole", "spoilt"}
    BY <1>1 DEF EInv, TypeOK
  <2>3. \A x \in Writers : left'[x] \subseteq moves'[x]
    BY DEF EInv, TypeOK
  <2> QED
    BY <2>1, <2>2, <2>3 DEF EInv, TypeOK, Goto
<1>6. FileIsValid' /\ OfItsOwn(w)'
  BY <1>1, <1>2 DEF EInv, TypeOK, FileIsValid, Loads, OfItsOwn
<1>7. ASSUME ~overlapped, ~forced, file' # Torn PROVE Holds(file, store)'
  <2>1. CASE file' = file
    BY <1>3, <1>7, <2>1 DEF Holds, Present
  <2>2. CASE file' # file
    <3>1. Holds(draft[w], store) /\ Fewer(draft[w], file')
      BY <1>1, <1>3, <1>7, <2>2 DEF OfTheFile
    <3>2. Holds(file', store)
      BY <1>4, <3>1, FewerHolds
    <3> QED
      BY <3>2 DEF Holds, Present
  <2> QED
    BY <2>1, <2>2
<1>8. ~overlapped => OfTheProfile(w)'
  BY <1>1, <1>2, <1>3 DEF OfTheProfile
<1>9. \A x \in Writers \ {w} :
        draft'[x] = draft[x] /\ moves'[x] = moves[x] /\ left'[x] = left[x] /\ rest'[x] = rest[x]
  BY DEF EInv, TypeOK
<1> QED
  BY <1>2, <1>3, <1>5, <1>6, <1>7, <1>8, <1>9, Together

LEMMA KilledKeeps == ASSUME EInv, NEW w \in Writers, Kill(w) PROVE EInv'
BY EndKeeps DEF Kill

LEMMA SaveFailsKeeps == ASSUME EInv, NEW w \in Writers, SaveFails(w) PROVE EInv'
<1>1. /\ WritePart(w) /\ pc[w] = "write" /\ Goto(w, "idle") /\ rest' = [rest EXCEPT ![w] = <<>>]
      /\ UNCHANGED <<store, temp, draft, hand, moves, left, commands, overlapped, forced, granted, trusted>>
  BY DEF SaveFails, WritePart, Idle, history
<1>2. moves[w] = {} /\ left[w] = {}
  BY <1>1 DEF EInv, TypeOK, OfItsOwn
<1>3. moves' = [moves EXCEPT ![w] = {}] /\ left' = [left EXCEPT ![w] = {}]
  BY <1>1, <1>2 DEF EInv, TypeOK
<1> QED
  BY <1>1, <1>3, EndKeeps

-----------------------------------------------------------------------------
(* Edits. *)

LEMMA WhatWasRead ==
  ASSUME EInv, NEW w \in Writers, pc[w] = "edit"
  PROVE  /\ draft[w] \in Document /\ draft[w].rules \in Seq(FileRule)
         /\ ~overlapped /\ ~forced => Holds(draft[w], store)
<1>1. draft[w] \in Document /\ draft[w].rules \in Seq(FileRule)
  BY DEF EInv, TypeOK, Document
<1>2. ASSUME ~overlapped, ~forced PROVE Holds(draft[w], store)
  <2>1. file = draft[w]
    BY <1>2 DEF EInv, OneByOne, OfTheFile
  <2> QED
    BY <1>1, <1>2, <2>1, NothingIsMistaken DEF EInv, OneByOne
<1> QED
  BY <1>1, <1>2

\* An edit that gives no service another reference.
LEMMA PlainEditKeeps ==
  ASSUME EInv, NEW w \in Writers, NEW d \in Document, Edit(w, d),
         \A s \in Present(d) : s \in Present(draft[w]) /\ d.services[s] = draft[w].services[s]
  PROVE  EInv'
<1>1. pc[w] = "edit" /\ EditFirst(w, d, <<>>) /\ <<>> \in Seq(FileRule)
  BY DEF Edit, EditFirst
<1>2. ~overlapped /\ ~forced => Holds(d, store)
  BY <1>1, WhatWasRead DEF Holds
<1> QED
  BY <1>1, <1>2, EditKeeps

LEMMA AddAgentKeeps ==
  ASSUME EInv, NEW w \in Writers, NEW i \in Ids, NEW targets \in SUBSET Services, AddAgent(w, i, targets)
  PROVE  EInv'
<1> DEFINE d == [draft[w] EXCEPT !.agents[i] = [targets |-> targets, token |-> "hash"]]
<1>1. Edit(w, d)
  BY DEF AddAgent
<1>2. draft[w] \in Document
  BY DEF EInv, TypeOK
<1>3. d \in Document /\ d.services = draft[w].services
  BY <1>2 DEF Document, Agent
<1> HIDE DEF d
<1> QED
  BY <1>1, <1>3, PlainEditKeeps DEF Present

LEMMA EditAgentKeeps ==
  ASSUME EInv, NEW w \in Writers, NEW i \in Ids, NEW targets \in SUBSET Services, EditAgent(w, i, targets)
  PROVE  EInv'
<1> DEFINE d == [draft[w] EXCEPT !.agents[i].targets = targets]
<1>1. Edit(w, d) /\ draft[w].agents[i] # None
  BY DEF EditAgent, Enrolled
<1>2. draft[w] \in Document
  BY DEF EInv, TypeOK
<1>3. draft[w].agents[i] \in Agent
  BY <1>1, <1>2 DEF Document
<1>4. d \in Document /\ d.services = draft[w].services
  BY <1>2, <1>3 DEF Document, Agent
<1> HIDE DEF d
<1> QED
  BY <1>1, <1>4, PlainEditKeeps DEF Present

LEMMA RotateAgentKeeps ==
  ASSUME EInv, NEW w \in Writers, NEW i \in Ids, RotateAgent(w, i)
  PROVE  EInv'
<1> DEFINE d == [draft[w] EXCEPT !.agents[i].token = "rehashed"]
<1>1. Edit(w, d) /\ draft[w].agents[i] # None
  BY DEF RotateAgent, Enrolled
<1>2. draft[w] \in Document
  BY DEF EInv, TypeOK
<1>3. draft[w].agents[i] \in Agent
  BY <1>1, <1>2 DEF Document
<1>4. d \in Document /\ d.services = draft[w].services
  BY <1>2, <1>3 DEF Document, Agent
<1> HIDE DEF d
<1> QED
  BY <1>1, <1>4, PlainEditKeeps DEF Present

LEMMA ElementsOf ==
  ASSUME NEW S, NEW q \in Seq(S)
  PROVE  DOMAIN q = 1..Len(q) /\ Len(q) \in Nat /\ \A k \in 1..Len(q) : q[k] \in S
OBVIOUS

LEMMA PlannedIs ==
  ASSUME NEW s \in Services, NEW profile \in Profile
  PROVE  Planned(s, profile) \in Seq(FileRule)
<1> DEFINE Of(action, calls) == [agent |-> profile.agent, target |-> s, action |-> action, calls |-> calls,
                                 spelled |-> TRUE, meant |-> FALSE]
           level == profile.level
           first == IF profile.kind = "mcp" THEN <<Of("allow", Opening)>> ELSE <<>>
           others == [k \in DOMAIN level |-> Of(level[k].action, level[k].calls)]
<1>1. level \in Seq([action : Effects, calls : SUBSET Calls]) /\ profile.agent \in Ids \cup {All}
  BY DEF Profile
<1>2. \A action \in Effects, calls \in SUBSET Calls : Of(action, calls) \in FileRule
  BY <1>1 DEF FileRule
<1>3. Of("allow", Opening) \in FileRule
  BY <1>2, WhatIsAskedFor DEF Effects
<1> HIDE DEF Of
<1>4. first \in Seq(FileRule)
  BY <1>3
<1>5. others \in Seq(FileRule)
  <2>3. /\ DOMAIN level = 1..Len(level) /\ Len(level) \in Nat
        /\ \A k \in 1..Len(level) : level[k] \in [action : Effects, calls : SUBSET Calls]
    BY <1>1, ElementsOf
  <2> HIDE DEF level
  <2>1. \A k \in 1..Len(level) : level[k].action \in Effects /\ level[k].calls \in SUBSET Calls
    BY <2>3
  <2>2. \A k \in 1..Len(level) : Of(level[k].action, level[k].calls) \in FileRule
    BY <1>2, <2>1
  <2>4. others \in [1..Len(level) -> FileRule]
    BY <2>2, <2>3
  <2> QED
    BY <2>3, <2>4
<1>6. Planned(s, profile) = first \o others
  BY DEF Planned, Of
<1> HIDE DEF first, others
<1> QED
  BY <1>4, <1>5, <1>6

LEMMA AddServiceKeeps ==
  ASSUME EInv, NEW w \in Writers, NEW s \in Services, NEW kind \in ServiceKinds,
         NEW ref \in Refs \cup {None, Inline}, NEW rules \in Seq(FileRule),
         AddService(w, s, kind, ref, rules)
  PROVE  EInv'
<1> DEFINE d == [draft[w] EXCEPT !.services[s] = [kind |-> kind, ref |-> ref]]
<1>1. /\ Referable(ref) /\ EditFirst(w, d, rules) /\ pc[w] = "edit"
  BY DEF AddService, EditFirst
<1>2. draft[w] \in Document /\ (~overlapped /\ ~forced => Holds(draft[w], store))
  BY <1>1, WhatWasRead
<1>3. ref \in Refs \cup {None} /\ (ref \in Kept => store[ref] # None)
  BY <1>1 DEF Referable
<1>4. /\ d \in Document /\ d.rules = draft[w].rules
      /\ d.services[s].ref = ref /\ \A t \in Services \ {s} : d.services[t] = draft[w].services[t]
  BY <1>2, <1>3 DEF Document, Service
<1> HIDE DEF d
<1>5. ~overlapped /\ ~forced => Holds(d, store)
  BY <1>2, <1>3, <1>4 DEF Holds, Present
<1> QED
  BY <1>1, <1>4, <1>5, EditKeeps

LEMMA EditUpstreamKeeps ==
  ASSUME EInv, NEW w \in Writers, NEW s \in Services, NEW ref \in Refs \cup {None, Inline},
         EditUpstream(w, s, ref)
  PROVE  EInv'
<1> DEFINE d == [draft[w] EXCEPT !.services[s].ref = ref]
<1>1. /\ Referable(ref) /\ EditFirst(w, d, <<>>) /\ pc[w] = "edit" /\ draft[w].services[s] # None
      /\ <<>> \in Seq(FileRule)
  BY DEF EditUpstream, Edit, EditFirst, OfKind, Present
<1>2. draft[w] \in Document /\ (~overlapped /\ ~forced => Holds(draft[w], store))
  BY <1>1, WhatWasRead
<1>3. ref \in Refs \cup {None} /\ (ref \in Kept => store[ref] # None)
  BY <1>1 DEF Referable
<1>4. draft[w].services[s] \in Service
  BY <1>1, <1>2 DEF Document
<1>5. /\ d \in Document
      /\ d.services[s].ref = ref /\ \A t \in Services \ {s} : d.services[t] = draft[w].services[t]
  BY <1>2, <1>3, <1>4 DEF Document, Service
<1> HIDE DEF d
<1>6. ~overlapped /\ ~forced => Holds(d, store)
  BY <1>2, <1>3, <1>5 DEF Holds, Present
<1> QED
  BY <1>1, <1>5, <1>6, EditKeeps

LEMMA WithRules ==
  ASSUME NEW d \in Document, NEW rules \in Seq(FileRule), NEW to \in Effects
  PROVE  /\ [d EXCEPT !.rules = rules] \in Document
         /\ [d EXCEPT !.rules = rules].services = d.services
         /\ [d EXCEPT !.rules = rules, !.default = to] \in Document
         /\ [d EXCEPT !.rules = rules, !.default = to].services = d.services
BY DEF Document

LEMMA AddRuleKeeps ==
  ASSUME EInv, NEW w \in Writers, NEW rule \in FileRule, AddRule(w, rule)
  PROVE  EInv'
<1> DEFINE d == [draft[w] EXCEPT !.rules = Append(draft[w].rules, rule)]
<1>1. Edit(w, d) /\ pc[w] = "edit"
  BY DEF AddRule, Edit, EditFirst
<1>2. draft[w] \in Document /\ draft[w].rules \in Seq(FileRule)
  BY <1>1, WhatWasRead
<1>3. Append(draft[w].rules, rule) \in Seq(FileRule)
  BY <1>2
<1>4. d \in Document /\ d.services = draft[w].services
  BY <1>2, <1>3, WithRules DEF Effects
<1> HIDE DEF d
<1> QED
  BY <1>1, <1>4, PlainEditKeeps DEF Present

LEMMA ResetAclKeeps ==
  ASSUME EInv, NEW w \in Writers, NEW to \in {"ask", "deny"}, ResetAcl(w, to)
  PROVE  EInv'
<1> DEFINE d == [draft[w] EXCEPT !.rules = <<>>, !.default = to]
<1>1. Edit(w, d) /\ pc[w] = "edit"
  BY DEF ResetAcl, Edit, EditFirst
<1>2. draft[w] \in Document /\ <<>> \in Seq(FileRule) /\ to \in Effects
  BY <1>1, WhatWasRead DEF Effects
<1>3. d \in Document /\ d.services = draft[w].services
  BY <1>2, WithRules
<1> HIDE DEF d
<1> QED
  BY <1>1, <1>3, PlainEditKeeps DEF Present

-----------------------------------------------------------------------------
(* Taking rules out of a list. *)

LEMMA APiece ==
  ASSUME NEW S, NEW q \in Seq(S), NEW a \in Nat, NEW b \in Nat, 1 <= a, a <= b + 1, b <= Len(q)
  PROVE  /\ SubSeq(q, a, b) \in Seq(S) /\ Len(SubSeq(q, a, b)) = b - a + 1
         /\ \A j \in 1..(b - a + 1) : SubSeq(q, a, b)[j] = q[a + j - 1]
OBVIOUS

LEMMA TwoPieces ==
  ASSUME NEW S, NEW q \in Seq(S), NEW r \in Seq(S)
  PROVE  /\ q \o r \in Seq(S) /\ Len(q \o r) = Len(q) + Len(r) /\ Len(q) \in Nat /\ Len(r) \in Nat
         /\ \A j \in 1..(Len(q) + Len(r)) : (q \o r)[j] = IF j <= Len(q) THEN q[j] ELSE r[j - Len(q)]
OBVIOUS

LEMMA RemoveAtIs ==
  ASSUME NEW S, NEW q \in Seq(S), NEW k \in 1..Len(q)
  PROVE  /\ RemoveAt(q, k) \in Seq(S) /\ Len(RemoveAt(q, k)) = Len(q) - 1
         /\ \A j \in 1..(Len(q) - 1) : RemoveAt(q, k)[j] = IF j < k THEN q[j] ELSE q[j + 1]
<1> DEFINE before == SubSeq(q, 1, k - 1)
           after == SubSeq(q, k + 1, Len(q))
           n == Len(q)
<1>1. n \in Nat /\ k \in Nat /\ 1 <= k /\ k <= n
  OBVIOUS
<1>2. before \in Seq(S) /\ Len(before) = k - 1 /\ \A j \in 1..(k - 1) : before[j] = q[j]
  <2>1. k - 1 \in Nat /\ 1 <= k - 1 + 1 /\ k - 1 <= Len(q)
    BY <1>1
  <2>2. /\ SubSeq(q, 1, k - 1) \in Seq(S) /\ Len(SubSeq(q, 1, k - 1)) = (k - 1) - 1 + 1
        /\ \A j \in 1..((k - 1) - 1 + 1) : SubSeq(q, 1, k - 1)[j] = q[1 + j - 1]
    BY <2>1, APiece
  <2> HIDE DEF before
  <2>3. (k - 1) - 1 + 1 = k - 1 /\ \A j \in 1..(k - 1) : 1 + j - 1 = j
    BY <1>1
  <2> QED
    BY <2>2, <2>3 DEF before
<1>3. after \in Seq(S) /\ Len(after) = n - k /\ \A j \in 1..(n - k) : after[j] = q[k + j]
  <2>1. k + 1 \in Nat /\ n \in Nat /\ 1 <= k + 1 /\ k + 1 <= n + 1 /\ n <= Len(q)
    BY <1>1
  <2>2. /\ SubSeq(q, k + 1, n) \in Seq(S) /\ Len(SubSeq(q, k + 1, n)) = n - (k + 1) + 1
        /\ \A j \in 1..(n - (k + 1) + 1) : SubSeq(q, k + 1, n)[j] = q[k + 1 + j - 1]
    BY <2>1, APiece
  <2>4. after = SubSeq(q, k + 1, n)
    OBVIOUS
  <2> HIDE DEF n, after
  <2>3. n - (k + 1) + 1 = n - k /\ \A j \in 1..(n - k) : k + 1 + j - 1 = k + j
    BY <1>1
  <2> QED
    BY <2>2, <2>3, <2>4
<1>4. RemoveAt(q, k) = before \o after
  BY DEF RemoveAt
<1> HIDE DEF before, after, n
<1>5. /\ before \o after \in Seq(S) /\ Len(before \o after) = Len(before) + Len(after)
      /\ \A j \in 1..(Len(before) + Len(after)) :
           (before \o after)[j] = IF j <= Len(before) THEN before[j] ELSE after[j - Len(before)]
  BY <1>2, <1>3, TwoPieces
<1>6. Len(before) + Len(after) = n - 1
  BY <1>1, <1>2, <1>3
<1>7. ASSUME NEW j \in 1..(n - 1) PROVE (before \o after)[j] = IF j < k THEN q[j] ELSE q[j + 1]
  <2>1. CASE j < k
    <3>1. j \in 1..(k - 1) /\ j <= Len(before)
      BY <1>1, <1>2, <2>1
    <3> QED
      BY <1>2, <1>5, <1>6, <2>1, <3>1
  <2>2. CASE ~(j < k)
    <3>1. j - (k - 1) \in 1..(n - k) /\ k + (j - (k - 1)) = j + 1 /\ ~(j <= k - 1)
      BY <1>1, <2>2
    <3>2. (before \o after)[j] = after[j - (k - 1)]
      BY <1>2, <1>5, <1>6, <3>1
    <3> QED
      BY <1>3, <2>2, <3>1, <3>2
  <2> QED
    BY <2>1, <2>2
<1> QED
  BY <1>4, <1>5, <1>6, <1>7 DEF n

LEMMA InsertAtIs ==
  ASSUME NEW S, NEW q \in Seq(S), NEW k \in 1..Len(q), NEW e \in S
  PROVE  InsertAt(q, k, e) \in Seq(S)
BY DEF InsertAt

\* What holds of n, and of k when it holds of k + 1, holds of 0.
LEMMA Descending ==
  ASSUME NEW n \in Nat, NEW T, n \in T, \A k \in 0..(n - 1) : k + 1 \in T => k \in T
  PROVE  0 \in T
<1> DEFINE B == {m \in Nat : m <= n /\ n - m \notin T}
<1>1. SUFFICES ASSUME 0 \notin T PROVE FALSE
  OBVIOUS
<1>2. n \in B
  <2>1. n - n = 0 /\ n <= n
    OBVIOUS
  <2> QED
    BY <1>1, <2>1
<1>3. PICK m \in B : \A x \in B : m <= x
  BY <1>2, FirstIs
<1>4. m \in Nat /\ m <= n /\ n - m \notin T
  BY <1>3
<1>5. m # 0
  <2>1. n - 0 = n
    OBVIOUS
  <2> QED
    BY <1>4, <2>1
<1>6. m - 1 \in Nat /\ m - 1 <= n /\ ~(m <= m - 1)
  BY <1>4, <1>5
<1>7. m - 1 \notin B
  BY <1>3, <1>6
<1>8. n - (m - 1) \in T
  BY <1>6, <1>7
<1>9. n - m \in 0..(n - 1) /\ (n - m) + 1 = n - (m - 1)
  BY <1>4, <1>5
<1> QED
  BY <1>4, <1>8, <1>9

\* What is left of the rules once those after the k-th were dealt with, and where it was.
Through(rules, indices, k) == {p \in 1..Len(rules) : p <= k \/ p \notin indices}
Follows(rules, indices, k, s, from) ==
  /\ from \in [1..Len(s) -> Through(rules, indices, k)]
  /\ \A j \in 1..Len(s) : s[j] = rules[from[j]]
  /\ \A i, j \in 1..Len(s) : i < j => from[i] < from[j]
  /\ \A p \in Through(rules, indices, k) : \E j \in 1..Len(s) : from[j] = p
  /\ k <= Len(s) /\ \A j \in 1..k : from[j] = j
LeftOf(rules, indices, k, s) == s \in Seq(FileRule) /\ \E from : Follows(rules, indices, k, s, from)

LEMMA AllAreLeft ==
  ASSUME NEW rules \in Seq(FileRule), NEW indices
  PROVE  LeftOf(rules, indices, Len(rules), rules)
<1> DEFINE n == Len(rules)
           from == [j \in 1..n |-> j]
<1>1. n \in Nat
  OBVIOUS
<1> HIDE DEF n
<1>2. n = Len(rules)
  BY DEF n
<1>3. Follows(rules, indices, n, rules, from)
  BY <1>1, <1>2 DEF Follows, Through
<1> QED
  BY <1>2, <1>3 DEF LeftOf

LEMMA KeepsOne ==
  ASSUME NEW rules \in Seq(FileRule), NEW indices, NEW k \in Nat, k < Len(rules), k + 1 \notin indices,
         NEW s, LeftOf(rules, indices, k + 1, s)
  PROVE  LeftOf(rules, indices, k, s)
<1>1. Through(rules, indices, k) = Through(rules, indices, k + 1)
  <2>1. \A p \in 1..Len(rules) : p <= k + 1 <=> p <= k \/ p = k + 1
    OBVIOUS
  <2> QED
    BY <2>1 DEF Through
<1>2. s \in Seq(FileRule) /\ Len(s) \in Nat
  BY DEF LeftOf
<1>3. PICK from : Follows(rules, indices, k + 1, s, from)
  BY DEF LeftOf
<1>4. k <= Len(s) /\ \A j \in 1..k : from[j] = j
  BY <1>2, <1>3 DEF Follows
<1>5. Follows(rules, indices, k, s, from)
  BY <1>1, <1>3, <1>4 DEF Follows
<1> QED
  BY <1>2, <1>5 DEF LeftOf

LEMMA DropsOne ==
  ASSUME NEW rules \in Seq(FileRule), NEW indices, NEW k \in Nat, k < Len(rules), k + 1 \in indices,
         NEW s, LeftOf(rules, indices, k + 1, s)
  PROVE  LeftOf(rules, indices, k, RemoveAt(s, k + 1))
<1> DEFINE n == Len(s)
           t == RemoveAt(s, k + 1)
<1>1. s \in Seq(FileRule) /\ n \in Nat
  BY DEF LeftOf
<1>2. PICK from : Follows(rules, indices, k + 1, s, from)
  BY DEF LeftOf
<1> DEFINE next == [j \in 1..(n - 1) |-> IF j < k + 1 THEN from[j] ELSE from[j + 1]]
<1>3. /\ from \in [1..n -> Through(rules, indices, k + 1)]
      /\ \A j \in 1..n : s[j] = rules[from[j]]
      /\ \A i, j \in 1..n : i < j => from[i] < from[j]
      /\ \A p \in Through(rules, indices, k + 1) : \E j \in 1..n : from[j] = p
      /\ k + 1 <= n /\ \A j \in 1..(k + 1) : from[j] = j
  BY <1>2 DEF Follows
<1>4. t \in Seq(FileRule) /\ Len(t) = n - 1
      /\ \A j \in 1..(n - 1) : t[j] = IF j < k + 1 THEN s[j] ELSE s[j + 1]
  <2>1. k + 1 \in 1..Len(s)
    BY <1>1, <1>3
  <2> QED
    BY <1>1, <2>1, RemoveAtIs
<1> HIDE DEF n, t
<1>5. from[k + 1] = k + 1 /\ k + 1 \in 1..n
  BY <1>1, <1>3
<1>6. \A p \in Through(rules, indices, k + 1) : p \in Nat
  BY DEF Through
<1>7. \A j \in 1..(n - 1) : j \in 1..n /\ j + 1 \in 1..n /\ j + 1 \in Nat /\ j \in Nat
  BY <1>1
<1>8. ASSUME NEW j \in 1..(n - 1) PROVE next[j] \in Through(rules, indices, k)
  <2>1. CASE j < k + 1
    <3>1. j \in 1..(k + 1) /\ j <= k
      BY <1>7, <2>1
    <3>2. next[j] = j /\ j \in Through(rules, indices, k + 1)
      BY <1>3, <1>7, <2>1, <3>1
    <3> QED
      BY <3>1, <3>2 DEF Through
  <2>2. CASE ~(j < k + 1)
    <3>1. next[j] = from[j + 1] /\ j + 1 \in 1..n /\ k + 1 < j + 1
      BY <1>7, <2>2
    <3>2. from[j + 1] > k + 1 /\ from[j + 1] \in Through(rules, indices, k + 1)
      BY <1>3, <1>5, <1>6, <3>1
    <3>3. from[j + 1] \in 1..Len(rules) /\ ~(from[j + 1] <= k + 1)
      BY <3>2 DEF Through
    <3> QED
      BY <3>1, <3>2, <3>3 DEF Through
  <2> QED
    BY <2>1, <2>2
<1>9. ASSUME NEW j \in 1..(n - 1) PROVE t[j] = rules[next[j]]
  BY <1>3, <1>4, <1>7
<1>10. ASSUME NEW i \in 1..(n - 1), NEW j \in 1..(n - 1), i < j PROVE next[i] < next[j]
  <2>1. i \in Nat /\ j \in Nat /\ (j < k + 1 => i < k + 1) /\ i < j + 1 /\ i + 1 < j + 1
    BY <1>7, <1>10
  <2> QED
    BY <1>3, <1>7, <1>10, <2>1
<1>11. ASSUME NEW p \in Through(rules, indices, k) PROVE \E j \in 1..(n - 1) : next[j] = p
  <2>1. p \in Through(rules, indices, k + 1) /\ p # k + 1
    BY DEF Through
  <2>2. PICK j \in 1..n : from[j] = p
    BY <1>3, <2>1
  <2>3. j # k + 1
    BY <1>5, <2>1, <2>2
  <2>4. CASE j < k + 1
    <3>1. j \in 1..(n - 1)
      BY <1>1, <1>5, <2>4
    <3> QED
      BY <2>2, <2>4, <3>1
  <2>5. CASE ~(j < k + 1)
    <3>1. j - 1 \in 1..(n - 1) /\ ~(j - 1 < k + 1) /\ (j - 1) + 1 = j
      BY <1>1, <1>5, <2>3, <2>5
    <3> QED
      BY <2>2, <3>1
  <2> QED
    BY <2>4, <2>5
<1>12. k <= n - 1 /\ \A j \in 1..k : next[j] = j
  <2>1. k <= n - 1
    BY <1>1, <1>3
  <2>2. \A j \in 1..k : j \in 1..(n - 1) /\ j < k + 1 /\ j \in 1..(k + 1)
    BY <1>1, <2>1
  <2> QED
    BY <1>3, <2>1, <2>2
<1>13. next \in [1..(n - 1) -> Through(rules, indices, k)]
  BY <1>8
<1> HIDE DEF next
<1>14. Follows(rules, indices, k, t, next)
  BY <1>4, <1>9, <1>10, <1>11, <1>12, <1>13 DEF Follows
<1> QED
  BY <1>4, <1>14 DEF LeftOf, t

\* Removing the rules one by one is a function of how far it has come.
LEMMA PastExists ==
  ASSUME NEW rules, NEW indices, NEW n \in Nat
  PROVE  \E f : f = [k \in 0..n |-> IF k = n THEN rules
                                    ELSE IF k + 1 \in indices THEN RemoveAt(f[k + 1], k + 1) ELSE f[k + 1]]
<1> DEFINE Dealt(g, k) == IF k = n THEN rules
                         ELSE IF k + 1 \in indices THEN RemoveAt(g[k + 1], k + 1) ELSE g[k + 1]
           T == {lo \in 0..n : \E g : g = [k \in lo..n |-> Dealt(g, k)]}
<1>1. n \in T
  <2> DEFINE g == [k \in n..n |-> rules]
  <2>1. \A k \in n..n : Dealt(g, k) = rules
    OBVIOUS
  <2>2. g = [k \in n..n |-> Dealt(g, k)]
    BY <2>1
  <2> HIDE DEF g, Dealt
  <2> QED
    BY <2>2 DEF T
<1>2. ASSUME NEW lo \in 0..(n - 1), lo + 1 \in T PROVE lo \in T
  <2>1. PICK g : g = [k \in (lo + 1)..n |-> Dealt(g, k)]
    BY <1>2
  <2> DEFINE h == [k \in lo..n |-> IF k = lo THEN Dealt(g, lo) ELSE g[k]]
  <2>2. \A k \in lo..n : k # lo => k \in (lo + 1)..n
    OBVIOUS
  <2>3. \A k \in lo..n : k # n => k + 1 \in lo..n /\ k + 1 # lo
    OBVIOUS
  <2>4. \A k \in lo..n : Dealt(h, k) = Dealt(g, k)
    <3>1. \A k \in lo..n : k # n => h[k + 1] = g[k + 1]
      BY <2>3
    <3> HIDE DEF h
    <3> QED
      BY <3>1
  <2>5. \A k \in lo..n : h[k] = Dealt(g, k)
    <3>1. \A k \in (lo + 1)..n : g[k] = Dealt(g, k)
      BY <2>1
    <3> HIDE DEF Dealt
    <3> QED
      BY <2>2, <3>1
  <2>6. h = [k \in lo..n |-> h[k]]
    OBVIOUS
  <2> HIDE DEF h, Dealt
  <2>7. h = [k \in lo..n |-> Dealt(h, k)]
    BY <2>4, <2>5, <2>6
  <2> QED
    BY <1>2, <2>7 DEF T
<1> HIDE DEF T
<1>3. 0 \in T
  BY <1>1, <1>2, Descending
<1> QED
  BY <1>3 DEF T

LEMMA RemoveAllIs ==
  ASSUME NEW rules \in Seq(FileRule), NEW indices
  PROVE  LeftOf(rules, indices, 0, RemoveAll(rules, indices))
<1> DEFINE n == Len(rules)
           IsPast(f) == f = [k \in 0..n |-> IF k = n THEN rules
                                ELSE IF k + 1 \in indices THEN RemoveAt(f[k + 1], k + 1) ELSE f[k + 1]]
           past == CHOOSE f : IsPast(f)
           T == {k \in 0..n : LeftOf(rules, indices, k, past[k])}
<1>1. n \in Nat
  OBVIOUS
<1>2. IsPast(past)
  BY <1>1, PastExists
<1>3. RemoveAll(rules, indices) = past[0]
  BY DEF RemoveAll
<1> HIDE DEF past
<1>4. past[n] = rules
  BY <1>1, <1>2
<1>5. \A k \in 0..(n - 1) : past[k] = IF k + 1 \in indices THEN RemoveAt(past[k + 1], k + 1) ELSE past[k + 1]
  <2>1. \A k \in 0..(n - 1) : k \in 0..n /\ k # n
    BY <1>1
  <2> HIDE DEF n
  <2> QED
    BY <1>2, <2>1
<1>6. n \in T
  BY <1>1, <1>4, AllAreLeft
<1>7. ASSUME NEW k \in 0..(n - 1), k + 1 \in T PROVE k \in T
  <2>1. k \in Nat /\ k < Len(rules) /\ k \in 0..n /\ LeftOf(rules, indices, k + 1, past[k + 1])
    BY <1>1, <1>7
  <2>2. CASE k + 1 \in indices
    BY <1>5, <2>1, <2>2, DropsOne
  <2>3. CASE k + 1 \notin indices
    BY <1>5, <2>1, <2>3, KeepsOne
  <2> QED
    BY <2>2, <2>3
<1> HIDE DEF T
<1>8. 0 \in T
  BY <1>1, <1>6, <1>7, Descending
<1> QED
  BY <1>3, <1>8 DEF T

\* What is left is typed, and the rules at the other positions in their order.
LEMMA WhatIsLeft ==
  ASSUME NEW rules \in Seq(FileRule), NEW indices
  PROVE  /\ RemoveAll(rules, indices) \in Seq(FileRule)
         /\ KeepsInOrder(rules, RemoveAll(rules, indices), DOMAIN rules \ indices)
<1> DEFINE s == RemoveAll(rules, indices)
           others == DOMAIN rules \ indices
<1>1. LeftOf(rules, indices, 0, s)
  BY RemoveAllIs
<1> HIDE DEF s
<1>2. s \in Seq(FileRule) /\ DOMAIN s = 1..Len(s)
  BY <1>1 DEF LeftOf
<1>3. PICK from : Follows(rules, indices, 0, s, from)
  BY <1>1 DEF LeftOf
<1>4. Through(rules, indices, 0) = others
  BY DEF Through
<1> HIDE DEF others
<1>5. /\ from \in [DOMAIN s -> others] /\ \A j \in DOMAIN s : s[j] = rules[from[j]]
      /\ \A i, j \in DOMAIN s : i < j => from[i] < from[j]
      /\ \A p \in others : \E j \in DOMAIN s : from[j] = p
  BY <1>2, <1>3, <1>4 DEF Follows
<1>6. KeepsInOrder(rules, s, others)
  BY <1>5 DEF KeepsInOrder
<1> QED
  BY <1>2, <1>6 DEF s, others

-----------------------------------------------------------------------------
(* Edits that insert or remove. *)

LEMMA InsertRuleKeeps ==
  ASSUME EInv, NEW w \in Writers, NEW k \in 1..(MaxRules + 1), NEW rule \in FileRule, InsertRule(w, k, rule)
  PROVE  EInv'
<1> DEFINE rules == draft[w].rules
           next == IF k > Len(rules) THEN Append(rules, rule) ELSE InsertAt(rules, k, rule)
           d == [draft[w] EXCEPT !.rules = next]
<1>1. Edit(w, d) /\ pc[w] = "edit"
  BY DEF InsertRule, Edit, EditFirst
<1>2. draft[w] \in Document /\ rules \in Seq(FileRule)
  BY <1>1, WhatWasRead
<1>3. next \in Seq(FileRule)
  <2> HIDE DEF rules
  <2>1. Append(rules, rule) \in Seq(FileRule)
    BY <1>2
  <2>2. CASE k > Len(rules)
    BY <2>1, <2>2
  <2>3. CASE ~(k > Len(rules))
    <3>1. k \in 1..Len(rules)
      BY <1>2, <2>3, BoundsAreNat
    <3> QED
      BY <1>2, <2>3, <3>1, InsertAtIs
  <2> QED
    BY <2>2, <2>3
<1> HIDE DEF next
<1>4. d \in Document /\ d.services = draft[w].services
  BY <1>2, <1>3, WithRules DEF Effects
<1> HIDE DEF d
<1> QED
  BY <1>1, <1>4, PlainEditKeeps DEF Present

LEMMA RemoveRuleKeeps ==
  ASSUME EInv, NEW w \in Writers, NEW k, RemoveRule(w, k)
  PROVE  EInv'
<1> DEFINE d == [draft[w] EXCEPT !.rules = RemoveAt(draft[w].rules, k)]
<1>1. Edit(w, d) /\ pc[w] = "edit" /\ k \in DOMAIN draft[w].rules
  BY DEF RemoveRule, Edit, EditFirst
<1>2. draft[w] \in Document /\ draft[w].rules \in Seq(FileRule)
  BY <1>1, WhatWasRead
<1>3. RemoveAt(draft[w].rules, k) \in Seq(FileRule)
  <2>1. k \in 1..Len(draft[w].rules)
    BY <1>1, <1>2, ElementsOf
  <2> QED
    BY <1>2, <2>1, RemoveAtIs
<1>4. d \in Document /\ d.services = draft[w].services
  BY <1>2, <1>3, WithRules DEF Effects
<1> HIDE DEF d
<1> QED
  BY <1>1, <1>4, PlainEditKeeps DEF Present

LEMMA TakeRulesIs ==
  ASSUME NEW d \in Document, NEW indices, NEW prune \in BOOLEAN
  PROVE  /\ TakeRules(d, indices, prune) \in Document
         /\ TakeRules(d, indices, prune).services = d.services
         /\ TakeRules(d, indices, prune).agents = d.agents
         /\ \/ TakeRules(d, indices, prune).rules = d.rules
            \/ KeepsInOrder(d.rules, TakeRules(d, indices, prune).rules, DOMAIN d.rules \ indices)
<1> DEFINE rules == RemoveAll(d.rules, indices)
<1>1. d.rules \in Seq(FileRule)
  BY DEF Document
<1>2. rules \in Seq(FileRule) /\ KeepsInOrder(d.rules, rules, DOMAIN d.rules \ indices)
  BY <1>1, WhatIsLeft
<1>3. TakeRules(d, indices, prune) = IF prune THEN [d EXCEPT !.rules = rules] ELSE d
  BY DEF TakeRules
<1> HIDE DEF rules
<1>4. CASE prune
  <2>1. /\ [d EXCEPT !.rules = rules] \in Document /\ [d EXCEPT !.rules = rules].services = d.services
        /\ [d EXCEPT !.rules = rules].agents = d.agents /\ [d EXCEPT !.rules = rules].rules = rules
    BY <1>2 DEF Document
  <2>2. TakeRules(d, indices, prune) = [d EXCEPT !.rules = rules]
    BY <1>3, <1>4
  <2> QED
    BY <1>2, <2>1, <2>2
<1>5. CASE ~prune
  BY <1>3, <1>5
<1> QED
  BY <1>4, <1>5

\* What the removal of an agent leaves.
AgentGone(d, i, prune) == TakeRules([d EXCEPT !.agents[i] = None], RulesOf(d, i), prune)

IsWithoutAgent(d, i, after) ==
  /\ after \in Document /\ after.services = d.services
  /\ after.agents[i] = None /\ \A j \in Ids \ {i} : after.agents[j] = d.agents[j]
  /\ \/ after.rules = d.rules
     \/ KeepsInOrder(d.rules, after.rules, {k \in DOMAIN d.rules : d.rules[k].agent # i})

LEMMA AgentRemoved ==
  ASSUME NEW d \in Document, NEW i \in Ids, NEW prune \in BOOLEAN
  PROVE  IsWithoutAgent(d, i, AgentGone(d, i, prune))
<1> DEFINE gone == [d EXCEPT !.agents[i] = None]
<1>1. /\ gone \in Document /\ gone.services = d.services /\ gone.rules = d.rules
      /\ gone.agents[i] = None /\ \A j \in Ids \ {i} : gone.agents[j] = d.agents[j]
  BY DEF Document
<1> DEFINE taken == TakeRules(gone, RulesOf(d, i), prune)
           after == AgentGone(d, i, prune)
<1>2. after = taken
  BY DEF AgentGone
<1> HIDE DEF gone
<1>6. /\ taken \in Document /\ taken.services = gone.services /\ taken.agents = gone.agents
      /\ \/ taken.rules = gone.rules
         \/ KeepsInOrder(gone.rules, taken.rules, DOMAIN gone.rules \ RulesOf(d, i))
  BY <1>1, TakeRulesIs, Zenon
<1> HIDE DEF taken, after
<1>3. /\ after \in Document /\ after.services = gone.services /\ after.agents = gone.agents
      /\ \/ after.rules = gone.rules
         \/ KeepsInOrder(gone.rules, after.rules, DOMAIN gone.rules \ RulesOf(d, i))
  BY <1>2, <1>6
<1>4. DOMAIN d.rules \ RulesOf(d, i) = {k \in DOMAIN d.rules : d.rules[k].agent # i}
  BY DEF RulesOf
<1>5. IsWithoutAgent(d, i, after)
  BY <1>1, <1>3, <1>4 DEF IsWithoutAgent
<1> QED
  BY <1>5, Zenon DEF after

LEMMA RemoveAgentKeeps ==
  ASSUME EInv, NEW w \in Writers, NEW i \in Ids, NEW prune \in BOOLEAN, RemoveAgent(w, i, prune)
  PROVE  EInv'
<1> DEFINE d == AgentGone(draft[w], i, prune)
<1>1. Edit(w, d)
  BY DEF RemoveAgent, AgentGone
<1>2. draft[w] \in Document
  BY DEF EInv, TypeOK
<1>3. IsWithoutAgent(draft[w], i, d)
  BY <1>2, AgentRemoved, Zenon
<1> HIDE DEF d
<1>4. d \in Document /\ d.services = draft[w].services
  BY <1>3 DEF IsWithoutAgent
<1> QED
  BY <1>1, <1>4, PlainEditKeeps DEF Present

\* What the removal of a service leaves.
Without(d, s) ==
  [d EXCEPT !.services[s] = None,
            !.agents = [i \in Ids |-> IF i \in {j \in Enrolled(d) : s \in d.agents[j].targets}
                                      THEN [d.agents[i] EXCEPT !.targets = @ \ {s}]
                                      ELSE d.agents[i]]]

LEMMA WithoutIs ==
  ASSUME NEW d \in Document, NEW s \in Services
  PROVE  /\ Without(d, s) \in Document /\ Without(d, s).rules = d.rules
         /\ Without(d, s).services[s] = None
         /\ \A t \in Services \ {s} : Without(d, s).services[t] = d.services[t]
         /\ Enrolled(Without(d, s)) = Enrolled(d)
         /\ \A i \in Enrolled(d) : Without(d, s).agents[i].targets = d.agents[i].targets \ {s}
<1> DEFINE scoped == {j \in Enrolled(d) : s \in d.agents[j].targets}
           agents == [i \in Ids |-> IF i \in scoped THEN [d.agents[i] EXCEPT !.targets = @ \ {s}]
                                    ELSE d.agents[i]]
           services == [d.services EXCEPT ![s] = None]
           g == Without(d, s)
<1>1. /\ g.services = services /\ g.agents = agents /\ g.rules = d.rules /\ g.default = d.default
      /\ g = [d EXCEPT !.services = services, !.agents = agents]
  BY DEF Without, Document
<1>2. \A i \in Ids : i \in Enrolled(d) => d.agents[i] \in Agent
  BY DEF Document, Enrolled
<1>3. ASSUME NEW i \in Enrolled(d)
      PROVE  agents[i] \in Agent /\ agents[i].targets = d.agents[i].targets \ {s}
  <2>1. i \in Ids /\ d.agents[i] \in Agent
    BY <1>2 DEF Enrolled
  <2>2. CASE i \in scoped
    BY <2>1, <2>2 DEF Agent
  <2>3. CASE i \notin scoped
    BY <2>1, <2>3
  <2> QED
    BY <2>2, <2>3
<1>4. \A i \in Ids \ Enrolled(d) : agents[i] = None
  BY DEF Enrolled
<1> HIDE DEF g
<1>5. services \in [Services -> Service \cup {None}]
  BY DEF Document
<1>6. agents \in [Ids -> Agent \cup {None}]
  BY <1>3, <1>4
<1>7. services[s] = None /\ \A t \in Services \ {s} : services[t] = d.services[t]
  BY DEF Document
<1> HIDE DEF services, agents
<1>8. g \in Document
  BY <1>1, <1>5, <1>6 DEF Document
<1>9. Enrolled(g) = Enrolled(d)
  BY <1>1, <1>3, <1>4, NothingIsMistaken DEF Enrolled
<1> QED
  BY <1>1, <1>3, <1>7, <1>8, <1>9 DEF g

ServiceGone(d, s, prune) == TakeRules(Without(d, s), RulesAbout(d, s), prune)

IsWithout(d, s, after) ==
  /\ after \in Document /\ Present(after) = Present(d) \ {s}
  /\ \A t \in Services \ {s} : after.services[t] = d.services[t]
  /\ Enrolled(after) = Enrolled(d)
  /\ \A i \in Enrolled(d) : after.agents[i].targets = d.agents[i].targets \ {s}
  /\ \/ after.rules = d.rules
     \/ KeepsInOrder(d.rules, after.rules, {k \in DOMAIN d.rules : d.rules[k].target # s})

LEMMA ServiceRemoved ==
  ASSUME NEW d \in Document, NEW s \in Services, NEW prune \in BOOLEAN
  PROVE  IsWithout(d, s, ServiceGone(d, s, prune))
<1> DEFINE gone == Without(d, s)
           after == ServiceGone(d, s, prune)
<1>1. /\ gone \in Document /\ gone.rules = d.rules /\ gone.services[s] = None
      /\ \A t \in Services \ {s} : gone.services[t] = d.services[t]
      /\ Enrolled(gone) = Enrolled(d)
      /\ \A i \in Enrolled(d) : gone.agents[i].targets = d.agents[i].targets \ {s}
  BY WithoutIs
<1> HIDE DEF gone
<1>2. /\ after \in Document /\ after.services = gone.services /\ after.agents = gone.agents
      /\ \/ after.rules = gone.rules
         \/ KeepsInOrder(gone.rules, after.rules, DOMAIN gone.rules \ RulesAbout(d, s))
  BY <1>1, TakeRulesIs, Zenon DEF gone, ServiceGone
<1> HIDE DEF after
<1>3. DOMAIN d.rules \ RulesAbout(d, s) = {k \in DOMAIN d.rules : d.rules[k].target # s}
  BY DEF RulesAbout
<1>4. Present(after) = Present(d) \ {s}
  BY <1>1, <1>2 DEF Present
<1>5. Enrolled(after) = Enrolled(gone)
  BY <1>2 DEF Enrolled
<1>6. IsWithout(d, s, after)
  BY <1>1, <1>2, <1>3, <1>4, <1>5 DEF IsWithout
<1> QED
  BY <1>6, Zenon DEF after

LEMMA RemoveServiceIs ==
  ASSUME NEW w \in Writers, NEW s \in Services, NEW kind, NEW prune, RemoveService(w, s, kind, prune)
  PROVE  /\ Edit(w, ServiceGone(draft[w], s, prune))
         /\ s \in Present(draft[w])
         /\ \A i \in Enrolled(draft[w]) : draft[w].agents[i].targets # {s}
<1>1. /\ Edit(w, ServiceGone(draft[w], s, prune))
      /\ s \in Present(draft[w])
  BY DEF RemoveService, ServiceGone, Without, OfKind
<1>2. \/ {i \in Enrolled(draft[w]) : s \in draft[w].agents[i].targets} = {}
      \/ Widened(draft[w], s) = {}
  BY DEF RemoveService
<1> QED
  BY <1>1, <1>2 DEF Widened

LEMMA RemoveServiceKeeps ==
  ASSUME EInv, NEW w \in Writers, NEW s \in Services, NEW kind \in ServiceKinds, NEW prune \in BOOLEAN,
         RemoveService(w, s, kind, prune)
  PROVE  EInv'
<1> DEFINE d == ServiceGone(draft[w], s, prune)
<1>1. Edit(w, d)
  BY RemoveServiceIs
<1>2. draft[w] \in Document
  BY DEF EInv, TypeOK
<1>3. IsWithout(draft[w], s, d)
  BY <1>2, ServiceRemoved, Zenon
<1> HIDE DEF d
<1>4. /\ d \in Document /\ Present(d) = Present(draft[w]) \ {s}
      /\ \A t \in Services \ {s} : d.services[t] = draft[w].services[t]
  BY <1>3 DEF IsWithout
<1> QED
  BY <1>1, <1>4, PlainEditKeeps DEF Present

-----------------------------------------------------------------------------
(* Every step. *)

EditStep(w) == EditAgents(w) \/ EditServices(w) \/ EditRules(w)

WriterStep(w) ==
  \/ BeginEdit(w) \/ Refuse(w) \/ Truncate(w) \/ Write(w) \/ SaveFails(w)
  \/ EditStep(w) \/ AddNextRule(w) \/ ProfileFails(w)
  \/ StoreCommand(w) \/ Import(w) \/ Kill(w)

LEMMA EditStepKeeps == ASSUME EInv, NEW w \in Writers, EditStep(w) PROVE EInv'
<1>1. CASE EditAgents(w)
  BY <1>1, AddAgentKeeps, EditAgentKeeps, RotateAgentKeeps, RemoveAgentKeeps DEF EditAgents
<1>2. CASE EditServices(w)
  <2>1. PICK s \in Services :
          \/ \E ref \in Refs \cup {None, Inline} :
               AddUpstream(w, s, ref) \/ AddMcpServer(w, s, ref) \/ EditUpstream(w, s, ref)
          \/ \E kind \in ServiceKinds, prune \in BOOLEAN : RemoveService(w, s, kind, prune)
          \/ \E profile \in Profiles : AddProfile(w, s, profile)
    BY <1>2 DEF EditServices
  <2>2. <<>> \in Seq(FileRule)
    OBVIOUS
  <2>3. ASSUME NEW ref \in Refs \cup {None, Inline}, AddUpstream(w, s, ref) \/ AddMcpServer(w, s, ref)
        PROVE  EInv'
    BY <2>2, <2>3, AddServiceKeeps DEF AddUpstream, AddMcpServer, ServiceKinds
  <2>4. ASSUME NEW ref \in Refs \cup {None, Inline}, EditUpstream(w, s, ref) PROVE EInv'
    BY <2>4, EditUpstreamKeeps
  <2>5. ASSUME NEW kind \in ServiceKinds, NEW prune \in BOOLEAN, RemoveService(w, s, kind, prune) PROVE EInv'
    BY <2>5, RemoveServiceKeeps
  <2>6. ASSUME NEW profile \in Profiles, AddProfile(w, s, profile) PROVE EInv'
    <3>1. profile \in Profile
      BY WhatIsAskedFor
    <3>2. /\ Planned(s, profile) \in Seq(FileRule) /\ profile.kind \in ServiceKinds
          /\ profile.ref \in Refs \cup {None, Inline}
      BY <3>1, PlannedIs DEF Profile
    <3> QED
      BY <2>6, <3>2, AddServiceKeeps DEF AddProfile
  <2> QED
    BY <2>1, <2>3, <2>4, <2>5, <2>6
<1>3. CASE EditRules(w)
  <2>1. RuleSpecs \subseteq FileRule
    BY WhatIsAskedFor
  <2> QED
    BY <1>3, <2>1, AddRuleKeeps, InsertRuleKeeps, RemoveRuleKeeps, ResetAclKeeps DEF EditRules
<1> QED
  BY <1>1, <1>2, <1>3 DEF EditStep

LEMMA EInvStep == EInv /\ [Next]_vars => EInv'
<1> SUFFICES ASSUME EInv, [Next]_vars PROVE EInv'
  OBVIOUS
<1>1. CASE UNCHANGED vars
  <2>1. UNCHANGED <<file, text, store, temp, pc, draft, hand, moves, left, rest, commands,
                    overlapped, forced, granted, trusted>>
    BY <1>1 DEF vars, files, policyFile, work, history
  <2>2. TypeOK' /\ FileIsValid' /\ OneAtATime'
    BY <2>1 DEF EInv, TypeOK, FileIsValid, Loads, OneAtATime
  <2>3. \A w \in Writers : OfItsOwn(w)'
    BY <2>1 DEF EInv, OfItsOwn
  <2>4. \A d : Holds(d, store)' <=> Holds(d, store)
    BY <2>1 DEF Holds
  <2>5. Holds(file, store)' <=> Holds(file, store)
    BY <2>1 DEF Holds, Present
  <2>6. ASSUME NEW w \in Writers
        PROVE  /\ OfTheFile(w)' <=> OfTheFile(w)
               /\ OfTheStore(w)' <=> OfTheStore(w)
               /\ OfTheProfile(w)' <=> OfTheProfile(w)
    <3>1. Holds(draft[w], store)' <=> Holds(draft[w], store)
      BY <2>1 DEF Holds, Present
    <3>2. Holds(file, hand[w])' <=> Holds(file, hand[w])
      BY <2>1 DEF Holds, Present
    <3>3. (Made(w, store)' <=> Made(w, store)) /\ (Made(w, hand[w])' <=> Made(w, hand[w]))
      BY <2>1 DEF Made
    <3>4. ManagedReferences(file)' = ManagedReferences(file)
      BY <2>1
    <3> QED
      BY <2>1, <3>1, <3>2, <3>3, <3>4 DEF OfTheFile, OfTheStore, OfTheProfile
  <2>7. OneByOne'
    BY <2>1, <2>5, <2>6 DEF EInv, OneByOne
  <2> QED
    BY <2>2, <2>3, <2>7 DEF EInv
<1>2. CASE Next
  <2>1. PICK w \in Writers : WriterStep(w)
    BY <1>2 DEF Next, WriterStep, EditStep
  <2>2. CASE BeginEdit(w) \/ Refuse(w) \/ Truncate(w) \/ Write(w) \/ SaveFails(w)
    BY <2>2, BeginEditKeeps, RefuseKeeps, TruncateKeeps, WriteKeeps, SaveFailsKeeps
  <2>3. CASE EditStep(w)
    BY <2>3, EditStepKeeps
  <2>4. CASE AddNextRule(w) \/ ProfileFails(w) \/ Kill(w)
    BY <2>4, AddNextRuleKeeps, ProfileFailsKeeps, KilledKeeps
  <2>5. CASE StoreCommand(w)
    BY <2>5, SetSecretKeeps, LookForUsesKeeps, ListStoreKeeps, KeepCredentialKeeps, RemoveSecretKeeps,
       NothingToRemoveKeeps, OpenTempKeeps, FillTempKeeps, RenameKeeps, StoreFailsKeeps DEF StoreCommand
  <2>6. CASE Import(w)
    BY <2>6, PlanImportKeeps, StoreMoveKeeps, RepointKeeps DEF Import
  <2> QED
    BY <2>1, <2>2, <2>3, <2>4, <2>5, <2>6 DEF WriterStep
<1> QED
  BY <1>1, <1>2

-----------------------------------------------------------------------------
(* The files an operator's commands leave. *)

LEMMA HalfAProfile ==
  ASSUME NEW rules, NEW whole, Begins(rules, whole), Len(rules) \in Nat, Len(whole) \in Nat,
         DOMAIN rules = 1..Len(rules), DOMAIN whole = 1..Len(whole),
         NEW i, NEW s, NEW c, Allowed(rules, i, s, c)
  PROVE  Allowed(whole, i, s, c)
<1>1. PICK k \in Covering(rules, i, s, c) :
        rules[k].action = "allow" /\ \A j \in Covering(rules, i, s, c) : k <= j
  BY DEF Allowed
<1>2. /\ k \in 1..Len(rules) /\ rules[k].agent \in {i, All} /\ rules[k].target \in {s, All}
      /\ c \in rules[k].calls
  BY <1>1 DEF Covering
<1>3. k \in 1..Len(whole) /\ \A j \in 1..Len(rules) : rules[j] = whole[j]
  BY <1>2 DEF Begins
<1>4. k \in Covering(whole, i, s, c) /\ whole[k].action = "allow"
  BY <1>1, <1>2, <1>3 DEF Covering
<1>5. ASSUME NEW j \in Covering(whole, i, s, c), ~(k <= j) PROVE FALSE
  <2>1. /\ j \in 1..Len(whole) /\ whole[j].agent \in {i, All} /\ whole[j].target \in {s, All}
        /\ c \in whole[j].calls
    BY DEF Covering
  <2>2. j \in 1..Len(rules)
    BY <1>2, <1>5, <2>1
  <2>3. j \in Covering(rules, i, s, c)
    BY <1>3, <2>1, <2>2 DEF Covering
  <2> QED
    BY <1>1, <1>5, <2>3
<1> QED
  BY <1>4, <1>5 DEF Allowed

LEMMA FilesAreWhole == EInv => FilesStayWhole
<1> SUFFICES ASSUME EInv PROVE FilesStayWhole
  OBVIOUS
<1>1. StoreStaysWhole
  BY DEF EInv, OneByOne, StoreStaysWhole
<1>2. ProfilesGrantNoMore
  <2> SUFFICES ASSUME ~overlapped, text # "spoilt", NEW w \in Writers, granted[w] # <<>>,
                      NEW i \in Ids, NEW s \in Services, NEW c \in Calls, Allowed(file.rules, i, s, c)
               PROVE  Allowed(granted[w], i, s, c)
    BY DEF ProfilesGrantNoMore
  <2>1. Begins(file.rules, granted[w])
    BY DEF EInv, OneByOne, OfTheProfile
  <2>2. file.rules \in Seq(FileRule) /\ granted[w] \in Seq(FileRule)
    BY DEF EInv, TypeOK, FileIsValid, Loads, Document
  <2>3. /\ DOMAIN file.rules = 1..Len(file.rules) /\ Len(file.rules) \in Nat
        /\ DOMAIN granted[w] = 1..Len(granted[w]) /\ Len(granted[w]) \in Nat
    BY <2>2, ElementsOf
  <2> QED
    BY <2>1, <2>3, HalfAProfile
<1> QED
  BY <1>1, <1>2 DEF EInv, FilesStayWhole

LEMMA TheInvariant == Spec => []EInv
<1>1. Init => EInv
  BY EInvInit
<1>2. EInv /\ [Next]_vars => EInv'
  BY EInvStep
<1> QED
  BY <1>1, <1>2, PTL DEF Spec

\* However many commands write the two files, are killed or find the disk full, a policy file
\* that one write made loads, and so does one nothing is in yet; the store is one that was
\* written whole; and half a profile allows no call the whole of it would not (save of
\* enroll.rs, Store::write, profiles::add).
THEOREM FilesAlwaysStayWhole == Spec => []FilesStayWhole
BY TheInvariant, FilesAreWhole, PTL

\* The order of every pair of writes, to the store and to the file, leaves no service without
\* the credential it names (set, rm and import of main.rs with the edits of enroll.rs).
THEOREM NothingEverDangles == Spec => []NothingDangling
<1>1. EInv => NothingDangling
  BY DEF EInv, OneByOne, Holds, NothingDangling
<1> QED
  BY <1>1, TheInvariant, PTL

-----------------------------------------------------------------------------
(* What a step of a writer may do. *)

LEMMA EditsStart == ASSUME NEW w \in Writers, EditStep(w) PROVE pc[w] = "edit" /\ Goto(w, "save")
<1>1. ASSUME NEW d, NEW rules, EditFirst(w, d, rules) PROVE pc[w] = "edit" /\ Goto(w, "save")
  BY <1>1 DEF EditFirst, Leave
<1>2. ASSUME NEW d, Edit(w, d) PROVE pc[w] = "edit" /\ Goto(w, "save")
  BY <1>1, <1>2 DEF Edit
<1>3. CASE EditAgents(w)
  BY <1>2, <1>3 DEF EditAgents, AddAgent, EditAgent, RotateAgent, RemoveAgent
<1>4. CASE EditServices(w)
  BY <1>1, <1>2, <1>4 DEF EditServices, AddUpstream, AddMcpServer, AddProfile, AddService, EditUpstream,
     RemoveService
<1>5. CASE EditRules(w)
  BY <1>2, <1>5 DEF EditRules, AddRule, InsertRule, RemoveRule, ResetAcl
<1> QED
  BY <1>3, <1>4, <1>5 DEF EditStep

LEMMA EditsLeave == ASSUME NEW w \in Writers, EditStep(w) PROVE UNCHANGED <<overlapped, trusted>>
<1>1. ASSUME NEW d, NEW rules, EditFirst(w, d, rules) PROVE UNCHANGED <<overlapped, trusted>>
  BY <1>1 DEF EditFirst, Leave
<1>2. ASSUME NEW d, Edit(w, d) PROVE UNCHANGED <<overlapped, trusted>>
  BY <1>1, <1>2 DEF Edit
<1>3. CASE EditAgents(w)
  BY <1>2, <1>3 DEF EditAgents, AddAgent, EditAgent, RotateAgent, RemoveAgent
<1>4. CASE EditServices(w)
  BY <1>1, <1>2, <1>4 DEF EditServices, AddUpstream, AddMcpServer, AddProfile, AddService, EditUpstream,
     RemoveService
<1>5. CASE EditRules(w)
  BY <1>2, <1>5 DEF EditRules, AddRule, InsertRule, RemoveRule, ResetAcl
<1> QED
  BY <1>3, <1>4, <1>5 DEF EditStep

\* Where each step starts and ends.
LEMMA StepsAre ==
  ASSUME NEW w \in Writers, WriterStep(w)
  PROVE  \/ EditStep(w)
         \/ Kill(w) /\ Goto(w, "idle")
         \/ Repoint(w) /\ pc[w] = "import" /\ Goto(w, "save")
         \/ KeepCredential(w) /\ pc[w] = "keep" /\ Goto(w, "temp")
         \/ /\ pc[w] # "keep" /\ \E where : Goto(w, where) /\ (pc[w] \in {"import", "edit"} => where # "save")
<1>1. ASSUME Begin(w) PROVE pc[w] = "idle"
  BY <1>1 DEF Begin, BeginTrusting
<1>2. CASE \/ BeginEdit(w) \/ Refuse(w) \/ Truncate(w) \/ Write(w) \/ SaveFails(w)
           \/ AddNextRule(w) \/ ProfileFails(w)
  BY <1>1, <1>2 DEF BeginEdit, Refuse, Truncate, Write, SaveFails, WritePart, AddNextRule, ProfileFails, Idle, Leave
<1>3. CASE StoreCommand(w)
  <2>1. CASE \/ \E n \in Kept : SetSecret(w, n) \/ \E force \in BOOLEAN : LookForUses(w, n, force)
             \/ \E s \in Services : ListStore(w, s)
    BY <1>1, <2>1 DEF SetSecret, LookForUses, ListStore, HoldStore
  <2>2. CASE KeepCredential(w)
    BY <2>2 DEF KeepCredential, HoldStore
  <2>3. CASE RemoveSecret(w) \/ NothingToRemove(w) \/ OpenTemp(w) \/ FillTemp(w) \/ Rename(w) \/ StoreFails(w)
    BY <2>3 DEF RemoveSecret, NothingToRemove, OpenTemp, FillTemp, Rename, StoreFails, HoldStore, Idle
  <2> QED
    BY <1>3, <2>1, <2>2, <2>3 DEF StoreCommand
<1>4. CASE Import(w)
  <2>1. CASE PlanImport(w)
    BY <2>1 DEF PlanImport, BeginTrusting
  <2>2. CASE \E m \in left[w] : StoreMove(w, m)
    BY <2>2 DEF StoreMove, HoldStore
  <2>3. CASE Repoint(w)
    BY <2>3 DEF Repoint
  <2> QED
    BY <1>4, <2>1, <2>2, <2>3 DEF Import
<1>5. CASE Kill(w)
  BY <1>5 DEF Kill
<1> QED
  BY <1>2, <1>3, <1>4, <1>5 DEF WriterStep

\* A writer goes somewhere by a step of its own.
LEMMA ItsOwnStep ==
  ASSUME EInv, [Next]_vars, NEW w \in Writers, pc'[w] # pc[w]
  PROVE  /\ WriterStep(w)
         /\ pc[w] = "keep" /\ pc'[w] = "temp" => KeepCredential(w)
         /\ pc[w] = "edit" /\ pc'[w] = "save" => EditStep(w)
<1>1. Next
  BY DEF vars
<1>2. PICK x \in Writers : WriterStep(x)
  BY <1>1 DEF Next, WriterStep, EditStep
<1>3. PICK where : Goto(x, where)
  BY <1>2, StepsAre, EditsStart
<1>4. x = w
  BY <1>3 DEF EInv, TypeOK, Goto
<1>5. WriterStep(w)
  BY <1>2, <1>4
<1>6. ASSUME NEW there, Goto(w, there) PROVE pc'[w] = there
  BY <1>6 DEF EInv, TypeOK, Goto
<1>7. EditStep(w) => pc[w] = "edit" /\ pc'[w] = "save"
  BY <1>6, EditsStart
<1> QED
  BY <1>5, <1>6, <1>7, StepsAre

-----------------------------------------------------------------------------
(* Credentials stay. *)

\* What a document's services are called with is what they were when the import began.
Pays(d, kept) ==
  \A s \in Present(d) :
    trusted[s] # None =>
      LET ref == d.services[s].ref IN (IF ref \in Kept THEN kept[ref] ELSE ref) = trusted[s]

\* The import takes none of their names.
Apart(w) ==
  \A s \in Present(file), m \in moves[w] : trusted[s] # None => file.services[s].ref # m[2]

TrustOf(w) ==
  /\ pc[w] \in {"idle", "import", "temp", "fill", "rename", "save", "write", "rule"}
  /\ pc[w] \in {"import", "temp", "fill", "rename"} => Apart(w)
  /\ pc[w] \in {"temp", "fill", "rename"} => Pays(file, hand[w])
  /\ pc[w] \in {"save", "write"} => Pays(draft[w], store)
  /\ pc[w] \in {"import", "temp", "fill", "rename", "save", "rule"} => file # Torn /\ Pays(file, store)

TInv ==
  ~overlapped /\ trusted # Untrusted =>
    /\ \A w \in Writers : TrustOf(w)
    /\ text # "spoilt" => Pays(file, store)

LEMMA TrustTogether ==
  ASSUME NEW w \in Writers,
         ~overlapped' /\ trusted' # Untrusted =>
           /\ TrustOf(w)' /\ (text' # "spoilt" => Pays(file, store)')
           /\ \A x \in Writers \ {w} : pc'[x] = "idle"
  PROVE  TInv'
BY DEF TInv, TrustOf

LEMMA Untrusting == ASSUME trusted' = Untrusted PROVE TInv'
BY DEF TInv

\* What is known when a writer under way takes a step.
LEMMA Trusting ==
  ASSUME EInv, TInv, NEW w \in Writers, pc[w] # "idle", NEW where, Goto(w, where),
         UNCHANGED overlapped, ~overlapped, trusted # Untrusted
  PROVE  /\ pc'[w] = where /\ \A x \in Writers \ {w} : pc'[x] = "idle"
         /\ TrustOf(w) /\ OfTheFile(w) /\ OfTheStore(w) /\ store \in Store
         /\ text # "spoilt" => Pays(file, store)
<1>1. store \in Store
  BY Acting DEF EInv, TypeOK
<1> QED
  BY <1>1, Acting DEF TInv

LEMMA PlanTrusts == ASSUME EInv, NEW w \in Writers, PlanImport(w) PROVE TInv'
<1>1. PICK plan \in Plans(file) : moves' = [moves EXCEPT ![w] = plan] /\ BeginTrusting(w, Outside(plan))
  BY DEF PlanImport
<1>2. Goto(w, "import") /\ file # Torn /\ UNCHANGED <<file, text, store, temp, draft, hand, forced>>
  BY DEF PlanImport, Loads, files, policyFile
<1>3. /\ pc'[w] = "import" /\ trusted' = Outside(plan)
      /\ ~overlapped' => store # Torn /\ \A x \in Writers \ {w} : pc'[x] = "idle"
  BY <1>1, <1>2, Beginning
<1>4. moves'[w] = plan
  BY <1>1 DEF EInv, TypeOK
<1>5. \A s \in Services :
        trusted'[s] # None => /\ file.services[s].ref \notin {m[2] : m \in plan}
                             /\ trusted'[s] = Credential(file, s)
  BY <1>3 DEF Outside
<1>6. Pays(file, store)'
  BY <1>2, <1>5 DEF Pays, Present, Credential
<1>7. Apart(w)'
  BY <1>2, <1>4, <1>5 DEF Apart, Present
<1>8. TrustOf(w)'
  BY <1>2, <1>3, <1>6, <1>7 DEF TrustOf
<1> QED
  BY <1>3, <1>6, <1>8, TrustTogether

LEMMA StoreMoveTrusts == ASSUME EInv, TInv, NEW w \in Writers, NEW m \in left[w], StoreMove(w, m) PROVE TInv'
<1> DEFINE change == [store EXCEPT ![m[2]] = m[1]]
<1>1. /\ pc[w] = "import" /\ Goto(w, "temp") /\ hand' = [hand EXCEPT ![w] = change]
      /\ UNCHANGED <<file, text, store, moves, overlapped, trusted>>
  BY DEF StoreMove, HoldStore, files, policyFile, history
<1>2. SUFFICES ASSUME ~overlapped, trusted # Untrusted
               PROVE  /\ TrustOf(w)' /\ (text' # "spoilt" => Pays(file, store)')
                      /\ \A x \in Writers \ {w} : pc'[x] = "idle"
  BY <1>1, TrustTogether
<1>3. /\ pc'[w] = "temp" /\ \A x \in Writers \ {w} : pc'[x] = "idle"
      /\ file # Torn /\ Pays(file, store) /\ Apart(w) /\ store \in Store
  BY <1>1, <1>2, Trusting DEF TrustOf
<1>4. m \in moves[w]
  BY DEF EInv, TypeOK
<1>5. Pays(file, change)
  BY <1>3, <1>4 DEF Pays, Apart, Store
<1> HIDE DEF change
<1>6. hand'[w] = change
  BY <1>1 DEF EInv, TypeOK
<1>7. Pays(file, store)' /\ Pays(file, hand[w])' /\ Apart(w)'
  BY <1>1, <1>3, <1>5, <1>6 DEF Pays, Apart, Present
<1> QED
  BY <1>1, <1>3, <1>7 DEF TrustOf

LEMMA RepointTrusts == ASSUME EInv, TInv, NEW w \in Writers, Repoint(w) PROVE TInv'
<1> DEFINE r == Repointed(file, moves[w])
<1>1. /\ pc[w] = "import" /\ left[w] = {} /\ Goto(w, "save") /\ draft' = [draft EXCEPT ![w] = r]
      /\ UNCHANGED <<file, text, store, overlapped, trusted>>
  BY DEF Repoint, Stored, files, policyFile, history
<1>2. SUFFICES ASSUME ~overlapped, trusted # Untrusted
               PROVE  /\ TrustOf(w)' /\ (text' # "spoilt" => Pays(file, store)')
                      /\ \A x \in Writers \ {w} : pc'[x] = "idle"
  BY <1>1, TrustTogether
<1>3. /\ pc'[w] = "save" /\ \A x \in Writers \ {w} : pc'[x] = "idle"
      /\ file # Torn /\ Pays(file, store) /\ OfTheStore(w)
  BY <1>1, <1>2, Trusting DEF TrustOf
<1>4. file \in Document
  BY <1>3 DEF EInv, TypeOK
<1>5. OneToOne(moves[w]) /\ \A m \in moves[w] : store[m[2]] = m[1]
  BY <1>1, <1>3 DEF OfTheStore, Made
<1>6. /\ Present(r) \subseteq Present(file)
      /\ \A s \in Present(file) :
           \/ r.services[s].ref = file.services[s].ref
           \/ /\ file.services[s].ref \in Vaulted /\ r.services[s].ref \in Kept
              /\ store[r.services[s].ref] = file.services[s].ref
  BY <1>4, <1>5, RepointedIs
<1> HIDE DEF r
<1>7. Pays(r, store)
  BY <1>3, <1>6, NothingIsMistaken DEF Pays
<1>8. draft'[w] = r
  BY <1>1 DEF EInv, TypeOK
<1>9. Pays(file, store)' /\ Pays(draft[w], store)'
  BY <1>1, <1>3, <1>7, <1>8 DEF Pays, Present
<1> QED
  BY <1>1, <1>3, <1>9 DEF TrustOf

\* The steps of a write of the store.
LEMMA StoreTrusts ==
  ASSUME EInv, TInv, NEW w \in Writers, OpenTemp(w) \/ FillTemp(w) \/ Rename(w) \/ StoreFails(w)
  PROVE  TInv'
<1>1. PICK where : /\ pc[w] \in {"temp", "fill", "rename"} /\ Goto(w, where)
                   /\ where \in {"fill", "rename"} \/ where \in {"import", "idle"}
                   /\ UNCHANGED <<file, text, hand, overlapped, trusted>>
                   /\ where # "idle" => moves' = moves
                   /\ \/ store' = store
                      \/ FillTemp(w)
                      \/ pc[w] = "rename" /\ store' = temp
  <2>1. CASE OpenTemp(w)
    BY <2>1 DEF OpenTemp, Temporary, work, policyFile, history
  <2>2. CASE FillTemp(w)
    BY <2>2 DEF FillTemp, work, policyFile, history
  <2>3. CASE Rename(w)
    BY <2>3 DEF Rename, Temporary, AfterStore, work, policyFile, history
  <2>4. CASE StoreFails(w)
    BY <2>4 DEF StoreFails, Idle, policyFile, history
  <2> QED
    BY <2>1, <2>2, <2>3, <2>4
<1>2. SUFFICES ASSUME ~overlapped, trusted # Untrusted
               PROVE  /\ TrustOf(w)' /\ (text' # "spoilt" => Pays(file, store)')
                      /\ \A x \in Writers \ {w} : pc'[x] = "idle"
  BY <1>1, TrustTogether
<1>3. /\ pc'[w] = where /\ \A x \in Writers \ {w} : pc'[x] = "idle"
      /\ file # Torn /\ Pays(file, store) /\ Pays(file, hand[w]) /\ Apart(w) /\ OfTheStore(w)
  BY <1>1, <1>2, Trusting DEF TrustOf
<1>4. store' \in {store, hand[w]}
  <2>1. CASE FillTemp(w)
    <3>1. pc[w] = "fill" /\ temp = Torn
      BY <1>3, <2>1 DEF FillTemp, OfTheStore
    <3>2. store' = store
      BY <2>1, <3>1, NothingIsMistaken DEF FillTemp
    <3> QED
      BY <3>2
  <2>2. CASE ~FillTemp(w)
    BY <1>1, <1>3, <2>2 DEF OfTheStore
  <2> QED
    BY <2>1, <2>2
<1>5. Pays(file, store)' /\ Pays(file, hand[w])' /\ (where # "idle" => Apart(w)')
  <2>1. Pays(file, hand[w])' /\ (where # "idle" => Apart(w)')
    BY <1>1, <1>3 DEF Pays, Apart, Present
  <2>2. Pays(file, store)'
    BY <1>1, <1>3, <1>4 DEF Pays, Present
  <2> QED
    BY <2>1, <2>2
<1> QED
  BY <1>1, <1>3, <1>5 DEF TrustOf

\* The steps of a write of the policy file.
LEMMA FileTrusts ==
  ASSUME EInv, TInv, NEW w \in Writers, Truncate(w) \/ Write(w) \/ AddNextRule(w)
  PROVE  TInv'
<1>1. PICK where : /\ pc[w] \in {"save", "write", "rule"} /\ Goto(w, where) /\ where \in {"save", "write", "rule", "idle"}
                   /\ UNCHANGED <<store, overlapped, trusted>>
  BY DEF Truncate, Write, AddNextRule, Leave, files, work, history
<1>2. SUFFICES ASSUME ~overlapped, trusted # Untrusted
               PROVE  /\ TrustOf(w)' /\ (text' # "spoilt" => Pays(file, store)')
                      /\ \A x \in Writers \ {w} : pc'[x] = "idle"
  BY <1>1, TrustTogether
<1>3. /\ pc'[w] = where /\ \A x \in Writers \ {w} : pc'[x] = "idle"
      /\ TrustOf(w) /\ OfTheFile(w)
  BY <1>1, <1>2, Trusting
<1>4. draft[w] \in Document /\ draft[w] # Torn
  BY NothingIsMistaken DEF EInv, TypeOK
<1>5. CASE Truncate(w)
  <2>1. pc[w] = "save" /\ file' = Empty /\ draft' = draft /\ Goto(w, "write")
    BY <1>5 DEF Truncate, work
  <2>2. pc'[w] = "write"
    BY <2>1 DEF EInv, TypeOK, Goto
  <2>3. Pays(draft[w], store)
    BY <1>3, <2>1 DEF TrustOf
  <2>4. Pays(file, store)' /\ Pays(draft[w], store)'
    BY <1>1, <2>1, <2>3, EmptyIs DEF Pays, Present
  <2> QED
    BY <1>3, <2>2, <2>4 DEF TrustOf
<1>6. CASE Write(w)
  <2>1. pc[w] = "write" /\ text = "none"
    BY <1>3, <1>6 DEF Write, OfTheFile
  <2>2. file' = draft[w] /\ (Goto(w, "idle") \/ Goto(w, "rule"))
    BY <1>6, <2>1 DEF Write
  <2>3. pc'[w] \in {"idle", "rule"}
    BY <2>2 DEF EInv, TypeOK, Goto
  <2>4. Pays(draft[w], store)
    BY <1>3, <2>1 DEF TrustOf
  <2>5. Pays(file, store)' /\ file' # Torn
    BY <1>1, <1>4, <2>2, <2>4 DEF Pays, Present
  <2> QED
    BY <1>3, <2>3, <2>5 DEF TrustOf
<1>7. CASE AddNextRule(w)
  <2> DEFINE d == [file EXCEPT !.rules = Append(@, NextOf(rest[w]))]
  <2>1. /\ pc[w] = "rule" /\ file' = file /\ text' = text /\ draft' = [draft EXCEPT ![w] = d] /\ Goto(w, "save")
    BY <1>7 DEF AddNextRule, Leave, files, policyFile
  <2>2. pc'[w] = "save" /\ draft'[w] = d
    BY <2>1 DEF EInv, TypeOK, Goto
  <2>3. file # Torn /\ Pays(file, store)
    BY <1>3, <2>1 DEF TrustOf
  <2>4. file \in Document
    BY <2>3 DEF EInv, TypeOK
  <2>5. d.services = file.services
    BY <2>4 DEF Document
  <2> HIDE DEF d
  <2>6. Pays(file, store)' /\ Pays(draft[w], store)'
    BY <1>1, <2>1, <2>2, <2>3, <2>5 DEF Pays, Present
  <2> QED
    BY <1>3, <2>1, <2>2, <2>3, <2>6 DEF TrustOf
<1> QED
  BY <1>5, <1>6, <1>7

\* A command ends, in whatever way.
LEMMA EndTrusts ==
  ASSUME EInv, TInv, NEW w \in Writers, pc[w] # "idle", Goto(w, "idle"),
         UNCHANGED <<store, overlapped, trusted>>, UNCHANGED policyFile \/ WritePart(w)
  PROVE  TInv'
<1>1. SUFFICES ASSUME ~overlapped, trusted # Untrusted
               PROVE  /\ TrustOf(w)' /\ (text' # "spoilt" => Pays(file, store)')
                      /\ \A x \in Writers \ {w} : pc'[x] = "idle"
  BY TrustTogether
<1>2. /\ pc'[w] = "idle" /\ \A x \in Writers \ {w} : pc'[x] = "idle"
      /\ text # "spoilt" => Pays(file, store)
  BY <1>1, Trusting
<1>3. text' # "spoilt" => file' = file /\ text' = text
  BY DEF WritePart, policyFile
<1>4. text' # "spoilt" => Pays(file, store)'
  BY <1>2, <1>3 DEF Pays, Present
<1> QED
  BY <1>2, <1>4 DEF TrustOf

\* The steps of commands that are no import.
LEMMA OthersTrust ==
  ASSUME EInv, TInv, NEW w \in Writers, pc[w] \in {"edit", "keep", "remove"},
         UNCHANGED <<overlapped, trusted>>, NEW where, Goto(w, where)
  PROVE  TInv'
<1>1. SUFFICES ASSUME ~overlapped, trusted # Untrusted PROVE FALSE
  BY DEF TInv
<1> QED
  BY <1>1, Trusting DEF TrustOf

LEMMA TInvStep == EInv /\ TInv /\ [Next]_vars => TInv'
<1> SUFFICES ASSUME EInv, TInv, [Next]_vars PROVE TInv'
  OBVIOUS
<1>1. CASE UNCHANGED vars
  <2>1. UNCHANGED <<file, text, store, pc, draft, hand, moves, overlapped, trusted>>
    BY <1>1 DEF vars, files, policyFile, work, history
  <2>2. Pays(file, store)' <=> Pays(file, store)
    BY <2>1 DEF Pays, Present
  <2>3. ASSUME NEW w \in Writers PROVE TrustOf(w)' <=> TrustOf(w)
    <3>1. /\ Pays(file, hand[w])' <=> Pays(file, hand[w])
          /\ Pays(draft[w], store)' <=> Pays(draft[w], store)
          /\ Apart(w)' <=> Apart(w)
      BY <2>1 DEF Pays, Apart, Present
    <3> QED
      BY <2>1, <2>2, <3>1 DEF TrustOf
  <2> QED
    BY <2>1, <2>2, <2>3 DEF TInv
<1>2. CASE Next
  <2>1. PICK w \in Writers : WriterStep(w)
    BY <1>2 DEF Next, WriterStep, EditStep
  <2>2. ASSUME Begin(w) PROVE TInv'
    BY <2>2, Untrusting DEF Begin, BeginTrusting
  <2>3. CASE BeginEdit(w)
    BY <2>2, <2>3 DEF BeginEdit
  <2>4. CASE Refuse(w)
    BY <2>4, OthersTrust DEF Refuse, Idle, history
  <2>5. CASE Truncate(w) \/ Write(w) \/ AddNextRule(w)
    BY <2>5, FileTrusts
  <2>6. CASE SaveFails(w)
    BY <2>6, EndTrusts DEF SaveFails, WritePart, Idle, history
  <2>7. CASE EditStep(w)
    <3>1. pc[w] = "edit" /\ Goto(w, "save")
      BY <2>7, EditsStart
    <3>2. UNCHANGED <<overlapped, trusted>>
      BY <2>7, EditsLeave
    <3> QED
      BY <3>1, <3>2, OthersTrust
  <2>8. CASE ProfileFails(w)
    BY <2>8, EndTrusts DEF ProfileFails, Idle, files, history
  <2>9. CASE Kill(w)
    BY <2>9, EndTrusts DEF Kill
  <2>10. CASE StoreCommand(w)
    <3>1. CASE \/ \E n \in Kept : SetSecret(w, n) \/ \E force \in BOOLEAN : LookForUses(w, n, force)
               \/ \E s \in Services : ListStore(w, s)
      BY <2>2, <3>1 DEF SetSecret, LookForUses, ListStore
    <3>2. CASE KeepCredential(w) \/ RemoveSecret(w)
      BY <3>2, OthersTrust DEF KeepCredential, RemoveSecret, HoldStore, history
    <3>3. CASE NothingToRemove(w)
      BY <3>3, OthersTrust DEF NothingToRemove, Idle, history
    <3>4. CASE OpenTemp(w) \/ FillTemp(w) \/ Rename(w) \/ StoreFails(w)
      BY <3>4, StoreTrusts
    <3> QED
      BY <2>10, <3>1, <3>2, <3>3, <3>4 DEF StoreCommand
  <2>11. CASE Import(w)
    BY <2>11, PlanTrusts, StoreMoveTrusts, RepointTrusts DEF Import
  <2> QED
    BY <2>1, <2>3, <2>4, <2>5, <2>6, <2>7, <2>8, <2>9, <2>10, <2>11 DEF WriterStep
<1> QED
  BY <1>1, <1>2

LEMMA ImportKeeps == EInv /\ TInv => ImportKeepsTheCredentials
<1> SUFFICES ASSUME EInv, TInv, ~overlapped, text # "spoilt", NEW s \in Present(file), trusted[s] # None
             PROVE  store # Torn /\ Credential(file, s) = trusted[s]
  BY DEF ImportKeepsTheCredentials
<1>1. store # Torn
  BY DEF EInv, OneByOne
<1>2. s \in Services
  BY DEF Present
<1>3. trusted # Untrusted
  BY <1>2 DEF Untrusted
<1>4. Pays(file, store)
  BY <1>3 DEF TInv
<1> QED
  BY <1>1, <1>4 DEF Pays, Credential

LEMMA KeepingKeeps ==
  ASSUME EInv, NEW w \in Writers, KeepCredential(w), ~overlapped, NEW n \in Kept, store[n] # None
  PROVE  hand'[w][n] = store[n]
<1>1. PICK m \in moves[w] : hand' = [hand EXCEPT ![w] = [store EXCEPT ![m[2]] = Typed]]
  BY DEF KeepCredential, HoldStore
<1>2. pc[w] = "keep" /\ store # Torn
  BY DEF KeepCredential
<1>3. store \in Store
  BY <1>2 DEF EInv, TypeOK
<1>4. PICK k \in Kept : moves[w] = {<<Typed, k>>} /\ store[k] = None
  BY <1>2 DEF EInv, OneByOne, OfTheStore
<1>5. m[2] = k
  BY <1>4
<1>6. hand'[w] = [store EXCEPT ![k] = Typed]
  BY <1>1, <1>5 DEF EInv, TypeOK
<1> QED
  BY <1>3, <1>4, <1>6 DEF Store

\* Wherever an import is stopped, no service it does not take the name of is called with another
\* credential than before; a name the console chose is nobody's (import_secrets,
\* repoint_references and store_name).
THEOREM CredentialsAlwaysStay == Spec => CredentialsStay
<1>1. Init => TInv
  BY DEF Init, TInv
<1>2. EInv /\ TInv /\ [Next]_vars => TInv'
  BY TInvStep
<1>3. EInv /\ TInv => ImportKeepsTheCredentials
  BY ImportKeeps
<1>4. EInv /\ [Next]_vars =>
        [\A w \in Writers :
           pc[w] = "keep" /\ pc'[w] = "temp" /\ ~overlapped =>
             \A n \in Kept : store[n] # None => hand'[w][n] = store[n]]_vars
  BY ItsOwnStep, KeepingKeeps
<1> QED
  BY <1>1, <1>2, <1>3, <1>4, TheInvariant, PTL DEF Spec, CredentialsStay, KeptNamesAreFree

-----------------------------------------------------------------------------
(* Removals. *)

\* The rest of an edit removes nothing.
LEMMA NothingIsRemoved ==
  ASSUME EInv, NEW w \in Writers, NEW d, Edit(w, d) \/ \E rules : EditFirst(w, d, rules),
         Present(draft[w]) \subseteq Present(d), Enrolled(draft[w]) \subseteq Enrolled(d)
  PROVE  RemovedServices(w) \cup RemovedAgents(w) = {}
<1>1. draft'[w] = d
  BY DEF Edit, EditFirst, Leave, EInv, TypeOK
<1> QED
  BY <1>1 DEF RemovedServices, RemovedAgents, Present, Enrolled

TakesItsOwn(w) ==
  LET before == draft[w] after == draft'[w] IN
  /\ \/ after.rules = before.rules
     \/ KeepsInOrder(before.rules, after.rules,
                     {k \in DOMAIN before.rules : ~NamesRemoved(before.rules[k], w)})
  /\ \A i \in Enrolled(after) :
       /\ after.agents[i].targets = before.agents[i].targets \ RemovedServices(w)
       /\ after.agents[i].targets = {} => before.agents[i].targets = {}

LEMMA RemovingAnAgent ==
  ASSUME EInv, NEW w \in Writers, NEW i \in Ids, NEW prune \in BOOLEAN, RemoveAgent(w, i, prune)
  PROVE  TakesItsOwn(w)
<1> DEFINE d == AgentGone(draft[w], i, prune)
<1>1. Edit(w, d) /\ i \in Enrolled(draft[w])
  BY DEF RemoveAgent, AgentGone
<1>2. draft[w] \in Document
  BY DEF EInv, TypeOK
<1>3. IsWithoutAgent(draft[w], i, d)
  BY <1>2, AgentRemoved, Zenon
<1> HIDE DEF d
<1>4. draft'[w] = d
  BY <1>1 DEF Edit, EditFirst, Leave, EInv, TypeOK
<1>5. RemovedServices(w) = {} /\ RemovedAgents(w) = {i}
  BY <1>1, <1>3, <1>4 DEF IsWithoutAgent, RemovedServices, RemovedAgents, Present, Enrolled
<1>6. {k \in DOMAIN draft[w].rules : ~NamesRemoved(draft[w].rules[k], w)}
        = {k \in DOMAIN draft[w].rules : draft[w].rules[k].agent # i}
  BY <1>5 DEF NamesRemoved
<1>7. \A j \in Enrolled(d) : j # i /\ d.agents[j] = draft[w].agents[j]
  BY <1>3 DEF IsWithoutAgent, Enrolled
<1> QED
  BY <1>3, <1>4, <1>5, <1>6, <1>7 DEF IsWithoutAgent, TakesItsOwn

LEMMA RemovingAService ==
  ASSUME EInv, NEW w \in Writers, NEW s \in Services, NEW kind \in ServiceKinds, NEW prune \in BOOLEAN,
         RemoveService(w, s, kind, prune)
  PROVE  TakesItsOwn(w)
<1> DEFINE d == ServiceGone(draft[w], s, prune)
<1>1. Edit(w, d) /\ s \in Present(draft[w]) /\ \A i \in Enrolled(draft[w]) : draft[w].agents[i].targets # {s}
  BY RemoveServiceIs
<1>2. draft[w] \in Document
  BY DEF EInv, TypeOK
<1>3. IsWithout(draft[w], s, d)
  BY <1>2, ServiceRemoved, Zenon
<1> HIDE DEF d
<1>4. draft'[w] = d
  BY <1>1 DEF Edit, EditFirst, Leave, EInv, TypeOK
<1>5. /\ Present(d) = Present(draft[w]) \ {s} /\ Enrolled(d) = Enrolled(draft[w])
      /\ \A i \in Enrolled(draft[w]) : d.agents[i].targets = draft[w].agents[i].targets \ {s}
  BY <1>3 DEF IsWithout
<1>6. Present(draft'[w]) = Present(d) /\ Enrolled(draft'[w]) = Enrolled(d)
  BY <1>4 DEF Present, Enrolled
<1>7. RemovedServices(w) = {s} /\ RemovedAgents(w) = {}
  BY <1>1, <1>5, <1>6 DEF RemovedServices, RemovedAgents
<1>8. {k \in DOMAIN draft[w].rules : ~NamesRemoved(draft[w].rules[k], w)}
        = {k \in DOMAIN draft[w].rules : draft[w].rules[k].target # s}
  BY <1>7 DEF NamesRemoved
<1>9. \/ d.rules = draft[w].rules
      \/ KeepsInOrder(draft[w].rules, d.rules,
                      {k \in DOMAIN draft[w].rules : ~NamesRemoved(draft[w].rules[k], w)})
  BY <1>3, <1>8 DEF IsWithout
<1>10. ASSUME NEW i \in Enrolled(d)
       PROVE  /\ d.agents[i].targets = draft[w].agents[i].targets \ RemovedServices(w)
              /\ d.agents[i].targets = {} => draft[w].agents[i].targets = {}
  BY <1>1, <1>5, <1>7
<1> QED
  BY <1>4, <1>6, <1>9, <1>10 DEF TakesItsOwn

LEMMA EditsTakeTheirOwn ==
  ASSUME EInv, NEW w \in Writers, EditStep(w), RemovedServices(w) \cup RemovedAgents(w) # {}
  PROVE  TakesItsOwn(w)
<1>1. draft[w] \in Document
  BY DEF EInv, TypeOK
<1>2. CASE EditAgents(w)
  <2>1. ASSUME NEW i \in Ids, NEW targets \in SUBSET Services, AddAgent(w, i, targets) PROVE FALSE
    <3> DEFINE d == [draft[w] EXCEPT !.agents[i] = [targets |-> targets, token |-> "hash"]]
    <3>1. Edit(w, d)
      BY <2>1 DEF AddAgent
    <3>2. Present(draft[w]) \subseteq Present(d) /\ Enrolled(draft[w]) \subseteq Enrolled(d)
      BY <1>1, NothingIsMistaken DEF Present, Enrolled, Document, Agent
    <3> QED
      BY <3>1, <3>2, NothingIsRemoved
  <2>2. ASSUME NEW i \in Ids, NEW targets \in SUBSET Services, EditAgent(w, i, targets) PROVE FALSE
    <3> DEFINE d == [draft[w] EXCEPT !.agents[i].targets = targets]
    <3>1. Edit(w, d) /\ draft[w].agents[i] # None
      BY <2>2 DEF EditAgent, Enrolled
    <3>2. draft[w].agents[i] \in Agent
      BY <1>1, <3>1 DEF Document
    <3>3. Present(draft[w]) \subseteq Present(d) /\ Enrolled(draft[w]) \subseteq Enrolled(d)
      BY <1>1, <3>2, NothingIsMistaken DEF Present, Enrolled, Document, Agent
    <3> QED
      BY <3>1, <3>3, NothingIsRemoved
  <2>3. ASSUME NEW i \in Ids, RotateAgent(w, i) PROVE FALSE
    <3> DEFINE d == [draft[w] EXCEPT !.agents[i].token = "rehashed"]
    <3>1. Edit(w, d) /\ draft[w].agents[i] # None
      BY <2>3 DEF RotateAgent, Enrolled
    <3>2. draft[w].agents[i] \in Agent
      BY <1>1, <3>1 DEF Document
    <3>3. Present(draft[w]) \subseteq Present(d) /\ Enrolled(draft[w]) \subseteq Enrolled(d)
      BY <1>1, <3>2, NothingIsMistaken DEF Present, Enrolled, Document, Agent
    <3> QED
      BY <3>1, <3>3, NothingIsRemoved
  <2> QED
    BY <1>2, <2>1, <2>2, <2>3, RemovingAnAgent DEF EditAgents
<1>3. CASE EditServices(w)
  <2>1. ASSUME NEW s \in Services, NEW kind \in ServiceKinds, NEW ref \in Refs \cup {None, Inline},
               NEW rules, AddService(w, s, kind, ref, rules)
        PROVE  FALSE
    <3> DEFINE d == [draft[w] EXCEPT !.services[s] = [kind |-> kind, ref |-> ref]]
    <3>1. EditFirst(w, d, rules) /\ ref \in Refs \cup {None}
      BY <2>1 DEF AddService, Referable
    <3>2. [kind |-> kind, ref |-> ref] \in Service
      BY <3>1 DEF Service
    <3>3. Present(draft[w]) \subseteq Present(d) /\ Enrolled(draft[w]) \subseteq Enrolled(d)
      BY <1>1, <3>2, NothingIsMistaken DEF Present, Enrolled, Document
    <3> QED
      BY <3>1, <3>3, NothingIsRemoved
  <2>2. ASSUME NEW s \in Services, NEW ref \in Refs \cup {None, Inline}, EditUpstream(w, s, ref) PROVE FALSE
    <3> DEFINE d == [draft[w] EXCEPT !.services[s].ref = ref]
    <3>1. Edit(w, d) /\ draft[w].services[s] # None /\ ref \in Refs \cup {None}
      BY <2>2 DEF EditUpstream, OfKind, Present, Referable
    <3>2. draft[w].services[s] \in Service
      BY <1>1, <3>1 DEF Document
    <3>3. Present(draft[w]) \subseteq Present(d) /\ Enrolled(draft[w]) \subseteq Enrolled(d)
      BY <1>1, <3>1, <3>2, NothingIsMistaken DEF Present, Enrolled, Document, Service
    <3> QED
      BY <3>1, <3>3, NothingIsRemoved
  <2>3. PICK s \in Services :
          \/ \E ref \in Refs \cup {None, Inline} :
               AddUpstream(w, s, ref) \/ AddMcpServer(w, s, ref) \/ EditUpstream(w, s, ref)
          \/ \E kind \in ServiceKinds, prune \in BOOLEAN : RemoveService(w, s, kind, prune)
          \/ \E profile \in Profiles : AddProfile(w, s, profile)
    BY <1>3 DEF EditServices
  <2>4. ASSUME NEW profile \in Profiles, AddProfile(w, s, profile) PROVE FALSE
    <3>1. profile.kind \in ServiceKinds /\ profile.ref \in Refs \cup {None, Inline}
      BY WhatIsAskedFor DEF Profile
    <3> QED
      BY <2>1, <2>4, <3>1 DEF AddProfile
  <2>5. ASSUME NEW ref \in Refs \cup {None, Inline}, AddUpstream(w, s, ref) \/ AddMcpServer(w, s, ref)
        PROVE  FALSE
    BY <2>1, <2>5 DEF AddUpstream, AddMcpServer, ServiceKinds
  <2> QED
    BY <2>2, <2>3, <2>4, <2>5, RemovingAService
<1>4. CASE EditRules(w)
  <2>1. PICK d : Edit(w, d) /\ d.services = draft[w].services /\ d.agents = draft[w].agents
    <3>1. ASSUME NEW rules PROVE LET d == [draft[w] EXCEPT !.rules = rules] IN
                                   d.services = draft[w].services /\ d.agents = draft[w].agents
      BY <1>1 DEF Document
    <3>2. ASSUME NEW to PROVE LET d == [draft[w] EXCEPT !.rules = <<>>, !.default = to] IN
                                d.services = draft[w].services /\ d.agents = draft[w].agents
      BY <1>1 DEF Document
    <3> QED
      BY <1>4, <3>1, <3>2 DEF EditRules, AddRule, InsertRule, RemoveRule, ResetAcl
  <2>2. Present(draft[w]) \subseteq Present(d) /\ Enrolled(draft[w]) \subseteq Enrolled(d)
    BY <2>1 DEF Present, Enrolled
  <2> QED
    BY <2>1, <2>2, NothingIsRemoved
<1> QED
  BY <1>2, <1>3, <1>4 DEF EditStep

\* A removal takes the rules that name what is removed or none, leaves the others in their
\* order, and no agent that stays gets more targets (remove_service and take_rules).
THEOREM PruneAlwaysTakesItsOwn == Spec => PruneTakesItsOwn
<1>1. EInv /\ [Next]_vars =>
        [\A w \in Writers :
           Edits(w) /\ RemovedServices(w) \cup RemovedAgents(w) # {} =>
             LET before == draft[w] after == draft'[w] IN
             /\ \/ after.rules = before.rules
                \/ KeepsInOrder(before.rules, after.rules,
                                {k \in DOMAIN before.rules : ~NamesRemoved(before.rules[k], w)})
             /\ \A i \in Enrolled(after) :
                  /\ after.agents[i].targets = before.agents[i].targets \ RemovedServices(w)
                  /\ after.agents[i].targets = {} => before.agents[i].targets = {}]_vars
  <2> SUFFICES ASSUME EInv, [Next]_vars, NEW w \in Writers, Edits(w),
                      RemovedServices(w) \cup RemovedAgents(w) # {}
               PROVE  TakesItsOwn(w)
    BY DEF TakesItsOwn
  <2>1. EditStep(w)
    BY ItsOwnStep DEF Edits
  <2> QED
    BY <2>1, EditsTakeTheirOwn
<1> QED
  BY <1>1, TheInvariant, PTL DEF Spec, PruneTakesItsOwn

-----------------------------------------------------------------------------
(* Console: sequences by their positions. *)

LEMMA AppendedIs ==
  ASSUME NEW S, NEW q \in Seq(S), NEW x \in S
  PROVE  /\ Append(q, x) \in Seq(S) /\ Len(q) \in Nat /\ Len(Append(q, x)) = Len(q) + 1
         /\ DOMAIN q = 1..Len(q) /\ DOMAIN Append(q, x) = 1..(Len(q) + 1)
         /\ \A i \in 1..Len(q) : Append(q, x)[i] = q[i]
         /\ Append(q, x)[Len(q) + 1] = x
OBVIOUS

LEMMA TailIs ==
  ASSUME NEW S, NEW q \in Seq(S), q # <<>>
  PROVE  /\ Tail(q) \in Seq(S) /\ Len(q) \in Nat /\ Len(q) > 0 /\ Len(Tail(q)) = Len(q) - 1
         /\ DOMAIN q = 1..Len(q) /\ DOMAIN Tail(q) = 1..(Len(q) - 1)
         /\ \A i \in 1..(Len(q) - 1) : Tail(q)[i] = q[i + 1]
         /\ Head(q) = q[1] /\ Head(q) \in S /\ 1 \in DOMAIN q
OBVIOUS

\* What is put in stands where it was put, and what was there from that place on is one further.
LEMMA PutIn ==
  ASSUME NEW S, NEW q \in Seq(S), NEW e \in S, NEW k \in 1..Len(q)
  PROVE  /\ InsertAt(q, k, e) \in Seq(S) /\ Len(InsertAt(q, k, e)) = Len(q) + 1
         /\ \A j \in 1..(Len(q) + 1) :
              InsertAt(q, k, e)[j] = IF j < k THEN q[j] ELSE IF j = k THEN e ELSE q[j - 1]
<1> DEFINE before == SubSeq(q, 1, k - 1)
           after == SubSeq(q, k, Len(q))
           both == before \o <<e>>
           n == Len(q)
<1>1. n \in Nat /\ k \in Nat /\ 1 <= k /\ k <= n
  OBVIOUS
<1>2. before \in Seq(S) /\ Len(before) = k - 1 /\ \A j \in 1..(k - 1) : before[j] = q[j]
  <2>1. k - 1 \in Nat /\ 1 <= k - 1 + 1 /\ k - 1 <= Len(q)
    BY <1>1
  <2>2. /\ SubSeq(q, 1, k - 1) \in Seq(S) /\ Len(SubSeq(q, 1, k - 1)) = (k - 1) - 1 + 1
        /\ \A j \in 1..((k - 1) - 1 + 1) : SubSeq(q, 1, k - 1)[j] = q[1 + j - 1]
    BY <2>1, APiece
  <2> HIDE DEF before
  <2>3. (k - 1) - 1 + 1 = k - 1 /\ \A j \in 1..(k - 1) : 1 + j - 1 = j
    BY <1>1
  <2> QED
    BY <2>2, <2>3 DEF before
<1>3. after \in Seq(S) /\ Len(after) = n - k + 1 /\ \A j \in 1..(n - k + 1) : after[j] = q[k + j - 1]
  BY <1>1, APiece
<1>4. <<e>> \in Seq(S) /\ Len(<<e>>) = 1 /\ <<e>>[1] = e
  OBVIOUS
<1>5. InsertAt(q, k, e) = both \o after
  BY DEF InsertAt
<1> HIDE DEF before, after, n
<1>6. /\ both \in Seq(S) /\ Len(both) = k
      /\ \A j \in 1..k : both[j] = IF j <= k - 1 THEN before[j] ELSE <<e>>[j - (k - 1)]
  <2>1. /\ both \in Seq(S) /\ Len(both) = Len(before) + Len(<<e>>)
        /\ \A j \in 1..(Len(before) + Len(<<e>>)) :
             both[j] = IF j <= Len(before) THEN before[j] ELSE <<e>>[j - Len(before)]
    BY <1>2, <1>4, TwoPieces
  <2>2. Len(before) + Len(<<e>>) = k
    BY <1>1, <1>2, <1>4
  <2> QED
    BY <1>2, <2>1, <2>2
<1> HIDE DEF both
<1>7. /\ both \o after \in Seq(S) /\ Len(both \o after) = n + 1
      /\ \A j \in 1..(n + 1) : (both \o after)[j] = IF j <= k THEN both[j] ELSE after[j - k]
  <2>1. /\ both \o after \in Seq(S) /\ Len(both \o after) = Len(both) + Len(after)
        /\ \A j \in 1..(Len(both) + Len(after)) :
             (both \o after)[j] = IF j <= Len(both) THEN both[j] ELSE after[j - Len(both)]
    BY <1>3, <1>6, TwoPieces
  <2>3. k + (n - k + 1) = n + 1
    BY <1>1
  <2>2. Len(both) + Len(after) = n + 1
    BY <1>3, <1>6, <2>3
  <2> QED
    BY <1>6, <2>1, <2>2
<1>8. ASSUME NEW j \in 1..(n + 1)
      PROVE  (both \o after)[j] = IF j < k THEN q[j] ELSE IF j = k THEN e ELSE q[j - 1]
  <2>1. CASE j < k
    <3>1. j \in 1..k /\ j <= k - 1 /\ j \in 1..(k - 1)
      BY <1>1, <2>1
    <3> QED
      BY <1>2, <1>6, <1>7, <2>1, <3>1
  <2>2. CASE j = k
    <3>1. j \in 1..k /\ ~(j <= k - 1) /\ j - (k - 1) = 1 /\ ~(j < k)
      BY <1>1, <2>2
    <3> QED
      BY <1>4, <1>6, <1>7, <2>2, <3>1
  <2>3. CASE j > k
    <3>1. ~(j <= k) /\ j - k \in 1..(n - k + 1) /\ k + (j - k) - 1 = j - 1 /\ ~(j < k) /\ j # k
      BY <1>1, <2>3
    <3> QED
      BY <1>3, <1>7, <3>1
  <2>4. j < k \/ j = k \/ j > k
    BY <1>1
  <2> QED
    BY <2>1, <2>2, <2>3, <2>4
<1> QED
  BY <1>5, <1>7, <1>8 DEF n

LEMMA WhereItIs ==
  ASSUME NEW S, NEW q \in Seq(S), NEW r, r \in Range(q)
  PROVE  /\ Position(r, q) \in 1..Len(q) /\ q[Position(r, q)] = r
         /\ \A i \in 1..Len(q) : q[i] = r => Position(r, q) <= i
<1>1. Places(r, q) \subseteq Nat /\ Places(r, q) # {} /\ Places(r, q) = {i \in 1..Len(q) : q[i] = r}
  BY DEF Places, Range
<1>2. \E x \in Places(r, q) : \A y \in Places(r, q) : x <= y
  BY <1>1, FirstIs
<1>3. Min(Places(r, q)) \in Places(r, q) /\ \A y \in Places(r, q) : Min(Places(r, q)) <= y
  BY <1>2 DEF Min
<1>4. Position(r, q) = Min(Places(r, q))
  BY <1>1 DEF Position
<1> QED
  BY <1>1, <1>3, <1>4

-----------------------------------------------------------------------------
(* How many of a kind there are in a sequence. *)

Among(q, kind) == {i \in DOMAIN q : q[i].kind = kind}

LEMMA AmongIsFinite ==
  ASSUME NEW S, NEW q \in Seq(S), NEW kind
  PROVE  IsFiniteSet(Among(q, kind)) /\ Cardinality(Among(q, kind)) \in Nat
<1>1. Len(q) \in Nat /\ Among(q, kind) \subseteq 1..Len(q)
  BY DEF Among
<1>2. IsFiniteSet(1..Len(q))
  BY <1>1, FS_Interval
<1> QED
  BY <1>1, <1>2, FS_Subset, FS_CardinalityType

LEMMA OneMoreAmong ==
  ASSUME NEW S, NEW q \in Seq(S), NEW x \in S, NEW kind
  PROVE  /\ x.kind = kind => /\ Among(Append(q, x), kind) = Among(q, kind) \cup {Len(q) + 1}
                             /\ Cardinality(Among(Append(q, x), kind)) = Cardinality(Among(q, kind)) + 1
         /\ x.kind # kind => Among(Append(q, x), kind) = Among(q, kind)
<1> DEFINE n == Len(q)
           l == Append(q, x)
<1>1. /\ n \in Nat /\ DOMAIN q = 1..n /\ DOMAIN l = 1..(n + 1)
      /\ (\A i \in 1..n : l[i] = q[i]) /\ l[n + 1] = x
  BY AppendedIs
<1>2. IsFiniteSet(Among(q, kind)) /\ n + 1 \notin Among(q, kind)
  <2>1. IsFiniteSet(Among(q, kind))
    BY AmongIsFinite
  <2>2. n + 1 \notin 1..n
    BY <1>1
  <2> QED
    BY <1>1, <2>1, <2>2 DEF Among
<1> HIDE DEF n, l
<1>3. \A i : i \in 1..(n + 1) <=> i \in 1..n \/ i = n + 1
  BY <1>1
<1>4. x.kind = kind => Among(l, kind) = Among(q, kind) \cup {n + 1}
  BY <1>1, <1>3 DEF Among
<1>5. x.kind # kind => Among(l, kind) = Among(q, kind)
  BY <1>1, <1>3 DEF Among
<1>6. Cardinality(Among(q, kind) \cup {n + 1}) = Cardinality(Among(q, kind)) + 1
  BY <1>2, FS_AddElement
<1> QED
  BY <1>4, <1>5, <1>6 DEF l, n

LEMMA OneLessAmong ==
  ASSUME NEW S, NEW q \in Seq(S), q # <<>>, NEW kind
  PROVE  Cardinality(Among(Tail(q), kind)) =
           IF Head(q).kind = kind THEN Cardinality(Among(q, kind)) - 1 ELSE Cardinality(Among(q, kind))
<1> DEFINE n == Len(q)
           t == Tail(q)
           later == Among(q, kind) \ {1}
           down == [i \in later |-> i - 1]
<1>1. /\ n \in Nat /\ n > 0 /\ DOMAIN q = 1..n /\ DOMAIN t = 1..(n - 1)
      /\ (\A i \in 1..(n - 1) : t[i] = q[i + 1]) /\ Head(q) = q[1]
  BY TailIs
<1>2. t \in Seq(S) /\ IsFiniteSet(Among(q, kind)) /\ Cardinality(Among(q, kind)) \in Nat
  BY TailIs, AmongIsFinite
<1>3. IsFiniteSet(Among(t, kind))
  BY <1>2, AmongIsFinite
<1> HIDE DEF n, t
<1>4. IsFiniteSet(later) /\ Cardinality(later) =
        IF 1 \in Among(q, kind) THEN Cardinality(Among(q, kind)) - 1 ELSE Cardinality(Among(q, kind))
  BY <1>2, FS_RemoveElement
<1>5. 1 \in Among(q, kind) <=> Head(q).kind = kind
  BY <1>1 DEF Among
<1>6. \A i \in later : i - 1 \in Among(t, kind)
  <2>1. ASSUME NEW i \in later PROVE i - 1 \in Among(t, kind)
    <3>1. i \in 1..n /\ i # 1 /\ q[i].kind = kind
      BY <1>1 DEF Among
    <3>2. i - 1 \in 1..(n - 1) /\ (i - 1) + 1 = i
      BY <1>1, <3>1
    <3>3. t[i - 1] = q[(i - 1) + 1]
      BY <1>1, <3>2
    <3> QED
      BY <1>1, <3>1, <3>2, <3>3 DEF Among
  <2> QED
    BY <2>1
<1>7. \A j \in Among(t, kind) : j + 1 \in later /\ (j + 1) - 1 = j
  <2>1. ASSUME NEW j \in Among(t, kind) PROVE j + 1 \in later /\ (j + 1) - 1 = j
    <3>1. j \in 1..(n - 1) /\ t[j].kind = kind
      BY <1>1 DEF Among
    <3>2. j + 1 \in 1..n /\ j + 1 # 1 /\ (j + 1) - 1 = j
      BY <1>1, <3>1
    <3> QED
      BY <1>1, <3>1, <3>2 DEF Among
  <2> QED
    BY <2>1
<1>8. \A i, j \in later : i - 1 = j - 1 => i = j
  BY <1>1 DEF Among
<1>9. down \in [later -> Among(t, kind)] /\ \A i \in later : down[i] = i - 1
  BY <1>6
<1> HIDE DEF down, later
<1>10. down \in Injection(later, Among(t, kind))
  BY <1>8, <1>9 DEF Injection, IsInjective
<1>11. \A j \in Among(t, kind) : \E i \in later : down[i] = j
  BY <1>7, <1>9
<1>12. down \in Surjection(later, Among(t, kind))
  BY <1>9, <1>11 DEF Surjection
<1>13. down \in Bijection(later, Among(t, kind))
  BY <1>10, <1>12 DEF Bijection
<1>14. ExistsBijection(later, Among(t, kind))
  BY <1>13 DEF ExistsBijection
<1>15. Cardinality(Among(t, kind)) = Cardinality(later)
  BY <1>4, <1>14, FS_Bijection
<1> QED
  BY <1>4, <1>5, <1>15 DEF t

-----------------------------------------------------------------------------
(* The invariant of the console. *)

Jobs == Reloads \cup Reports \cup Checks

CTypes ==
  /\ onDisk \in Policies /\ inForce \in Policies /\ panes \in Policies /\ news \in Seq(Policies)
  /\ live \subseteq Questions /\ pending \subseteq Questions /\ dismissed \subseteq Questions
  /\ how \in [Questions -> {"unasked", "waiting", "gone", "once", "rule"}]
  /\ under \in [Questions -> Seq(Rules)]
  /\ requested \in Seq(Saying) /\ finished \in Seq(Reloads) /\ Len(finished) <= 1
  /\ inbox \in Seq(Jobs)
  /\ verifying \in Seq([name : Targets, policy : Policies])
  /\ \/ modal \in {Clear, Token, Preview, Form} \cup Dialogues
     \/ modal.kind = "confirm" /\ modal.intent \in Intents /\ modal = Confirm(modal.intent)
  /\ verified \in [Targets -> {"unknown", "running", "report", "no report"}]
  /\ stage \in {"adopt", "land", "keys"} /\ checking \in BOOLEAN /\ rereading \in BOOLEAN

\* The queue is of those who wait, and what is in front of the operator was asked, and is in
\* the frame if it still waits.
Fronted ==
  /\ live = {q \in Questions : how[q] = "waiting"}
  /\ \A q \in pending : how[q] # "unasked"
  /\ modal \in Dialogues =>
       /\ how[modal.view] # "unasked"
       /\ stage = "keys" /\ how[modal.view] = "waiting" => modal.view \in pending

\* What was asked for is in the file, and what was reloaded since is in force and on its way to
\* the panes.
Awaited == awaited = Len(requested) + Len(finished) + Cardinality(ReloadsIn)
Edited ==
  /\ inForce.edition <= onDisk.edition
  /\ inForce = IF news = <<>> THEN panes ELSE Last(news)
  /\ \A i \in DOMAIN requested : requested[i].edition <= onDisk.edition
  /\ \A i \in DOMAIN finished : finished[i].ok => finished[i].said.edition <= inForce.edition
  /\ \A i \in ReloadsIn : inbox[i].ok => inbox[i].said.edition <= inForce.edition

AtMostOne(S) == \A i, j \in S : i = j

\* One check of the credentials at a time.
Checked ==
  /\ checking = (rereading \/ ChecksIn # {})
  /\ rereading => ChecksIn = {}
  /\ AtMostOne(ChecksIn)

\* One verification of a service at a time, on the runtime or reported, and only of one whose
\* column says so.
CallsOut(s) == {i \in DOMAIN verifying : verifying[i].name = s}
AnswersIn(s) == {i \in DOMAIN inbox : inbox[i].kind = "verified" /\ inbox[i].name = s}
OneCall(s) ==
  /\ verified[s] = "running" <=> CallsOut(s) # {} \/ AnswersIn(s) # {}
  /\ AtMostOne(CallsOut(s)) /\ AtMostOne(AnswersIn(s))
  /\ CallsOut(s) = {} \/ AnswersIn(s) = {}
Called == \A s \in Targets : OneCall(s)

\* What hangs is a job that reads secrets.
Held == hung \subseteq {"reload", "check"} \cup Targets

CInv == CTypes /\ Held /\ Fronted /\ Awaited /\ Edited /\ Checked /\ Called

LEMMA ConsoleTyped == CInv => ConsoleTypeOK
BY DEF CInv, CTypes, Held, Awaited, Checked, ConsoleTypeOK, Jobs

LEMMA CalledOnce == Called => OneCallPerService
<1> SUFFICES ASSUME Called, NEW s \in Targets
             PROVE  IF verified[s] = "running" THEN \E v \in Verifications(s) : Verifications(s) = {v}
                                               ELSE Verifications(s) = {}
  BY DEF OneCallPerService
<1>1. OneCall(s)
  BY DEF Called
<1>2. Verifications(s) = ({"under way"} \X CallsOut(s)) \cup ({"reported"} \X AnswersIn(s))
  BY DEF Verifications, CallsOut, AnswersIn
<1>3. CASE CallsOut(s) # {}
  <2>1. PICK i : CallsOut(s) = {i}
    BY <1>1, <1>3 DEF OneCall, AtMostOne
  <2>3. AnswersIn(s) = {} /\ verified[s] = "running"
    BY <1>1, <1>3 DEF OneCall
  <2>4. {"under way"} \X {i} = {<<"under way", i>>} /\ {"reported"} \X {} = {}
    OBVIOUS
  <2>2. Verifications(s) = {<<"under way", i>>}
    BY <1>2, <2>1, <2>3, <2>4, Zenon
  <2> QED
    BY <2>2, <2>3
<1>4. CASE AnswersIn(s) # {}
  <2>1. PICK i : AnswersIn(s) = {i}
    BY <1>1, <1>4 DEF OneCall, AtMostOne
  <2>3. CallsOut(s) = {} /\ verified[s] = "running"
    BY <1>1, <1>4 DEF OneCall
  <2>4. {"reported"} \X {i} = {<<"reported", i>>} /\ {"under way"} \X {} = {}
    OBVIOUS
  <2>2. Verifications(s) = {<<"reported", i>>}
    BY <1>2, <2>1, <2>3, <2>4, Zenon
  <2> QED
    BY <2>2, <2>3
<1>5. CASE CallsOut(s) = {} /\ AnswersIn(s) = {}
  <2>1. Verifications(s) = {} /\ verified[s] # "running"
    BY <1>1, <1>2, <1>5 DEF OneCall
  <2> QED
    BY <2>1
<1> QED
  BY <1>3, <1>4, <1>5

LEMMA InsertedRuleIs ==
  ASSUME NEW rules \in Seq(Rules), NEW i \in Nat, i > 0, NEW r \in Rules
  PROVE  InsertedRule(rules, i, r) \in Seq(Rules)
<1>1. CASE i > Len(rules)
  BY <1>1 DEF InsertedRule
<1>2. CASE ~(i > Len(rules))
  <2>1. i \in 1..Len(rules)
    BY <1>2
  <2> QED
    BY <1>2, <2>1, PutIn DEF InsertedRule
<1> QED
  BY <1>1, <1>2

\* A policy with other rules, other services or one that loads or not.
LEMMA Altered ==
  ASSUME NEW p \in Policies
  PROVE  /\ \A rules \in Seq(Rules) :
              [p EXCEPT !.rules = rules] \in Policies /\ [p EXCEPT !.rules = rules].edition = p.edition
         /\ \A services \in SUBSET Targets :
              [p EXCEPT !.services = services] \in Policies /\ [p EXCEPT !.services = services].edition = p.edition
         /\ \A loads \in BOOLEAN :
              [p EXCEPT !.loads = loads] \in Policies /\ [p EXCEPT !.loads = loads].edition = p.edition
BY DEF Policies

LEMMA SavedIs ==
  ASSUME NEW p \in Policies
  PROVE  /\ Saved(p) \in Policies /\ p.edition \in Nat /\ Saved(p).edition = p.edition + 1
         /\ Saved(p).rules = p.rules
BY DEF Saved, Policies

LEMMA ConsoleInitHolds == ConsoleInit => CInv
<1> SUFFICES ASSUME ConsoleInit PROVE CInv
  OBVIOUS
<1>1. onDisk \in Policies
  <2>1. /\ onDisk.rules \in StartRules /\ onDisk.services = Targets /\ onDisk.loads = TRUE /\ onDisk.edition = 0
        /\ onDisk = [rules |-> onDisk.rules, services |-> onDisk.services, loads |-> onDisk.loads,
                     edition |-> onDisk.edition]
    BY DEF ConsoleInit
  <2>2. onDisk.rules \in Seq(Rules) /\ onDisk.services \in SUBSET Targets /\ onDisk.edition \in Nat
    BY <2>1, RulesDiffer
  <2>3. onDisk.loads \in BOOLEAN
    BY <2>1, Zenon
  <2> QED
    BY <2>1, <2>2, <2>3 DEF Policies
<1>2. Cardinality({}) = 0 /\ ReloadsIn = {} /\ ChecksIn = {} /\ DOMAIN inbox = {} /\ DOMAIN verifying = {}
  BY FS_EmptySet DEF ConsoleInit, ReloadsIn, ChecksIn
<1>3. CTypes
  <2>1. /\ live \subseteq Questions /\ pending \subseteq Questions /\ dismissed \subseteq Questions
        /\ how \in [Questions -> {"unasked", "waiting", "gone", "once", "rule"}]
        /\ verified \in [Targets -> {"unknown", "running", "report", "no report"}]
        /\ modal \in {Clear, Token, Preview, Form} \cup Dialogues
    BY DEF ConsoleInit
  <2>2. /\ under \in [Questions -> Seq(Rules)] /\ news \in Seq(Policies) /\ requested \in Seq(Saying)
        /\ finished \in Seq(Reloads) /\ Len(finished) <= 1 /\ inbox \in Seq(Jobs)
        /\ verifying \in Seq([name : Targets, policy : Policies])
    BY DEF ConsoleInit
  <2> QED
    BY <1>1, <2>1, <2>2 DEF ConsoleInit, CTypes
<1>4. Fronted
  BY DEF ConsoleInit, Fronted, Clear, Dialogues, Dialogue
<1>5. Awaited
  BY <1>2 DEF ConsoleInit, Awaited
<1>6. Edited
  BY <1>1, <1>2 DEF ConsoleInit, Edited, Policies
<1>7. Checked
  BY <1>2 DEF ConsoleInit, Checked, AtMostOne
<1>8. Called
  BY <1>2 DEF ConsoleInit, Called, OneCall, CallsOut, AnswersIn, AtMostOne
<1>9. Held
  BY DEF ConsoleInit, Held
<1> QED
  BY <1>3, <1>4, <1>5, <1>6, <1>7, <1>8, <1>9 DEF CInv

-----------------------------------------------------------------------------
(* What an edit does to the rules. *)

LEMMA RangeIs ==
  ASSUME NEW S, NEW q \in Seq(S), NEW x
  PROVE  x \in Range(q) <=> \E i \in 1..Len(q) : q[i] = x
BY DEF Range

LEMMA InsertedRange ==
  ASSUME NEW rules \in Seq(Rules), NEW i \in Nat, i > 0, NEW r \in Rules, NEW x
  PROVE  x \in Range(InsertedRule(rules, i, r)) <=> x \in Range(rules) \/ x = r
<1> DEFINE n == Len(rules)
           l == InsertedRule(rules, i, r)
<1>1. n \in Nat /\ l \in Seq(Rules)
  BY InsertedRuleIs
<1>2. CASE i > n
  <2>1. l = Append(rules, r)
    BY <1>2 DEF InsertedRule
  <2>2. Len(l) = n + 1 /\ (\A j \in 1..n : l[j] = rules[j]) /\ l[n + 1] = r
    BY <2>1, AppendedIs
  <2> HIDE DEF n, l
  <2>3. \A j : j \in 1..(n + 1) <=> j \in 1..n \/ j = n + 1
    BY <1>1
  <2>4. (\E j \in 1..Len(l) : l[j] = x) <=> (\E j \in 1..n : rules[j] = x) \/ x = r
    BY <2>2, <2>3
  <2> QED
    BY <1>1, <2>4, RangeIs DEF n, l
<1>3. CASE ~(i > n)
  <2>1. l = InsertAt(rules, i, r) /\ i \in 1..n
    BY <1>1, <1>3 DEF InsertedRule
  <2>b. i \in 1..Len(rules)
    BY <2>1
  <2>c. /\ Len(InsertAt(rules, i, r)) = Len(rules) + 1
        /\ \A j \in 1..(Len(rules) + 1) :
             InsertAt(rules, i, r)[j] = IF j < i THEN rules[j] ELSE IF j = i THEN r ELSE rules[j - 1]
    BY <2>b, PutIn
  <2>a. /\ Len(InsertAt(rules, i, r)) = n + 1
        /\ \A j \in 1..(n + 1) :
             InsertAt(rules, i, r)[j] = IF j < i THEN rules[j] ELSE IF j = i THEN r ELSE rules[j - 1]
    BY <2>c
  <2> HIDE DEF n, l
  <2>2. /\ Len(l) = n + 1
        /\ \A j \in 1..(n + 1) : l[j] = IF j < i THEN rules[j] ELSE IF j = i THEN r ELSE rules[j - 1]
    BY <2>1, <2>a
  <2>3. ASSUME NEW j \in 1..(n + 1) PROVE l[j] = r \/ \E k \in 1..n : rules[k] = l[j]
    <3>1. j < i => j \in 1..n
      BY <1>1, <2>1
    <3>2. ~(j < i) /\ j # i => j - 1 \in 1..n
      BY <1>1, <2>1
    <3> QED
      BY <2>2, <3>1, <3>2
  <2>4. ASSUME NEW k \in 1..n PROVE \E j \in 1..(n + 1) : l[j] = rules[k]
    <3>1. CASE k < i
      <4>1. k \in 1..(n + 1) /\ l[k] = rules[k]
        BY <1>1, <2>2, <3>1
      <4> QED
        BY <4>1
    <3>2. CASE ~(k < i)
      <4>1. k + 1 \in 1..(n + 1) /\ ~(k + 1 < i) /\ k + 1 # i /\ (k + 1) - 1 = k
        BY <1>1, <2>1, <3>2
      <4>2. l[k + 1] = rules[k]
        BY <2>2, <4>1
      <4> QED
        BY <4>1, <4>2
    <3> QED
      BY <3>1, <3>2
  <2>5. i \in 1..(n + 1) /\ l[i] = r
    BY <1>1, <2>1, <2>2
  <2>6. (\E j \in 1..Len(l) : l[j] = x) <=> (\E j \in 1..n : rules[j] = x) \/ x = r
    BY <2>2, <2>3, <2>4, <2>5
  <2> QED
    BY <1>1, <2>6, RangeIs DEF n, l
<1> QED
  BY <1>2, <1>3

LEMMA RemovedRange ==
  ASSUME NEW rules \in Seq(Rules), NEW k \in 1..Len(rules), NEW x \in Range(RemoveAt(rules, k))
  PROVE  x \in Range(rules)
<1> DEFINE n == Len(rules)
           l == RemoveAt(rules, k)
<1>1. /\ n \in Nat /\ l \in Seq(Rules) /\ Len(l) = n - 1
      /\ \A j \in 1..(n - 1) : l[j] = IF j < k THEN rules[j] ELSE rules[j + 1]
  BY RemoveAtIs
<1>2. PICK j \in 1..Len(l) : l[j] = x
  BY <1>1, RangeIs
<1> HIDE DEF n, l
<1>3. j \in 1..n /\ j + 1 \in 1..n
  BY <1>1, <1>2
<1>4. \E i \in 1..n : rules[i] = x
  BY <1>1, <1>2, <1>3
<1> QED
  BY <1>4, RangeIs DEF n

\* No edit but an answer writes the rule of one.
NoNewGrant == \A q \in Questions : Grant(q) \in Range(onDisk'.rules) => Grant(q) \in Range(onDisk.rules)

Rewritten == onDisk' \in Policies /\ onDisk.edition <= onDisk'.edition /\ NoNewGrant

LEMMA PolicyFields ==
  ASSUME NEW p \in Policies
  PROVE  p.rules \in Seq(Rules) /\ p.services \in SUBSET Targets /\ p.loads \in BOOLEAN /\ p.edition \in Nat
BY DEF Policies

LEMMA SavedRewrites ==
  ASSUME onDisk \in Policies, NEW f \in Policies, f.edition = onDisk.edition,
         \A q \in Questions : Grant(q) \in Range(f.rules) => Grant(q) \in Range(onDisk.rules),
         onDisk' = Saved(f)
  PROVE  Rewritten
<1>1. onDisk' \in Policies /\ onDisk'.edition = onDisk.edition + 1 /\ onDisk'.rules = f.rules /\ onDisk.edition \in Nat
  BY SavedIs, PolicyFields
<1> QED
  BY <1>1 DEF Rewritten, NoNewGrant

\* A rule that is no grant is put in, or any is taken out.
LEMMA OtherRules ==
  ASSUME onDisk \in Policies, NEW rules \in Seq(Rules),
         \A q \in Questions : Grant(q) \in Range(rules) => Grant(q) \in Range(onDisk.rules),
         onDisk' = Saved([onDisk EXCEPT !.rules = rules])
  PROVE  Rewritten
<1>1. [onDisk EXCEPT !.rules = rules] \in Policies /\ [onDisk EXCEPT !.rules = rules].edition = onDisk.edition
  BY Altered
<1>2. [onDisk EXCEPT !.rules = rules].rules = rules
  BY DEF Policies
<1> QED
  BY <1>1, <1>2, SavedRewrites

LEMMA SameRules ==
  ASSUME onDisk \in Policies, NEW f \in Policies, f.rules = onDisk.rules, f.edition = onDisk.edition, onDisk' = Saved(f)
  PROVE  Rewritten
BY SavedRewrites

LEMMA NotAGrant == ASSUME NEW r \in Others, NEW q \in Questions PROVE r # Grant(q) /\ r \in Rules
BY RulesDiffer DEF Grants, Rules

LEMMA EditRewrites == onDisk \in Policies /\ EditElsewhere => Rewritten
<1> SUFFICES ASSUME onDisk \in Policies, EditElsewhere PROVE Rewritten
  OBVIOUS
<1>1. onDisk.rules \in Seq(Rules) /\ onDisk.services \in SUBSET Targets /\ onDisk.loads \in BOOLEAN
  BY PolicyFields
<1>2. ASSUME NEW i \in 1..Len(onDisk.rules), onDisk' = Saved([onDisk EXCEPT !.rules = RemoveAt(@, i)])
      PROVE  Rewritten
  <2>1. RemoveAt(onDisk.rules, i) \in Seq(Rules)
    BY <1>1, <1>2, RemoveAtIs
  <2>2. \A q \in Questions : Grant(q) \in Range(RemoveAt(onDisk.rules, i)) => Grant(q) \in Range(onDisk.rules)
    BY <1>1, <1>2, RemovedRange
  <2> QED
    BY <1>2, <2>1, <2>2, OtherRules
<1>3. ASSUME NEW r \in Others \ Range(onDisk.rules), onDisk' = Saved([onDisk EXCEPT !.rules = <<r>> \o @])
      PROVE  Rewritten
  <2> DEFINE l == <<r>> \o onDisk.rules
  <2>1. r \in Rules /\ <<r>> \in Seq(Rules) /\ Len(<<r>>) = 1 /\ <<r>>[1] = r
    BY <1>3 DEF Rules
  <2>2. /\ l \in Seq(Rules) /\ Len(l) = 1 + Len(onDisk.rules) /\ Len(onDisk.rules) \in Nat
        /\ \A j \in 1..(1 + Len(onDisk.rules)) : l[j] = IF j <= 1 THEN <<r>>[j] ELSE onDisk.rules[j - 1]
    BY <1>1, <2>1, TwoPieces
  <2>a. onDisk' = Saved([onDisk EXCEPT !.rules = l])
    BY <1>3
  <2> HIDE DEF l
  <2>3. ASSUME NEW x, x \in Range(l), x # r PROVE x \in Range(onDisk.rules)
    <3>1. PICK j \in 1..Len(l) : l[j] = x
      BY <2>2, <2>3, RangeIs
    <3>2. j # 1
      BY <2>1, <2>2, <2>3, <3>1
    <3>3. j - 1 \in 1..Len(onDisk.rules) /\ onDisk.rules[j - 1] = x
      BY <2>2, <3>1, <3>2
    <3> QED
      BY <1>1, <3>3, RangeIs
  <2>4. \A q \in Questions : Grant(q) # r
    BY <1>3, NotAGrant
  <2> QED
    BY <2>2, <2>a, <2>3, <2>4, OtherRules
<1>4. ASSUME NEW s \in onDisk.services, onDisk' = Saved([onDisk EXCEPT !.services = @ \ {s}])
      PROVE  Rewritten
  <2> DEFINE f == [onDisk EXCEPT !.services = @ \ {s}]
  <2>1. onDisk.services \ {s} \in SUBSET Targets
    BY <1>1
  <2>2. f \in Policies /\ f.edition = onDisk.edition
    BY <2>1, Altered
  <2>3. f.rules = onDisk.rules
    BY DEF Policies
  <2> QED
    BY <1>4, <2>2, <2>3, SameRules
<1>5. ASSUME onDisk' = Saved([onDisk EXCEPT !.loads = ~@])
      PROVE  Rewritten
  <2>1. (~onDisk.loads) \in BOOLEAN
    OBVIOUS
  <2> DEFINE f == [onDisk EXCEPT !.loads = ~@]
  <2>2. f \in Policies /\ f.edition = onDisk.edition
    BY <2>1, Altered
  <2>3. f.rules = onDisk.rules
    BY DEF Policies
  <2> QED
    BY <1>5, <2>2, <2>3, SameRules
<1> QED
  BY <1>2, <1>3, <1>4, <1>5 DEF EditElsewhere

-----------------------------------------------------------------------------
(* What a key does. *)

ModalOK ==
  \/ modal \in {Clear, Token, Preview, Form} \cup Dialogues
  \/ modal.kind = "confirm" /\ modal.intent \in Intents /\ modal = Confirm(modal.intent)

LEMMA DialogueIs ==
  /\ \A q \in Questions : Dialogue(q) \in Dialogues /\ Dialogue(q).view = q /\ Dialogue(q).kind = "approve"
  /\ \A m \in Dialogues : m.view \in Questions /\ m = Dialogue(m.view) /\ m.kind = "approve"
  /\ Clear \notin Dialogues /\ Token \notin Dialogues /\ Preview \notin Dialogues /\ Form \notin Dialogues
  /\ \A intent : Confirm(intent).kind = "confirm" /\ Confirm(intent).intent = intent
                 /\ Confirm(intent) \notin Dialogues
<1>1. \A q \in Questions : Dialogue(q) \in Dialogues /\ Dialogue(q).view = q /\ Dialogue(q).kind = "approve"
  BY DEF Dialogues, Dialogue
<1>2. \A m \in Dialogues : m.view \in Questions /\ m = Dialogue(m.view) /\ m.kind = "approve"
  BY DEF Dialogues, Dialogue
<1>3. Clear.kind # "approve" /\ Token.kind # "approve" /\ Preview.kind # "approve" /\ Form.kind # "approve"
  BY DEF Clear, Token, Preview, Form
<1>4. \A intent : Confirm(intent).kind = "confirm" /\ Confirm(intent).intent = intent
  BY DEF Confirm
<1> QED
  BY <1>1, <1>2, <1>3, <1>4

LEMMA IntentIs ==
  ASSUME NEW intent \in Intents
  PROVE  \/ intent[1] = "remove rule" /\ intent[2] \in Nat \ {0}
         \/ intent[1] = "remove service" /\ intent[2] \in Targets
         \/ intent[1] = "rotate"
         \/ intent[1] = "reset"
<1>1. ASSUME intent \in {"remove rule"} \X (Nat \ {0}) PROVE intent[1] = "remove rule" /\ intent[2] \in Nat \ {0}
  <2>1. intent[1] = "remove rule"
    BY <1>1
  <2>2. intent[2] \in Nat \ {0}
    BY <1>1
  <2> QED
    BY <2>1, <2>2
<1>2. ASSUME intent \in {"remove service"} \X Targets PROVE intent[1] = "remove service" /\ intent[2] \in Targets
  BY <1>2
<1>3. intent = <<"rotate">> => intent[1] = "rotate"
  OBVIOUS
<1>4. intent = <<"reset">> => intent[1] = "reset"
  OBVIOUS
<1>5. \/ intent \in {"remove rule"} \X (Nat \ {0}) \/ intent \in {"remove service"} \X Targets
      \/ intent = <<"rotate">> \/ intent = <<"reset">>
  BY Zenon DEF Intents
<1> QED
  BY <1>1, <1>2, <1>3, <1>4, <1>5, Zenon

LEMMA OnlyDialogues == ModalOK /\ modal.kind = "approve" => modal \in Dialogues
BY DEF ModalOK, Clear, Token, Preview, Form, Confirm

LEMMA ConfirmOK == ASSUME NEW intent \in Intents, modal' = Confirm(intent) PROVE ModalOK'
BY DialogueIs DEF ModalOK

\* A reload is asked for, after a write or without.
AsksReload ==
  \E said \in Saying :
    /\ onDisk' \in Policies /\ onDisk.edition <= onDisk'.edition /\ said.edition <= onDisk'.edition
    /\ requested' = Append(requested, said) /\ awaited' = awaited + 1

Quiet == UNCHANGED <<onDisk, requested, awaited>>

LEMMA QuietGrants == onDisk' = onDisk => NoNewGrant
BY DEF NoNewGrant

LEMMA Asking1 ==
  ASSUME Rewritten, NEW v \in Targets \cup {Nothing}, onDisk.edition \in Nat,
         AskReload([wrote |-> TRUE, verify |-> v, edition |-> onDisk'.edition])
  PROVE  AsksReload /\ NoNewGrant
<1> DEFINE said == [wrote |-> TRUE, verify |-> v, edition |-> onDisk'.edition]
<1>1. onDisk' \in Policies /\ onDisk.edition <= onDisk'.edition /\ onDisk'.edition \in Nat
  BY PolicyFields DEF Rewritten
<1>2. said \in Saying /\ said.edition <= onDisk'.edition
  BY <1>1 DEF Saying
<1> QED
  BY <1>1, <1>2 DEF AsksReload, AskReload, Rewritten

LEMMA Asking2 ==
  ASSUME onDisk' = onDisk, onDisk \in Policies, NEW wrote \in BOOLEAN, NEW e \in {0, onDisk.edition},
         AskReload([wrote |-> wrote, verify |-> Nothing, edition |-> e])
  PROVE  AsksReload /\ NoNewGrant
<1> DEFINE said == [wrote |-> wrote, verify |-> Nothing, edition |-> e]
<1>1. onDisk.edition \in Nat
  BY PolicyFields
<1>2. said \in Saying /\ said.edition <= onDisk.edition
  BY <1>1 DEF Saying
<1> QED
  BY <1>1, <1>2 DEF AsksReload, AskReload, NoNewGrant

\* What the forms and the confirmations write.
LEMMA FormsWrite ==
  ASSUME onDisk \in Policies, NEW f \in AgentForms \cup RuleForms \cup UNION {ServiceForms(s) : s \in Targets},
         onDisk' = Saved(f)
  PROVE  Rewritten
<1>1. onDisk.rules \in Seq(Rules) /\ onDisk.services \in SUBSET Targets /\ onDisk.loads \in BOOLEAN
  BY PolicyFields
<1>2. CASE f \in AgentForms
  BY <1>2, SameRules DEF AgentForms
<1>3. CASE f \in RuleForms
  <2>1. PICK i \in 1..(Len(onDisk.rules) + 1), r \in Others \ Range(onDisk.rules) :
          f = [onDisk EXCEPT !.rules = InsertedRule(@, i, r)]
    BY <1>3 DEF RuleForms
  <2>2. i \in Nat /\ i > 0 /\ r \in Rules /\ \A q \in Questions : Grant(q) # r
    BY <2>1, NotAGrant DEF Rules
  <2> DEFINE l == InsertedRule(onDisk.rules, i, r)
  <2>3. l \in Seq(Rules)
    BY <1>1, <2>2, InsertedRuleIs
  <2>4. \A q \in Questions : Grant(q) \in Range(l) => Grant(q) \in Range(onDisk.rules)
    BY <1>1, <2>2, InsertedRange
  <2>5. onDisk' = Saved([onDisk EXCEPT !.rules = l])
    BY <2>1
  <2> HIDE DEF l
  <2> QED
    BY <2>3, <2>4, <2>5, OtherRules
<1>4. CASE \E s \in Targets : f \in ServiceForms(s)
  <2>1. PICK s \in Targets, ok \in BOOLEAN : f = [onDisk EXCEPT !.services = @ \cup {s}, !.loads = @ /\ ok]
    BY <1>4 DEF ServiceForms
  <2>2. (onDisk.loads /\ ok) \in BOOLEAN
    OBVIOUS
  <2>3. onDisk.services \cup {s} \in SUBSET Targets
    BY <1>1, <2>1
  <2> DEFINE g == [onDisk EXCEPT !.services = @ \cup {s}]
  <2>4. g \in Policies /\ g.edition = onDisk.edition /\ g.rules = onDisk.rules /\ g.loads = onDisk.loads
    <3>1. g \in Policies /\ g.edition = onDisk.edition
      BY <2>3, Altered
    <3>2. g.rules = onDisk.rules /\ g.loads = onDisk.loads
      BY DEF Policies
    <3> QED
      BY <3>1, <3>2
  <2>5. f = [g EXCEPT !.loads = onDisk.loads /\ ok]
    BY <2>1, <2>4
  <2> HIDE DEF g
  <2>6. f \in Policies /\ f.edition = g.edition
    BY <2>2, <2>4, <2>5, Altered
  <2>7. f.rules = g.rules
    BY <2>4, <2>5 DEF Policies
  <2> QED
    BY <2>4, <2>6, <2>7, SameRules
<1> QED
  BY <1>2, <1>3, <1>4

LEMMA DestructionWrites ==
  ASSUME onDisk \in Policies, NEW intent \in Intents, NEW f \in Destroyed(intent), onDisk' = Saved(f)
  PROVE  Rewritten
<1>1. onDisk.rules \in Seq(Rules) /\ onDisk.services \in SUBSET Targets
  BY PolicyFields
<1>2. CASE intent[1] = "remove rule"
  <2>1. f \in IF intent[2] <= Len(onDisk.rules) THEN {[onDisk EXCEPT !.rules = RemoveAt(@, intent[2])]} ELSE {}
    BY <1>2 DEF Destroyed
  <2>d. intent[2] \in Nat \ {0}
    BY <1>2, IntentIs
  <2>a. intent[2] \in Nat /\ intent[2] > 0
    BY <2>d
  <2>b. Len(onDisk.rules) \in Nat
    BY <1>1
  <2>c. intent[2] <= Len(onDisk.rules) /\ f = [onDisk EXCEPT !.rules = RemoveAt(@, intent[2])]
    BY <2>1
  <2>2. f = [onDisk EXCEPT !.rules = RemoveAt(@, intent[2])] /\ intent[2] \in 1..Len(onDisk.rules)
    BY <2>a, <2>b, <2>c
  <2>3. RemoveAt(onDisk.rules, intent[2]) \in Seq(Rules)
    BY <1>1, <2>2, RemoveAtIs
  <2>4. \A q \in Questions : Grant(q) \in Range(RemoveAt(onDisk.rules, intent[2])) => Grant(q) \in Range(onDisk.rules)
    BY <1>1, <2>2, RemovedRange
  <2> QED
    BY <2>2, <2>3, <2>4, OtherRules
<1>3. CASE intent[1] = "remove service"
  <2>1. f = [onDisk EXCEPT !.services = @ \ {intent[2]}]
    BY <1>3 DEF Destroyed
  <2>2. onDisk.services \ {intent[2]} \in SUBSET Targets
    BY <1>1
  <2>3. f \in Policies /\ f.edition = onDisk.edition
    BY <2>1, <2>2, Altered
  <2>4. f.rules = onDisk.rules
    BY <2>1 DEF Policies
  <2> QED
    BY <2>3, <2>4, SameRules
<1>4. CASE intent[1] = "rotate"
  <2>1. f = onDisk
    BY <1>4 DEF Destroyed
  <2> QED
    BY <2>1, SameRules
<1>5. CASE intent[1] = "reset"
  <2>1. f = [onDisk EXCEPT !.rules = <<>>]
    BY <1>5 DEF Destroyed
  <2>2. <<>> \in Seq(Rules) /\ Range(<<>>) = {}
    BY DEF Range
  <2> QED
    BY <2>1, <2>2, OtherRules
<1> QED
  BY <1>2, <1>3, <1>4, <1>5, IntentIs

\* Of the keys that answer nothing.
Unshown == UNCHANGED <<inForce, news, finished, inbox, stage, panes, pending>>

PressEffect ==
  /\ stage = "keys" /\ Unshown /\ UNCHANGED <<live, how, under, dismissed>>
  /\ (AsksReload \/ Quiet) /\ NoNewGrant
  /\ ModalOK' /\ (modal' \in Dialogues => modal' = modal)
  /\ UNCHANGED <<verified, verifying>> \/ \E s \in Targets : Verify(s)
  /\ UNCHANGED <<checking, rereading>> \/ (checking = FALSE /\ checking' = TRUE /\ rereading' = TRUE)

LEMMA PressesAre == CTypes /\ Press => PressEffect
<1> SUFFICES ASSUME CTypes, Press PROVE PressEffect
  OBVIOUS
<1>t. /\ onDisk \in Policies /\ panes \in Policies /\ ModalOK
      /\ onDisk.edition \in Nat /\ panes.rules \in Seq(Rules) /\ panes.services \in SUBSET Targets
  BY PolicyFields DEF CTypes, ModalOK
<1>m. {Clear, Token, Preview, Form} \cap Dialogues = {}
  BY DialogueIs
<1>1. CASE OpenForm
  <2>1. ModalOK' /\ modal' \notin Dialogues
    <3>1. CASE modal' = Form
      BY <3>1, DialogueIs DEF ModalOK
    <3>2. ASSUME NEW i \in 1..Len(panes.rules), modal' = Confirm(<<"remove rule", i>>)
          PROVE  ModalOK' /\ modal' \notin Dialogues
      <4>2. i \in Nat \ {0}
        BY <1>t
      <4>3. <<"remove rule", i>> \in {"remove rule"} \X (Nat \ {0})
        BY <4>2
      <4>1. <<"remove rule", i>> \in Intents
        BY <4>3, Zenon DEF Intents
      <4> QED
        BY <3>2, <4>1, ConfirmOK, DialogueIs
    <3>3. ASSUME NEW s \in panes.services, modal' = Confirm(<<"remove service", s>>)
          PROVE  ModalOK' /\ modal' \notin Dialogues
      <4>1. <<"remove service", s>> \in Intents
        BY <1>t DEF Intents
      <4> QED
        BY <3>3, <4>1, ConfirmOK, DialogueIs
    <3>4. ASSUME NEW intent \in {<<"rotate">>, <<"reset">>}, modal' = Confirm(intent)
          PROVE  ModalOK' /\ modal' \notin Dialogues
      <4>1. intent \in Intents
        BY DEF Intents
      <4> QED
        BY <3>4, <4>1, ConfirmOK, DialogueIs
    <3> QED
      BY <1>1, <3>1, <3>2, <3>3, <3>4 DEF OpenForm
  <2>2. /\ stage = "keys" /\ Unshown /\ Quiet
        /\ UNCHANGED <<live, how, under, dismissed, verified, verifying, checking, rereading, onDisk>>
    BY <1>1 DEF OpenForm, Key, Unshown, Quiet, broker
  <2> QED
    BY <2>1, <2>2, QuietGrants DEF PressEffect
<1>2. CASE PressVerify
  <2>1. /\ stage = "keys" /\ Unshown /\ Quiet /\ UNCHANGED <<live, how, under, dismissed, modal, checking, rereading, onDisk>>
    BY <1>2 DEF PressVerify, Key, Unshown, Quiet, broker
  <2>2. \E s \in Targets : Verify(s)
    BY <1>t, <1>2 DEF PressVerify
  <2>3. ModalOK'
    BY <1>t, <2>1 DEF ModalOK
  <2> QED
    BY <2>1, <2>2, <2>3, QuietGrants DEF PressEffect
<1>3. CASE PressCheck
  <2>1. /\ stage = "keys" /\ Unshown /\ Quiet /\ UNCHANGED <<live, how, under, dismissed, modal, verified, verifying, onDisk>>
    BY <1>3 DEF PressCheck, Key, Unshown, Quiet, broker
  <2>2. checking = FALSE /\ checking' = TRUE /\ rereading' = TRUE
    BY <1>3 DEF PressCheck, CTypes
  <2>3. ModalOK'
    BY <1>t, <2>1 DEF ModalOK
  <2> QED
    BY <2>1, <2>2, <2>3, QuietGrants DEF PressEffect
<1>4. CASE PressReload
  <2>1. /\ stage = "keys" /\ Unshown
        /\ UNCHANGED <<live, how, under, dismissed, modal, verified, verifying, checking, rereading, onDisk>>
    BY <1>4 DEF PressReload, Key, Unshown, broker
  <2>2. AskReload([wrote |-> FALSE, verify |-> Nothing, edition |-> 0])
    BY <1>4 DEF PressReload
  <2>3. AsksReload /\ NoNewGrant
    BY <1>t, <2>1, <2>2, Asking2
  <2>4. ModalOK'
    BY <1>t, <2>1 DEF ModalOK
  <2> QED
    BY <2>1, <2>3, <2>4 DEF PressEffect
<1>5. ASSUME NEW forms \in SUBSET (AgentForms \cup RuleForms \cup UNION {ServiceForms(s) : s \in Targets}),
             NEW v \in Targets \cup {Nothing}, Submit(forms, v), modal' \in {Token, Clear}
      PROVE  PressEffect
  <2>1. /\ stage = "keys" /\ Unshown
        /\ UNCHANGED <<live, how, under, dismissed, verified, verifying, checking, rereading>>
    BY <1>5 DEF Submit, Key, Unshown, broker
  <2>2. PICK f \in forms : onDisk' = Saved(f)
    BY <1>5 DEF Submit
  <2>3. Rewritten
    BY <1>t, <2>2, FormsWrite
  <2>4. AsksReload /\ NoNewGrant
    BY <1>t, <1>5, <2>3, Asking1 DEF Submit
  <2>5. ModalOK' /\ modal' \notin Dialogues
    BY <1>5, <1>m DEF ModalOK
  <2> QED
    BY <2>1, <2>4, <2>5 DEF PressEffect
<1>6. CASE SubmitDryRun
  <2>1. /\ stage = "keys" /\ Unshown /\ modal' = Preview
        /\ UNCHANGED <<live, how, under, dismissed, verified, verifying, checking, rereading, onDisk>>
    BY <1>6 DEF SubmitDryRun, Key, Unshown, broker
  <2>2. AskReload([wrote |-> TRUE, verify |-> Nothing, edition |-> onDisk.edition])
    BY <1>6 DEF SubmitDryRun
  <2>3. AsksReload /\ NoNewGrant
    BY <1>t, <2>1, <2>2, Asking2
  <2>4. ModalOK' /\ modal' \notin Dialogues
    BY <1>m, <2>1 DEF ModalOK
  <2> QED
    BY <2>1, <2>3, <2>4 DEF PressEffect
<1>7. ASSUME NEW yes \in BOOLEAN, Say(yes) PROVE PressEffect
  <2>1. /\ stage = "keys" /\ Unshown /\ modal' \in {Token, Clear} /\ modal.kind = "confirm"
        /\ UNCHANGED <<live, how, under, dismissed, verified, verifying, checking, rereading>>
    BY <1>7 DEF Say, Key, Unshown, broker
  <2>2. ModalOK' /\ modal' \notin Dialogues
    BY <1>m, <2>1 DEF ModalOK
  <2>3. modal.intent \in Intents
    <3>1. Clear.kind # "confirm" /\ Token.kind # "confirm" /\ Preview.kind # "confirm" /\ Form.kind # "confirm"
      BY DEF Clear, Token, Preview, Form
    <3> QED
      BY <1>t, <2>1, <3>1, DialogueIs DEF ModalOK
  <2>4. CASE Quiet
    <3>1. onDisk' = onDisk
      BY <2>4 DEF Quiet
    <3> QED
      BY <2>1, <2>2, <2>4, <3>1, QuietGrants DEF PressEffect
  <2>5. ASSUME NEW f \in Destroyed(modal.intent), onDisk' = Saved(f),
               AskReload([wrote |-> TRUE, verify |-> Nothing, edition |-> onDisk'.edition])
        PROVE  PressEffect
    <3>1. Rewritten
      BY <1>t, <2>3, <2>5, DestructionWrites
    <3>2. AsksReload /\ NoNewGrant
      BY <1>t, <2>5, <3>1, Asking1
    <3> QED
      BY <2>1, <2>2, <3>2 DEF PressEffect
  <2>6. Quiet \/ \E f \in Destroyed(modal.intent) :
          onDisk' = Saved(f) /\ AskReload([wrote |-> TRUE, verify |-> Nothing, edition |-> onDisk'.edition])
    BY <1>7 DEF Say, Quiet
  <2> QED
    BY <2>4, <2>5, <2>6
<1>8. CASE Close
  <2>1. /\ stage = "keys" /\ Unshown /\ Quiet /\ modal' = Clear
        /\ UNCHANGED <<live, how, under, dismissed, verified, verifying, checking, rereading, onDisk>>
    BY <1>8 DEF Close, Key, Unshown, Quiet, broker
  <2>2. ModalOK' /\ modal' \notin Dialogues
    BY <1>m, <2>1 DEF ModalOK
  <2> QED
    BY <2>1, <2>2, QuietGrants DEF PressEffect
<1>9. CASE SubmitAgent \/ SubmitRule \/ SubmitService
  <2>1. CASE SubmitAgent
    BY <1>5, <2>1 DEF SubmitAgent
  <2>2. CASE SubmitRule
    BY <1>5, <2>2 DEF SubmitRule
  <2>3. CASE SubmitService
    <3>1. PICK s \in Targets : \E v \in {s, Nothing} : Submit(ServiceForms(s), v)
      BY <2>3 DEF SubmitService
    <3>3. PICK v \in {s, Nothing} : Submit(ServiceForms(s), v)
      BY <3>1
    <3>2. modal' = Clear
      BY <2>3 DEF SubmitService
    <3> QED
      BY <1>5, <3>2, <3>3
  <2> QED
    BY <1>9, <2>1, <2>2, <2>3
<1> QED
  BY <1>1, <1>2, <1>3, <1>4, <1>6, <1>7, <1>8, <1>9 DEF Press

-----------------------------------------------------------------------------
(* What an answer does. *)

WaitingNow == {q \in Questions : how[q] = "waiting"}
Hows == {"unasked", "waiting", "gone", "once", "rule"}

\* Nobody is asked by it, none is put back, and who is told was in the frame.
Settles ==
  /\ how' \in [Questions -> Hows] /\ under' = under /\ live' \subseteq Questions /\ live' = WaitingNow'
  /\ \A p \in Questions :
       /\ how'[p] = "waiting" => how[p] = "waiting"
       /\ how[p] # "unasked" => how'[p] # "unasked"
       /\ how[p] = "waiting" /\ how'[p] \in {"once", "rule"} => p \in pending

LEMMA NoneSettled ==
  ASSUME CTypes, Fronted, UNCHANGED <<live, how, under>>
  PROVE  Settles /\ \A p \in Questions : how'[p] = how[p]
BY DEF CTypes, Fronted, Settles, WaitingNow, Hows

LEMMA DecideSettles ==
  ASSUME CTypes, Fronted, NEW q \in Questions, NEW what \in {"once", "rule"}, NEW covered,
         how[q] = "waiting" => q \in pending,
         Decide(q, what, covered)
  PROVE  /\ Settles
         /\ \A p \in Questions : how[p] # "rule" /\ how'[p] = "rule" => p = q /\ what = "rule"
<1> DEFINE settled == ({q} \cup covered) \cap live
<1>1. /\ live' = live \ settled /\ under' = under
      /\ how' = [p \in Questions |-> IF p \notin settled THEN how[p] ELSE IF p = q THEN what ELSE "gone"]
  BY DEF Decide
<1>2. how \in [Questions -> Hows] /\ live = WaitingNow
  BY DEF CTypes, Fronted, WaitingNow, Hows
<1>3. \A p \in settled : p \in live
  OBVIOUS
<1>4. q \in settled => how[q] = "waiting"
  BY <1>2 DEF WaitingNow
<1> HIDE DEF settled
<1>5. \A p \in Questions :
        how'[p] = IF p \notin settled THEN how[p] ELSE IF p = q THEN what ELSE "gone"
  BY <1>1
<1>6. how' \in [Questions -> Hows]
  BY <1>1, <1>2 DEF Hows
<1>7. \A p \in Questions : p \in live <=> how[p] = "waiting"
  BY <1>2 DEF WaitingNow
<1>8. live' \subseteq Questions /\ live' = WaitingNow'
  BY <1>1, <1>2, <1>3, <1>5, <1>7 DEF WaitingNow
<1>9. \A p \in Questions :
        /\ how'[p] = "waiting" => how[p] = "waiting"
        /\ how[p] # "unasked" => how'[p] # "unasked"
        /\ how[p] = "waiting" /\ how'[p] \in {"once", "rule"} => p \in pending
  BY <1>4, <1>5
<1>10. \A p \in Questions : how[p] # "rule" /\ how'[p] = "rule" => p = q /\ what = "rule"
  BY <1>5
<1> QED
  BY <1>1, <1>6, <1>8, <1>9, <1>10 DEF Settles

Granted(q) == onDisk' = Saved([onDisk EXCEPT !.rules = InsertedRule(@, Landing(q), Grant(q))])

AnswerEffect ==
  /\ stage = "keys" /\ Unshown /\ UNCHANGED <<verified, verifying, checking, rereading>>
  /\ AsksReload \/ Quiet
  /\ ModalOK' /\ (modal' \in Dialogues => modal' = modal \/ modal'.view \in pending)
  /\ dismissed' \subseteq Questions /\ Settles
  /\ NoNewGrant \/ \E q \in Questions : Granted(q)
  /\ \A q \in Questions : how[q] # "rule" /\ how'[q] = "rule" => Granted(q)

LEMMA LandingIs ==
  ASSUME onDisk \in Policies, NEW q \in Questions, under[q] \in Seq(Rules)
  PROVE  /\ Landing(q) \in Nat /\ Landing(q) > 0 /\ Grant(q) \in Rules
         /\ InsertedRule(onDisk.rules, Landing(q), Grant(q)) \in Seq(Rules)
<1>1. onDisk.rules \in Seq(Rules) /\ Len(onDisk.rules) \in Nat
  BY PolicyFields
<1>2. Grant(q) \in Rules
  BY DEF Rules, Grants
<1>3. Landing(q) \in Nat /\ Landing(q) > 0
  <2>1. CASE Asking \in Range(under[q])
    <3>1. Position(Asking, under[q]) \in 1..Len(under[q])
      BY <2>1, WhereItIs
    <3> QED
      BY <2>1, <3>1 DEF Landing
  <2>2. CASE Asking \notin Range(under[q])
    BY <1>1, <2>2 DEF Landing
  <2> QED
    BY <2>1, <2>2
<1> QED
  BY <1>1, <1>2, <1>3, InsertedRuleIs

LEMMA GrantedIs ==
  ASSUME onDisk \in Policies, NEW q \in Questions, under[q] \in Seq(Rules), Granted(q)
  PROVE  /\ onDisk' \in Policies /\ onDisk.edition <= onDisk'.edition
         /\ onDisk'.rules = InsertedRule(onDisk.rules, Landing(q), Grant(q))
<1> DEFINE l == InsertedRule(onDisk.rules, Landing(q), Grant(q))
           f == [onDisk EXCEPT !.rules = l]
<1>1. l \in Seq(Rules) /\ onDisk.edition \in Nat
  BY LandingIs, PolicyFields
<1>2. onDisk' = Saved(f)
  BY DEF Granted
<1> HIDE DEF l
<1>3. f \in Policies /\ f.edition = onDisk.edition /\ f.rules = l
  <2>1. f \in Policies /\ f.edition = onDisk.edition
    BY <1>1, Altered
  <2>2. f.rules = l
    BY DEF Policies
  <2> QED
    BY <2>1, <2>2
<1> HIDE DEF f
<1>4. onDisk' \in Policies /\ onDisk'.edition = onDisk.edition + 1 /\ onDisk'.rules = l
  BY <1>2, <1>3, SavedIs
<1> QED
  BY <1>1, <1>4 DEF l

LEMMA AnswersAre == CTypes /\ Fronted /\ Answer => AnswerEffect
<1> SUFFICES ASSUME CTypes, Fronted, Answer PROVE AnswerEffect
  OBVIOUS
<1>t. /\ onDisk \in Policies /\ ModalOK /\ dismissed \subseteq Questions /\ pending \subseteq Questions
      /\ live \subseteq Questions /\ onDisk.edition \in Nat /\ under \in [Questions -> Seq(Rules)]
  BY PolicyFields DEF CTypes, ModalOK
<1>m. {Clear, Token, Preview, Form} \cap Dialogues = {}
  BY DialogueIs
\* The dialogue answered is in front, and its question is in the frame if it waits.
<1>a. ASSUME stage = "keys", modal.kind = "approve"
      PROVE  modal.view \in Questions /\ (how[modal.view] = "waiting" => modal.view \in pending)
  <2>1. modal \in Dialogues
    BY <1>t, <1>a, OnlyDialogues
  <2> QED
    BY <1>a, <2>1, DialogueIs DEF Fronted
<1>c. modal' = Clear => ModalOK' /\ modal' \notin Dialogues
  BY <1>m DEF ModalOK
<1>1. CASE Quick
  <2>1. /\ stage = "keys" /\ Unshown /\ Quiet /\ onDisk' = onDisk /\ dismissed' = dismissed /\ modal' = modal
        /\ UNCHANGED <<verified, verifying, checking, rereading>>
    BY <1>1 DEF Quick, Key, Unshown, Quiet
  <2>2. PICK q \in pending : Decide(q, "once", {})
    BY <1>1 DEF Quick, Listed
  <2>3. Settles /\ \A p \in Questions : ~(how[p] # "rule" /\ how'[p] = "rule")
    BY <1>t, <2>2, DecideSettles
  <2>4. ModalOK'
    BY <1>t, <2>1 DEF ModalOK
  <2> QED
    BY <1>t, <2>1, <2>3, <2>4, QuietGrants DEF AnswerEffect
<1>2. CASE OpenDialogue
  <2>1. /\ stage = "keys" /\ Unshown /\ Quiet /\ onDisk' = onDisk
        /\ UNCHANGED <<verified, verifying, checking, rereading, live, how, under>>
    BY <1>2 DEF OpenDialogue, Key, Unshown, Quiet, broker
  <2>2. PICK q \in pending : dismissed' = dismissed \ {q} /\ modal' = Dialogue(q)
    BY <1>2 DEF OpenDialogue, Listed
  <2>3. ModalOK' /\ modal'.view \in pending /\ dismissed' \subseteq Questions
    BY <1>t, <2>2, DialogueIs DEF ModalOK
  <2>4. Settles /\ \A p \in Questions : how'[p] = how[p]
    BY <2>1, NoneSettled
  <2> QED
    BY <2>1, <2>3, <2>4, QuietGrants DEF AnswerEffect
<1>3. CASE Dismiss
  <2>1. /\ stage = "keys" /\ Unshown /\ Quiet /\ onDisk' = onDisk /\ modal' = Clear /\ modal.kind = "approve"
        /\ dismissed' = dismissed \cup {modal.view}
        /\ UNCHANGED <<verified, verifying, checking, rereading, live, how, under>>
    BY <1>3 DEF Dismiss, Key, Unshown, Quiet, broker
  <2>2. dismissed' \subseteq Questions
    BY <1>t, <1>a, <2>1
  <2>3. Settles /\ \A p \in Questions : how'[p] = how[p]
    BY <2>1, NoneSettled
  <2> QED
    BY <1>c, <2>1, <2>2, <2>3, QuietGrants DEF AnswerEffect
<1>4. CASE AnswerUnwritten
  <2>1. /\ stage = "keys" /\ Unshown /\ Quiet /\ onDisk' = onDisk /\ modal' = Clear /\ modal.kind = "approve"
        /\ UNCHANGED <<verified, verifying, checking, rereading, dismissed>>
    BY <1>4 DEF AnswerUnwritten, Key, Unshown, Quiet
  <2>2. PICK covered \in SUBSET live : Decide(modal.view, "once", covered)
    BY <1>4 DEF AnswerUnwritten
  <2>3. Settles /\ \A p \in Questions : ~(how[p] # "rule" /\ how'[p] = "rule")
    BY <1>a, <2>1, <2>2, DecideSettles
  <2> QED
    BY <1>c, <1>t, <2>1, <2>3, QuietGrants DEF AnswerEffect
<1>5. CASE AnswerWritten
  <2> DEFINE q == modal.view
  <2>1. /\ stage = "keys" /\ Unshown /\ modal' = Clear /\ modal.kind = "approve"
        /\ UNCHANGED <<verified, verifying, checking, rereading>>
    BY <1>5 DEF AnswerWritten, Key, Unshown
  <2>2. q \in Questions /\ (how[q] = "waiting" => q \in pending)
    BY <1>a, <2>1
  <2> HIDE DEF q
  <2>3. PICK failed \in BOOLEAN :
          /\ Answered(q, failed)
          /\ \/ failed /\ dismissed' = dismissed \cup {q} /\ Quiet
             \/ /\ ~failed /\ Granted(q) /\ dismissed' = dismissed
                /\ AskReload([wrote |-> TRUE, verify |-> Nothing, edition |-> onDisk'.edition])
    BY <1>5 DEF AnswerWritten, q, Quiet, Granted
  <2>4. CASE failed
    <3>1. dismissed' \subseteq Questions /\ Quiet /\ onDisk' = onDisk
      BY <1>t, <2>2, <2>3, <2>4 DEF Quiet
    <3>2. UNCHANGED <<live, how, under>>
      BY <2>3, <2>4 DEF Answered, broker
    <3>3. Settles /\ \A p \in Questions : how'[p] = how[p]
      BY <3>2, NoneSettled
    <3> QED
      BY <1>c, <2>1, <3>1, <3>3, QuietGrants DEF AnswerEffect
  <2>5. CASE ~failed
    <3>1. Decide(q, "rule", {}) /\ Granted(q) /\ dismissed' = dismissed
      BY <2>3, <2>5 DEF Answered
    <3>2. Settles /\ \A p \in Questions : how[p] # "rule" /\ how'[p] = "rule" => p = q
      BY <2>2, <3>1, DecideSettles
    <3>3. onDisk' \in Policies /\ onDisk.edition <= onDisk'.edition
      BY <1>t, <2>2, <3>1, GrantedIs
    <3>4. AsksReload
      <4> DEFINE said == [wrote |-> TRUE, verify |-> Nothing, edition |-> onDisk'.edition]
      <4>1. onDisk'.edition \in Nat
        BY <3>3, PolicyFields
      <4>2. said \in Saying /\ said.edition <= onDisk'.edition
        BY <4>1 DEF Saying
      <4>3. requested' = Append(requested, said) /\ awaited' = awaited + 1
        BY <2>3, <2>5 DEF AskReload
      <4> QED
        BY <3>3, <4>2, <4>3 DEF AsksReload
    <3> QED
      BY <1>c, <1>t, <2>1, <2>2, <3>1, <3>2, <3>4 DEF AnswerEffect
  <2> QED
    BY <2>4, <2>5
<1> QED
  BY <1>1, <1>2, <1>3, <1>4, <1>5 DEF Answer

-----------------------------------------------------------------------------
(* Types are kept. *)

LEMMA JobIs ==
  ASSUME NEW job \in Jobs
  PROVE  /\ job.kind = "reloaded" => job \in Reloads /\ job.ok \in BOOLEAN /\ job.said \in Saying
         /\ job.kind = "verified" => job \in Reports /\ job.name \in Targets /\ job.ok \in BOOLEAN
         /\ job.kind = "checked" => job \in Checks
         /\ job.kind \in {"reloaded", "verified", "checked"}
<1>1. CASE job \in Reloads
  <2>1. job.kind = "reloaded" /\ job.ok \in BOOLEAN /\ job.said \in Saying
    BY <1>1 DEF Reloads
  <2> QED
    BY <1>1, <2>1
<1>2. CASE job \in Reports
  <2>1. job.kind = "verified" /\ job.name \in Targets /\ job.ok \in BOOLEAN
    BY <1>2 DEF Reports
  <2> QED
    BY <1>2, <2>1
<1>3. CASE job \in Checks
  <2>1. job.kind = "checked"
    BY <1>3 DEF Checks
  <2> QED
    BY <1>3, <2>1
<1> QED
  BY <1>1, <1>2, <1>3 DEF Jobs

LEMMA SayingIs == ASSUME NEW said \in Saying PROVE said.verify \in Targets \cup {Nothing} /\ said.edition \in Nat
BY DEF Saying

Columns == {"unknown", "running", "report", "no report"}
VerifyCall == [name : Targets, policy : Policies]

LEMMA VerifyTyped ==
  ASSUME CTypes, NEW s \in Targets, Verify(s)
  PROVE  verified' \in [Targets -> Columns] /\ verifying' \in Seq(VerifyCall)
<1>1. verified \in [Targets -> Columns] /\ verifying \in Seq(VerifyCall) /\ panes \in Policies
  BY DEF CTypes, Columns, VerifyCall
<1>2. CASE MayVerify(s)
  <2>1. verified' = [verified EXCEPT ![s] = "running"] /\ verifying' = Append(verifying, [name |-> s, policy |-> panes])
    BY <1>2 DEF Verify
  <2>2. [name |-> s, policy |-> panes] \in VerifyCall
    BY <1>1 DEF VerifyCall
  <2>3. verified' \in [Targets -> Columns]
    BY <1>1, <2>1 DEF Columns
  <2>4. verifying' \in Seq(VerifyCall)
    BY <1>1, <2>1, <2>2, AppendedIs
  <2> QED
    BY <2>3, <2>4
<1>3. CASE ~MayVerify(s)
  BY <1>1, <1>3 DEF Verify
<1> QED
  BY <1>2, <1>3

LEMMA AskingTyped ==
  ASSUME CTypes, AsksReload \/ Quiet
  PROVE  onDisk' \in Policies /\ requested' \in Seq(Saying) /\ onDisk.edition <= onDisk'.edition
<1>1. onDisk \in Policies /\ requested \in Seq(Saying) /\ onDisk.edition \in Nat
  BY PolicyFields DEF CTypes
<1>2. CASE AsksReload
  BY <1>1, <1>2, AppendedIs DEF AsksReload
<1>3. CASE Quiet
  BY <1>1, <1>3 DEF Quiet
<1> QED
  BY <1>2, <1>3

\* The variables' types, named.
LEMMA TypesByPart ==
  ASSUME /\ onDisk' \in Policies /\ inForce' \in Policies /\ panes' \in Policies /\ news' \in Seq(Policies)
         /\ live' \subseteq Questions /\ pending' \subseteq Questions /\ dismissed' \subseteq Questions
         /\ how' \in [Questions -> Hows] /\ under' \in [Questions -> Seq(Rules)]
         /\ requested' \in Seq(Saying) /\ finished' \in Seq(Reloads) /\ Len(finished') <= 1
         /\ inbox' \in Seq(Jobs) /\ verifying' \in Seq(VerifyCall)
         /\ ModalOK' /\ verified' \in [Targets -> Columns]
         /\ stage' \in {"adopt", "land", "keys"} /\ checking' \in BOOLEAN /\ rereading' \in BOOLEAN
  PROVE  CTypes'
BY DEF CTypes, Hows, VerifyCall, Columns, ModalOK

LEMMA TheParts ==
  ASSUME CTypes
  PROVE  /\ onDisk \in Policies /\ inForce \in Policies /\ panes \in Policies /\ news \in Seq(Policies)
         /\ live \subseteq Questions /\ pending \subseteq Questions /\ dismissed \subseteq Questions
         /\ how \in [Questions -> Hows] /\ under \in [Questions -> Seq(Rules)]
         /\ requested \in Seq(Saying) /\ finished \in Seq(Reloads) /\ Len(finished) <= 1
         /\ inbox \in Seq(Jobs) /\ verifying \in Seq(VerifyCall)
         /\ ModalOK /\ verified \in [Targets -> Columns]
         /\ stage \in {"adopt", "land", "keys"} /\ checking \in BOOLEAN /\ rereading \in BOOLEAN
BY DEF CTypes, Hows, VerifyCall, Columns, ModalOK

LEMMA KeysTyped == CTypes /\ (PressEffect \/ AnswerEffect) => CTypes'
<1> SUFFICES ASSUME CTypes, PressEffect \/ AnswerEffect PROVE CTypes'
  OBVIOUS
<1>1. CASE PressEffect
  <2>1. onDisk' \in Policies /\ requested' \in Seq(Saying)
    BY <1>1, AskingTyped DEF PressEffect
  <2>2. verified' \in [Targets -> Columns] /\ verifying' \in Seq(VerifyCall)
    BY <1>1, VerifyTyped, TheParts DEF PressEffect
  <2>3. checking' \in BOOLEAN /\ rereading' \in BOOLEAN
    BY <1>1, TheParts DEF PressEffect
  <2> QED
    BY <1>1, <2>1, <2>2, <2>3, TheParts, TypesByPart DEF PressEffect, Unshown
<1>2. CASE AnswerEffect
  <2>1. onDisk' \in Policies /\ requested' \in Seq(Saying)
    BY <1>2, AskingTyped DEF AnswerEffect
  <2> QED
    BY <1>2, <2>1, TheParts, TypesByPart DEF AnswerEffect, Unshown, Settles
<1> QED
  BY <1>1, <1>2

LEMMA ElsewhereTyped == CTypes /\ Elsewhere => CTypes'
<1> SUFFICES ASSUME CTypes, Elsewhere PROVE CTypes'
  OBVIOUS
<1>1. ASSUME NEW q \in Questions, Ask(q) PROVE CTypes'
  <2>1. inForce.rules \in Seq(Rules)
    BY TheParts, PolicyFields
  <2>2. how' \in [Questions -> Hows] /\ live' \subseteq Questions /\ under' \in [Questions -> Seq(Rules)]
    BY <1>1, <2>1, TheParts DEF Ask, Hows
  <2>3. UNCHANGED <<proxy, runtime, screen, stage, checking, awaited, keys>>
    BY <1>1 DEF Ask
  <2>4. ModalOK'
    BY <2>3, TheParts DEF ModalOK, screen
  <2> QED
    BY <2>2, <2>3, <2>4, TheParts, TypesByPart DEF proxy, runtime, screen
<1>2. ASSUME NEW q \in Questions, Withdraw(q) PROVE CTypes'
  <2>1. how' \in [Questions -> Hows] /\ live' \subseteq Questions
    BY <1>2, TheParts DEF Withdraw, Hows
  <2>2. UNCHANGED <<proxy, under, runtime, screen, stage, checking, awaited, keys>>
    BY <1>2 DEF Withdraw
  <2>3. ModalOK'
    BY <2>2, TheParts DEF ModalOK, screen
  <2> QED
    BY <2>1, <2>2, <2>3, TheParts, TypesByPart DEF proxy, runtime, screen
<1>3. CASE EditElsewhere
  <2>1. onDisk' \in Policies
    BY <1>3, TheParts, EditRewrites DEF Rewritten
  <2>2. UNCHANGED <<inForce, news, broker, runtime, screen, stage, checking, awaited, keys>>
    BY <1>3 DEF EditElsewhere
  <2>3. ModalOK'
    BY <2>2, TheParts DEF ModalOK, screen
  <2> QED
    BY <2>1, <2>2, <2>3, TheParts, TypesByPart DEF broker, runtime, screen
<1>4. CASE WatcherReloads
  <2>1. inForce' = onDisk /\ news' = Append(news, onDisk)
    BY <1>4 DEF WatcherReloads, Installs
  <2>2. UNCHANGED <<onDisk, edits, broker, runtime, screen, stage, checking, awaited, keys>>
    BY <1>4 DEF WatcherReloads
  <2>3. ModalOK'
    BY <2>2, TheParts DEF ModalOK, screen
  <2>4. news' \in Seq(Policies)
    BY <2>1, TheParts, AppendedIs
  <2> QED
    BY <2>1, <2>2, <2>3, <2>4, TheParts, TypesByPart DEF broker, runtime, screen
<1>5. CASE ReadHangs
  <2>1. UNCHANGED <<proxy, broker, requested, finished, inbox, verifying, rereading, screen, stage, checking,
                    awaited, keys>>
    BY <1>5 DEF ReadHangs
  <2>2. ModalOK'
    BY <2>1, TheParts DEF ModalOK, screen
  <2> QED
    BY <2>1, <2>2, TheParts, TypesByPart DEF proxy, broker, screen
<1> QED
  BY <1>1, <1>2, <1>3, <1>4, <1>5 DEF Elsewhere

\* One job is reported: the last of the inbox from now on.
LEMMA Reporting ==
  ASSUME CTypes, ReportReload
  PROVE  /\ Len(finished) = 1 /\ 1 \in DOMAIN finished /\ finished[1] \in Reloads
         /\ inbox' = Append(inbox, finished[1]) /\ finished' = <<>>
<1>1. finished \in Seq(Reloads) /\ Len(finished) <= 1 /\ finished # <<>>
  BY TheParts DEF ReportReload
<1>2. /\ Len(finished) \in Nat /\ Len(finished) > 0 /\ 1 \in DOMAIN finished
      /\ Head(finished) = finished[1] /\ Head(finished) \in Reloads
  BY <1>1, TailIs
<1> DEFINE n == Len(finished)
<1>3. n \in Nat /\ n > 0 /\ n <= 1
  BY <1>1, <1>2
<1> HIDE DEF n
<1>4. n = 1
  BY <1>3
<1> QED
  BY <1>2, <1>4 DEF ReportReload, n

LEMMA RuntimeTyped == CTypes /\ Runtime => CTypes'
<1> SUFFICES ASSUME CTypes, Runtime PROVE CTypes'
  OBVIOUS
<1>1. CASE Reload
  <2> DEFINE job == [kind |-> "reloaded", ok |-> onDisk.loads, said |-> Head(requested)]
  <2>1. requested' \in Seq(Saying) /\ Head(requested) \in Saying
    BY <1>1, TheParts, TailIs DEF Reload
  <2>2. job \in Reloads
    BY <2>1, TheParts, PolicyFields DEF Reloads
  <2>3. finished' = <<job>>
    BY <1>1 DEF Reload
  <2>4. finished' \in Seq(Reloads) /\ Len(finished') <= 1
    BY <2>2, <2>3
  <2>5. inForce' \in Policies /\ news' \in Seq(Policies)
    <3>1. CASE onDisk.loads
      <4>1. inForce' = onDisk /\ news' = Append(news, onDisk)
        BY <1>1, <3>1 DEF Reload, Installs
      <4> QED
        BY <4>1, TheParts, AppendedIs
    <3>2. CASE ~onDisk.loads
      BY <1>1, <3>2, TheParts DEF Reload
    <3> QED
      BY <3>1, <3>2
  <2>6. UNCHANGED <<onDisk, edits, broker, inbox, verifying, rereading, screen, stage, checking, awaited, keys>>
    BY <1>1 DEF Reload
  <2>7. ModalOK'
    BY <2>6, TheParts DEF ModalOK, screen
  <2> QED
    BY <2>1, <2>4, <2>5, <2>6, <2>7, TheParts, TypesByPart DEF broker, screen
<1>2. CASE ReportReload
  <2>1. finished[1] \in Reloads /\ inbox' = Append(inbox, finished[1]) /\ finished' = <<>>
    BY <1>2, Reporting
  <2>2. inbox' \in Seq(Jobs) /\ finished' \in Seq(Reloads) /\ Len(finished') <= 1
    <3>1. finished[1] \in Jobs
      BY <2>1 DEF Jobs
    <3>2. inbox' \in Seq(Jobs)
      BY <2>1, <3>1, TheParts, AppendedIs
    <3> QED
      BY <2>1, <3>2
  <2>3. UNCHANGED <<proxy, broker, requested, verifying, rereading, screen, stage, checking, awaited, keys>>
    BY <1>2 DEF ReportReload
  <2>4. ModalOK'
    BY <2>3, TheParts DEF ModalOK, screen
  <2> QED
    BY <2>2, <2>3, <2>4, TheParts, TypesByPart DEF proxy, broker, screen
<1>3. CASE VerificationEnds
  <2>1. PICK i \in 1..Len(verifying) :
          /\ verifying' = RemoveAt(verifying, i)
          /\ inbox' = Append(inbox, [kind |-> "verified", name |-> verifying[i].name,
                                     ok |-> verifying[i].name \in verifying[i].policy.services])
    BY <1>3 DEF VerificationEnds
  <2>2. verifying' \in Seq(VerifyCall) /\ verifying[i] \in VerifyCall
    BY <2>1, TheParts, RemoveAtIs
  <2> DEFINE job == [kind |-> "verified", name |-> verifying[i].name,
                     ok |-> verifying[i].name \in verifying[i].policy.services]
  <2>3. job \in Reports
    <3>1. verifying[i].name \in Targets
      BY <2>2 DEF VerifyCall
    <3>2. (verifying[i].name \in verifying[i].policy.services) \in BOOLEAN
      OBVIOUS
    <3> QED
      BY <3>1, <3>2 DEF Reports
  <2>4. inbox' \in Seq(Jobs)
    <3>1. job \in Jobs /\ inbox' = Append(inbox, job)
      BY <2>1, <2>3 DEF Jobs
    <3> HIDE DEF job
    <3> QED
      BY <3>1, TheParts, AppendedIs
  <2>5. UNCHANGED <<proxy, broker, requested, finished, rereading, screen, stage, checking, awaited, keys>>
    BY <1>3 DEF VerificationEnds
  <2>6. ModalOK'
    BY <2>5, TheParts DEF ModalOK, screen
  <2> QED
    BY <2>2, <2>4, <2>5, <2>6, TheParts, TypesByPart DEF proxy, broker, screen
<1>4. CASE CheckEnds
  <2>1. rereading' = FALSE /\ inbox' = Append(inbox, [kind |-> "checked"])
    BY <1>4 DEF CheckEnds
  <2>2. [kind |-> "checked"] \in Jobs
    BY DEF Jobs, Checks
  <2>3. inbox' \in Seq(Jobs)
    BY <2>1, <2>2, TheParts, AppendedIs
  <2>4. UNCHANGED <<proxy, broker, requested, finished, verifying, screen, stage, checking, awaited, keys>>
    BY <1>4 DEF CheckEnds
  <2>5. ModalOK'
    BY <2>4, TheParts DEF ModalOK, screen
  <2> QED
    BY <2>1, <2>3, <2>4, <2>5, TheParts, TypesByPart DEF proxy, broker, screen
<1> QED
  BY <1>1, <1>2, <1>3, <1>4 DEF Runtime

\* What landed, by its kind.
LandEffect ==
  \E job \in Jobs :
    /\ inbox # <<>> /\ stage = "land" /\ job = Head(inbox) /\ inbox' = Tail(inbox)
    /\ UNCHANGED <<proxy, broker, requested, finished, rereading, stage, panes, pending, dismissed, keys>>
    /\ \/ /\ job.kind = "reloaded" /\ awaited' = awaited - 1 /\ UNCHANGED <<modal, checking>>
          /\ \/ UNCHANGED <<verified, verifying>>
             \/ job.ok /\ \E s \in Targets : Verify(s)
       \/ /\ job.kind = "verified" /\ modal' \in {modal, Preview} /\ (modal' # modal => modal = Clear)
          /\ \E c \in {"report", "no report"} : verified' = [verified EXCEPT ![job.name] = c]
          /\ UNCHANGED <<verifying, checking, awaited>>
       \/ job.kind = "checked" /\ checking' = FALSE /\ UNCHANGED <<modal, verified, verifying, awaited>>

LEMMA LandsAre == CTypes /\ Land => LandEffect
<1> SUFFICES ASSUME CTypes, Land PROVE LandEffect
  OBVIOUS
<1> DEFINE job == Head(inbox)
<1>1. /\ inbox # <<>> /\ stage = "land" /\ inbox' = Tail(inbox)
      /\ UNCHANGED <<proxy, broker, requested, finished, rereading, stage, panes, pending, dismissed, keys>>
  BY DEF Land
<1>2. job \in Jobs
  BY <1>1, TheParts, TailIs
<1>3. \/ job.kind = "reloaded" /\ Reloaded(job)
      \/ job.kind = "verified" /\ VerificationLanded(job)
      \/ job.kind = "checked" /\ CheckLanded
  BY DEF Land
<1>j. job = Head(inbox)
  OBVIOUS
<1> HIDE DEF job
<1>4. CASE job.kind = "reloaded" /\ Reloaded(job)
  <2>1. awaited' = awaited - 1 /\ UNCHANGED <<modal, checking>>
    BY <1>4 DEF Reloaded
  <2>2. job.said \in Saying
    BY <1>2, <1>4, JobIs
  <2>3. job.said.verify # Nothing => job.said.verify \in Targets
    BY <2>2, SayingIs
  <2>4. UNCHANGED <<verified, verifying>> \/ (job.ok /\ \E s \in Targets : Verify(s))
    BY <1>4, <2>3 DEF Reloaded
  <2> QED
    BY <1>1, <1>2, <1>j, <1>4, <2>1, <2>4 DEF LandEffect
<1>5. CASE job.kind = "verified" /\ VerificationLanded(job)
  <2>1. modal' \in {modal, Preview} /\ (modal' # modal => modal = Clear)
    BY <1>5 DEF VerificationLanded, Report
  <2>2. \E c \in {"report", "no report"} : verified' = [verified EXCEPT ![job.name] = c]
    BY <1>5 DEF VerificationLanded
  <2>3. UNCHANGED <<verifying, checking, awaited>>
    BY <1>5 DEF VerificationLanded
  <2> QED
    BY <1>1, <1>2, <1>j, <1>5, <2>1, <2>2, <2>3 DEF LandEffect
<1>6. CASE job.kind = "checked" /\ CheckLanded
  BY <1>1, <1>2, <1>j, <1>6 DEF LandEffect, CheckLanded
<1> QED
  BY <1>3, <1>4, <1>5, <1>6

\* What a frame puts in front.
LEMMA RaisedIs ==
  ASSUME CTypes
  PROVE  Raised = modal \/ (modal = Clear /\ \E q \in live : Raised = Dialogue(q))
<1> DEFINE fresh == live \ dismissed
<1>1. CASE modal = Clear /\ fresh # {}
  <2>1. fresh \subseteq Nat
    BY TheParts, QuestionsAreCounted DEF Questions
  <2>2. \E x \in fresh : \A y \in fresh : x <= y
    BY <1>1, <2>1, FirstIs
  <2>3. Min(fresh) \in fresh
    BY <2>2 DEF Min
  <2> QED
    BY <1>1, <2>3 DEF Raised
<1>2. CASE ~(modal = Clear /\ fresh # {})
  BY <1>2 DEF Raised
<1> QED
  BY <1>1, <1>2

LEMMA PassTyped == CTypes /\ Pass => CTypes'
<1> SUFFICES ASSUME CTypes, Pass PROVE CTypes'
  OBVIOUS
<1>1. CASE Adopt
  <2>1. UNCHANGED <<onDisk, inForce, edits, broker, runtime, pending, dismissed, modal, verified, checking, awaited, keys>>
    BY <1>1 DEF Adopt
  <2>2. news' \in Seq(Policies) /\ stage' \in {"adopt", "land", "keys"}
    BY <1>1 DEF Adopt
  <2>3. panes' \in Policies
    <3>1. CASE news = <<>>
      BY <1>1, <3>1, TheParts DEF Adopt
    <3>2. CASE news # <<>>
      <4>1. news \in Seq(Policies)
        BY TheParts
      <4>2. Len(news) \in 1..Len(news) /\ Last(news) = news[Len(news)]
        BY <3>2, <4>1, TailIs DEF Last
      <4> QED
        BY <1>1, <3>2, <4>1, <4>2 DEF Adopt, Show
    <3> QED
      BY <3>1, <3>2
  <2>4. ModalOK'
    BY <2>1, TheParts DEF ModalOK
  <2> QED
    BY <2>1, <2>2, <2>3, <2>4, TheParts, TypesByPart DEF broker, runtime
<1>2. CASE Land
  <2>1. PICK job \in Jobs :
          /\ inbox # <<>> /\ inbox' = Tail(inbox)
          /\ UNCHANGED <<proxy, broker, requested, finished, rereading, stage, panes, pending, dismissed, keys>>
          /\ \/ /\ UNCHANGED <<modal, checking>>
                /\ UNCHANGED <<verified, verifying>> \/ \E s \in Targets : Verify(s)
             \/ /\ job.kind = "verified" /\ modal' \in {modal, Preview}
                /\ \E c \in {"report", "no report"} : verified' = [verified EXCEPT ![job.name] = c]
                /\ UNCHANGED <<verifying, checking>>
             \/ checking' = FALSE /\ UNCHANGED <<modal, verified, verifying>>
    BY <1>2, LandsAre DEF LandEffect
  <2>2. inbox' \in Seq(Jobs)
    BY <2>1, TheParts, TailIs
  <2>3. ModalOK' /\ checking' \in BOOLEAN
    BY <2>1, TheParts DEF ModalOK
  <2>4. verified' \in [Targets -> Columns] /\ verifying' \in Seq(VerifyCall)
    BY <2>1, VerifyTyped, TheParts DEF Columns
  <2> QED
    BY <2>1, <2>2, <2>3, <2>4, TheParts, TypesByPart DEF proxy, broker
<1>3. CASE Frame
  <2>1. UNCHANGED <<proxy, broker, runtime, panes, verified, checking, awaited, keys>>
    BY <1>3 DEF Frame
  <2>2. /\ pending' \subseteq Questions /\ dismissed' \subseteq Questions
        /\ stage' \in {"adopt", "land", "keys"}
    BY <1>3, TheParts DEF Frame
  <2>3. ModalOK'
    <3>1. modal' = modal \/ \E q \in live : modal' = Dialogue(q)
      BY <1>3, RaisedIs DEF Frame
    <3> QED
      BY <3>1, TheParts, DialogueIs DEF ModalOK
  <2> QED
    BY <2>1, <2>2, <2>3, TheParts, TypesByPart DEF proxy, broker, runtime
<1>4. CASE NextPass
  <2>1. stage' = "adopt" /\ UNCHANGED <<proxy, broker, runtime, screen, checking, awaited, keys>>
    BY <1>4 DEF NextPass
  <2>2. ModalOK'
    BY <2>1, TheParts DEF ModalOK, screen
  <2> QED
    BY <2>1, <2>2, TheParts, TypesByPart DEF proxy, broker, runtime, screen
<1> QED
  BY <1>1, <1>2, <1>3, <1>4 DEF Pass

LEMMA ConsoleStays == CTypes /\ UNCHANGED consoleVars => CTypes'
<1> SUFFICES ASSUME CTypes, UNCHANGED consoleVars PROVE CTypes'
  OBVIOUS
<1>1. UNCHANGED <<proxy, broker, runtime, screen, stage, checking, awaited, keys>>
  BY DEF consoleVars
<1>2. ModalOK'
  BY <1>1, TheParts DEF ModalOK, screen
<1> QED
  BY <1>1, <1>2, TheParts, TypesByPart DEF proxy, broker, runtime, screen

LEMMA ConsoleTypesKept == CTypes /\ Fronted /\ [ConsoleNext]_consoleVars => CTypes'
BY PressesAre, AnswersAre, KeysTyped, ElsewhereTyped, RuntimeTyped, PassTyped, ConsoleStays DEF ConsoleNext

-----------------------------------------------------------------------------
(* Every step keeps the invariant. *)

LEMMA HeldKept == Held /\ [ConsoleNext]_consoleVars => Held'
<1> SUFFICES ASSUME Held, [ConsoleNext]_consoleVars PROVE Held'
  OBVIOUS
<1>1. CASE ReadHangs
  BY <1>1 DEF ReadHangs, Held
<1>2. CASE Press \/ Answer
  <2>1. Key
    BY <1>2 DEF Press, Answer, OpenForm, PressVerify, PressCheck, PressReload, SubmitAgent, SubmitRule,
                SubmitService, SubmitDryRun, Submit, Say, Close, Quick, OpenDialogue, Dismiss,
                AnswerUnwritten, AnswerWritten
  <2> QED
    BY <2>1 DEF Key, Held
<1>3. CASE Pass \/ Runtime \/ (\E q \in Questions : Ask(q) \/ Withdraw(q)) \/ EditElsewhere \/ WatcherReloads
           \/ UNCHANGED consoleVars
  <2>1. UNCHANGED hung
    BY <1>3 DEF Pass, Adopt, Land, Frame, NextPass, Runtime, Reload, ReportReload, VerificationEnds, CheckEnds,
                Ask, Withdraw, EditElsewhere, WatcherReloads, consoleVars, runtime
  <2> QED
    BY <2>1 DEF Held
<1> QED
  BY <1>1, <1>2, <1>3 DEF ConsoleNext, Elsewhere

LEMMA FrontedKept == CTypes /\ Fronted /\ [ConsoleNext]_consoleVars => Fronted'
<1> SUFFICES ASSUME CTypes, Fronted, [ConsoleNext]_consoleVars PROVE Fronted'
  OBVIOUS
<1>t. /\ how \in [Questions -> Hows] /\ live \subseteq Questions /\ pending \subseteq Questions
      /\ \A m \in Dialogues : m.view \in Questions
  BY TheParts, DialogueIs
<1>1. CASE Press
  <2>1. UNCHANGED <<live, how, pending, stage>> /\ (modal' \in Dialogues => modal' = modal)
    BY <1>1, PressesAre DEF PressEffect, Unshown
  <2> QED
    BY <2>1 DEF Fronted
<1>2. CASE Answer
  <2>1. /\ stage = "keys" /\ UNCHANGED <<pending, stage>> /\ live' = WaitingNow'
        /\ (modal' \in Dialogues => modal' = modal \/ modal'.view \in pending)
        /\ \A p \in Questions : /\ how'[p] = "waiting" => how[p] = "waiting"
                                /\ how[p] # "unasked" => how'[p] # "unasked"
    BY <1>2, AnswersAre DEF AnswerEffect, Settles, Unshown
  <2>2. \A q \in pending' : how'[q] # "unasked"
    BY <1>t, <2>1 DEF Fronted
  <2>3. modal' \in Dialogues => how'[modal'.view] # "unasked" /\ (how'[modal'.view] = "waiting" => modal'.view \in pending')
    BY <1>t, <2>1, <2>2 DEF Fronted
  <2> QED
    BY <2>1, <2>2, <2>3 DEF Fronted, WaitingNow
<1>3. ASSUME NEW q \in Questions, Ask(q) PROVE Fronted'
  <2>1. UNCHANGED <<pending, modal, stage>> /\ live' = live \cup {q} /\ how[q] = "unasked"
    BY <1>3 DEF Ask, screen
  <2>2. \A p \in Questions : how'[p] = IF p = q THEN "waiting" ELSE how[p]
    BY <1>t, <1>3 DEF Ask
  <2> QED
    BY <1>t, <2>1, <2>2 DEF Fronted
<1>4. ASSUME NEW q \in Questions, Withdraw(q) PROVE Fronted'
  <2>1. UNCHANGED <<pending, modal, stage>> /\ live' = live \ {q} /\ how[q] = "waiting"
    BY <1>4 DEF Withdraw, screen
  <2>2. \A p \in Questions : how'[p] = IF p = q THEN "gone" ELSE how[p]
    BY <1>t, <1>4 DEF Withdraw
  <2> QED
    BY <1>t, <2>1, <2>2 DEF Fronted
<1>5. CASE EditElsewhere \/ WatcherReloads \/ ReadHangs \/ Runtime \/ UNCHANGED consoleVars
  <2>1. UNCHANGED <<live, how, pending, modal, stage>>
    BY <1>5 DEF EditElsewhere, WatcherReloads, ReadHangs, Runtime, Reload, ReportReload, VerificationEnds,
                CheckEnds, consoleVars, broker, screen
  <2> QED
    BY <2>1 DEF Fronted
<1>6. CASE Adopt
  <2>1. UNCHANGED <<live, how, pending, modal>> /\ stage' = "land"
    BY <1>6 DEF Adopt, broker
  <2> QED
    BY <2>1 DEF Fronted
<1>7. CASE Land
  <2>1. UNCHANGED <<live, how, pending, stage>> /\ modal' \in {modal, Preview}
    BY <1>7, LandsAre DEF LandEffect, broker
  <2>2. modal' \in Dialogues => modal' = modal
    BY <2>1, DialogueIs
  <2> QED
    BY <2>1, <2>2 DEF Fronted
<1>8. CASE Frame
  <2>1. UNCHANGED <<live, how>> /\ pending' = live
    BY <1>8 DEF Frame, broker
  <2>2. modal' = modal \/ \E q \in live : modal' = Dialogue(q)
    BY <1>8, RaisedIs DEF Frame
  <2>3. modal' \in Dialogues => how[modal'.view] # "unasked"
    BY <1>t, <2>2, DialogueIs DEF Fronted
  <2> QED
    BY <1>t, <2>1, <2>3 DEF Fronted
<1>9. CASE NextPass
  <2>1. UNCHANGED <<live, how, pending, modal>> /\ stage' = "adopt"
    BY <1>9 DEF NextPass, broker, screen
  <2> QED
    BY <2>1 DEF Fronted
<1> QED
  BY <1>1, <1>2, <1>3, <1>4, <1>5, <1>6, <1>7, <1>8, <1>9 DEF ConsoleNext, Pass, Elsewhere

LEMMA TailAmong ==
  ASSUME NEW S, NEW q \in Seq(S), q # <<>>, NEW kind
  PROVE  /\ Head(q).kind = kind <=> 1 \in Among(q, kind)
         /\ \A i \in Among(Tail(q), kind) : i \in Nat /\ i + 1 \in Among(q, kind) /\ i + 1 # 1
         /\ \A i \in Among(q, kind) : i # 1 => i - 1 \in Among(Tail(q), kind)
<1> DEFINE n == Len(q)
           t == Tail(q)
<1>1. /\ n \in Nat /\ n > 0 /\ DOMAIN q = 1..n /\ DOMAIN t = 1..(n - 1)
      /\ (\A i \in 1..(n - 1) : t[i] = q[i + 1]) /\ Head(q) = q[1]
  BY TailIs
<1> HIDE DEF n, t
<1>2. Head(q).kind = kind <=> 1 \in Among(q, kind)
  BY <1>1 DEF Among
<1>3. ASSUME NEW i \in Among(t, kind) PROVE i \in Nat /\ i + 1 \in Among(q, kind) /\ i + 1 # 1
  <2>1. i \in 1..(n - 1) /\ t[i].kind = kind
    BY <1>1 DEF Among
  <2>2. i \in Nat /\ i + 1 \in 1..n /\ i + 1 # 1
    BY <1>1, <2>1
  <2> QED
    BY <1>1, <2>1, <2>2 DEF Among
<1>4. ASSUME NEW i \in Among(q, kind), i # 1 PROVE i - 1 \in Among(t, kind)
  <2>1. i \in 1..n /\ q[i].kind = kind
    BY <1>1 DEF Among
  <2>2. i - 1 \in 1..(n - 1) /\ (i - 1) + 1 = i
    BY <1>1, <1>4, <2>1
  <2>3. t[i - 1] = q[(i - 1) + 1]
    BY <1>1, <2>2
  <2> QED
    BY <1>1, <2>1, <2>2, <2>3 DEF Among
<1> QED
  BY <1>2, <1>3, <1>4 DEF t

LEMMA JobsAreAmong == ReloadsIn = Among(inbox, "reloaded") /\ ChecksIn = Among(inbox, "checked")
BY DEF ReloadsIn, ChecksIn, Among

\* What the runtime does to the inbox.
RuntimeEffect ==
  /\ UNCHANGED <<panes, awaited, checking, verified>>
  /\ \/ /\ requested # <<>> /\ finished = <<>> /\ requested' = Tail(requested)
        /\ \E said \in Saying :
             finished' = <<[kind |-> "reloaded", ok |-> onDisk.loads, said |-> said]>> /\ said = Head(requested)
        /\ IF onDisk.loads THEN Installs ELSE UNCHANGED <<inForce, news>>
        /\ UNCHANGED <<onDisk, inbox, verifying, rereading>>
     \/ /\ UNCHANGED <<onDisk, inForce, news, requested>>
        /\ \E job \in Jobs :
             /\ inbox' = Append(inbox, job)
             /\ \/ /\ job.kind = "reloaded" /\ Len(finished) = 1 /\ job = finished[1] /\ finished' = <<>>
                   /\ UNCHANGED <<verifying, rereading>>
                \/ /\ job.kind = "verified" /\ UNCHANGED <<finished, rereading>>
                   /\ \E i \in 1..Len(verifying) :
                        verifying' = RemoveAt(verifying, i) /\ job.name = verifying[i].name
                \/ job.kind = "checked" /\ rereading /\ rereading' = FALSE /\ UNCHANGED <<finished, verifying>>

LEMMA RuntimeDoes == CTypes /\ Runtime => RuntimeEffect
<1> SUFFICES ASSUME CTypes, Runtime PROVE RuntimeEffect
  OBVIOUS
<1>1. CASE Reload
  <2>1. requested # <<>> /\ finished = <<>> /\ requested' = Tail(requested) /\ Head(requested) \in Saying
    BY <1>1, TheParts, TailIs DEF Reload
  <2>2. /\ finished' = <<[kind |-> "reloaded", ok |-> onDisk.loads, said |-> Head(requested)]>>
        /\ IF onDisk.loads THEN Installs ELSE UNCHANGED <<inForce, news>>
        /\ UNCHANGED <<onDisk, inbox, verifying, rereading, panes, awaited, checking, verified>>
    BY <1>1 DEF Reload, screen
  <2> QED
    BY <2>1, <2>2 DEF RuntimeEffect
<1>2. CASE ReportReload
  <2>1. Len(finished) = 1 /\ finished[1] \in Reloads /\ inbox' = Append(inbox, finished[1]) /\ finished' = <<>>
    BY <1>2, Reporting
  <2>2. finished[1] \in Jobs /\ finished[1].kind = "reloaded"
    BY <2>1 DEF Jobs, Reloads
  <2>3. UNCHANGED <<onDisk, inForce, news, requested, verifying, rereading, panes, awaited, checking, verified>>
    BY <1>2 DEF ReportReload, proxy, screen
  <2> QED
    BY <2>1, <2>2, <2>3 DEF RuntimeEffect
<1>3. CASE VerificationEnds
  <2>1. PICK i \in 1..Len(verifying) :
          /\ verifying' = RemoveAt(verifying, i)
          /\ inbox' = Append(inbox, [kind |-> "verified", name |-> verifying[i].name,
                                     ok |-> verifying[i].name \in verifying[i].policy.services])
    BY <1>3 DEF VerificationEnds
  <2> DEFINE job == [kind |-> "verified", name |-> verifying[i].name,
                     ok |-> verifying[i].name \in verifying[i].policy.services]
  <2>2. job \in Jobs /\ job.kind = "verified" /\ job.name = verifying[i].name /\ inbox' = Append(inbox, job)
    <3>1. verifying[i] \in VerifyCall
      BY <2>1, TheParts
    <3>2. verifying[i].name \in Targets
      BY <3>1 DEF VerifyCall
    <3>3. (verifying[i].name \in verifying[i].policy.services) \in BOOLEAN
      OBVIOUS
    <3>4. job \in Reports
      BY <3>2, <3>3 DEF Reports
    <3> QED
      BY <2>1, <3>4 DEF Jobs
  <2>3. UNCHANGED <<onDisk, inForce, news, requested, finished, rereading, panes, awaited, checking, verified>>
    BY <1>3 DEF VerificationEnds, proxy, screen
  <2> HIDE DEF job
  <2> QED
    BY <2>1, <2>2, <2>3 DEF RuntimeEffect
<1>4. CASE CheckEnds
  <2> DEFINE job == [kind |-> "checked"]
  <2>1. rereading /\ rereading' = FALSE /\ inbox' = Append(inbox, job) /\ job \in Jobs /\ job.kind = "checked"
    BY <1>4 DEF CheckEnds, Jobs, Checks
  <2>2. UNCHANGED <<onDisk, inForce, news, requested, finished, verifying, panes, awaited, checking, verified>>
    BY <1>4 DEF CheckEnds, proxy, screen
  <2> HIDE DEF job
  <2> QED
    BY <2>1, <2>2 DEF RuntimeEffect
<1> QED
  BY <1>1, <1>2, <1>3, <1>4 DEF Runtime

\* What a key asks of the runtime, whichever it is.
KeyEffect ==
  /\ stage = "keys" /\ Unshown /\ (AsksReload \/ Quiet)
  /\ UNCHANGED <<verified, verifying>> \/ \E s \in Targets : Verify(s)
  /\ UNCHANGED <<checking, rereading>> \/ (checking = FALSE /\ checking' = TRUE /\ rereading' = TRUE)

LEMMA KeysAre == CTypes /\ Fronted /\ (Press \/ Answer) => KeyEffect
BY PressesAre, AnswersAre DEF PressEffect, AnswerEffect, KeyEffect

\* What else there is touches no job.
NothingRun == UNCHANGED <<requested, finished, inbox, verifying, rereading, verified, checking, awaited>>

LEMMA OtherwiseIdle ==
  Adopt \/ Frame \/ NextPass \/ Elsewhere \/ UNCHANGED consoleVars => NothingRun
BY DEF Adopt, Frame, NextPass, Elsewhere, Ask, Withdraw, EditElsewhere, WatcherReloads, ReadHangs, consoleVars,
       runtime, screen, NothingRun

LEMMA JobStepsAre ==
  CTypes /\ Fronted /\ [ConsoleNext]_consoleVars => KeyEffect \/ RuntimeEffect \/ LandEffect \/ NothingRun
BY KeysAre, RuntimeDoes, LandsAre, OtherwiseIdle DEF ConsoleNext, Pass

LEMMA AwaitedKept ==
  ASSUME CTypes, Awaited, KeyEffect \/ RuntimeEffect \/ LandEffect \/ NothingRun
  PROVE  Awaited'
<1> DEFINE r == Len(requested)
           f == Len(finished)
           c == Cardinality(Among(inbox, "reloaded"))
<1>1. /\ r \in Nat /\ f \in Nat /\ c \in Nat /\ awaited = r + f + c
      /\ requested \in Seq(Saying) /\ finished \in Seq(Reloads) /\ inbox \in Seq(Jobs)
  BY TheParts, AmongIsFinite, JobsAreAmong DEF Awaited
<1>2. Awaited' <=> awaited' = r' + f' + c'
  BY JobsAreAmong DEF Awaited, ReloadsIn, Among
<1>3. CASE KeyEffect
  <2>1. f' = f /\ c' = c
    BY <1>3 DEF KeyEffect, Unshown
  <2>2. CASE AsksReload
    <3>1. r' = r + 1 /\ awaited' = awaited + 1
      BY <1>1, <2>2, AppendedIs DEF AsksReload
    <3> HIDE DEF r, f, c
    <3> QED
      BY <1>1, <1>2, <2>1, <3>1
  <2>3. CASE Quiet
    BY <1>1, <1>2, <2>1, <2>3 DEF Quiet
  <2> QED
    BY <1>3, <2>2, <2>3 DEF KeyEffect
<1>4. CASE RuntimeEffect
  <2>0. awaited' = awaited
    BY <1>4 DEF RuntimeEffect
  <2>1. CASE requested # <<>> /\ finished = <<>> /\ requested' = Tail(requested) /\ inbox' = inbox
               /\ \E job : finished' = <<job>>
    <3>1. r' = r - 1 /\ f = 0 /\ f' = 1 /\ c' = c
      BY <1>1, <2>1, TailIs
    <3> HIDE DEF r, f, c
    <3> QED
      BY <1>1, <1>2, <2>0, <3>1
  <2>2. ASSUME NEW job \in Jobs, inbox' = Append(inbox, job), requested' = requested,
               \/ job.kind = "reloaded" /\ Len(finished) = 1 /\ finished' = <<>>
               \/ job.kind # "reloaded" /\ finished' = finished
        PROVE  Awaited'
    <3>1. CASE job.kind = "reloaded"
      <4>1. r' = r /\ f = 1 /\ f' = 0 /\ c' = c + 1
        BY <1>1, <2>2, <3>1, OneMoreAmong
      <4> HIDE DEF r, f, c
      <4> QED
        BY <1>1, <1>2, <2>0, <4>1
    <3>2. CASE job.kind # "reloaded"
      <4>1. r' = r /\ f' = f /\ c' = c
        BY <1>1, <2>2, <3>2, OneMoreAmong
      <4> QED
        BY <1>1, <1>2, <2>0, <4>1
    <3> QED
      BY <3>1, <3>2
  <2> QED
    BY <1>4, <2>1, <2>2 DEF RuntimeEffect
<1>5. CASE LandEffect
  <2>1. PICK job \in Jobs :
          /\ inbox # <<>> /\ job = Head(inbox) /\ inbox' = Tail(inbox) /\ UNCHANGED <<requested, finished>>
          /\ \/ job.kind = "reloaded" /\ awaited' = awaited - 1
             \/ job.kind # "reloaded" /\ awaited' = awaited
    BY <1>5 DEF LandEffect
  <2>2. r' = r /\ f' = f /\ c' = IF job.kind = "reloaded" THEN c - 1 ELSE c
    BY <1>1, <2>1, OneLessAmong
  <2> HIDE DEF r, f, c
  <2>3. CASE job.kind = "reloaded"
    <3>1. awaited' = awaited - 1 /\ c' = c - 1
      BY <2>1, <2>2, <2>3
    <3> QED
      BY <1>1, <1>2, <2>2, <3>1
  <2>4. CASE job.kind # "reloaded"
    <3>1. awaited' = awaited /\ c' = c
      BY <2>1, <2>2, <2>4
    <3> QED
      BY <1>1, <1>2, <2>2, <3>1
  <2> QED
    BY <2>3, <2>4
<1>6. CASE NothingRun
  BY <1>1, <1>2, <1>6 DEF NothingRun
<1> QED
  BY <1>3, <1>4, <1>5, <1>6

LEMMA CheckedKept ==
  ASSUME CTypes, Checked, KeyEffect \/ RuntimeEffect \/ LandEffect \/ NothingRun
  PROVE  Checked'
<1> DEFINE c == Among(inbox, "checked")
<1>1. /\ inbox \in Seq(Jobs) /\ rereading \in BOOLEAN /\ checking \in BOOLEAN
      /\ checking = (rereading \/ c # {}) /\ (rereading => c = {}) /\ AtMostOne(c)
  BY TheParts, JobsAreAmong DEF Checked
<1>2. Checked' <=> checking' = (rereading' \/ c' # {}) /\ (rereading' => c' = {}) /\ AtMostOne(c')
  BY DEF Checked, AtMostOne, ChecksIn, Among
<1>3. CASE KeyEffect
  <2>1. c' = c
    BY <1>3 DEF KeyEffect, Unshown
  <2> HIDE DEF c
  <2>2. CASE UNCHANGED <<checking, rereading>>
    BY <1>1, <1>2, <2>1, <2>2 DEF AtMostOne
  <2>3. CASE checking = FALSE /\ checking' = TRUE /\ rereading' = TRUE
    <3>1. c = {}
      BY <1>1, <2>3
    <3> QED
      BY <1>2, <2>1, <2>3, <3>1 DEF AtMostOne
  <2> QED
    BY <1>3, <2>2, <2>3 DEF KeyEffect
<1>4. CASE RuntimeEffect
  <2>1. /\ checking' = checking
        /\ \/ inbox' = inbox /\ rereading' = rereading
           \/ \E job \in Jobs :
                /\ inbox' = Append(inbox, job)
                /\ \/ job.kind # "checked" /\ rereading' = rereading
                   \/ job.kind = "checked" /\ rereading /\ rereading' = FALSE
    BY <1>4 DEF RuntimeEffect
  <2>2. CASE inbox' = inbox /\ rereading' = rereading
    BY <1>1, <1>2, <2>1, <2>2 DEF AtMostOne
  <2>3. ASSUME NEW job \in Jobs, inbox' = Append(inbox, job), job.kind # "checked", rereading' = rereading
        PROVE  Checked'
    <3>1. c' = c
      BY <1>1, <2>3, OneMoreAmong
    <3> HIDE DEF c
    <3> QED
      BY <1>1, <1>2, <2>1, <2>3, <3>1 DEF AtMostOne
  <2>4. ASSUME NEW job \in Jobs, inbox' = Append(inbox, job), job.kind = "checked", rereading, rereading' = FALSE
        PROVE  Checked'
    <3>1. c' = c \cup {Len(inbox) + 1} /\ c = {}
      BY <1>1, <2>4, OneMoreAmong
    <3> HIDE DEF c
    <3>2. c' # {} /\ AtMostOne(c')
      BY <3>1 DEF AtMostOne
    <3> QED
      BY <1>1, <1>2, <2>1, <2>4, <3>2
  <2> QED
    BY <2>1, <2>2, <2>3, <2>4
<1>5. CASE LandEffect
  <2>1. PICK job \in Jobs :
          /\ inbox # <<>> /\ job = Head(inbox) /\ inbox' = Tail(inbox) /\ rereading' = rereading
          /\ \/ job.kind # "checked" /\ checking' = checking
             \/ job.kind = "checked" /\ checking' = FALSE
    BY <1>5 DEF LandEffect
  <2>2. /\ job.kind = "checked" <=> 1 \in c
        /\ \A i \in c' : i \in Nat /\ i + 1 \in c /\ i + 1 # 1
        /\ \A i \in c : i # 1 => i - 1 \in c'
    BY <1>1, <2>1, TailAmong
  <2> HIDE DEF c
  <2>3. AtMostOne(c')
    BY <1>1, <2>2 DEF AtMostOne
  <2>4. CASE job.kind = "checked"
    <3>1. c' = {} /\ ~rereading /\ checking' = FALSE
      BY <1>1, <2>1, <2>2, <2>4 DEF AtMostOne
    <3> QED
      BY <1>1, <1>2, <2>1, <2>3, <3>1
  <2>5. CASE job.kind # "checked"
    <3>1. c' = {} <=> c = {}
      BY <2>2, <2>5
    <3> QED
      BY <1>1, <1>2, <2>1, <2>3, <2>5, <3>1
  <2> QED
    BY <2>4, <2>5
<1>6. CASE NothingRun
  BY <1>1, <1>2, <1>6 DEF NothingRun
<1> QED
  BY <1>3, <1>4, <1>5, <1>6

\* How the calls of a service move with the two sequences they are in.
LEMMA OneMoreCall ==
  ASSUME verifying \in Seq(VerifyCall), NEW x \in VerifyCall, verifying' = Append(verifying, x), NEW t
  PROVE  CallsOut(t)' = IF x.name = t THEN CallsOut(t) \cup {Len(verifying) + 1} ELSE CallsOut(t)
<1> DEFINE n == Len(verifying)
           l == verifying'
<1>1. /\ n \in Nat /\ DOMAIN verifying = 1..n /\ DOMAIN l = 1..(n + 1)
      /\ (\A i \in 1..n : l[i] = verifying[i]) /\ l[n + 1] = x
  BY AppendedIs
<1>2. CallsOut(t) = {i \in 1..n : verifying[i].name = t} /\ CallsOut(t)' = {i \in 1..(n + 1) : l[i].name = t}
  BY <1>1 DEF CallsOut
<1> HIDE DEF n, l
<1>3. \A i : i \in 1..(n + 1) <=> i \in 1..n \/ i = n + 1
  BY <1>1
<1> QED
  BY <1>1, <1>2, <1>3 DEF n

LEMMA OneCallEnds ==
  ASSUME verifying \in Seq(VerifyCall), NEW k \in 1..Len(verifying), verifying' = RemoveAt(verifying, k), NEW t
  PROVE  /\ verifying[k].name = t <=> k \in CallsOut(t)
         /\ AtMostOne(CallsOut(t)) => AtMostOne(CallsOut(t)')
         /\ CallsOut(t)' = {} <=> CallsOut(t) \subseteq {k}
<1> DEFINE n == Len(verifying)
           l == verifying'
           old == CallsOut(t)
           new == CallsOut(t)'
<1>0. /\ RemoveAt(verifying, k) \in Seq(VerifyCall) /\ Len(RemoveAt(verifying, k)) = n - 1
      /\ \A j \in 1..(n - 1) : RemoveAt(verifying, k)[j] = IF j < k THEN verifying[j] ELSE verifying[j + 1]
  BY RemoveAtIs
<1>1. /\ n \in Nat /\ k \in 1..n /\ l \in Seq(VerifyCall) /\ Len(l) = n - 1
      /\ \A j \in 1..(n - 1) : l[j] = IF j < k THEN verifying[j] ELSE verifying[j + 1]
  BY <1>0
<1>a. old = {i \in 1..n : verifying[i].name = t}
  BY <1>1 DEF CallsOut
<1>b. new = {i \in 1..(n - 1) : l[i].name = t}
  BY <1>1 DEF CallsOut
<1> HIDE DEF n, l, old, new
<1>2. ASSUME NEW i \in new PROVE i \in Nat /\ IF i < k THEN i \in old \ {k} ELSE i + 1 \in old \ {k}
  <2>1. i \in 1..(n - 1) /\ l[i].name = t
    BY <1>b
  <2>2. CASE i < k
    <3>1. i \in 1..n /\ l[i] = verifying[i] /\ i # k
      BY <1>1, <2>1, <2>2
    <3> QED
      BY <1>a, <2>1, <2>2, <3>1
  <2>3. CASE ~(i < k)
    <3>1. i + 1 \in 1..n /\ l[i] = verifying[i + 1] /\ i + 1 # k
      BY <1>1, <2>1, <2>3
    <3> QED
      BY <1>a, <2>1, <2>3, <3>1
  <2> QED
    BY <2>2, <2>3
<1>3. ASSUME NEW i \in old, i # k PROVE \E j : j \in new
  <2>1. i \in 1..n /\ verifying[i].name = t
    BY <1>a
  <2>2. CASE i < k
    <3>1. i \in 1..(n - 1) /\ l[i] = verifying[i]
      BY <1>1, <2>1, <2>2
    <3>2. i \in new
      BY <1>b, <2>1, <3>1
    <3> QED
      BY <3>2
  <2>3. CASE ~(i < k)
    <3>1. i - 1 \in 1..(n - 1) /\ ~(i - 1 < k) /\ (i - 1) + 1 = i
      BY <1>1, <1>3, <2>1, <2>3
    <3>2. l[i - 1] = verifying[(i - 1) + 1]
      BY <1>1, <3>1
    <3>3. i - 1 \in new
      BY <1>b, <2>1, <3>1, <3>2
    <3> QED
      BY <3>3
  <2> QED
    BY <2>2, <2>3
<1>4. AtMostOne(old) => AtMostOne(new)
  <2> SUFFICES ASSUME \A i, j \in old : i = j, NEW i \in new, NEW j \in new PROVE i = j
    BY DEF AtMostOne
  <2>1. i \in Nat /\ j \in Nat /\ k \in Nat
    BY <1>1, <1>2
  <2>2. (IF i < k THEN i ELSE i + 1) = (IF j < k THEN j ELSE j + 1)
    BY <1>2
  <2> QED
    BY <2>1, <2>2
<1>5. new = {} <=> old \subseteq {k}
  BY <1>2, <1>3
<1>6. verifying[k].name = t <=> k \in old
  BY <1>1, <1>a
<1> QED
  BY <1>4, <1>5, <1>6 DEF old, new

LEMMA OneMoreAnswer ==
  ASSUME inbox \in Seq(Jobs), NEW job \in Jobs, inbox' = Append(inbox, job), NEW t
  PROVE  AnswersIn(t)' = IF job.kind = "verified" /\ job.name = t THEN AnswersIn(t) \cup {Len(inbox) + 1} ELSE AnswersIn(t)
<1> DEFINE n == Len(inbox)
           l == inbox'
<1>1. /\ n \in Nat /\ DOMAIN inbox = 1..n /\ DOMAIN l = 1..(n + 1)
      /\ (\A i \in 1..n : l[i] = inbox[i]) /\ l[n + 1] = job
  BY AppendedIs
<1>2. /\ AnswersIn(t) = {i \in 1..n : inbox[i].kind = "verified" /\ inbox[i].name = t}
      /\ AnswersIn(t)' = {i \in 1..(n + 1) : l[i].kind = "verified" /\ l[i].name = t}
  BY <1>1 DEF AnswersIn
<1> HIDE DEF n, l
<1>3. \A i : i \in 1..(n + 1) <=> i \in 1..n \/ i = n + 1
  BY <1>1
<1> QED
  BY <1>1, <1>2, <1>3 DEF n

LEMMA OneAnswerLands ==
  ASSUME inbox \in Seq(Jobs), inbox # <<>>, inbox' = Tail(inbox), NEW t
  PROVE  /\ Head(inbox).kind = "verified" /\ Head(inbox).name = t <=> 1 \in AnswersIn(t)
         /\ AtMostOne(AnswersIn(t)) => AtMostOne(AnswersIn(t)')
         /\ AnswersIn(t)' = {} <=> AnswersIn(t) \subseteq {1}
<1> DEFINE n == Len(inbox)
           l == inbox'
           old == AnswersIn(t)
           new == AnswersIn(t)'
<1>1. /\ n \in Nat /\ n > 0 /\ DOMAIN inbox = 1..n /\ DOMAIN l = 1..(n - 1)
      /\ (\A i \in 1..(n - 1) : l[i] = inbox[i + 1]) /\ Head(inbox) = inbox[1]
  BY TailIs
<1>a. old = {i \in 1..n : inbox[i].kind = "verified" /\ inbox[i].name = t}
  BY <1>1 DEF AnswersIn
<1>b. new = {i \in 1..(n - 1) : l[i].kind = "verified" /\ l[i].name = t}
  BY <1>1 DEF AnswersIn
<1> HIDE DEF n, l, old, new
<1>2. ASSUME NEW i \in new PROVE i \in Nat /\ i + 1 \in old /\ i + 1 # 1
  <2>1. i \in 1..(n - 1) /\ l[i].kind = "verified" /\ l[i].name = t
    BY <1>b
  <2>2. i \in Nat /\ i + 1 \in 1..n /\ i + 1 # 1 /\ l[i] = inbox[i + 1]
    BY <1>1, <2>1
  <2> QED
    BY <1>a, <2>1, <2>2
<1>3. ASSUME NEW i \in old, i # 1 PROVE i - 1 \in new
  <2>1. i \in 1..n /\ inbox[i].kind = "verified" /\ inbox[i].name = t
    BY <1>a
  <2>2. i - 1 \in 1..(n - 1) /\ (i - 1) + 1 = i
    BY <1>1, <1>3, <2>1
  <2>3. l[i - 1] = inbox[(i - 1) + 1]
    BY <1>1, <2>2
  <2> QED
    BY <1>b, <2>1, <2>2, <2>3
<1>4. AtMostOne(old) => AtMostOne(new)
  <2> SUFFICES ASSUME \A i, j \in old : i = j, NEW i \in new, NEW j \in new PROVE i = j
    BY DEF AtMostOne
  <2>1. i \in Nat /\ j \in Nat /\ i + 1 = j + 1
    BY <1>2
  <2> QED
    BY <2>1
<1>5. new = {} <=> old \subseteq {1}
  BY <1>2, <1>3
<1>6. Head(inbox).kind = "verified" /\ Head(inbox).name = t <=> 1 \in old
  BY <1>1, <1>a
<1> QED
  BY <1>4, <1>5, <1>6 DEF old, new

\* A press of `v`, or a reload that lands, with the inbox as it was or one job shorter.
LEMMA VerifyCalls ==
  ASSUME CTypes, Called, NEW s \in Targets, Verify(s),
         \A t \in Targets : /\ AtMostOne(AnswersIn(t)) => AtMostOne(AnswersIn(t)')
                            /\ AnswersIn(t)' = {} <=> AnswersIn(t) = {}
  PROVE  Called'
<1>t. verified \in [Targets -> Columns] /\ verifying \in Seq(VerifyCall) /\ panes \in Policies
  BY TheParts
<1> SUFFICES ASSUME NEW t \in Targets PROVE OneCall(t)'
  BY DEF Called
<1>1. OneCall(t)
  BY DEF Called
<1>2. CASE ~MayVerify(s)
  <2>1. verified' = verified /\ CallsOut(t)' = CallsOut(t)
    BY <1>2 DEF Verify, CallsOut
  <2> QED
    BY <1>1, <2>1 DEF OneCall
<1>3. CASE MayVerify(s)
  <2>1. verified' = [verified EXCEPT ![s] = "running"] /\ verifying' = Append(verifying, [name |-> s, policy |-> panes])
    BY <1>3 DEF Verify
  <2>2. [name |-> s, policy |-> panes] \in VerifyCall
    BY <1>t DEF VerifyCall
  <2>3. CallsOut(t)' = IF s = t THEN CallsOut(t) \cup {Len(verifying) + 1} ELSE CallsOut(t)
    BY <1>t, <2>1, <2>2, OneMoreCall
  <2>4. CASE t = s
    <3>1. CallsOut(t) = {} /\ AnswersIn(t) = {}
      BY <1>1, <1>3, <2>4 DEF OneCall, MayVerify
    <3>2. verified'[t] = "running" /\ CallsOut(t)' = {Len(verifying) + 1} /\ AnswersIn(t)' = {}
      BY <1>t, <2>1, <2>3, <2>4, <3>1
    <3> QED
      BY <3>2 DEF OneCall, AtMostOne
  <2>5. CASE t # s
    <3>1. verified'[t] = verified[t] /\ CallsOut(t)' = CallsOut(t)
      BY <1>t, <2>1, <2>3, <2>5
    <3> QED
      BY <1>1, <3>1 DEF OneCall
  <2> QED
    BY <2>4, <2>5
<1> QED
  BY <1>2, <1>3

LEMMA CalledKept ==
  ASSUME CTypes, Called, KeyEffect \/ RuntimeEffect \/ LandEffect \/ NothingRun
  PROVE  Called'
<1>t. verified \in [Targets -> Columns] /\ verifying \in Seq(VerifyCall) /\ inbox \in Seq(Jobs)
  BY TheParts
<1>0. \A t \in Targets : OneCall(t)
  BY DEF Called
<1>1. ASSUME UNCHANGED <<verified, verifying, inbox>> PROVE Called'
  BY <1>0, <1>1 DEF Called, OneCall, CallsOut, AnswersIn, AtMostOne
<1>2. CASE KeyEffect
  <2>1. inbox' = inbox
    BY <1>2 DEF KeyEffect, Unshown
  <2>2. CASE UNCHANGED <<verified, verifying>>
    BY <1>1, <2>1, <2>2
  <2>3. CASE \E s \in Targets : Verify(s)
    <3>1. \A t \in Targets : AnswersIn(t)' = AnswersIn(t)
      BY <2>1 DEF AnswersIn
    <3> QED
      BY <2>3, <3>1, VerifyCalls
  <2> QED
    BY <1>2, <2>2, <2>3 DEF KeyEffect
<1>3. CASE RuntimeEffect
  <2>1. verified' = verified
    BY <1>3 DEF RuntimeEffect
  <2>2. CASE UNCHANGED <<inbox, verifying>>
    BY <1>1, <2>1, <2>2
  <2>3. ASSUME NEW job \in Jobs, inbox' = Append(inbox, job), job.kind # "verified", verifying' = verifying
        PROVE  Called'
    <3>1. \A t \in Targets : AnswersIn(t)' = AnswersIn(t) /\ CallsOut(t)' = CallsOut(t)
      BY <1>t, <2>3, OneMoreAnswer DEF CallsOut
    <3> QED
      BY <1>0, <2>1, <3>1 DEF Called, OneCall
  <2>4. ASSUME NEW job \in Jobs, inbox' = Append(inbox, job), job.kind = "verified",
               NEW k \in 1..Len(verifying), verifying' = RemoveAt(verifying, k), job.name = verifying[k].name
        PROVE  Called'
    <3> SUFFICES ASSUME NEW t \in Targets PROVE OneCall(t)'
      BY DEF Called
    <3>1. OneCall(t)
      BY <1>0
    <3>2. AnswersIn(t)' = IF job.name = t THEN AnswersIn(t) \cup {Len(inbox) + 1} ELSE AnswersIn(t)
      BY <1>t, <2>4, OneMoreAnswer
    <3>3. /\ job.name = t <=> k \in CallsOut(t)
          /\ AtMostOne(CallsOut(t)) => AtMostOne(CallsOut(t)')
          /\ CallsOut(t)' = {} <=> CallsOut(t) \subseteq {k}
      BY <1>t, <2>4, OneCallEnds
    <3>4. CASE job.name = t
      <4>1. CallsOut(t)' = {} /\ AnswersIn(t) = {} /\ verified[t] = "running"
        BY <3>1, <3>3, <3>4 DEF OneCall, AtMostOne
      <4>2. AnswersIn(t)' = {Len(inbox) + 1}
        BY <3>2, <3>4, <4>1
      <4> QED
        BY <2>1, <4>1, <4>2 DEF OneCall, AtMostOne
    <3>5. CASE job.name # t
      <4>1. (CallsOut(t)' = {} <=> CallsOut(t) = {}) /\ AnswersIn(t)' = AnswersIn(t)
        BY <3>2, <3>3, <3>5
      <4> QED
        BY <2>1, <3>1, <3>3, <4>1 DEF OneCall
    <3> QED
      BY <3>4, <3>5
  <2> QED
    BY <1>3, <2>2, <2>3, <2>4 DEF RuntimeEffect
<1>4. CASE LandEffect
  <2>1. PICK job \in Jobs :
          /\ inbox # <<>> /\ job = Head(inbox) /\ inbox' = Tail(inbox)
          /\ \/ /\ job.kind = "reloaded"
                /\ UNCHANGED <<verified, verifying>> \/ \E s \in Targets : Verify(s)
             \/ /\ job.kind = "verified" /\ verifying' = verifying
                /\ \E c \in {"report", "no report"} : verified' = [verified EXCEPT ![job.name] = c]
             \/ job.kind = "checked" /\ UNCHANGED <<verified, verifying>>
    BY <1>4 DEF LandEffect
  <2>2. \A t \in Targets :
          /\ job.kind = "verified" /\ job.name = t <=> 1 \in AnswersIn(t)
          /\ AtMostOne(AnswersIn(t)) => AtMostOne(AnswersIn(t)')
          /\ AnswersIn(t)' = {} <=> AnswersIn(t) \subseteq {1}
    BY <1>t, <2>1, OneAnswerLands
  <2>3. CASE job.kind # "verified"
    <3>1. \A t \in Targets : /\ AtMostOne(AnswersIn(t)) => AtMostOne(AnswersIn(t)')
                             /\ AnswersIn(t)' = {} <=> AnswersIn(t) = {}
      BY <2>2, <2>3
    <3>2. CASE UNCHANGED <<verified, verifying>>
      <4>1. \A t \in Targets : CallsOut(t)' = CallsOut(t)
        BY <3>2 DEF CallsOut
      <4> QED
        BY <1>0, <3>1, <3>2, <4>1 DEF Called, OneCall
    <3>3. CASE \E s \in Targets : Verify(s)
      BY <3>1, <3>3, VerifyCalls
    <3> QED
      BY <2>1, <2>3, <3>2, <3>3
  <2>4. CASE job.kind = "verified"
    <3>1. verifying' = verifying /\ \E c \in {"report", "no report"} : verified' = [verified EXCEPT ![job.name] = c]
      BY <2>1, <2>4
    <3> SUFFICES ASSUME NEW t \in Targets PROVE OneCall(t)'
      BY DEF Called
    <3>2. OneCall(t) /\ CallsOut(t)' = CallsOut(t)
      BY <1>0, <3>1 DEF CallsOut
    <3>3. CASE job.name = t
      <4>1. AnswersIn(t)' = {} /\ CallsOut(t)' = {}
        BY <2>2, <2>4, <3>2, <3>3 DEF OneCall, AtMostOne
      <4>2. verified'[t] # "running"
        BY <1>t, <3>1, <3>3
      <4> QED
        BY <4>1, <4>2 DEF OneCall, AtMostOne
    <3>4. CASE job.name # t
      <4>1. verified'[t] = verified[t]
        BY <1>t, <3>1, <3>4
      <4>2. AnswersIn(t)' = {} <=> AnswersIn(t) = {}
        BY <2>2, <2>4, <3>4
      <4> QED
        BY <2>2, <3>2, <4>1, <4>2 DEF OneCall
    <3> QED
      BY <3>3, <3>4
  <2> QED
    BY <2>3, <2>4
<1>5. CASE NothingRun
  BY <1>1, <1>5 DEF NothingRun
<1> QED
  BY <1>2, <1>3, <1>4, <1>5

LEMMA LastIs ==
  ASSUME NEW S, NEW q \in Seq(S), NEW x \in S
  PROVE  /\ Append(q, x) # <<>> /\ Last(Append(q, x)) = x
         /\ q # <<>> => Last(q) \in S /\ Last(q) \in Range(q)
<1>1. Len(Append(q, x)) = Len(q) + 1 /\ Append(q, x)[Len(q) + 1] = x /\ Len(q) \in Nat
  BY AppendedIs
<1>2. Append(q, x) # <<>> /\ Last(Append(q, x)) = x
  BY <1>1 DEF Last
<1>3. ASSUME q # <<>> PROVE Last(q) \in S /\ Last(q) \in Range(q)
  <2>1. Len(q) \in 1..Len(q) /\ Last(q) = q[Len(q)]
    BY <1>3, TailIs DEF Last
  <2> QED
    BY <2>1 DEF Range
<1> QED
  BY <1>2, <1>3

\* What is in force is in force, or on its way to the panes.
InForceShown == inForce = IF news = <<>> THEN panes ELSE Last(news)
SaidBy(policy, job) == job.ok => job.said.edition <= policy.edition
Heard ==
  /\ inForce.edition <= onDisk.edition
  /\ \A i \in DOMAIN requested : requested[i].edition <= onDisk.edition
  /\ \A i \in DOMAIN finished : SaidBy(inForce, finished[i])
  /\ \A i \in ReloadsIn : SaidBy(inForce, inbox[i])

LEMMA EditedIs == Edited <=> InForceShown /\ Heard
BY DEF Edited, InForceShown, Heard, SaidBy

\* Later policies in both places, and the queues as they were.
LEMMA LaterHeard ==
  ASSUME CTypes, CTypes', Heard, UNCHANGED <<requested, finished, inbox>>,
         onDisk.edition <= onDisk'.edition, inForce.edition <= inForce'.edition, inForce'.edition <= onDisk'.edition
  PROVE  Heard'
<1>1. /\ onDisk.edition \in Nat /\ onDisk'.edition \in Nat /\ inForce.edition \in Nat /\ inForce'.edition \in Nat
      /\ requested \in Seq(Saying) /\ finished \in Seq(Reloads) /\ inbox \in Seq(Jobs)
  BY TheParts, PolicyFields DEF CTypes
<1>2. \A i \in DOMAIN requested : requested[i].edition \in Nat
  BY <1>1, SayingIs
<1>3. ASSUME NEW job \in Jobs, job.kind = "reloaded", SaidBy(inForce, job) PROVE SaidBy(inForce', job)
  <2>1. job.said.edition \in Nat
    BY <1>3, JobIs, SayingIs
  <2> QED
    BY <1>1, <1>3, <2>1 DEF SaidBy
<1>4. \A i \in DOMAIN finished : finished[i] \in Jobs /\ finished[i].kind = "reloaded"
  <2>1. \A job \in Reloads : job \in Jobs /\ job.kind = "reloaded"
    BY DEF Jobs, Reloads
  <2>2. \A i \in DOMAIN finished : finished[i] \in Reloads
    BY <1>1
  <2> QED
    BY <2>1, <2>2
<1>5. \A i \in ReloadsIn : inbox[i] \in Jobs /\ inbox[i].kind = "reloaded"
  BY <1>1 DEF ReloadsIn
<1>6. \A i \in DOMAIN requested : requested[i].edition <= onDisk'.edition
  BY <1>1, <1>2 DEF Heard
<1>7. \A i \in DOMAIN finished : SaidBy(inForce', finished[i])
  BY <1>3, <1>4 DEF Heard
<1>8. \A i \in ReloadsIn : SaidBy(inForce', inbox[i])
  BY <1>3, <1>5 DEF Heard
<1> QED
  BY <1>6, <1>7, <1>8 DEF Heard, ReloadsIn, SaidBy

\* The sequences gain what is heard already, or lose their first.
LEMMA RequestHeard ==
  ASSUME CTypes, Heard, AsksReload, UNCHANGED <<inForce, finished, inbox>>
  PROVE  Heard'
<1>1. PICK said \in Saying :
        /\ onDisk' \in Policies /\ onDisk.edition <= onDisk'.edition /\ said.edition <= onDisk'.edition
        /\ requested' = Append(requested, said)
  BY DEF AsksReload
<1>2. /\ onDisk.edition \in Nat /\ onDisk'.edition \in Nat /\ inForce.edition \in Nat
      /\ requested \in Seq(Saying)
  BY <1>1, TheParts, PolicyFields
<1>3. inForce'.edition <= onDisk'.edition
  BY <1>1, <1>2 DEF Heard
<1>4. ASSUME NEW i \in DOMAIN requested' PROVE requested'[i].edition <= onDisk'.edition
  <2>1. /\ Len(requested) \in Nat /\ DOMAIN requested = 1..Len(requested)
        /\ DOMAIN requested' = 1..(Len(requested) + 1)
        /\ (\A j \in 1..Len(requested) : requested'[j] = requested[j]) /\ requested'[Len(requested) + 1] = said
    BY <1>1, <1>2, AppendedIs
  <2>2. CASE i = Len(requested) + 1
    BY <1>1, <2>1, <2>2
  <2>3. CASE i \in 1..Len(requested)
    <3>1. requested[i] \in Saying
      BY <1>2, <2>3
    <3>2. requested[i].edition \in Nat /\ requested[i].edition <= onDisk.edition
      BY <2>1, <2>3, <3>1, SayingIs DEF Heard
    <3> QED
      BY <1>1, <1>2, <2>1, <2>3, <3>2
  <2> QED
    BY <1>4, <2>1, <2>2, <2>3
<1> QED
  BY <1>3, <1>4 DEF Heard, ReloadsIn

LEMMA JobHeard ==
  ASSUME CTypes, Heard, NEW job \in Jobs, inbox' = Append(inbox, job),
         job.kind = "reloaded" => SaidBy(inForce, job),
         UNCHANGED <<onDisk, inForce, requested>>, finished' = finished \/ finished' = <<>>
  PROVE  Heard'
<1>1. \A i \in ReloadsIn' : SaidBy(inForce, inbox'[i])
  <2>1. inbox \in Seq(Jobs)
    BY TheParts
  <2>2. /\ Len(inbox) \in Nat /\ DOMAIN inbox = 1..Len(inbox) /\ DOMAIN inbox' = 1..(Len(inbox) + 1)
        /\ (\A j \in 1..Len(inbox) : inbox'[j] = inbox[j]) /\ inbox'[Len(inbox) + 1] = job
    BY <2>1, AppendedIs
  <2>3. \A i : i \in 1..(Len(inbox) + 1) => i \in 1..Len(inbox) \/ i = Len(inbox) + 1
    BY <2>2
  <2> QED
    BY <2>2, <2>3 DEF ReloadsIn, Heard
<1>2. \A i \in DOMAIN finished' : SaidBy(inForce, finished'[i])
  BY DEF Heard
<1> QED
  BY <1>1, <1>2 DEF Heard, ReloadsIn, SaidBy

LEMMA LandingHeard ==
  ASSUME CTypes, Heard, inbox # <<>>, inbox' = Tail(inbox), UNCHANGED <<onDisk, inForce, requested, finished>>
  PROVE  Heard'
<1>1. inbox \in Seq(Jobs)
  BY TheParts
<1>2. /\ Len(inbox) \in Nat /\ DOMAIN inbox = 1..Len(inbox) /\ DOMAIN inbox' = 1..(Len(inbox) - 1)
      /\ \A j \in 1..(Len(inbox) - 1) : inbox'[j] = inbox[j + 1]
  BY <1>1, TailIs
<1>3. \A i \in 1..(Len(inbox) - 1) : i + 1 \in 1..Len(inbox)
  BY <1>2
<1>4. \A i \in ReloadsIn' : SaidBy(inForce, inbox'[i])
  BY <1>2, <1>3 DEF ReloadsIn, Heard
<1> QED
  BY <1>4 DEF Heard, ReloadsIn, SaidBy

\* A reload of a file that loads puts in force what was written by whoever asked for it.
LEMMA ReloadHeard ==
  ASSUME CTypes, CTypes', Heard, requested # <<>>, requested' = Tail(requested), UNCHANGED <<onDisk, inbox>>,
         finished' = <<[kind |-> "reloaded", ok |-> onDisk.loads, said |-> Head(requested)]>>,
         IF onDisk.loads THEN inForce' = onDisk ELSE inForce' = inForce
  PROVE  Heard'
<1>1. /\ requested \in Seq(Saying) /\ onDisk.edition \in Nat /\ inForce.edition \in Nat /\ inbox \in Seq(Jobs)
  BY TheParts, PolicyFields
<1>2. /\ Len(requested) \in Nat /\ DOMAIN requested = 1..Len(requested) /\ DOMAIN requested' = 1..(Len(requested) - 1)
      /\ (\A j \in 1..(Len(requested) - 1) : requested'[j] = requested[j + 1])
      /\ Head(requested) = requested[1] /\ 1 \in DOMAIN requested
  BY <1>1, TailIs
<1>3. \A i \in 1..(Len(requested) - 1) : i + 1 \in 1..Len(requested)
  BY <1>2
<1>4. \A i \in DOMAIN requested' : requested'[i].edition <= onDisk'.edition
  BY <1>2, <1>3 DEF Heard
<1>5. inForce.edition <= inForce'.edition /\ inForce'.edition <= onDisk'.edition /\ inForce'.edition \in Nat
  BY <1>1 DEF Heard
<1>6. \A i \in DOMAIN finished' : SaidBy(inForce', finished'[i])
  <2>1. DOMAIN finished' = {1} /\ finished'[1].ok = onDisk.loads /\ finished'[1].said = requested[1]
    BY <1>2
  <2>2. onDisk.loads => requested[1].edition <= inForce'.edition
    BY <1>2 DEF Heard
  <2> QED
    BY <2>1, <2>2 DEF SaidBy
<1>7. \A i \in ReloadsIn : SaidBy(inForce', inbox[i])
  <2> SUFFICES ASSUME NEW i \in ReloadsIn, inbox[i].ok PROVE inbox[i].said.edition <= inForce'.edition
    BY DEF SaidBy
  <2>1. inbox[i] \in Jobs /\ inbox[i].kind = "reloaded"
    BY <1>1 DEF ReloadsIn
  <2>2. inbox[i].said.edition \in Nat
    BY <2>1, JobIs, SayingIs
  <2>3. inbox[i].said.edition <= inForce.edition
    BY DEF Heard, SaidBy
  <2> QED
    BY <1>1, <1>5, <2>2, <2>3
<1> QED
  BY <1>4, <1>5, <1>6, <1>7 DEF Heard, ReloadsIn, SaidBy

LEMMA EditedKept ==
  CTypes /\ Fronted /\ Edited /\ [ConsoleNext]_consoleVars => Edited'
<1> SUFFICES ASSUME CTypes, Fronted, InForceShown, Heard, [ConsoleNext]_consoleVars
             PROVE  InForceShown' /\ Heard'
  <2>1. (InForceShown' /\ Heard') => Edited'
    BY DEF Edited, InForceShown, Heard, SaidBy, ReloadsIn
  <2> QED
    BY <2>1, EditedIs
<1>t. CTypes'
  BY ConsoleTypesKept
<1>n. /\ onDisk.edition \in Nat /\ inForce.edition \in Nat /\ inForce.edition <= onDisk.edition
      /\ onDisk \in Policies /\ news \in Seq(Policies) /\ finished \in Seq(Reloads)
  BY TheParts, PolicyFields DEF Heard
<1>1. ASSUME UNCHANGED <<onDisk, inForce, requested, finished, inbox>> PROVE Heard'
  BY <1>1, <1>n, <1>t, LaterHeard
<1>2. ASSUME UNCHANGED <<inForce, news, panes>> PROVE InForceShown'
  BY <1>2 DEF InForceShown
<1>3. ASSUME Installs, panes' = panes PROVE InForceShown'
  <2>1. Append(news, onDisk) # <<>> /\ Last(Append(news, onDisk)) = onDisk
    BY <1>n, LastIs
  <2> QED
    BY <1>3, <2>1 DEF Installs, InForceShown
<1>4. CASE Press \/ Answer
  <2>1. KeyEffect
    BY <1>4, KeysAre
  <2>2. UNCHANGED <<inForce, finished, inbox, news, panes>>
    BY <2>1 DEF KeyEffect, Unshown
  <2>3. Heard'
    BY <1>1, <2>1, <2>2, RequestHeard DEF KeyEffect, Quiet
  <2> QED
    BY <1>2, <2>2, <2>3
<1>5. CASE EditElsewhere
  <2>1. UNCHANGED <<inForce, news, panes, requested, finished, inbox>>
    BY <1>5 DEF EditElsewhere, runtime, screen
  <2>2. onDisk.edition <= onDisk'.edition
    BY <1>5, <1>n, EditRewrites DEF Rewritten
  <2>3. inForce.edition <= inForce'.edition /\ inForce'.edition <= onDisk'.edition
    <3>1. onDisk'.edition \in Nat
      BY <1>t, PolicyFields DEF CTypes
    <3> QED
      BY <1>n, <2>1, <2>2, <3>1
  <2> QED
    BY <1>2, <1>t, <2>1, <2>2, <2>3, LaterHeard
<1>6. CASE WatcherReloads
  <2>1. Installs /\ UNCHANGED <<onDisk, panes, requested, finished, inbox>>
    BY <1>6 DEF WatcherReloads, runtime, screen
  <2>2. inForce' = onDisk
    BY <2>1 DEF Installs
  <2> QED
    BY <1>3, <1>n, <1>t, <2>1, <2>2, LaterHeard
<1>7. CASE Runtime
  <2>1. RuntimeEffect
    BY <1>7, RuntimeDoes
  <2>2. CASE inbox' = inbox
    <3>1. CASE /\ requested # <<>> /\ requested' = Tail(requested)
               /\ finished' = <<[kind |-> "reloaded", ok |-> onDisk.loads, said |-> Head(requested)]>>
               /\ IF onDisk.loads THEN Installs ELSE UNCHANGED <<inForce, news>>
               /\ UNCHANGED <<onDisk, panes>>
      <4>1. IF onDisk.loads THEN inForce' = onDisk ELSE inForce' = inForce
        BY <3>1 DEF Installs
      <4>2. Heard'
        BY <1>t, <2>2, <3>1, <4>1, ReloadHeard
      <4> QED
        BY <1>2, <1>3, <3>1, <4>2
    <3>2. ASSUME NEW job \in Jobs, inbox' = Append(inbox, job) PROVE FALSE
      <4>1. inbox \in Seq(Jobs)
        BY TheParts
      <4>2. Len(Append(inbox, job)) = Len(inbox) + 1 /\ Len(inbox) \in Nat
        BY <4>1, AppendedIs
      <4>3. Len(Append(inbox, job)) = Len(inbox)
        BY <2>2, <3>2
      <4> QED
        BY <4>2, <4>3
    <3> QED
      BY <2>1, <3>1, <3>2 DEF RuntimeEffect
  <2>3. ASSUME NEW job \in Jobs, inbox' = Append(inbox, job), UNCHANGED <<onDisk, inForce, news, requested, panes>>,
               \/ job.kind = "reloaded" /\ Len(finished) = 1 /\ job = finished[1] /\ finished' = <<>>
               \/ job.kind # "reloaded" /\ finished' = finished
        PROVE  InForceShown' /\ Heard'
    <3>1. job.kind = "reloaded" => SaidBy(inForce, job)
      <4>1. Len(finished) = 1 => 1 \in DOMAIN finished
        BY <1>n
      <4> QED
        BY <2>3, <4>1 DEF Heard
    <3> QED
      BY <1>2, <2>3, <3>1, JobHeard
  <2> QED
    BY <2>1, <2>2, <2>3 DEF RuntimeEffect
<1>8. CASE Land
  <2>1. /\ inbox # <<>> /\ inbox' = Tail(inbox)
        /\ UNCHANGED <<onDisk, inForce, news, panes, requested, finished>>
    BY <1>8 DEF Land, proxy
  <2> QED
    BY <1>2, <2>1, LandingHeard
<1>9. CASE Adopt
  <2>1. /\ UNCHANGED <<onDisk, inForce, requested, finished, inbox>> /\ news' = <<>>
        /\ panes' = IF news = <<>> THEN panes ELSE Last(news)
    BY <1>9 DEF Adopt, runtime, Show
  <2>2. InForceShown'
    BY <2>1 DEF InForceShown
  <2> QED
    BY <1>1, <2>1, <2>2
<1>10. CASE Frame \/ NextPass \/ (\E q \in Questions : Ask(q) \/ Withdraw(q)) \/ ReadHangs \/ UNCHANGED consoleVars
  <2>1. UNCHANGED <<onDisk, inForce, news, panes, requested, finished, inbox>>
    BY <1>10 DEF Frame, NextPass, Ask, Withdraw, ReadHangs, consoleVars, proxy, runtime, screen
  <2> QED
    BY <1>1, <1>2, <2>1
<1> QED
  BY <1>4, <1>5, <1>6, <1>7, <1>8, <1>9, <1>10 DEF ConsoleNext, Pass, Elsewhere

LEMMA ConsoleInvKept == CInv /\ [ConsoleNext]_consoleVars => CInv'
<1> SUFFICES ASSUME CInv, [ConsoleNext]_consoleVars PROVE CInv'
  OBVIOUS
<1>1. CTypes /\ Held /\ Fronted /\ Awaited /\ Edited /\ Checked /\ Called
  BY DEF CInv
<1>2. KeyEffect \/ RuntimeEffect \/ LandEffect \/ NothingRun
  BY <1>1, JobStepsAre
<1> QED
  BY <1>1, <1>2, ConsoleTypesKept, HeldKept, FrontedKept, AwaitedKept, EditedKept, CheckedKept, CalledKept DEF CInv

-----------------------------------------------------------------------------
(* A grant lands in front of the rule that asked. *)

LEMMA BelowIs ==
  ASSUME NEW n \in Nat, n > 0
  PROVE  IsFiniteSet(1..(n - 1)) /\ Cardinality(1..(n - 1)) = n - 1
<1> DEFINE m == n - 1
<1>1. m \in Nat
  OBVIOUS
<1> HIDE DEF m
<1>2. IsFiniteSet(1..m) /\ Cardinality(1..m) = IF 1 > m THEN 0 ELSE m - 1 + 1
  BY <1>1, FS_Interval
<1>3. (IF 1 > m THEN 0 ELSE m - 1 + 1) = m
  BY <1>1
<1> QED
  BY <1>2, <1>3 DEF m

\* Of two rule lists, of which the second has in front of a rule, all that the first has in
\* front of it, each once: it stands no earlier in the second.
LEMMA NoEarlier ==
  ASSUME NEW asked \in Seq(Rules), NEW list \in Seq(Rules), Asking \in Range(asked), Asking \in Range(list),
         \A i, j \in 1..(Position(Asking, asked) - 1) : asked[i] = asked[j] => i = j,
         \A r \in Range(asked) : InFront(r, Asking, asked) => r \in Range(list) /\ InFront(r, Asking, list)
  PROVE  Position(Asking, asked) <= Position(Asking, list)
<1> DEFINE p == Position(Asking, asked)
           a == Position(Asking, list)
           to == [i \in 1..(p - 1) |-> Position(asked[i], list)]
<1>1. p \in 1..Len(asked) /\ a \in 1..Len(list) /\ p \in Nat /\ a \in Nat /\ p > 0 /\ a > 0
  BY WhereItIs
<1>2. ASSUME NEW i \in 1..(p - 1)
      PROVE  /\ asked[i] \in Range(list) /\ Position(asked[i], list) \in 1..(a - 1)
             /\ list[Position(asked[i], list)] = asked[i]
  <2>1. i \in 1..Len(asked) /\ asked[i] \in Range(asked)
    BY <1>1 DEF Range
  <2>2. Position(asked[i], asked) \in 1..Len(asked) /\ Position(asked[i], asked) <= i
    BY <2>1, WhereItIs
  <2>3. InFront(asked[i], Asking, asked)
    BY <1>1, <2>2 DEF InFront
  <2>4. asked[i] \in Range(list) /\ Position(asked[i], list) < a
    BY <2>1, <2>3 DEF InFront
  <2>5. Position(asked[i], list) \in 1..Len(list) /\ list[Position(asked[i], list)] = asked[i]
    BY <2>4, WhereItIs
  <2> QED
    BY <1>1, <2>4, <2>5
<1> HIDE DEF p, a
<1>3. to \in [1..(p - 1) -> 1..(a - 1)] /\ \A i \in 1..(p - 1) : to[i] = Position(asked[i], list)
  BY <1>2
<1> HIDE DEF to
<1>4. ASSUME a < p PROVE FALSE
  <2>1. /\ IsFiniteSet(1..(p - 1)) /\ Cardinality(1..(p - 1)) = p - 1
        /\ IsFiniteSet(1..(a - 1)) /\ Cardinality(1..(a - 1)) = a - 1
    BY <1>1, BelowIs
  <2>2. Cardinality(1..(a - 1)) < Cardinality(1..(p - 1))
    BY <1>1, <1>4, <2>1
  <2> DEFINE S == 1..(p - 1)
             T == 1..(a - 1)
  <2>5. IsFiniteSet(S) /\ IsFiniteSet(T) /\ Cardinality(T) < Cardinality(S) /\ to \in [S -> T]
    BY <1>3, <2>1, <2>2
  <2> HIDE DEF S, T
  <2>6. \E i, j \in S : i # j /\ to[i] = to[j]
    BY <2>5, FS_PigeonHole
  <2>3. PICK i, j \in 1..(p - 1) : i # j /\ to[i] = to[j]
    BY <2>6 DEF S
  <2>4. asked[i] = asked[j]
    BY <1>2, <1>3, <2>3
  <2> QED
    BY <2>3, <2>4 DEF p
<1> QED
  BY <1>1, <1>4 DEF p, a

LEMMA PutInFront ==
  ASSUME NEW list \in Seq(Rules), Asking \in Range(list), NEW g \in Rules, g # Asking,
         NEW p \in Nat, p > 0, p <= Position(Asking, list)
  PROVE  InFront(g, Asking, InsertedRule(list, p, g))
<1> DEFINE n == Len(list)
           a == Position(Asking, list)
           l == InsertedRule(list, p, g)
<1>1. n \in Nat /\ a \in 1..n /\ list[a] = Asking /\ \A i \in 1..n : list[i] = Asking => a <= i
  BY WhereItIs
<1>2. p \in 1..n
  BY <1>1
<1>3. l = InsertAt(list, p, g)
  BY <1>1, <1>2 DEF InsertedRule
<1>a. /\ InsertAt(list, p, g) \in Seq(Rules) /\ Len(InsertAt(list, p, g)) = n + 1
      /\ \A j \in 1..(n + 1) :
           InsertAt(list, p, g)[j] = IF j < p THEN list[j] ELSE IF j = p THEN g ELSE list[j - 1]
  BY <1>2, PutIn
<1>4. /\ l \in Seq(Rules) /\ Len(l) = n + 1
      /\ \A j \in 1..(n + 1) : l[j] = IF j < p THEN list[j] ELSE IF j = p THEN g ELSE list[j - 1]
  BY <1>3, <1>a
<1>5. p <= a
  OBVIOUS
<1> HIDE DEF n, a, l
<1>6. l[p] = g /\ p \in 1..Len(l)
  BY <1>1, <1>2, <1>4
<1>7. l[a + 1] = Asking /\ a + 1 \in 1..Len(l)
  <2>1. a + 1 \in 1..(n + 1) /\ ~(a + 1 < p) /\ a + 1 # p /\ (a + 1) - 1 = a
    BY <1>1, <1>2, <1>5
  <2> QED
    BY <1>1, <1>4, <2>1
<1>8. g \in Range(l) /\ Asking \in Range(l)
  BY <1>4, <1>6, <1>7 DEF Range
<1>9. Position(g, l) \in 1..Len(l) /\ Position(g, l) <= p
  BY <1>4, <1>6, <1>8, WhereItIs
<1>10. Position(Asking, l) \in 1..Len(l) /\ l[Position(Asking, l)] = Asking
  BY <1>4, <1>8, WhereItIs
<1>11. ~(Position(Asking, l) < p)
  <2> SUFFICES ASSUME Position(Asking, l) < p PROVE FALSE
    OBVIOUS
  <2>1. Position(Asking, l) \in 1..n /\ list[Position(Asking, l)] = Asking
    BY <1>1, <1>2, <1>4, <1>10
  <2>2. a <= Position(Asking, l)
    BY <1>1, <2>1
  <2> QED
    BY <1>1, <1>2, <1>5, <2>1, <2>2
<1>12. Position(Asking, l) # p
  BY <1>6, <1>10
<1>13. Position(g, l) < Position(Asking, l)
  BY <1>2, <1>4, <1>9, <1>10, <1>11, <1>12
<1> QED
  BY <1>13 DEF InFront, l

LEMMA GrantsLand ==
  ASSUME CTypes, NEW q \in Questions, Granted(q), Asking \in Range(under[q]) \cap Range(onDisk.rules),
         \A i, j \in 1..(Position(Asking, under[q]) - 1) : under[q][i] = under[q][j] => i = j,
         \A r \in Range(under[q]) :
           InFront(r, Asking, under[q]) => r \in Range(onDisk.rules) /\ InFront(r, Asking, onDisk.rules)
  PROVE  InFront(Grant(q), Asking, onDisk'.rules)
<1>1. onDisk \in Policies /\ under[q] \in Seq(Rules) /\ onDisk.rules \in Seq(Rules)
  BY TheParts, PolicyFields
<1>2. Landing(q) = Position(Asking, under[q]) /\ Landing(q) \in Nat /\ Landing(q) > 0 /\ Grant(q) \in Rules
  BY <1>1, LandingIs DEF Landing
<1>3. Landing(q) <= Position(Asking, onDisk.rules)
  BY <1>1, <1>2, NoEarlier
<1>4. Grant(q) # Asking
  BY RulesDiffer DEF Grants
<1>5. onDisk'.rules = InsertedRule(onDisk.rules, Landing(q), Grant(q))
  BY <1>1, GrantedIs
<1> QED
  BY <1>1, <1>2, <1>3, <1>4, <1>5, PutInFront

\* Where the file is written and the questions are answered.
LEMMA OnlyAnswersGrant ==
  ASSUME CTypes, Fronted, [ConsoleNext]_consoleVars
  PROVE  AnswerEffect \/ NoNewGrant
<1>1. CASE Press
  BY <1>1, PressesAre DEF PressEffect
<1>2. CASE Answer
  BY <1>2, AnswersAre
<1>3. CASE EditElsewhere
  BY <1>3, EditRewrites, TheParts DEF Rewritten
<1>4. CASE ~Press /\ ~Answer /\ ~EditElsewhere
  <2>1. onDisk' = onDisk
    BY <1>4 DEF ConsoleNext, Pass, Adopt, Land, Frame, NextPass, Elsewhere, Ask, Withdraw, WatcherReloads,
                ReadHangs, Runtime, Reload, ReportReload, VerificationEnds, CheckEnds, consoleVars, proxy
  <2> QED
    BY <2>1, QuietGrants
<1> QED
  BY <1>1, <1>2, <1>3, <1>4

LEMMA OnlyAnswersSettle ==
  ASSUME CTypes, Fronted, [ConsoleNext]_consoleVars, NEW q \in Questions, how'[q] \in {"once", "rule"}
  PROVE  how'[q] = how[q] \/ AnswerEffect
<1>t. how \in [Questions -> Hows]
  BY TheParts
<1>1. CASE Press
  BY <1>1, PressesAre DEF PressEffect
<1>2. CASE Answer
  BY <1>2, AnswersAre
<1>3. ASSUME NEW p \in Questions, Ask(p) PROVE how'[q] = how[q]
  BY <1>t, <1>3 DEF Ask
<1>4. ASSUME NEW p \in Questions, Withdraw(p) PROVE how'[q] = how[q]
  BY <1>t, <1>4 DEF Withdraw
<1>5. CASE Pass \/ EditElsewhere \/ WatcherReloads \/ ReadHangs \/ Runtime \/ UNCHANGED consoleVars
  BY <1>5 DEF Pass, Adopt, Land, Frame, NextPass, EditElsewhere, WatcherReloads, ReadHangs,
              Runtime, Reload, ReportReload, VerificationEnds, CheckEnds, consoleVars, broker
<1> QED
  BY <1>1, <1>2, <1>3, <1>4, <1>5 DEF ConsoleNext, Elsewhere

LEMMA StepShown ==
  ASSUME CTypes, Fronted, [ConsoleNext]_consoleVars, NEW q \in Questions,
         how[q] = "waiting", how'[q] \in {"once", "rule"}
  PROVE  q \in pending
BY OnlyAnswersSettle DEF AnswerEffect, Settles

LEMMA StepWritten ==
  ASSUME CTypes, Fronted, [ConsoleNext]_consoleVars, NEW q \in Questions, how[q] # "rule", how'[q] = "rule"
  PROVE  Grant(q) \in Range(onDisk'.rules)
<1>1. Granted(q)
  BY OnlyAnswersSettle DEF AnswerEffect
<1>2. onDisk \in Policies /\ under[q] \in Seq(Rules) /\ onDisk.rules \in Seq(Rules)
  BY TheParts, PolicyFields
<1>3. onDisk'.rules = InsertedRule(onDisk.rules, Landing(q), Grant(q))
  BY <1>1, <1>2, GrantedIs
<1>4. Landing(q) \in Nat /\ Landing(q) > 0 /\ Grant(q) \in Rules
  BY <1>2, LandingIs
<1> QED
  BY <1>2, <1>3, <1>4, InsertedRange

LEMMA StepInFront ==
  ASSUME CTypes, Fronted, [ConsoleNext]_consoleVars, NEW q \in Questions,
         Grant(q) \notin Range(onDisk.rules), Grant(q) \in Range(onDisk'.rules),
         Asking \in Range(under[q]) \cap Range(onDisk.rules),
         \A i, j \in 1..(Position(Asking, under[q]) - 1) : under[q][i] = under[q][j] => i = j,
         \A r \in Range(under[q]) :
           InFront(r, Asking, under[q]) => r \in Range(onDisk.rules) /\ InFront(r, Asking, onDisk.rules)
  PROVE  InFront(Grant(q), Asking, onDisk'.rules)
<1>1. ~NoNewGrant
  BY DEF NoNewGrant
<1>2. PICK p \in Questions : Granted(p)
  BY <1>1, OnlyAnswersGrant DEF AnswerEffect
<1>3. onDisk \in Policies /\ under[p] \in Seq(Rules) /\ onDisk.rules \in Seq(Rules)
  BY TheParts, PolicyFields
<1>4. onDisk'.rules = InsertedRule(onDisk.rules, Landing(p), Grant(p))
  BY <1>2, <1>3, GrantedIs
<1>5. Landing(p) \in Nat /\ Landing(p) > 0 /\ Grant(p) \in Rules
  BY <1>3, LandingIs
<1>6. Grant(q) = Grant(p)
  BY <1>3, <1>4, <1>5, InsertedRange
<1>7. Grant(q).answers = q /\ Grant(p).answers = p
  BY DEF Grant
<1>8. q = p
  BY <1>6, <1>7
<1> QED
  BY <1>2, <1>8, GrantsLand

LEMMA StepScreen ==
  ASSUME CTypes, [ConsoleNext]_consoleVars, modal # Clear, modal' # modal
  PROVE  stage = "keys"
<1>1. CASE Land
  BY <1>1, LandsAre DEF LandEffect
<1>2. CASE Frame
  BY <1>2, RaisedIs DEF Frame
<1>3. CASE Answer
  BY <1>3 DEF Answer, Quick, OpenDialogue, Dismiss, AnswerUnwritten, AnswerWritten, Key
<1>4. CASE Press
  BY <1>4, PressesAre DEF PressEffect
<1>5. CASE Adopt \/ NextPass \/ Elsewhere \/ Runtime \/ UNCHANGED consoleVars
  BY <1>5 DEF Adopt, NextPass, Elsewhere, Ask, Withdraw, EditElsewhere, WatcherReloads, ReadHangs,
              Runtime, Reload, ReportReload, VerificationEnds, CheckEnds, consoleVars, screen
<1> QED
  BY <1>1, <1>2, <1>3, <1>4, <1>5 DEF ConsoleNext, Pass

LEMMA StepVerifies ==
  ASSUME CInv, [ConsoleNext]_consoleVars, NEW s \in Targets,
         stage = "land", verified[s] # "running", verified'[s] = "running"
  PROVE  \E p \in {panes} \cup Range(news) : p.edition >= Head(inbox).said.edition
<1>1. CTypes /\ Fronted /\ Edited
  BY DEF CInv
<1>t. verified \in [Targets -> Columns] /\ inbox \in Seq(Jobs) /\ news \in Seq(Policies)
  BY <1>1, TheParts
<1>2. LandEffect
  <2>1. KeyEffect \/ RuntimeEffect \/ LandEffect \/ NothingRun
    BY <1>1, JobStepsAre
  <2> QED
    BY <2>1 DEF KeyEffect, RuntimeEffect, NothingRun
<1>3. PICK job \in Jobs :
        /\ inbox # <<>> /\ job = Head(inbox)
        /\ \/ job.kind = "reloaded" /\ (UNCHANGED <<verified, verifying>> \/ job.ok)
           \/ /\ job.kind = "verified"
              /\ \E c \in {"report", "no report"} : verified' = [verified EXCEPT ![job.name] = c]
           \/ job.kind = "checked" /\ UNCHANGED verified
  BY <1>2 DEF LandEffect
<1>4. job.kind = "reloaded" /\ job.ok
  <2>1. ASSUME NEW c \in {"report", "no report"}, verified' = [verified EXCEPT ![job.name] = c]
        PROVE  FALSE
    BY <1>t, <2>1
  <2> QED
    BY <1>3, <2>1
<1>5. 1 \in DOMAIN inbox /\ Head(inbox) = inbox[1]
  BY <1>3, <1>t, TailIs
<1>6. 1 \in ReloadsIn
  BY <1>3, <1>4, <1>5 DEF ReloadsIn
<1>7. Head(inbox).said.edition <= inForce.edition
  BY <1>1, <1>3, <1>4, <1>5, <1>6 DEF Edited
<1>8. inForce \in {panes} \cup Range(news)
  <2>1. inForce = IF news = <<>> THEN panes ELSE Last(news)
    BY <1>1 DEF Edited
  <2>2. ASSUME news # <<>> PROVE Last(news) \in Range(news)
    <3>1. Len(news) \in 1..Len(news) /\ Last(news) = news[Len(news)]
      BY <1>t, <2>2, TailIs DEF Last
    <3> QED
      BY <1>t, <3>1 DEF Range
  <2> QED
    BY <2>1, <2>2
<1>9. Head(inbox).said.edition \in Nat /\ inForce.edition \in Nat
  BY <1>1, <1>3, <1>4, JobIs, SayingIs, TheParts, PolicyFields
<1>10. inForce.edition >= Head(inbox).said.edition
  BY <1>7, <1>9
<1> QED
  BY <1>8, <1>10

\* comments in event_loop, answer, raise_dialogue and verification_landed: whatever happens
\* elsewhere, an answer goes to a question that was in the frame, the rule it stands for is
\* in the file by then, in front of the one that asked, and nothing but a key takes away
\* what the operator has in front of them.
THEOREM AnswersAreAlwaysTheOperators == ConsoleSpec => AnswersAreTheOperators
<1>1. ConsoleInit => CInv
  BY ConsoleInitHolds
<1>2. CInv /\ [ConsoleNext]_consoleVars => CInv'
  BY ConsoleInvKept
<1>3. ASSUME CInv, [ConsoleNext]_consoleVars
      PROVE  /\ \A q \in Questions : how[q] = "waiting" /\ how'[q] \in {"once", "rule"} => q \in pending
             /\ \A q \in Questions : how[q] # "rule" /\ how'[q] = "rule" => Grant(q) \in Range(onDisk'.rules)
             /\ \A q \in Questions :
                  /\ Grant(q) \notin Range(onDisk.rules) /\ Grant(q) \in Range(onDisk'.rules)
                  /\ Asking \in Range(under[q]) \cap Range(onDisk.rules)
                  /\ \A i, j \in 1..(Position(Asking, under[q]) - 1) : under[q][i] = under[q][j] => i = j
                  /\ \A r \in Range(under[q]) :
                       InFront(r, Asking, under[q]) => r \in Range(onDisk.rules) /\ InFront(r, Asking, onDisk.rules)
                  => InFront(Grant(q), Asking, onDisk'.rules)
             /\ modal # Clear /\ modal' # modal => stage = "keys"
  <2>1. CTypes /\ Fronted
    BY <1>3 DEF CInv
  <2> QED
    BY <1>3, <2>1, StepShown, StepWritten, StepInFront, StepScreen
<1> QED
  BY <1>1, <1>2, <1>3, PTL DEF ConsoleSpec, AnswersAreTheOperators, OnlyWhatWasShown, AnswersAreWritten,
                               GrantsGoInFront, TheScreenIsTheOperators

\* comments on `verify` and on Said: no service is called twice at once, a column that says it
\* is being checked is, and what follows a write runs once the write is in force.
THEOREM VerifiedAlwaysOnceAndLate == ConsoleSpec => VerifiedOnceAndLate
<1>1. ConsoleInit => CInv
  BY ConsoleInitHolds
<1>2. CInv /\ [ConsoleNext]_consoleVars => CInv'
  BY ConsoleInvKept
<1>3. CInv => ConsoleTypeOK /\ OneCallPerService
  BY ConsoleTyped, CalledOnce DEF CInv
<1>4. ASSUME CInv, [ConsoleNext]_consoleVars
      PROVE  \A s \in Targets :
               stage = "land" /\ verified[s] # "running" /\ verified'[s] = "running" =>
                 \E p \in {panes} \cup Range(news) : p.edition >= Head(inbox).said.edition
  BY <1>4, StepVerifies
<1> QED
  BY <1>1, <1>2, <1>3, <1>4, PTL DEF ConsoleSpec, VerifiedOnceAndLate, WritesAreVerified
=============================================================================
