-------------------------- MODULE DictCacheProofs --------------------------
(***************************************************************************)
(* Proofs about the dictionary build cache, for any number of processes,   *)
(* files, contents, loads, edits, invalidations, failing calls and kills:  *)
(* whatever the processes do to one another's fragments, an index is       *)
(* stitched from whole ones, and no file is skipped without a cause.       *)
(*                                                                         *)
(* The first part uses only that a fragment is determined by its source.   *)
(* The second opens both: the weight a text has in a group survives the    *)
(* sorting, the filters and the joining, so the index stitched from        *)
(* fragments is the index built of all the lines in one pass.              *)
(* The third is about the tables that import one another: visit ends,      *)
(* whatever they import, and has every table it reaches once and in order. *)
(***************************************************************************)
EXTENDS DictCache, FiniteSetTheorems, SequenceTheorems, TLAPS

-----------------------------------------------------------------------------
(***************************************************************************)
(* Sequences.                                                              *)
(***************************************************************************)
LEMMA SetAsSequence ==
  ASSUME NEW S, NEW T \in SUBSET S, IsFiniteSet(T)
  PROVE  SetToSeq(T) \in Seq(S)
<1> DEFINE n == Cardinality(T)
<1>1. n \in Nat
  BY FS_CardinalityType
<1>2. \E f \in [1 .. n -> T] : IsInjective(f)
  <2>1. ExistsBijection(1 .. n, T)
    BY FS_CardinalityType
  <2>2. PICK f \in Bijection(1 .. n, T) : TRUE
    BY <2>1 DEF ExistsBijection
  <2> QED
    BY <2>2 DEF Bijection, Injection, IsInjective
<1>3. SetToSeq(T) \in [1 .. n -> T]
  BY <1>2 DEF SetToSeq
<1> QED
  BY <1>1, <1>3

LEMMA TailProperties ==
  ASSUME NEW S, NEW s \in Seq(S), s # <<>>
  PROVE  Head(s) \in S /\ Tail(s) \in Seq(S)
  BY HeadTailProperties

-----------------------------------------------------------------------------
(***************************************************************************)
(* The type invariant, taken apart.                                        *)
(***************************************************************************)
Fragments == {Fragment(c) : c \in Contents}

Errors == {"read", "parse", "open", "deserialize", "create", "write"}

LoadOK(l) ==
  /\ l \in Load
  /\ l.at \in {"open", "save", "fill"} <=> l.content # Nothing
  /\ l.at \in {"open", "save", "fill"} => l.todo # <<>>
  /\ l.at \in {"save", "fill"} => Body(l.content).ok

MadeOK(m) ==
  /\ m.contents \in Seq(Contents) /\ m.skipped \in Seq(Skips)
  /\ m.index = Stitch([i \in DOMAIN m.contents |-> Fragment(m.contents[i])])

FilesOK     == files \in [Names -> Contents \union {Missing}]
FragmentsOK == /\ DOMAIN fragments = Contents
               /\ \A c \in Contents : fragments[c] \in {Missing, Torn, Fragment(c)}
LoadsOK     == /\ DOMAIN loads = Processes
               /\ loads = [p \in Processes |-> loads[p]]
               /\ \A p \in Processes : LoadOK(loads[p])
IndexesOK   == /\ DOMAIN made \subseteq Processes
               /\ \A p \in DOMAIN made : MadeOK(made[p])
CurrentOK   == /\ DOMAIN current = Processes
               /\ \A p \in Processes : current[p] # Nothing => current[p].total # 0
HistoryOK   == dropped \subseteq Contents /\ began \subseteq Processes

LEMMA TypeParts ==
  TypeOK <=> /\ FilesOK /\ FragmentsOK /\ LoadsOK /\ IndexesOK /\ CurrentOK
             /\ spent \in Spent /\ HistoryOK
<1>1. loads \in [Processes -> Load]
        <=> /\ DOMAIN loads = Processes
            /\ loads = [p \in Processes |-> loads[p]]
            /\ \A p \in Processes : loads[p] \in Load
  OBVIOUS
<1> QED
  BY <1>1, Zenon
    DEF TypeOK, FilesOK, FragmentsOK, LoadsOK, IndexesOK, CurrentOK, HistoryOK, LoadOK, MadeOK

LEMMA IdleOK == LoadOK(Idle)
  BY DEF LoadOK, Idle, Load

LEMMA TypeAgain ==
  ASSUME FilesOK', FragmentsOK', LoadsOK', IndexesOK', CurrentOK', spent' \in Spent,
         HistoryOK'
  PROVE  TypeOK'
<1>1. loads' \in [Processes -> Load]
  BY DEF LoadsOK, LoadOK
<1> QED
  BY <1>1, Zenon
    DEF TypeOK, FilesOK, FragmentsOK, LoadsOK, IndexesOK, CurrentOK, HistoryOK, LoadOK, MadeOK

LEMMA LoadFields ==
  ASSUME NEW l, LoadOK(l)
  PROVE  /\ l.at \in {"idle", "probe", "open", "save", "fill"}
         /\ l.todo \in Seq(Names) /\ l.content \in Contents \union {Nothing}
         /\ l.link \in {"none", "own", "cut"}
         /\ l.done \in Seq(Fragments) /\ l.skipped \in Seq(Skips)
<1> HIDE DEF Fragment, Skips
<1> QED
  BY DEF LoadOK, Load, Fragments

\* A process that moves to the next file.
LEMMA SkippedFields ==
  ASSUME NEW l \in Load, NEW e
  PROVE  /\ Skipped(l, e).at = "probe" /\ Skipped(l, e).todo = Tail(l.todo)
         /\ Skipped(l, e).content = Nothing /\ Skipped(l, e).link = "none"
         /\ Skipped(l, e).done = l.done
         /\ Skipped(l, e).skipped = Append(l.skipped, [name |-> Head(l.todo), error |-> e])
<1> HIDE DEF Fragment, Skips
<1> QED
  BY DEF Skipped, Load

LEMMA NextFile ==
  ASSUME NEW l, LoadOK(l), l.todo # <<>>
  PROVE  /\ \A e \in Errors : LoadOK(Skipped(l, e))
         /\ \A c \in Contents : LoadOK(WithFragment(l, Fragment(c)))
<1> HIDE DEF Fragment
<1>1. Head(l.todo) \in Names /\ Tail(l.todo) \in Seq(Names)
  BY LoadFields, TailProperties
<1>2. l \in Load
  BY DEF LoadOK
<1>3. ASSUME NEW e \in Errors PROVE LoadOK(Skipped(l, e))
  <2>1. [name |-> Head(l.todo), error |-> e] \in Skips
    BY <1>1 DEF Skips, Errors
  <2>2. Append(l.skipped, [name |-> Head(l.todo), error |-> e]) \in Seq(Skips)
    BY <2>1, LoadFields, AppendProperties
  <2> HIDE DEF Skips
  <2> QED
    BY <1>1, <1>2, <2>2 DEF LoadOK, Skipped, Load
<1>4. ASSUME NEW c \in Contents PROVE LoadOK(WithFragment(l, Fragment(c)))
  <2> HIDE DEF Skips
  <2>1. Append(l.done, Fragment(c)) \in Seq(Fragments)
    BY LoadFields, AppendProperties DEF Fragments
  <2> QED
    BY <1>1, <2>1, <1>2 DEF LoadOK, WithFragment, Load, Fragments
<1> QED
  BY <1>3, <1>4

-----------------------------------------------------------------------------
(***************************************************************************)
(* The steps that several actions take.                                    *)
(***************************************************************************)
LEMMA OneLoadChanges ==
  ASSUME LoadsOK, NEW p \in Processes, NEW l, LoadOK(l),
         loads' = [loads EXCEPT ![p] = l]
  PROVE  LoadsOK'
  BY DEF LoadsOK

LEMMA FragmentsStay ==
  ASSUME FragmentsOK, UNCHANGED fragments
  PROVE  FragmentsOK'
  BY DEF FragmentsOK

LEMMA OneFragmentChanges ==
  ASSUME FragmentsOK, NEW c \in Contents, NEW f \in {Torn, Fragment(c)},
         fragments' = [fragments EXCEPT ![c] = f]
  PROVE  FragmentsOK'
<1> HIDE DEF Fragment
<1> QED
  BY DEF FragmentsOK

Events == {"load", "edit", "invalidate", "crash", "file", "error"}

LEMMA Spending ==
  ASSUME spent \in Spent, NEW e \in Events, Spend(e)
  PROVE  /\ spent' \in Spent
         /\ spent'[e] = spent[e] + 1 /\ spent'[e] # 0
         /\ \A f \in Events \ {e} : spent'[f] = spent[f]
  BY DEF Spend, Spent, Events

\* What is at hand about the load of a process.
LEMMA AtHand ==
  ASSUME TypeOK, NEW p \in Processes
  PROVE  LoadOK(loads[p])
  BY TypeParts DEF LoadsOK

\* A fragment names the content it is made of.
LEMMA FragmentNames ==
  ASSUME NEW c
  PROVE  Fragment(c).source_hash = c
  BY DEF Fragment, CompileFragment

-----------------------------------------------------------------------------
(***************************************************************************)
(* The type invariant: one lemma per action.                               *)
(***************************************************************************)
LEMMA BeginTyped ==
  ASSUME TypeOK, NEW p \in Processes, NEW names \in Seq(Names), Begin(p, names)
  PROVE  TypeOK'
<1> DEFINE l == [Idle EXCEPT !.at = "probe", !.todo = names]
<1>1. LoadOK(l)
  BY IdleOK DEF LoadOK, Load, Idle
<1>2. LoadsOK'
  <2>1. loads' = [loads EXCEPT ![p] = l]
    BY DEF Begin
  <2> QED
    BY <1>1, <2>1, TypeParts, OneLoadChanges
<1>3. spent' \in Spent
  BY TypeParts, Spending DEF Begin, Events
<1>4. (FilesOK /\ FragmentsOK /\ IndexesOK /\ CurrentOK /\ HistoryOK)'
  BY TypeParts, FragmentsStay DEF Begin, FilesOK, IndexesOK, CurrentOK, HistoryOK
<1> QED
  BY <1>2, <1>3, <1>4, TypeAgain

LEMMA ProbeTyped ==
  ASSUME TypeOK, NEW p \in Processes, Probe(p)
  PROVE  TypeOK'
<1> DEFINE load == loads[p]
           content == files[Head(load.todo)]
<1> HIDE DEF Fragment, Body
<1>1. LoadOK(load) /\ load \in Load /\ load.at = "probe" /\ load.todo # <<>>
  BY AtHand DEF Probe, LoadOK
<1>2. content \in Contents \union {Missing}
  BY <1>1, LoadFields, TailProperties, TypeParts DEF FilesOK
<1>3. LoadsOK'
  <2>0. LoadOK(Skipped(load, "read")) /\ LoadOK(Skipped(load, "parse"))
    BY <1>1, NextFile DEF Errors
  <2>1. CASE \/ content = Missing
             \/ content # Missing /\ fragments[content] = Missing /\ ~ Body(content).ok
    BY <2>0, <2>1, TypeParts, OneLoadChanges DEF Probe
  <2>2. CASE content # Missing /\ fragments[content] # Missing
    <3>1. LoadOK([load EXCEPT !.at = "open", !.content = content])
      BY <1>1, <1>2, <2>2, CacheAssumption DEF LoadOK, Load
    <3> QED
      BY <2>2, <3>1, TypeParts, OneLoadChanges DEF Probe
  <2>3. CASE content # Missing /\ fragments[content] = Missing /\ Body(content).ok
    <3>1. LoadOK([load EXCEPT !.at = "save", !.content = content])
      BY <1>1, <1>2, <2>3, CacheAssumption DEF LoadOK, Load
    <3> QED
      BY <2>3, <3>1, TypeParts, OneLoadChanges DEF Probe
  <2> QED
    BY <2>1, <2>2, <2>3
<1>4. (FilesOK /\ FragmentsOK /\ IndexesOK /\ CurrentOK /\ HistoryOK)' /\ spent' \in Spent
  BY TypeParts, FragmentsStay DEF Probe, FilesOK, IndexesOK, CurrentOK, HistoryOK
<1> QED
  BY <1>3, <1>4, TypeAgain

LEMMA OpenTyped ==
  ASSUME TypeOK, NEW p \in Processes, OpenFragment(p)
  PROVE  TypeOK'
<1> DEFINE load == loads[p]
<1> HIDE DEF Fragment, Body
<1>1. LoadOK(load) /\ load.todo # <<>> /\ load.content \in Contents
  BY AtHand, LoadFields DEF OpenFragment, LoadOK
<1>2. fragments[load.content] \in {Missing, Torn, Fragment(load.content)}
  BY <1>1, TypeParts DEF FragmentsOK
<1>3. LoadsOK'
  <2>1. /\ LoadOK(Skipped(load, "open")) /\ LoadOK(Skipped(load, "deserialize"))
        /\ LoadOK(WithFragment(load, Fragment(load.content)))
    BY <1>1, NextFile DEF Errors
  <2>2. CASE fragments[load.content] = Missing
    <3>1. loads' = [loads EXCEPT ![p] = Skipped(load, "open")]
      BY <2>2, CacheAssumption DEF OpenFragment
    <3> QED
      BY <2>1, <3>1, TypeParts, OneLoadChanges
  <2>3. CASE fragments[load.content] = Torn
    <3>1. loads' = [loads EXCEPT ![p] = Skipped(load, "deserialize")]
      BY <2>3, CacheAssumption DEF OpenFragment
    <3> QED
      BY <2>1, <3>1, TypeParts, OneLoadChanges
  <2>4. CASE fragments[load.content] \notin {Missing, Torn}
    <3>1. loads' = [loads EXCEPT ![p] = WithFragment(load, Fragment(load.content))]
      BY <1>2, <2>4 DEF OpenFragment
    <3> QED
      BY <2>1, <3>1, TypeParts, OneLoadChanges
  <2> QED
    BY <2>2, <2>3, <2>4
<1>4. (FilesOK /\ FragmentsOK /\ IndexesOK /\ CurrentOK /\ HistoryOK)' /\ spent' \in Spent
  BY TypeParts, FragmentsStay DEF OpenFragment, FilesOK, IndexesOK, CurrentOK, HistoryOK
<1> QED
  BY <1>3, <1>4, TypeAgain

LEMMA CreateTyped ==
  ASSUME TypeOK, NEW p \in Processes, CreateFragment(p)
  PROVE  TypeOK'
<1> DEFINE load == loads[p]
<1> HIDE DEF Fragment, Body
<1>1. LoadOK(load) /\ load \in Load /\ load.content \in Contents
  BY AtHand, LoadFields DEF CreateFragment, LoadOK
<1>2. LoadsOK'
  <2>1. LoadOK([load EXCEPT !.at = "fill", !.link = "own"])
    BY <1>1 DEF LoadOK, Load, CreateFragment
  <2>2. ASSUME NEW q \in Processes PROVE LoadOK([loads[q] EXCEPT !.link = "cut"])
    BY AtHand DEF LoadOK, Load
  <2>3. ASSUME NEW q \in Processes PROVE LoadOK(loads[q])
    BY AtHand
  <2>4. loads' = [q \in Processes |->
           IF q = p THEN [loads[q] EXCEPT !.at = "fill", !.link = "own"]
           ELSE IF Filling(q, load.content) THEN [loads[q] EXCEPT !.link = "cut"]
           ELSE loads[q]]
    BY DEF CreateFragment
  <2>5. ASSUME NEW q \in Processes PROVE LoadOK(loads'[q])
    <3>1. CASE q = p
      BY <2>1, <2>4, <3>1
    <3>2. CASE q # p /\ Filling(q, load.content)
      BY <2>2, <2>4, <3>2
    <3>3. CASE q # p /\ ~ Filling(q, load.content)
      BY <2>3, <2>4, <3>3
    <3> QED
      BY <3>1, <3>2, <3>3
  <2> QED
    BY <2>4, <2>5 DEF LoadsOK
<1>3. FragmentsOK'
  BY <1>1, TypeParts, OneFragmentChanges DEF CreateFragment
<1>4. (FilesOK /\ IndexesOK /\ CurrentOK /\ HistoryOK)' /\ spent' \in Spent
  BY TypeParts DEF CreateFragment, FilesOK, IndexesOK, CurrentOK, HistoryOK
<1> QED
  BY <1>2, <1>3, <1>4, TypeAgain

LEMMA FillTyped ==
  ASSUME TypeOK, NEW p \in Processes, FillFragment(p)
  PROVE  TypeOK'
<1> DEFINE load == loads[p]
<1> HIDE DEF Fragment, Body
<1>1. LoadOK(load) /\ load.todo # <<>> /\ load.content \in Contents
  BY AtHand, LoadFields DEF FillFragment, LoadOK
<1>2. LoadsOK'
  BY <1>1, NextFile, TypeParts, OneLoadChanges DEF FillFragment
<1>3. FragmentsOK'
  <2>1. CASE fragments' = [fragments EXCEPT ![load.content] = Fragment(load.content)]
    BY <1>1, <2>1, TypeParts, OneFragmentChanges
  <2>2. CASE UNCHANGED fragments
    BY <2>2, TypeParts, FragmentsStay
  <2> QED
    BY <2>1, <2>2 DEF FillFragment
<1>4. (FilesOK /\ IndexesOK /\ CurrentOK /\ HistoryOK)' /\ spent' \in Spent
  BY TypeParts DEF FillFragment, FilesOK, IndexesOK, CurrentOK, HistoryOK
<1> QED
  BY <1>2, <1>3, <1>4, TypeAgain

LEMMA FailTyped ==
  ASSUME TypeOK, NEW p \in Processes, CallFails(p)
  PROVE  TypeOK'
<1> DEFINE load == loads[p]
<1> HIDE DEF Fragment, Body
<1>1. LoadOK(load) /\ load.todo # <<>>
  BY AtHand DEF CallFails, LoadOK
<1>2. LoadsOK'
  <2>1. \A e \in Errors : LoadOK(Skipped(load, e))
    BY <1>1, NextFile
  <2>2. load.at \in {"probe", "open", "save", "fill"}
    BY <1>1 DEF CallFails, LoadOK, Load
  <2>3. PICK e \in Errors : loads' = [loads EXCEPT ![p] = Skipped(load, e)]
    BY <2>2 DEF CallFails, Errors
  <2> QED
    BY <2>1, <2>3, TypeParts, OneLoadChanges
<1>3. spent' \in Spent
  BY TypeParts, Spending DEF CallFails, Events
<1>4. (FilesOK /\ FragmentsOK /\ IndexesOK /\ CurrentOK /\ HistoryOK)'
  BY TypeParts, FragmentsStay DEF CallFails, GivenUp, FilesOK, IndexesOK, CurrentOK, HistoryOK
<1> QED
  BY <1>2, <1>3, <1>4, TypeAgain

\* The fragments a load has done are those of the contents they name.
LEMMA DoneNames ==
  ASSUME NEW done \in Seq(Fragments)
  PROVE  LET contents == [i \in DOMAIN done |-> done[i].source_hash]
         IN  /\ contents \in Seq(Contents)
             /\ done = [i \in DOMAIN contents |-> Fragment(contents[i])]
<1> DEFINE contents == [i \in DOMAIN done |-> done[i].source_hash]
<1> HIDE DEF Fragment
<1>1. DOMAIN done = 1 .. Len(done) /\ Len(done) \in Nat
  OBVIOUS
<1>2. ASSUME NEW i \in DOMAIN done
      PROVE  contents[i] \in Contents /\ done[i] = Fragment(contents[i])
  <2>1. PICK c \in Contents : done[i] = Fragment(c)
    BY <1>1 DEF Fragments
  <2> QED
    BY <2>1, FragmentNames
<1>3. contents \in Seq(Contents)
  BY <1>1, <1>2
<1>4. done = [i \in DOMAIN contents |-> Fragment(contents[i])]
  BY <1>1, <1>2
<1> QED
  BY <1>3, <1>4

LEMMA FinishTyped ==
  ASSUME TypeOK, NEW p \in Processes, Finish(p)
  PROVE  TypeOK'
<1> DEFINE load == loads[p]
           m == [contents |-> [i \in DOMAIN load.done |-> load.done[i].source_hash],
                 skipped |-> load.skipped, index |-> Stitch(load.done)]
<1> HIDE DEF Fragment, Body
<1>1. LoadOK(load)
  BY AtHand
<1>2. MadeOK(m)
  <2>1. load.done \in Seq(Fragments) /\ load.skipped \in Seq(Skips)
    BY <1>1, LoadFields
  <2> DEFINE contents == [i \in DOMAIN load.done |-> load.done[i].source_hash]
  <2>2. /\ contents \in Seq(Contents)
        /\ load.done = [i \in DOMAIN contents |-> Fragment(contents[i])]
    BY <2>1, DoneNames
  <2>3. /\ m.contents = contents /\ m.skipped = load.skipped
        /\ m.index = Stitch(load.done)
    OBVIOUS
  <2> HIDE DEF m, contents
  <2> QED
    BY <2>1, <2>2, <2>3 DEF MadeOK
<1>3. made' = [q \in DOMAIN made \union {p} |-> IF q = p THEN m ELSE made[q]]
  BY DEF Finish
<1>4. IndexesOK'
  <2> HIDE DEF m
  <2> QED
    BY <1>2, <1>3, TypeParts DEF IndexesOK
<1>5. LoadsOK'
  BY IdleOK, TypeParts, OneLoadChanges DEF Finish
<1>6. (FilesOK /\ FragmentsOK /\ CurrentOK /\ HistoryOK)' /\ spent' \in Spent
  BY TypeParts, FragmentsStay DEF Finish, FilesOK, CurrentOK, HistoryOK
<1> QED
  BY <1>4, <1>5, <1>6, TypeAgain

LEMMA InvalidateTyped ==
  ASSUME TypeOK, NEW p \in Processes, NEW gone \in SUBSET Contents, Invalidate(p, gone)
  PROVE  TypeOK'
<1> HIDE DEF Fragment, Body
<1>1. ASSUME NEW q \in Processes
      PROVE  LoadOK(loads[q]) /\ LoadOK([loads[q] EXCEPT !.link = "none"])
  BY AtHand DEF LoadOK, Load
<1>2. LoadsOK'
  <2>1. loads' = [q \in Processes |-> IF \E c \in gone : Filling(q, c)
                                      THEN [loads[q] EXCEPT !.link = "none"] ELSE loads[q]]
    BY DEF Invalidate
  <2> QED
    BY <1>1, <2>1 DEF LoadsOK
<1>3. FragmentsOK'
  BY TypeParts DEF Invalidate, FragmentsOK
<1>4. spent' \in Spent
  BY TypeParts, Spending DEF Invalidate, Events
<1>5. (FilesOK /\ IndexesOK /\ CurrentOK /\ HistoryOK)'
  BY TypeParts DEF Invalidate, FilesOK, IndexesOK, CurrentOK, HistoryOK
<1> QED
  BY <1>2, <1>3, <1>4, <1>5, TypeAgain

LEMMA DeployTyped ==
  ASSUME TypeOK, NEW p \in Processes, Deploy(p)
  PROVE  TypeOK'
<1>1. CurrentOK'
  BY TypeParts DEF Deploy, CurrentOK
<1>2. (FilesOK /\ FragmentsOK /\ LoadsOK /\ IndexesOK /\ HistoryOK)' /\ spent' \in Spent
  BY TypeParts, FragmentsStay DEF Deploy, FilesOK, LoadsOK, IndexesOK, HistoryOK
<1> QED
  BY <1>1, <1>2, TypeAgain

LEMMA CrashTyped ==
  ASSUME TypeOK, NEW p \in Processes, Crash(p)
  PROVE  TypeOK'
<1>1. LoadsOK'
  BY IdleOK, TypeParts, OneLoadChanges DEF Crash
<1>2. IndexesOK'
  <2>1. made' = [q \in DOMAIN made \ {p} |-> made[q]]
    BY DEF Crash, Restrict
  <2> QED
    BY <2>1, TypeParts DEF IndexesOK
<1>3. CurrentOK'
  BY TypeParts DEF Crash, CurrentOK
<1>4. spent' \in Spent
  BY TypeParts, Spending DEF Crash, Events
<1>5. (FilesOK /\ FragmentsOK /\ HistoryOK)'
  BY TypeParts, FragmentsStay DEF Crash, GivenUp, FilesOK, HistoryOK
<1> QED
  BY <1>1, <1>2, <1>3, <1>4, <1>5, TypeAgain

LEMMA EditTyped ==
  ASSUME TypeOK, NEW name \in Names, NEW content \in Contents \union {Missing},
         Edit(name, content)
  PROVE  TypeOK'
<1>1. FilesOK'
  BY TypeParts DEF Edit, FilesOK
<1>2. spent' \in Spent
  BY TypeParts, Spending DEF Edit, Events
<1>3. (FragmentsOK /\ LoadsOK /\ IndexesOK /\ CurrentOK /\ HistoryOK)'
  BY TypeParts, FragmentsStay DEF Edit, LoadsOK, IndexesOK, CurrentOK, HistoryOK
<1> QED
  BY <1>1, <1>2, <1>3, TypeAgain

\* The .tidx files, the tiers and the imports are no part of the type invariant.
LEMMA RestTyped ==
  ASSUME TypeOK, UNCHANGED cache, UNCHANGED spent \/ Spend("file")
  PROVE  TypeOK'
<1>1. spent' \in Spent
  BY TypeParts, Spending DEF Events
<1>2. (FilesOK /\ FragmentsOK /\ LoadsOK /\ IndexesOK /\ CurrentOK /\ HistoryOK)'
  BY TypeParts, FragmentsStay DEF cache, FilesOK, LoadsOK, IndexesOK, CurrentOK, HistoryOK
<1> QED
  BY <1>1, <1>2, TypeAgain

\* The steps of Next, with the files a caller asks for as a sequence of names.
Step ==
  \/ \E p \in Processes :
       \/ \E names \in Seq(Names) : Begin(p, names)
       \/ Probe(p) \/ OpenFragment(p) \/ CreateFragment(p) \/ FillFragment(p)
       \/ CallFails(p) \/ Finish(p) \/ Deploy(p)
       \/ \E gone \in SUBSET Contents : Invalidate(p, gone)
       \/ CreateTidx(p) \/ WriteTidx(p) \/ OpenTiered(p) \/ Crash(p)
  \/ \E name \in Names, content \in Contents \union {Missing} : Edit(name, content)
  \/ \E sources : Import(sources)

LEMMA NextIsStep ==
  ASSUME Next
  PROVE  Step
<1>1. ASSUME NEW names \in {SetToSeq(s) : s \in SUBSET Names \ {{}}}
      PROVE  names \in Seq(Names)
  BY CacheAssumption, FS_Subset, SetAsSequence
<1> QED
  BY <1>1, Zenon DEF Next, Step

\* The steps that leave the cache alone.
LEMMA CacheRests ==
  ASSUME NEW p \in Processes, CreateTidx(p) \/ WriteTidx(p) \/ OpenTiered(p)
  PROVE  UNCHANGED cache /\ (UNCHANGED spent \/ Spend("file"))
  BY Zenon DEF CreateTidx, WriteTidx, OpenTiered

LEMMA TypeKept ==
  ASSUME TypeOK, [Next]_vars
  PROVE  TypeOK'
<1>1. CASE UNCHANGED vars
  BY <1>1, RestTyped DEF vars, cache
<1>2. CASE Next
  <2>1. ASSUME NEW p \in Processes, NEW names \in Seq(Names), Begin(p, names)
        PROVE  TypeOK'
    BY <2>1, BeginTyped
  <2>2. ASSUME NEW p \in Processes,
               \/ Probe(p) \/ OpenFragment(p) \/ CreateFragment(p) \/ FillFragment(p)
               \/ CallFails(p) \/ Finish(p) \/ Deploy(p) \/ Crash(p)
        PROVE  TypeOK'
    BY <2>2, ProbeTyped, OpenTyped, CreateTyped, FillTyped, FailTyped, FinishTyped,
       DeployTyped, CrashTyped
  <2>3. ASSUME NEW p \in Processes, CreateTidx(p) \/ WriteTidx(p) \/ OpenTiered(p)
        PROVE  TypeOK'
    BY <2>3, CacheRests, RestTyped
  <2>4. ASSUME NEW name \in Names, NEW content \in Contents \union {Missing},
               Edit(name, content)
        PROVE  TypeOK'
    BY <2>4, EditTyped
  <2>5. ASSUME NEW sources, Import(sources)
        PROVE  TypeOK'
    <3>1. UNCHANGED cache /\ UNCHANGED spent
      BY <2>5, Zenon DEF Import
    <3> QED
      BY <3>1, RestTyped
  <2>6. ASSUME NEW p \in Processes, NEW gone \in SUBSET Contents, Invalidate(p, gone)
        PROVE  TypeOK'
    BY <2>6, InvalidateTyped
  <2> QED
    BY <1>2, NextIsStep, <2>1, <2>2, <2>3, <2>4, <2>5, <2>6, Zenon DEF Step
<1> QED
  BY <1>1, <1>2

LEMMA TypeInit ==
  ASSUME Init
  PROVE  TypeOK
<1>1. FilesOK /\ FragmentsOK /\ IndexesOK /\ CurrentOK /\ spent \in Spent /\ HistoryOK
  BY DEF Init, FilesOK, FragmentsOK, IndexesOK, CurrentOK, Spent, HistoryOK
<1>2. LoadsOK
  BY IdleOK DEF Init, LoadsOK
<1> QED
  BY <1>1, <1>2, TypeParts

\* In every reachable state, whatever the processes, the edits, the failing calls
\* and the kills: a whole fragment is what its own source compiles to, a load that
\* saves has parsed its file, and an index is stitched from the fragments it names.
THEOREM TypeCorrect == Spec => []TypeOK
<1>1. Init => TypeOK
  BY TypeInit
<1>2. TypeOK /\ [Next]_vars => TypeOK'
  BY TypeKept
<1> QED
  BY <1>1, <1>2, PTL DEF Spec

-----------------------------------------------------------------------------
(***************************************************************************)
(* Skipped files.                                                          *)
(***************************************************************************)
Caused(skips) == \A skip \in Range(skips) : HasCause(skip)

\* What has a cause after a step, of skips that are given.
CauseThen(skip) ==
  \/ skip.error = "parse" /\ ~ Body(files'[skip.name]).ok
  \/ skip.error \in {"read", "open", "create", "write"} /\ spent'.error > 0
  \/ skip.error = "deserialize" /\ files'[skip.name] \in dropped'

Later(skips) == \A skip \in Range(skips) : CauseThen(skip)

\* The process that emptied a fragment last, and has it open.
Owns(p, c) == Filling(p, c) /\ loads[p].link = "own"

\* A torn fragment is being filled by the process that emptied it last, or given up.
TornIsOwned ==
  \A c \in Contents : fragments[c] = Torn => c \in dropped \/ \E p \in Processes : Owns(p, c)

\* What was given up stays torn until it is emptied or removed.
DroppedIsTorn == \A c \in dropped : fragments[c] = Torn

\* A process that has not begun to load has nothing of a load.
BegunFirst == \A p \in Processes \ began : loads[p] = Idle /\ p \notin DOMAIN made

\* No file is missing before the first edit.
FilesThere == spent.edit = 0 => files \in [Names -> Contents]

\* A process that nothing disturbs finds the fragment it looked at as it was, opens
\* only one that is there, torn only if it was given up, and has skipped, in the
\* load it is in and in the last one, only what it had cause to.
LoneLoad(p) ==
  /\ loads[p].at = "open" => /\ loads[p].content = files[Head(loads[p].todo)]
                             /\ fragments[loads[p].content] # Missing
  /\ loads[p].at = "save" => fragments[loads[p].content] = Missing
  /\ loads[p].at = "fill" => loads[p].content \notin dropped
  /\ Caused(loads[p].skipped)
  /\ p \in DOMAIN made => Caused(made[p].skipped)

LoneLoads == \A p \in Processes : Undisturbed(p) => LoneLoad(p)

CauseInv ==
  TypeOK /\ TornIsOwned /\ DroppedIsTorn /\ BegunFirst /\ FilesThere /\ LoneLoads

\* Counts and the processes that have begun only grow.
LEMMA CountsGrow ==
  ASSUME TypeOK, Step
  PROVE  /\ \A e \in Events : spent'[e] \in Nat /\ spent[e] \in Nat /\ spent[e] <= spent'[e]
         /\ began \subseteq began'
<1>1. spent \in Spent
  BY TypeParts
<1>5. began \subseteq began'
  <2>1. \/ began' = began
        \/ \E p \in Processes : began' = began \union {p}
    BY Zenon DEF Step, Begin, Probe, OpenFragment, CreateFragment, FillFragment,
       CallFails, Finish, Invalidate, Deploy, CreateTidx, WriteTidx, OpenTiered, Crash, Edit,
       Import, cache
  <2> QED
    BY <2>1
<1> DEFINE Grown == \A e \in Events : spent'[e] \in Nat /\ spent[e] \in Nat /\ spent[e] <= spent'[e]
<1>2. CASE UNCHANGED spent
  <2>1. \A e \in Events : spent[e] \in Nat
    BY <1>1 DEF Spent, Events
  <2>2. Grown
    BY <1>2, <2>1
  <2> QED
    BY <2>2, <1>5
<1>3. CASE \E f \in Events : Spend(f)
  <2>1. \A e \in Events : spent[e] \in Nat
    BY <1>1 DEF Spent, Events
  <2>2. PICK f \in Events : Spend(f)
    BY <1>3
  <2>3. spent'[f] = spent[f] + 1 /\ \A e \in Events \ {f} : spent'[e] = spent[e]
    BY <1>1, <2>2, Spending
  <2>4. Grown
    BY <2>1, <2>3
  <2> QED
    BY <2>4, <1>5
<1>4. UNCHANGED spent \/ \E f \in Events : Spend(f)
  <2>1. Events = {"load", "edit", "invalidate", "crash", "file", "error"}
    BY DEF Events
  <2> QED
    BY <2>1, Zenon DEF Step, Begin, Probe, OpenFragment, CreateFragment, FillFragment,
       CallFails, Finish, Invalidate, Deploy, CreateTidx, WriteTidx, OpenTiered, Crash, Edit,
       Import
<1> QED
  BY <1>2, <1>3, <1>4

\* What the steps that are no step of a load leave alone.
LEMMA StepKinds ==
  ASSUME Step
  PROVE  \/ \E p \in Processes :
              \/ \E names \in Seq(Names) : Begin(p, names)
              \/ Probe(p) \/ OpenFragment(p) \/ CreateFragment(p) \/ FillFragment(p)
              \/ CallFails(p) \/ Finish(p) \/ Crash(p)
              \/ \E gone \in SUBSET Contents : Invalidate(p, gone)
         \/ \E name \in Names, content \in Contents \union {Missing} : Edit(name, content)
         \/ UNCHANGED <<files, fragments, loads, made, dropped, began>>
  BY Zenon DEF Step, Deploy, CreateTidx, WriteTidx, OpenTiered, Import, cache

LEMMA LoadAt ==
  ASSUME TypeOK, NEW p \in Processes, NEW l, loads' = [loads EXCEPT ![p] = l]
  PROVE  \A q \in Processes : loads'[q] = IF q = p THEN l ELSE loads[q]
  BY TypeParts DEF LoadsOK

\* What creating a fragment does to the loads.
LEMMA CreateLoads ==
  ASSUME TypeOK, NEW p \in Processes, CreateFragment(p)
  PROVE  /\ loads'[p].at = "fill" /\ loads'[p].link = "own"
         /\ loads'[p].content = loads[p].content /\ loads'[p].skipped = loads[p].skipped
         /\ \A q \in Processes \ {p} :
              /\ ~ Filling(q, loads[p].content) => loads'[q] = loads[q]
              /\ loads'[q].at = loads[q].at
<1> HIDE DEF Fragment, Skips
<1>1. \A q \in Processes : loads[q] \in Load
  BY AtHand DEF LoadOK
<1>2. loads' = [q \in Processes |->
         IF q = p THEN [loads[q] EXCEPT !.at = "fill", !.link = "own"]
         ELSE IF Filling(q, loads[p].content) THEN [loads[q] EXCEPT !.link = "cut"]
         ELSE loads[q]]
  BY DEF CreateFragment
<1>3. \A q \in Processes : [loads[q] EXCEPT !.link = "cut"].at = loads[q].at
  BY <1>1 DEF Load
<1>4. LET l == [loads[p] EXCEPT !.at = "fill", !.link = "own"]
      IN  /\ l.at = "fill" /\ l.link = "own" /\ l.content = loads[p].content
          /\ l.skipped = loads[p].skipped
  BY <1>1 DEF Load
<1> QED
  BY <1>2, <1>3, <1>4

LEMMA TornStaysOwned ==
  ASSUME TypeOK, TornIsOwned, Step
  PROVE  TornIsOwned'
<1> HIDE DEF Fragment, Body
<1> SUFFICES ASSUME NEW c \in Contents, fragments'[c] = Torn, c \notin dropped'
             PROVE  \E p \in Processes : Owns(p, c)'
  BY Zenon DEF TornIsOwned
<1>1. fragments[c] = Torn => c \in dropped \/ \E p \in Processes : Owns(p, c)
  BY DEF TornIsOwned
<1>2. DOMAIN fragments = Contents
  BY TypeParts DEF FragmentsOK
<1>3. ASSUME NEW p \in Processes, UNCHANGED fragments, dropped \subseteq dropped',
             Owns(p, c) => c \in dropped',
             \A q \in Processes : q # p => loads'[q] = loads[q]
      PROVE  \E q \in Processes : Owns(q, c)'
  BY <1>1, <1>3 DEF Owns, Filling
<1>4. ASSUME NEW p \in Processes,
             \/ \E names \in Seq(Names) : Begin(p, names)
             \/ Probe(p) \/ OpenFragment(p) \/ Finish(p)
      PROVE  \E q \in Processes : Owns(q, c)'
  <2>1. loads[p].at # "fill" /\ UNCHANGED fragments /\ UNCHANGED dropped
    BY <1>4 DEF Begin, Probe, OpenFragment, Finish
  <2>2. \E l : loads' = [loads EXCEPT ![p] = l]
    BY <1>4 DEF Begin, Probe, OpenFragment, Finish
  <2>3. ~ Owns(p, c)
    BY <2>1 DEF Owns, Filling
  <2> QED
    BY <1>3, <2>1, <2>2, <2>3, LoadAt
<1>5. ASSUME NEW p \in Processes, CreateFragment(p)
      PROVE  \E q \in Processes : Owns(q, c)'
  <2>1. CASE loads[p].content = c
    BY <1>5, <2>1, CreateLoads DEF Owns, Filling
  <2>2. CASE loads[p].content # c
    <3>1. fragments[c] = Torn /\ c \notin dropped
      BY <1>2, <1>5, <2>2 DEF CreateFragment
    <3>2. PICK q \in Processes : Owns(q, c)
      BY <1>1, <3>1
    <3>3. q # p /\ ~ Filling(q, loads[p].content)
      BY <1>5, <2>2, <3>2 DEF CreateFragment, Owns, Filling
    <3>4. loads'[q] = loads[q]
      BY <1>5, <3>3, CreateLoads
    <3> QED
      BY <3>2, <3>4 DEF Owns, Filling
  <2> QED
    BY <2>1, <2>2
<1>6. ASSUME NEW p \in Processes, FillFragment(p)
      PROVE  \E q \in Processes : Owns(q, c)'
  <2>1. loads' = [loads EXCEPT ![p] = WithFragment(loads[p], Fragment(loads[p].content))]
    BY <1>6 DEF FillFragment
  <2>2. CASE /\ fragments' = [fragments EXCEPT ![loads[p].content] = Fragment(loads[p].content)]
             /\ dropped' = dropped \ {loads[p].content}
    <3>1. loads[p].content # c
      BY <1>2, <2>2, FragmentAssumption
    <3>2. fragments[c] = Torn /\ c \notin dropped
      BY <1>2, <2>2, <3>1
    <3>3. PICK q \in Processes : Owns(q, c)
      BY <1>1, <3>2
    <3>4. q # p
      BY <3>1, <3>3 DEF Owns, Filling
    <3> QED
      BY <2>1, <3>3, <3>4, LoadAt DEF Owns, Filling
  <2>3. CASE UNCHANGED <<fragments, dropped>> /\ loads[p].link # "own"
    BY <1>3, <2>1, <2>3, LoadAt DEF Owns
  <2> QED
    BY <1>6, <2>2, <2>3 DEF FillFragment
<1>7. ASSUME NEW p \in Processes, CallFails(p) \/ Crash(p)
      PROVE  \E q \in Processes : Owns(q, c)'
  <2>1. UNCHANGED fragments /\ dropped' = dropped \union GivenUp(p)
    BY <1>7 DEF CallFails, Crash
  <2>2. \E l : loads' = [loads EXCEPT ![p] = l]
    BY <1>7 DEF CallFails, Crash
  <2>3. Owns(p, c) => c \in GivenUp(p)
    BY <2>1 DEF Owns, GivenUp
  <2> QED
    BY <1>3, <2>1, <2>2, <2>3, LoadAt
<1>8. ASSUME NEW p \in Processes, NEW gone \in SUBSET Contents, Invalidate(p, gone)
      PROVE  \E q \in Processes : Owns(q, c)'
  <2>1. c \notin gone
    BY <1>8, CacheAssumption DEF Invalidate
  <2>2. fragments[c] = Torn /\ c \notin dropped
    BY <1>8, <2>1 DEF Invalidate
  <2>3. PICK q \in Processes : Owns(q, c)
    BY <1>1, <2>2
  <2>4. ~ \E d \in gone : Filling(q, d)
    BY <2>1, <2>3 DEF Owns, Filling
  <2>5. loads'[q] = loads[q]
    BY <1>8, <2>4 DEF Invalidate
  <2> QED
    BY <2>3, <2>5 DEF Owns, Filling
<1>9. ASSUME UNCHANGED <<fragments, loads, dropped>>
      PROVE  \E q \in Processes : Owns(q, c)'
  BY <1>1, <1>9 DEF Owns, Filling
<1> QED
  BY StepKinds, <1>4, <1>5, <1>6, <1>7, <1>8, <1>9, Zenon DEF Edit

LEMMA DroppedStaysTorn ==
  ASSUME TypeOK, DroppedIsTorn, Step
  PROVE  DroppedIsTorn'
<1> HIDE DEF Fragment, Body
<1> SUFFICES ASSUME NEW c \in dropped' PROVE fragments'[c] = Torn
  BY DEF DroppedIsTorn
<1>1. c \in dropped => fragments[c] = Torn
  BY DEF DroppedIsTorn
<1>2. DOMAIN fragments = Contents /\ dropped \subseteq Contents
  BY TypeParts DEF FragmentsOK, HistoryOK
<1>3. CASE UNCHANGED <<fragments, dropped>>
  BY <1>1, <1>3
<1>4. ASSUME NEW p \in Processes, CreateFragment(p)
      PROVE  fragments'[c] = Torn
  BY <1>1, <1>2, <1>4 DEF CreateFragment
<1>5. ASSUME NEW p \in Processes, FillFragment(p)
      PROVE  fragments'[c] = Torn
  BY <1>1, <1>2, <1>5 DEF FillFragment
<1>6. ASSUME NEW p \in Processes, CallFails(p) \/ Crash(p)
      PROVE  fragments'[c] = Torn
  <2>1. UNCHANGED fragments /\ dropped' = dropped \union GivenUp(p)
    BY <1>6 DEF CallFails, Crash
  <2> QED
    BY <1>1, <2>1 DEF GivenUp
<1>7. ASSUME NEW p \in Processes, NEW gone \in SUBSET Contents, Invalidate(p, gone)
      PROVE  fragments'[c] = Torn
  BY <1>1, <1>2, <1>7 DEF Invalidate
<1> QED
  BY StepKinds, <1>3, <1>4, <1>5, <1>6, <1>7, Zenon
     DEF Begin, Probe, OpenFragment, Finish, Edit

\* A process in a load, or with the index of one, has begun.
LEMMA BegunStaysFirst ==
  ASSUME TypeOK, BegunFirst, Step
  PROVE  BegunFirst'
<1> HIDE DEF Fragment, Body
<1> SUFFICES ASSUME NEW p \in Processes, p \notin began'
             PROVE  loads'[p] = Idle /\ p \notin DOMAIN made'
  BY DEF BegunFirst
<1>1. p \notin began /\ loads[p] = Idle /\ p \notin DOMAIN made
  BY CountsGrow DEF BegunFirst
<1>2. loads[p].at = "idle" /\ Idle.at = "idle" /\ Idle.link = "none"
  BY <1>1 DEF Idle
<1>3. ASSUME NEW q \in Processes, NEW l, loads' = [loads EXCEPT ![q] = l], q # p
      PROVE  loads'[p] = Idle
  BY <1>1, <1>3, LoadAt
<1>4. ASSUME NEW q \in Processes, NEW names \in Seq(Names), Begin(q, names)
      PROVE  loads'[p] = Idle /\ p \notin DOMAIN made'
  BY <1>1, <1>3, <1>4 DEF Begin
<1>5. ASSUME NEW q \in Processes,
             Probe(q) \/ OpenFragment(q) \/ FillFragment(q) \/ CallFails(q)
      PROVE  loads'[p] = Idle /\ p \notin DOMAIN made'
  <2>1. loads[q].at # "idle" /\ UNCHANGED made /\ \E l : loads' = [loads EXCEPT ![q] = l]
    BY <1>5 DEF Probe, OpenFragment, FillFragment, CallFails
  <2> QED
    BY <1>1, <1>2, <1>3, <2>1
<1>6. ASSUME NEW q \in Processes, CreateFragment(q)
      PROVE  loads'[p] = Idle /\ p \notin DOMAIN made'
  <2>1. q # p /\ ~ Filling(p, loads[q].content) /\ UNCHANGED made
    BY <1>2, <1>6 DEF CreateFragment, Filling
  <2> QED
    BY <1>1, <1>6, <2>1, CreateLoads
<1>7. ASSUME NEW q \in Processes, Finish(q)
      PROVE  loads'[p] = Idle /\ p \notin DOMAIN made'
  <2>1. q # p /\ loads' = [loads EXCEPT ![q] = Idle] /\ DOMAIN made' = DOMAIN made \union {q}
    BY <1>2, <1>7 DEF Finish
  <2> QED
    BY <1>1, <1>3, <2>1
<1>8. ASSUME NEW q \in Processes, Crash(q)
      PROVE  loads'[p] = Idle /\ p \notin DOMAIN made'
  <2>1. loads' = [loads EXCEPT ![q] = Idle] /\ DOMAIN made' \subseteq DOMAIN made
    BY <1>8 DEF Crash, Restrict
  <2> QED
    BY <1>1, <2>1, LoadAt
<1>9. ASSUME NEW q \in Processes, NEW gone \in SUBSET Contents, Invalidate(q, gone)
      PROVE  loads'[p] = Idle /\ p \notin DOMAIN made'
  <2>1. ~ \E d \in gone : Filling(p, d)
    BY <1>2 DEF Filling
  <2> QED
    BY <1>1, <1>9, <2>1 DEF Invalidate
<1>10. CASE UNCHANGED <<loads, made>>
  BY <1>1, <1>10
<1> QED
  BY StepKinds, <1>4, <1>5, <1>6, <1>7, <1>8, <1>9, <1>10, Zenon DEF Edit

LEMMA FilesStayThere ==
  ASSUME TypeOK, FilesThere, Step
  PROVE  FilesThere'
<1> SUFFICES ASSUME spent'.edit = 0 PROVE files' \in [Names -> Contents]
  BY DEF FilesThere
<1>1. files \in [Names -> Contents]
  <2>1. spent.edit = 0
    BY CountsGrow DEF Events
  <2> QED
    BY <2>1 DEF FilesThere
<1>2. ASSUME NEW name \in Names, NEW content \in Contents \union {Missing},
             Edit(name, content)
      PROVE  FALSE
  BY <1>2, Spending, TypeParts DEF Edit, Events
<1>3. UNCHANGED files \/ \E name \in Names, content \in Contents \union {Missing} :
                           Edit(name, content)
  BY StepKinds, Zenon DEF Begin, Probe, OpenFragment, CreateFragment, FillFragment,
     CallFails, Finish, Invalidate, Crash
<1> QED
  BY <1>1, <1>2, <1>3

\* A step that leaves a process undisturbed found it so, and is its own, or leaves
\* its load and the fragments alone.
LEMMA UndisturbedBefore ==
  ASSUME TypeOK, BegunFirst, Step, NEW p \in Processes, Undisturbed(p)'
  PROVE  /\ Undisturbed(p) /\ UNCHANGED files
         /\ \/ \E names \in Seq(Names) : Begin(p, names)
            \/ Probe(p) \/ OpenFragment(p) \/ CreateFragment(p) \/ FillFragment(p)
            \/ CallFails(p) \/ Finish(p) \/ Crash(p)
            \/ UNCHANGED <<fragments, dropped>> /\ loads'[p] = loads[p]
                 /\ (p \in DOMAIN made' => p \in DOMAIN made /\ made'[p] = made[p])
<1> HIDE DEF Fragment, Body
<1>1. /\ spent'.edit = 0 /\ spent'.invalidate = 0 /\ spent.edit = 0 /\ spent.invalidate = 0
      /\ began' \subseteq {p} /\ began \subseteq {p}
  BY CountsGrow DEF Undisturbed, Events
<1>2. Undisturbed(p)
  BY <1>1 DEF Undisturbed
<1>3. \A q \in Processes : q # p => loads[q] = Idle /\ loads[q].at = "idle"
  BY <1>1 DEF BegunFirst, Idle
<1>4. ASSUME NEW q \in Processes, NEW gone \in SUBSET Contents, Invalidate(q, gone)
      PROVE  FALSE
  BY <1>1, <1>4, Spending, TypeParts DEF Invalidate, Events
<1>5. ASSUME NEW name \in Names, NEW content \in Contents \union {Missing},
             Edit(name, content)
      PROVE  FALSE
  BY <1>1, <1>5, Spending, TypeParts DEF Edit, Events
<1>6. ASSUME NEW q \in Processes, NEW names \in Seq(Names), Begin(q, names)
      PROVE  q = p
  BY <1>1, <1>6 DEF Begin
<1>7. ASSUME NEW q \in Processes,
             \/ Probe(q) \/ OpenFragment(q) \/ CreateFragment(q) \/ FillFragment(q)
             \/ CallFails(q) \/ Finish(q)
      PROVE  q = p
  <2>1. loads[q].at # "idle"
    BY <1>7 DEF Probe, OpenFragment, CreateFragment, FillFragment, CallFails, Finish
  <2> QED
    BY <1>3, <2>1
<1>8. ASSUME NEW q \in Processes, q # p, Crash(q)
      PROVE  /\ UNCHANGED <<fragments, dropped>> /\ loads'[p] = loads[p]
             /\ (p \in DOMAIN made' => p \in DOMAIN made /\ made'[p] = made[p])
  <2>1. GivenUp(q) = {}
    BY <1>3, <1>8 DEF GivenUp, Filling
  <2>2. loads'[p] = loads[p]
    <3>1. loads' = [loads EXCEPT ![q] = Idle]
      BY <1>8 DEF Crash
    <3> QED
      BY <1>8, <3>1, LoadAt
  <2> QED
    BY <1>8, <2>1, <2>2 DEF Crash, Restrict
<1>9. UNCHANGED files
  BY <1>5, StepKinds, Zenon DEF Begin, Probe, OpenFragment, CreateFragment, FillFragment,
     CallFails, Finish, Invalidate, Crash
<1> QED
  BY StepKinds, <1>2, <1>4, <1>5, <1>6, <1>7, <1>8, <1>9, Zenon

LEMMA RangeOfAppend ==
  ASSUME NEW S, NEW s \in Seq(S), NEW e \in S
  PROVE  Range(Append(s, e)) = Range(s) \union {e}
<1>1. /\ DOMAIN s = 1 .. Len(s) /\ Len(s) \in Nat
      /\ DOMAIN Append(s, e) = 1 .. (Len(s) + 1)
      /\ \A i \in 1 .. Len(s) : Append(s, e)[i] = s[i]
      /\ Append(s, e)[Len(s) + 1] = e
  BY AppendProperties
<1> QED
  BY <1>1 DEF Range

\* A process skips a file with cause.
LEMMA SkipCaused ==
  ASSUME NEW l, LoadOK(l), l.todo # <<>>, NEW e \in Errors, Caused(l.skipped),
         HasCause([name |-> Head(l.todo), error |-> e])
  PROVE  Caused(Skipped(l, e).skipped)
<1> DEFINE skip == [name |-> Head(l.todo), error |-> e]
<1>1. l \in Load /\ l.skipped \in Seq(Skips) /\ Head(l.todo) \in Names
  BY LoadFields, TailProperties DEF LoadOK
<1>2. skip \in Skips
  BY <1>1 DEF Skips, Errors
<1>3. Skipped(l, e).skipped = Append(l.skipped, skip)
  BY <1>1, SkippedFields
<1> HIDE DEF skip, Skips
<1>4. Range(Append(l.skipped, skip)) = Range(l.skipped) \union {skip}
  BY <1>1, <1>2, RangeOfAppend
<1> QED
  BY <1>3, <1>4 DEF Caused, skip

\* A cause remains one as long as no fragment that was given up is emptied.
LEMMA CauseStays ==
  ASSUME TypeOK, Step, UNCHANGED files, dropped \subseteq dropped',
         NEW skips, Caused(skips)
  PROVE  Later(skips)
<1> HIDE DEF Body
<1>1. spent.error > 0 => spent'.error > 0
  BY CountsGrow DEF Events
<1> QED
  BY <1>1 DEF Caused, HasCause, Later, CauseThen

LEMMA LoneLoadsKept ==
  ASSUME CauseInv, Step
  PROVE  LoneLoads'
<1> HIDE DEF Fragment, Body
<1> USE DEF CauseInv
<1> SUFFICES ASSUME NEW p \in Processes, Undisturbed(p)' PROVE LoneLoad(p)'
  BY Zenon DEF LoneLoads
<1> DEFINE load == loads[p]
           content == files[Head(load.todo)]
<1>1. Undisturbed(p) /\ UNCHANGED files
  BY UndisturbedBefore
<1>2. LoneLoad(p)
  BY <1>1 DEF LoneLoads
<1>3. LoadOK(load) /\ load \in Load
  BY AtHand DEF LoadOK
<1>4. load.todo # <<>> => content \in Contents
  BY <1>1, <1>3, LoadFields, TailProperties DEF FilesThere, Undisturbed
<1>5. ASSUME NEW skips, Caused(skips), dropped \subseteq dropped' PROVE Later(skips)
  BY <1>1, <1>5, CauseStays
<1>0. ASSUME Later(loads'[p].skipped), p \in DOMAIN made' => Later(made'[p].skipped),
             loads'[p].at = "open" => /\ loads'[p].content = files[Head(loads'[p].todo)]
                                      /\ fragments'[loads'[p].content] # Missing,
             loads'[p].at = "save" => fragments'[loads'[p].content] = Missing,
             loads'[p].at = "fill" => loads'[p].content \notin dropped'
      PROVE  LoneLoad(p)'
  BY <1>0, <1>1 DEF LoneLoad, Later, CauseThen, Caused, HasCause
<1>16. DOMAIN loads = Processes
  BY TypeParts DEF LoadsOK
\* Most steps change the load only, and give up no fragment that they empty.
<1>6. ASSUME NEW l, loads' = [loads EXCEPT ![p] = l], UNCHANGED <<made, fragments>>,
             dropped \subseteq dropped',
             Later(l.skipped),
             l.at = "open" => l.content = files[Head(l.todo)] /\ fragments[l.content] # Missing,
             l.at = "save" => fragments[l.content] = Missing,
             l.at # "fill"
      PROVE  LoneLoad(p)'
  <2>1. loads'[p] = l
    BY <1>6, <1>16
  <2>2. p \in DOMAIN made' => Later(made'[p].skipped)
    BY <1>2, <1>5, <1>6 DEF LoneLoad
  <2>3. Later(loads'[p].skipped)
    BY <1>6, <2>1
  <2> QED
    BY <1>0, <1>6, <2>1, <2>2, <2>3
<1>7. ASSUME NEW names \in Seq(Names), Begin(p, names)
      PROVE  LoneLoad(p)'
  <2> DEFINE l == [Idle EXCEPT !.at = "probe", !.todo = names]
  <2>1. l.at = "probe" /\ l.skipped = <<>>
    BY DEF Idle
  <2>2. Later(l.skipped)
    BY <2>1 DEF Later, Range
  <2>3. loads' = [loads EXCEPT ![p] = l] /\ UNCHANGED <<made, fragments, dropped>>
    BY <1>7 DEF Begin
  <2> HIDE DEF l
  <2> QED
    BY <1>6, <2>1, <2>2, <2>3
<1>8. CASE Probe(p)
  <2>1. load.at = "probe" /\ load.todo # <<>> /\ UNCHANGED <<made, fragments, dropped>>
    BY <1>8 DEF Probe
  <2>2. content \in Contents /\ content # Missing
    BY <1>4, <2>1, CacheAssumption
  <2>3. Caused(load.skipped)
    BY <1>2 DEF LoneLoad
  <2>4. CASE fragments[content] # Missing
    <3> DEFINE l == [load EXCEPT !.at = "open", !.content = content]
    <3>1. loads' = [loads EXCEPT ![p] = l]
      BY <1>8, <2>2, <2>4 DEF Probe
    <3>2. /\ l.at = "open" /\ l.content = content /\ l.skipped = load.skipped
          /\ l.todo = load.todo
      BY <1>3 DEF Load
    <3>3. Later(l.skipped)
      BY <1>5, <2>1, <2>3, <3>2
    <3>4. l.content = files[Head(l.todo)]
      BY <3>2
    <3> HIDE DEF l, content
    <3> QED
      BY <1>6, <2>1, <2>4, <3>1, <3>2, <3>3, <3>4
  <2>5. CASE fragments[content] = Missing /\ Body(content).ok
    <3> DEFINE l == [load EXCEPT !.at = "save", !.content = content]
    <3>1. loads' = [loads EXCEPT ![p] = l]
      BY <1>8, <2>2, <2>5 DEF Probe
    <3>2. l.at = "save" /\ l.content = content /\ l.skipped = load.skipped
      BY <1>3 DEF Load
    <3>3. Later(l.skipped)
      BY <1>5, <2>1, <2>3, <3>2
    <3> HIDE DEF l, content
    <3> QED
      BY <1>6, <2>1, <2>5, <3>1, <3>2, <3>3
  <2>6. CASE fragments[content] = Missing /\ ~ Body(content).ok
    <3> DEFINE l == Skipped(load, "parse")
    <3>1. loads' = [loads EXCEPT ![p] = l]
      BY <1>8, <2>2, <2>6 DEF Probe
    <3>2. HasCause([name |-> Head(load.todo), error |-> "parse"])
      BY <2>6 DEF HasCause
    <3>3. Caused(l.skipped) /\ l.at = "probe"
      BY <1>3, <2>1, <2>3, <3>2, SkipCaused, SkippedFields DEF Errors
    <3>4. Later(l.skipped)
      BY <1>5, <2>1, <3>3
    <3> HIDE DEF l
    <3> QED
      BY <1>6, <2>1, <3>1, <3>3, <3>4
  <2> QED
    BY <2>4, <2>5, <2>6
<1>9. CASE OpenFragment(p)
  <2>1. /\ load.at = "open" /\ load.todo # <<>> /\ load.content \in Contents
        /\ UNCHANGED <<made, fragments, dropped>>
    BY <1>3, <1>9, LoadFields DEF OpenFragment, LoadOK
  <2>2. load.content = content /\ fragments[load.content] # Missing /\ Caused(load.skipped)
    BY <1>2, <2>1 DEF LoneLoad
  <2>3. CASE fragments[load.content] = Torn
    <3> DEFINE l == Skipped(load, "deserialize")
    <3>1. loads' = [loads EXCEPT ![p] = l]
      BY <1>9, <2>2, <2>3 DEF OpenFragment
    <3>2. content \in dropped
      <4>1. ASSUME NEW q \in Processes, Owns(q, content) PROVE FALSE
        <5>1. loads[q].at = "fill"
          BY <4>1 DEF Owns, Filling
        <5>2. q # p
          BY <2>1, <5>1
        <5>3. loads[q] = Idle
          BY <1>1, <5>2 DEF BegunFirst, Undisturbed
        <5> QED
          BY <5>1, <5>3 DEF Idle
      <4> QED
        BY <2>1, <2>2, <2>3, <4>1 DEF TornIsOwned
    <3>3. HasCause([name |-> Head(load.todo), error |-> "deserialize"])
      BY <3>2 DEF HasCause
    <3>4. Caused(l.skipped) /\ l.at = "probe"
      BY <1>3, <2>1, <2>2, <3>3, SkipCaused, SkippedFields DEF Errors
    <3>5. Later(l.skipped)
      BY <1>5, <2>1, <3>4
    <3> HIDE DEF l
    <3> QED
      BY <1>6, <2>1, <3>1, <3>4, <3>5
  <2>4. CASE fragments[load.content] # Torn
    <3> DEFINE l == WithFragment(load, fragments[load.content])
    <3>1. loads' = [loads EXCEPT ![p] = l]
      BY <1>9, <2>2, <2>4 DEF OpenFragment
    <3>2. l.at = "probe" /\ l.skipped = load.skipped
      BY <1>3 DEF Load, WithFragment
    <3>3. Later(l.skipped)
      BY <1>5, <2>1, <2>2, <3>2
    <3> HIDE DEF l
    <3> QED
      BY <1>6, <2>1, <3>1, <3>2, <3>3
  <2> QED
    BY <2>3, <2>4
<1>10. CASE CreateFragment(p)
  <2>1. load.at = "save" /\ load.content \in Contents /\ UNCHANGED made
    BY <1>3, <1>10, LoadFields DEF CreateFragment, LoadOK
  <2>2. load.content \notin dropped
    <3>1. fragments[load.content] = Missing
      BY <1>2, <2>1 DEF LoneLoad
    <3> QED
      BY <3>1, CacheAssumption DEF DroppedIsTorn
  <2>3. dropped' = dropped
    BY <1>10, <2>2 DEF CreateFragment
  <2>4. /\ loads'[p].at = "fill" /\ loads'[p].content = load.content
        /\ loads'[p].skipped = load.skipped
    BY <1>10, CreateLoads
  <2>5. /\ Later(load.skipped) /\ (p \in DOMAIN made => Later(made[p].skipped))
    BY <1>2, <1>5, <2>3 DEF LoneLoad
  <2>6. Later(loads'[p].skipped) /\ (p \in DOMAIN made' => Later(made'[p].skipped))
    BY <2>1, <2>4, <2>5
  <2> QED
    BY <2>2, <2>3, <2>4, <2>6, <1>0
<1>11. CASE FillFragment(p)
  <2> DEFINE l == WithFragment(load, Fragment(load.content))
  <2>1. load.at = "fill" /\ UNCHANGED made /\ loads' = [loads EXCEPT ![p] = l]
    BY <1>11 DEF FillFragment
  <2>2. dropped' = dropped
    <3>1. load.content \notin dropped
      BY <1>2, <2>1 DEF LoneLoad
    <3> QED
      BY <1>11, <3>1 DEF FillFragment
  <2>3. l.at = "probe" /\ l.skipped = load.skipped
    BY <1>3 DEF Load, WithFragment
  <2>4. /\ Later(load.skipped) /\ (p \in DOMAIN made => Later(made[p].skipped))
    BY <1>2, <1>5, <2>2 DEF LoneLoad
  <2> HIDE DEF l
  <2>5. loads'[p] = l
    BY <2>1, <1>16
  <2>6. Later(loads'[p].skipped) /\ (p \in DOMAIN made' => Later(made'[p].skipped))
    BY <2>1, <2>3, <2>4, <2>5
  <2> QED
    BY <1>0, <2>3, <2>5, <2>6
<1>12. CASE CallFails(p)
  <2>1. /\ load.todo # <<>> /\ UNCHANGED <<made, fragments>>
        /\ dropped \subseteq dropped'
    BY <1>3, <1>12 DEF CallFails, LoadOK
  <2>11. load.at \in {"probe", "open", "save", "fill"}
    BY <1>3, <1>12 DEF CallFails, Load
  <2>2. PICK e \in {"read", "open", "create", "write"} :
          loads' = [loads EXCEPT ![p] = Skipped(load, e)]
    BY <1>12, <2>11 DEF CallFails
  <2>3. spent'.error > 0
    <3>1. spent'["error"] = spent["error"] + 1 /\ spent["error"] \in Nat
      BY <1>12, Spending, TypeParts DEF CallFails, Events, Spent
    <3> QED
      BY <3>1
  <2> DEFINE skip == [name |-> Head(load.todo), error |-> e]
  <2>4. CauseThen(skip)
    BY <2>3 DEF CauseThen
  <2>5. load.skipped \in Seq(Skips) /\ skip \in Skips
    BY <1>3, <2>1, LoadFields, TailProperties DEF Skips
  <2>6. Skipped(load, e).skipped = Append(load.skipped, skip) /\ Skipped(load, e).at = "probe"
    BY <1>3, SkippedFields
  <2> HIDE DEF skip, Skips
  <2>7. Range(Append(load.skipped, skip)) = Range(load.skipped) \union {skip}
    BY <2>5, RangeOfAppend
  <2>8. Later(load.skipped)
    BY <1>2, <1>5, <2>1 DEF LoneLoad
  <2> DEFINE l == Skipped(load, e)
  <2>9. Later(l.skipped)
    <3>1. \A s \in Range(load.skipped) \union {skip} : CauseThen(s)
      BY <2>4, <2>8 DEF Later
    <3> QED
      BY <2>6, <2>7, <3>1 DEF Later
  <2>10. loads' = [loads EXCEPT ![p] = l] /\ l.at = "probe"
    BY <2>2, <2>6
  <2> HIDE DEF l
  <2> QED
    BY <1>6, <2>1, <2>9, <2>10
<1>13. CASE Finish(p)
  <2>1. loads'[p] = Idle /\ UNCHANGED <<fragments, dropped>>
    BY <1>13, <1>16 DEF Finish
  <2>2. Idle.at = "idle" /\ Later(Idle.skipped)
    BY DEF Idle, Later, Range
  <2>3. made'[p].skipped = load.skipped
    BY <1>13 DEF Finish
  <2>4. Later(load.skipped)
    BY <1>2, <1>5, <2>1 DEF LoneLoad
  <2>5. Later(loads'[p].skipped) /\ Later(made'[p].skipped)
    BY <2>1, <2>2, <2>3, <2>4
  <2> QED
    BY <1>0, <2>1, <2>2, <2>5
<1>14. CASE Crash(p)
  <2>1. loads'[p] = Idle /\ p \notin DOMAIN made'
    BY <1>14, <1>16 DEF Crash, Restrict
  <2>2. Idle.at = "idle" /\ Later(Idle.skipped)
    BY DEF Idle, Later, Range
  <2>3. Later(loads'[p].skipped)
    BY <2>1, <2>2
  <2> QED
    BY <1>0, <2>1, <2>2, <2>3
<1>15. CASE /\ UNCHANGED <<fragments, dropped>> /\ loads'[p] = loads[p]
            /\ (p \in DOMAIN made' => p \in DOMAIN made /\ made'[p] = made[p])
  <2>1. Later(load.skipped) /\ (p \in DOMAIN made => Later(made[p].skipped))
    BY <1>2, <1>5, <1>15 DEF LoneLoad
  <2>2. Later(loads'[p].skipped) /\ (p \in DOMAIN made' => Later(made'[p].skipped))
    BY <1>15, <2>1
  <2> QED
    BY <1>0, <1>2, <1>15, <2>2 DEF LoneLoad
<1> QED
  BY UndisturbedBefore, <1>7, <1>8, <1>9, <1>10, <1>11, <1>12, <1>13, <1>14, <1>15, Zenon

LEMMA CauseKept ==
  ASSUME CauseInv, [Next]_vars
  PROVE  CauseInv'
<1>1. TypeOK'
  BY TypeKept DEF CauseInv
<1>2. CASE Next
  BY <1>1, <1>2, NextIsStep, TornStaysOwned, DroppedStaysTorn, BegunStaysFirst,
     FilesStayThere, LoneLoadsKept DEF CauseInv
<1>3. CASE UNCHANGED vars
  <2>1. TornIsOwned' /\ DroppedIsTorn' /\ BegunFirst'
    BY <1>3, Zenon DEF CauseInv, vars, TornIsOwned, DroppedIsTorn, BegunFirst, Owns, Filling
  <2>2. FilesThere'
    BY <1>3 DEF CauseInv, vars, FilesThere
  <2>3. LoneLoads'
    BY <1>3, Zenon DEF CauseInv, vars, LoneLoads, LoneLoad, Undisturbed, Caused, HasCause
  <2> QED
    BY <1>1, <2>1, <2>2, <2>3 DEF CauseInv
<1> QED
  BY <1>2, <1>3

LEMMA CauseInit ==
  ASSUME Init
  PROVE  CauseInv
<1>1. TypeOK
  BY TypeInit
<1>2. TornIsOwned /\ DroppedIsTorn /\ BegunFirst
  BY CacheAssumption DEF Init, TornIsOwned, DroppedIsTorn, BegunFirst
<1>3. FilesThere
  BY DEF Init, FilesThere
<1>4. LoneLoads
  <2>1. Idle.at = "idle" /\ Caused(Idle.skipped)
    BY DEF Idle, Caused, Range
  <2> QED
    BY <2>1 DEF Init, LoneLoads, LoneLoad
<1> QED
  BY <1>1, <1>2, <1>3, <1>4 DEF CauseInv

\* No file is skipped without a cause, whatever the files hold, however many
\* processes share the directory and whichever calls of the file system fail: each
\* torn fragment is being filled, or was given up by a failure or a kill; and a
\* process that no other disturbs skips, in every load it makes and however often
\* it is killed, only what it cannot parse, what a call failed for and what was
\* given up.
THEOREM SkipsExplained == Spec => []SkipsHaveCause
<1>1. Init => CauseInv
  BY CauseInit
<1>2. CauseInv /\ [Next]_vars => CauseInv'
  BY CauseKept
<1>3. CauseInv => SkipsHaveCause
  <2> HIDE DEF Body
  <2>1. ASSUME CauseInv, NEW c \in Contents, fragments[c] = Torn
        PROVE  c \in dropped \/ \E p \in Processes : Filling(p, c)
    BY <2>1 DEF CauseInv, TornIsOwned, Owns
  <2>2. ASSUME CauseInv, NEW p \in DOMAIN made, Undisturbed(p)
        PROVE  \A skip \in Range(made[p].skipped) : HasCause(skip)
    BY <2>2, TypeParts DEF CauseInv, LoneLoads, LoneLoad, Caused, IndexesOK
  <2> QED
    BY <2>1, <2>2, Zenon DEF SkipsHaveCause
<1> QED
  BY <1>1, <1>2, <1>3, PTL DEF Spec

-----------------------------------------------------------------------------
(***************************************************************************)
(* What normalize_groups keeps of a group: for every text the weight of    *)
(* the first of its heaviest lines.  Sorting, filtering and joining carry  *)
(* it over.                                                                *)
(***************************************************************************)
Sorts  == INSTANCE FoldsAndOrders WITH Op <- Heavier, Precedes <- Stably
Totals == INSTANCE FoldsAndOrders WITH Op <- Counted, Precedes <- Smaller

Weights == Int \union {NoWeight}
Rows    == [text : Seq(Int), code : Seq(Int), weight : Weights]
Pairs   == [text : Seq(Int), weight : Weights]
Lines   == Rows \union Pairs

Weigh(e) == UnwrapOr(e.weight, 0)

\* Of the lines of q at the places of at, the i-th is the first of the heaviest
\* with its text.
Wins(q, at, i) ==
  \A j \in at : q[j].text = q[i].text =>
    Weigh(q[j]) <= Weigh(q[i]) /\ (j < i => Weigh(q[j]) # Weigh(q[i]))

\* k has the weight of the winner of every text there.
Kept(q, at, k) ==
  /\ k \in [DOMAIN k -> Weights]
  /\ \A i \in at : q[i].text \in DOMAIN k
  /\ \A t \in DOMAIN k : \E i \in at :
       q[i].text = t /\ q[i].weight = k[t] /\ Wins(q, at, i)

\* r has the lines of q at the places of at, those of one text and one weight in
\* their order.
Reindexes(r, q, at, o) ==
  /\ \A n \in 1 .. Len(r) :
       o[n] \in at /\ r[n].text = q[o[n]].text /\ r[n].weight = q[o[n]].weight
  /\ \A i \in at : \E n \in 1 .. Len(r) : o[n] = i
  /\ \A m, n \in 1 .. Len(r) :
       m < n /\ r[m].text = r[n].text /\ Weigh(r[m]) = Weigh(r[n]) => o[m] < o[n]

\* The folds of the model are those of FoldsAndOrders.
LEMMA SameFolds ==
  /\ \A base, q : FoldLeft(Heavier, base, q) = Sorts!Fold(base, q)
  /\ \A base, q : FoldLeft(Counted, base, q) = Totals!Fold(base, q)
<1>1. \A base, q : FoldLeft(Heavier, base, q) = Sorts!Fold(base, q)
  BY Zenon DEF FoldLeft, MapThenFoldSet, Max, Sorts!Fold, Sorts!FoldLeft,
               Sorts!MapThenFoldSet, Sorts!Max
<1>2. \A base, q : FoldLeft(Counted, base, q) = Totals!Fold(base, q)
  BY Zenon DEF FoldLeft, MapThenFoldSet, Max, Totals!Fold, Totals!FoldLeft,
               Totals!MapThenFoldSet, Totals!Max
<1> QED
  BY <1>1, <1>2

LEMMA LinesWeigh ==
  ASSUME NEW q \in Seq(Lines)
  PROVE  /\ Len(q) \in Nat /\ DOMAIN q = 1 .. Len(q)
         /\ \A i \in 1 .. Len(q) :
              /\ q[i] \in Lines /\ q[i].text \in Seq(Int) /\ q[i].weight \in Weights
              /\ Weigh(q[i]) \in Int
<1>1. \A i \in 1 .. Len(q) : q[i] \in Lines
  BY ElementOfSeq
<1>2. \A e \in Lines : e.text \in Seq(Int) /\ e.weight \in Weights
  BY DEF Lines, Rows, Pairs
<1>3. \A e \in Lines : Weigh(e) \in Int
  BY <1>2 DEF Weigh, UnwrapOr, Weights
<1> QED
  BY <1>1, <1>2, <1>3, LenProperties

LEMMA KeptUnique ==
  ASSUME NEW q \in Seq(Lines), NEW at \in SUBSET (1 .. Len(q)), NEW k, NEW h,
         Kept(q, at, k), Kept(q, at, h)
  PROVE  k = h
<1>1. DOMAIN k = DOMAIN h
  BY DEF Kept
<1>2. ASSUME NEW t \in DOMAIN k
      PROVE  k[t] = h[t]
  <2>1. PICK i \in at : q[i].text = t /\ q[i].weight = k[t] /\ Wins(q, at, i)
    BY DEF Kept
  <2>2. PICK j \in at : q[j].text = t /\ q[j].weight = h[t] /\ Wins(q, at, j)
    BY <1>1 DEF Kept
  <2>3. /\ Weigh(q[i]) <= Weigh(q[j]) /\ (i < j => Weigh(q[i]) # Weigh(q[j]))
        /\ Weigh(q[j]) <= Weigh(q[i]) /\ (j < i => Weigh(q[j]) # Weigh(q[i]))
    BY <2>1, <2>2 DEF Wins
  <2>4. /\ i \in 1 .. Len(q) /\ j \in 1 .. Len(q) /\ Len(q) \in Nat
        /\ Weigh(q[i]) \in Int /\ Weigh(q[j]) \in Int
    BY LinesWeigh
  <2>5. i = j
    BY <2>3, <2>4
  <2> QED
    BY <2>1, <2>2, <2>5
<1>3. k \in [DOMAIN k -> Weights] /\ h \in [DOMAIN k -> Weights]
  BY <1>1 DEF Kept
<1> QED
  BY <1>2, <1>3

\* A reindexing keeps the same.
LEMMA KeptMoves ==
  ASSUME NEW q \in Seq(Lines), NEW at \in SUBSET (1 .. Len(q)), NEW r \in Seq(Lines), NEW o,
         Reindexes(r, q, at, o), NEW k
  PROVE  Kept(q, at, k) <=> Kept(r, 1 .. Len(r), k)
<1> DEFINE D == 1 .. Len(r)
<1>1. /\ \A i \in at : i \in Nat /\ Weigh(q[i]) \in Int
      /\ \A n \in D : n \in Nat /\ Weigh(r[n]) \in Int
  BY LinesWeigh
<1>2. /\ \A n \in D : /\ o[n] \in at /\ r[n].text = q[o[n]].text
                      /\ r[n].weight = q[o[n]].weight /\ Weigh(r[n]) = Weigh(q[o[n]])
      /\ \A i \in at : \E n \in D : o[n] = i
      /\ \A m, n \in D : m < n /\ r[m].text = r[n].text /\ Weigh(r[m]) = Weigh(r[n])
           => o[m] < o[n]
  BY DEF Reindexes, Weigh
<1> HIDE DEF D
<1>3. ASSUME NEW n \in D
      PROVE  Wins(q, at, o[n]) <=> Wins(r, D, n)
  <2>1. ASSUME Wins(q, at, o[n]), NEW m \in D, r[m].text = r[n].text
        PROVE  Weigh(r[m]) <= Weigh(r[n]) /\ (m < n => Weigh(r[m]) # Weigh(r[n]))
    <3>1. /\ Weigh(q[o[m]]) <= Weigh(q[o[n]])
          /\ o[m] < o[n] => Weigh(q[o[m]]) # Weigh(q[o[n]])
      BY <1>2, <2>1 DEF Wins
    <3> QED
      BY <1>2, <2>1, <3>1
  <2>2. ASSUME Wins(r, D, n), NEW j \in at, q[j].text = q[o[n]].text
        PROVE  Weigh(q[j]) <= Weigh(q[o[n]]) /\ (j < o[n] => Weigh(q[j]) # Weigh(q[o[n]]))
    <3>1. PICK m \in D : o[m] = j
      BY <1>2
    <3>2. r[m].text = r[n].text
      BY <1>2, <2>2, <3>1
    <3>3. Weigh(r[m]) <= Weigh(r[n]) /\ (m < n => Weigh(r[m]) # Weigh(r[n]))
      BY <2>2, <3>2 DEF Wins
    <3>4. Weigh(q[j]) = Weigh(r[m]) /\ Weigh(q[o[n]]) = Weigh(r[n])
      BY <1>2, <3>1
    <3>5. ASSUME j < o[n], Weigh(r[m]) = Weigh(r[n])
          PROVE  FALSE
      <4>1. o[n] \in Nat /\ j \in Nat /\ m \in Nat /\ n \in Nat
        BY <1>1, <1>2
      <4>2. n < m
        BY <3>1, <3>3, <3>5, <4>1
      <4>3. o[n] < o[m]
        BY <1>2, <3>2, <3>5, <4>2
      <4> QED
        BY <3>1, <3>5, <4>1, <4>3
    <3> QED
      BY <3>3, <3>4, <3>5
  <2> QED
    BY <2>1, <2>2 DEF Wins
<1>4. (\A i \in at : q[i].text \in DOMAIN k) <=> \A n \in D : r[n].text \in DOMAIN k
  <2>1. ASSUME \A n \in D : r[n].text \in DOMAIN k, NEW i \in at
        PROVE  q[i].text \in DOMAIN k
    <3>1. PICK n \in D : o[n] = i
      BY <1>2
    <3> QED
      BY <1>2, <2>1, <3>1
  <2>2. ASSUME \A i \in at : q[i].text \in DOMAIN k, NEW n \in D
        PROVE  r[n].text \in DOMAIN k
    BY <1>2, <2>2
  <2> QED
    BY <2>1, <2>2
<1>5. ASSUME NEW t \in DOMAIN k
      PROVE  (\E i \in at : q[i].text = t /\ q[i].weight = k[t] /\ Wins(q, at, i))
               <=> \E n \in D : r[n].text = t /\ r[n].weight = k[t] /\ Wins(r, D, n)
  <2>1. ASSUME NEW i \in at, q[i].text = t, q[i].weight = k[t], Wins(q, at, i)
        PROVE  \E n \in D : r[n].text = t /\ r[n].weight = k[t] /\ Wins(r, D, n)
    <3>1. PICK n \in D : o[n] = i
      BY <1>2
    <3>2. r[n].text = t /\ r[n].weight = k[t] /\ Wins(r, D, n)
      BY <1>2, <1>3, <2>1, <3>1
    <3> QED
      BY <3>2
  <2>2. ASSUME NEW n \in D, r[n].text = t, r[n].weight = k[t], Wins(r, D, n)
        PROVE  \E i \in at : q[i].text = t /\ q[i].weight = k[t] /\ Wins(q, at, i)
    <3>1. o[n] \in at /\ q[o[n]].text = t /\ q[o[n]].weight = k[t] /\ Wins(q, at, o[n])
      BY <1>2, <1>3, <2>2
    <3> QED
      BY <3>1
  <2> QED
    BY <2>1, <2>2
<1> QED
  BY <1>4, <1>5 DEF Kept, D

\* What two joined groups keep.
Joint(a, b) ==
  [t \in DOMAIN a \union DOMAIN b |->
     IF t \in DOMAIN a /\ (t \in DOMAIN b => UnwrapOr(b[t], 0) <= UnwrapOr(a[t], 0))
     THEN a[t] ELSE b[t]]

\* The places of at in the first of two joined groups and of bt in the second.
JointPlaces(n, at, bt) == at \union {n + i : i \in bt}

LEMMA KeptJoins ==
  ASSUME NEW c \in Seq(Lines), NEW at \in SUBSET (1 .. Len(c)), NEW a, Kept(c, at, a),
         NEW d \in Seq(Lines), NEW bt \in SUBSET (1 .. Len(d)), NEW b, Kept(d, bt, b)
  PROVE  Kept(c \o d, JointPlaces(Len(c), at, bt), Joint(a, b))
<1> DEFINE n  == Len(c)
           e  == c \o d
           et == JointPlaces(Len(c), at, bt)
           k  == Joint(a, b)
<1>1. n \in Nat
  BY LenProperties
<1>2. /\ \A i \in at : /\ i \in 1 .. n /\ i \in et /\ e[i] = c[i] /\ i \in Nat /\ i <= n
                       /\ Weigh(c[i]) \in Int
      /\ \A j \in bt : /\ n + j \in et /\ e[n + j] = d[j] /\ j \in Nat /\ j >= 1
                       /\ Weigh(d[j]) \in Int
      /\ \A m \in et : m \in at \/ \E j \in bt : m = n + j
  <2>1. /\ \A i \in 1 .. n : e[i] = c[i]
        /\ \A j \in 1 .. Len(d) : e[n + j] = d[j]
    BY Totals!ConcatParts
  <2> QED
    BY <1>1, <2>1, LinesWeigh DEF JointPlaces
<1> HIDE DEF n, e, et
<1>3. k \in [DOMAIN k -> Weights] /\ DOMAIN k = DOMAIN a \union DOMAIN b
  BY DEF Kept, Joint
<1>4. ASSUME NEW m \in et
      PROVE  e[m].text \in DOMAIN k
  <2>1. (\A i \in at : c[i].text \in DOMAIN a) /\ \A j \in bt : d[j].text \in DOMAIN b
    BY DEF Kept
  <2>2. CASE m \in at
    BY <1>2, <1>3, <2>1, <2>2
  <2>3. ASSUME NEW j \in bt, m = n + j
        PROVE  e[m].text \in DOMAIN k
    <3>1. e[m] = d[j]
      BY <1>2, <2>3
    <3> QED
      BY <1>3, <2>1, <3>1
  <2> QED
    BY <1>2, <2>2, <2>3
<1>5. ASSUME NEW i \in at, Wins(c, at, i),
             \A j \in bt : d[j].text = c[i].text => Weigh(d[j]) <= Weigh(c[i])
      PROVE  Wins(e, et, i)
  <2> SUFFICES ASSUME NEW m \in et, e[m].text = e[i].text
               PROVE  Weigh(e[m]) <= Weigh(e[i]) /\ (m < i => Weigh(e[m]) # Weigh(e[i]))
    BY DEF Wins
  <2>1. CASE m \in at
    BY <1>2, <1>5, <2>1 DEF Wins
  <2>2. ASSUME NEW j \in bt, m = n + j
        PROVE  Weigh(e[m]) <= Weigh(e[i]) /\ (m < i => Weigh(e[m]) # Weigh(e[i]))
    <3>1. e[m] = d[j] /\ e[i] = c[i] /\ d[j].text = c[i].text
      BY <1>2, <2>2
    <3>2. Weigh(e[m]) <= Weigh(e[i])
      BY <1>5, <3>1
    <3>3. ~ (m < i)
      BY <1>1, <1>2, <2>2
    <3> QED
      BY <3>2, <3>3
  <2> QED
    BY <1>2, <2>1, <2>2
<1>6. ASSUME NEW j \in bt, Wins(d, bt, j),
             \A i \in at : c[i].text = d[j].text =>
               Weigh(c[i]) <= Weigh(d[j]) /\ Weigh(c[i]) # Weigh(d[j])
      PROVE  Wins(e, et, n + j)
  <2> SUFFICES ASSUME NEW m \in et, e[m].text = e[n + j].text
               PROVE  /\ Weigh(e[m]) <= Weigh(e[n + j])
                      /\ m < n + j => Weigh(e[m]) # Weigh(e[n + j])
    BY DEF Wins
  <2>1. CASE m \in at
    BY <1>2, <1>6, <2>1
  <2>2. ASSUME NEW i \in bt, m = n + i
        PROVE  Weigh(e[m]) <= Weigh(e[n + j]) /\ (m < n + j => Weigh(e[m]) # Weigh(e[n + j]))
    <3>1. d[i].text = d[j].text /\ (n + i < n + j => i < j)
      BY <1>1, <1>2, <2>2
    <3> QED
      BY <1>2, <1>6, <2>2, <3>1 DEF Wins
  <2> QED
    BY <1>2, <2>1, <2>2
<1>7. ASSUME NEW t \in DOMAIN k
      PROVE  \E m \in et : e[m].text = t /\ e[m].weight = k[t] /\ Wins(e, et, m)
  <2> DEFINE First == t \in DOMAIN a /\ (t \in DOMAIN b => UnwrapOr(b[t], 0) <= UnwrapOr(a[t], 0))
  <2>1. k[t] = IF First THEN a[t] ELSE b[t]
    BY <1>3 DEF Joint
  <2>2. ASSUME NEW i \in at, c[i].text = t, c[i].weight = a[t], Wins(c, at, i),
               NEW j \in bt, d[j].text = t, d[j].weight = b[t], Wins(d, bt, j)
        PROVE  /\ Weigh(c[i]) = UnwrapOr(a[t], 0) /\ Weigh(d[j]) = UnwrapOr(b[t], 0)
               /\ \A m \in at : c[m].text = t => Weigh(c[m]) <= Weigh(c[i])
               /\ \A m \in bt : d[m].text = t => Weigh(d[m]) <= Weigh(d[j])
    BY <2>2 DEF Wins, Weigh
  <2>3. CASE First
    <3>1. PICK i \in at : c[i].text = t /\ c[i].weight = a[t] /\ Wins(c, at, i)
      BY <2>3 DEF Kept
    <3>2. ASSUME NEW m \in bt, d[m].text = c[i].text
          PROVE  Weigh(d[m]) <= Weigh(c[i])
      <4>1. t \in DOMAIN b
        BY <3>1, <3>2 DEF Kept
      <4>2. PICK j \in bt : d[j].text = t /\ d[j].weight = b[t] /\ Wins(d, bt, j)
        BY <4>1 DEF Kept
      <4>3. Weigh(d[m]) <= Weigh(d[j]) /\ Weigh(d[j]) <= Weigh(c[i])
        BY <2>2, <2>3, <3>1, <3>2, <4>1, <4>2
      <4> QED
        BY <1>2, <4>3
    <3>3. Wins(e, et, i)
      BY <1>5, <3>1, <3>2
    <3> QED
      BY <1>2, <2>1, <2>3, <3>1, <3>3
  <2>4. CASE ~ First
    <3>0. t \in DOMAIN b
      BY <1>3, <2>4
    <3>1. PICK j \in bt : d[j].text = t /\ d[j].weight = b[t] /\ Wins(d, bt, j)
      BY <3>0 DEF Kept
    <3>2. ASSUME NEW m \in at, c[m].text = d[j].text
          PROVE  Weigh(c[m]) <= Weigh(d[j]) /\ Weigh(c[m]) # Weigh(d[j])
      <4>1. t \in DOMAIN a
        BY <3>1, <3>2 DEF Kept
      <4>2. PICK i \in at : c[i].text = t /\ c[i].weight = a[t] /\ Wins(c, at, i)
        BY <4>1 DEF Kept
      <4>3. Weigh(c[m]) <= Weigh(c[i]) /\ ~ (Weigh(d[j]) <= Weigh(c[i]))
        BY <2>2, <2>4, <3>1, <3>2, <4>1, <4>2
      <4> QED
        BY <1>2, <4>3
    <3>3. Wins(e, et, n + j)
      BY <1>6, <3>1, <3>2
    <3> QED
      BY <1>2, <2>1, <2>4, <3>1, <3>3
  <2> QED
    BY <2>3, <2>4
<1> HIDE DEF k
<1>8. Kept(e, et, k)
  BY <1>3, <1>4, <1>7 DEF Kept
<1> QED
  BY <1>8 DEF e, et, k

\* One line of a group is one group joined.
LEMMA HeavierJoins ==
  ASSUME NEW k, k \in [DOMAIN k -> Weights], NEW e \in Lines
  PROVE  Heavier(k, e) = Joint(k, [t \in {e.text} |-> e.weight])
<1> DEFINE b == [t \in {e.text} |-> e.weight]
           D == DOMAIN k \union {e.text}
           stays == e.text \in DOMAIN k /\ UnwrapOr(e.weight, 0) <= UnwrapOr(k[e.text], 0)
<1>1. Joint(k, b) = [t \in D |->
        IF t \in DOMAIN k /\ (t = e.text => UnwrapOr(e.weight, 0) <= UnwrapOr(k[t], 0))
        THEN k[t] ELSE e.weight]
  BY DEF Joint
<1>2. CASE stays
  <2>1. Heavier(k, e) = k
    BY <1>2 DEF Heavier
  <2>2. D = DOMAIN k /\ k = [t \in D |-> k[t]]
    BY <1>2
  <2> QED
    BY <1>1, <1>2, <2>1, <2>2
<1>3. CASE ~ stays
  <2>1. Heavier(k, e) = [t \in D |-> IF t = e.text THEN e.weight ELSE k[t]]
    BY <1>3, Zenon DEF Heavier
  <2> QED
    BY <1>1, <1>3, <2>1
<1> QED
  BY <1>2, <1>3

LEMMA KeptOfOne ==
  ASSUME NEW e \in Lines
  PROVE  /\ <<e>> \in Seq(Lines) /\ Len(<<e>>) = 1
         /\ Kept(<<e>>, {1}, [t \in {e.text} |-> e.weight])
<1>1. e.text \in Seq(Int) /\ e.weight \in Weights
  BY DEF Lines, Rows, Pairs
<1>2. Weigh(e) <= Weigh(e)
  BY <1>1 DEF Weigh, UnwrapOr, Weights
<1>3. <<e>> \in Seq(Lines) /\ Len(<<e>>) = 1 /\ <<e>>[1] = e
  OBVIOUS
<1>4. Wins(<<e>>, {1}, 1)
  BY <1>2, <1>3 DEF Wins
<1> HIDE DEF Weigh
<1> QED
  BY <1>1, <1>3, <1>4 DEF Kept

\* normalize_groups keeps the weight of every text's winner.
LEMMA FoldKept ==
  ASSUME NEW q \in Seq(Lines)
  PROVE  Kept(q, 1 .. Len(q), FoldLeft(Heavier, <<>>, q))
<1> DEFINE Good == {n \in Nat : \A s \in Seq(Lines) :
                      Len(s) = n => Kept(s, 1 .. Len(s), Sorts!Fold(<<>>, s))}
<1>1. 0 \in Good
  <2> SUFFICES ASSUME NEW s \in Seq(Lines), Len(s) = 0
               PROVE  Kept(s, 1 .. Len(s), Sorts!Fold(<<>>, s))
    OBVIOUS
  <2>1. s = <<>> /\ 1 .. Len(s) = {}
    BY EmptySeq
  <2>2. Sorts!Fold(<<>>, s) = <<>>
    BY <2>1, Sorts!FoldEmpty
  <2>3. DOMAIN <<>> = {} /\ <<>> \in [{} -> Weights]
    <3>1. <<>> \in Seq(Weights) /\ Len(<<>>) = 0
      BY EmptySeq
    <3>2. <<>> \in [1 .. 0 -> Weights]
      BY <3>1, LenProperties
    <3>3. 1 .. 0 = {}
      OBVIOUS
    <3> QED
      BY <3>2, <3>3
  <2> QED
    BY <2>1, <2>2, <2>3 DEF Kept
<1>2. ASSUME NEW n \in Nat, n \in Good
      PROVE  n + 1 \in Good
  <2> SUFFICES ASSUME NEW s \in Seq(Lines), Len(s) = n + 1
               PROVE  Kept(s, 1 .. Len(s), Sorts!Fold(<<>>, s))
    OBVIOUS
  <2> DEFINE f == SubSeq(s, 1, n)
             e == s[n + 1]
             k == Sorts!Fold(<<>>, f)
  <2>1. e \in Lines
    BY LinesWeigh
  <2>2. f \in Seq(Lines) /\ Len(f) = n /\ \A i \in 1 .. n : f[i] = s[i]
    <3>1. \A i \in 1 .. n : s[i] \in Lines
      BY LinesWeigh
    <3>2. /\ SubSeq(s, 1, n) \in Seq(Lines)
          /\ Len(SubSeq(s, 1, n)) = IF 1 <= n THEN n - 1 + 1 ELSE 0
          /\ \A i \in 1 .. n - 1 + 1 : SubSeq(s, 1, n)[i] = s[1 + i - 1]
      BY <3>1, SubSeqProperties
    <3>3. n - 1 + 1 = n /\ \A i \in 1 .. n : 1 + i - 1 = i
      OBVIOUS
    <3>4. Len(SubSeq(s, 1, n)) = n
      BY <3>2
    <3> QED
      BY <3>2, <3>3, <3>4
  <2> HIDE DEF f
  <2>3. s = Append(f, e)
    BY <2>1, <2>2 DEF e
  <2>4. s = f \o <<e>>
    BY <2>2, <2>3, <2>1
  <2>5. Kept(f, 1 .. n, k)
    BY <1>2, <2>2
  <2> HIDE DEF e
  <2>6. Sorts!Fold(<<>>, s) = Heavier(k, e)
    BY <2>1, <2>2, <2>3, Sorts!FoldAppend
  <2> HIDE DEF k
  <2>7. Sorts!Fold(<<>>, s) = Joint(k, [t \in {e.text} |-> e.weight])
    BY <2>1, <2>5, <2>6, HeavierJoins DEF Kept
  <2>8. /\ <<e>> \in Seq(Lines) /\ Len(<<e>>) = 1
        /\ Kept(<<e>>, {1}, [t \in {e.text} |-> e.weight])
    BY <2>1, KeptOfOne
  <2>9. Kept(f \o <<e>>, JointPlaces(n, 1 .. n, {1}), Joint(k, [t \in {e.text} |-> e.weight]))
    <3>1. {1} \in SUBSET (1 .. Len(<<e>>)) /\ 1 .. n \in SUBSET (1 .. Len(f))
      BY <2>2, <2>8
    <3> QED
      BY <2>2, <2>5, <2>8, <3>1, KeptJoins
  <2>10. JointPlaces(n, 1 .. n, {1}) = 1 .. Len(s)
    BY DEF JointPlaces
  <2> QED
    BY <2>4, <2>7, <2>9, <2>10
<1> HIDE DEF Good
<1>3. Len(q) \in Good
  BY <1>1, <1>2, Sorts!SetInduction, LenProperties
<1> QED
  BY <1>3, SameFolds DEF Good

\* Groups that keep the same normalize to the same.
LEMMA SameNormalized ==
  ASSUME NEW q \in Seq(Lines), NEW r \in Seq(Lines), NEW k,
         Kept(q, 1 .. Len(q), k), Kept(r, 1 .. Len(r), k)
  PROVE  NormalizeGroup(q) = NormalizeGroup(r)
<1>1. FoldLeft(Heavier, <<>>, q) = k
  BY FoldKept, KeptUnique
<1>2. FoldLeft(Heavier, <<>>, r) = k
  BY FoldKept, KeptUnique
<1> QED
  BY <1>1, <1>2, Zenon DEF NormalizeGroup

-----------------------------------------------------------------------------
(***************************************************************************)
(* Sorting and filtering.                                                  *)
(***************************************************************************)
\* The instances count and compare as this module does.
LEMMA SameSets ==
  /\ \A S : Sorts!Cardinality(S) = Cardinality(S)
  /\ \A S : Sorts!IsFiniteSet(S) <=> IsFiniteSet(S)
  /\ \A S : Totals!Cardinality(S) = Cardinality(S)
  /\ \A S : Totals!IsFiniteSet(S) <=> IsFiniteSet(S)
  /\ \A s, t : Sorts!LexLess(s, t) <=> LexLess(s, t)
<1>1. \A s, t : Sorts!LexLess(s, t) <=> LexLess(s, t)
  BY DEF Sorts!LexLess, LexLess
<1>2. /\ \A S : Sorts!Cardinality(S) = Cardinality(S)
      /\ \A S : Sorts!IsFiniteSet(S) <=> IsFiniteSet(S)
  BY Zenon DEF Cardinality, Sorts!Cardinality, IsFiniteSet, Sorts!IsFiniteSet
<1>3. /\ \A S : Totals!Cardinality(S) = Cardinality(S)
      /\ \A S : Totals!IsFiniteSet(S) <=> IsFiniteSet(S)
  BY Zenon DEF Cardinality, Totals!Cardinality, IsFiniteSet, Totals!IsFiniteSet
<1> QED
  BY <1>1, <1>2, <1>3

Tagged(n, key) == {[key |-> key[i], at |-> i] : i \in 1 .. n}

\* The stable sort puts n keys in order and those that are equal in their places'.
LEMMA StablyEnumerates ==
  ASSUME NEW n \in Nat, NEW key \in [1 .. n -> Seq(Int)]
  PROVE  LET r == InOrder(Tagged(n, key), Stably)
         IN  /\ \A i \in 1 .. n : r[i].at \in 1 .. n
             /\ \A j \in 1 .. n : \E i \in 1 .. n : r[i].at = j
             /\ \A i, j \in 1 .. n :
                  i < j /\ key[r[i].at] = key[r[j].at] => r[i].at < r[j].at
<1> DEFINE D == 1 .. n
           K == Tagged(n, key)
           r == InOrder(K, Stably)
           tag == [i \in D |-> [key |-> key[i], at |-> i]]
<1>1. tag \in Bijection(D, K)
  <2>1. tag \in [D -> K] /\ (\A i, j \in D : tag[i] = tag[j] => i = j)
        /\ \A p \in K : \E i \in D : tag[i] = p
    BY DEF Tagged
  <2> HIDE DEF tag, K, D
  <2> QED
    BY <2>1 DEF Bijection, Injection, Surjection, IsInjective
<1>2. IsFiniteSet(K) /\ Cardinality(K) = n
  BY <1>1, FS_Bijection, FS_Interval DEF ExistsBijection
<1>3. \A p \in K : p.at \in D /\ p.key = key[p.at] /\ p.key \in Seq(Int) /\ p = tag[p.at]
  BY DEF Tagged
<1>4. \A i \in D : tag[i] \in K /\ tag[i].at = i
  BY DEF Tagged
<1>5. \A i \in D : i \in Int
  OBVIOUS
<1> HIDE DEF K, tag, D
<1>6. Sorts!StrictTotalOrder(K)
  <2>1. \A p \in K : ~ Stably(p, p)
    BY <1>3, <1>5, SameSets, Sorts!LexLessIsOrder DEF Stably
  <2>2. ASSUME NEW p \in K, NEW q \in K, p # q
        PROVE  Stably(p, q) \/ Stably(q, p)
    <3>1. p.key = q.key => p.at # q.at
      BY <1>3, <2>2
    <3>2. p.key # q.key => LexLess(p.key, q.key) \/ LexLess(q.key, p.key)
      BY <1>3, SameSets, Sorts!LexLessIsOrder
    <3>3. p.at # q.at => p.at < q.at \/ q.at < p.at
      BY <1>3, <1>5
    <3> QED
      BY <3>1, <3>2, <3>3 DEF Stably
  <2>3. ASSUME NEW p \in K, NEW q \in K, NEW u \in K, Stably(p, q), Stably(q, u)
        PROVE  Stably(p, u)
    <3>1. LexLess(p.key, q.key) /\ LexLess(q.key, u.key) => LexLess(p.key, u.key)
      BY <1>3, SameSets, Sorts!LexLessIsOrder
    <3>2. p.at < q.at /\ q.at < u.at => p.at < u.at
      BY <1>3, <1>5
    <3> QED
      BY <2>3, <3>1, <3>2 DEF Stably
  <2> QED
    BY <2>1, <2>2, <2>3 DEF Sorts!StrictTotalOrder
<1>7. r = Sorts!Enumeration(K)
  BY Zenon DEF InOrder, Sorts!InOrder, Sorts!Enumeration, Cardinality, Sorts!Cardinality
<1> HIDE DEF r
<1>8. /\ r \in [D -> K]
      /\ \A p \in K : \E i \in D : r[i] = p
      /\ \A i, j \in D : i < j => Stably(r[i], r[j])
  <2>1. Sorts!IsFiniteSet(K) /\ Sorts!Cardinality(K) = n
    BY <1>2, SameSets
  <2>2. /\ Sorts!Enumeration(K) \in [1 .. Sorts!Cardinality(K) -> K]
        /\ \A p \in K : \E i \in 1 .. Sorts!Cardinality(K) : Sorts!Enumeration(K)[i] = p
        /\ \A i, j \in 1 .. Sorts!Cardinality(K) :
             i < j => Stably(Sorts!Enumeration(K)[i], Sorts!Enumeration(K)[j])
    BY <1>6, <2>1, Sorts!InOrderEnumerates, Zenon
  <2> QED
    BY <1>7, <2>1, <2>2 DEF D
<1>9. \A i \in D : r[i].at \in D
  BY <1>3, <1>8
<1>10. \A j \in D : \E i \in D : r[i].at = j
  BY <1>4, <1>8
<1>11. ASSUME NEW i \in D, NEW j \in D, i < j, key[r[i].at] = key[r[j].at]
       PROVE  r[i].at < r[j].at
  <2>1. r[i].key = r[j].key /\ r[i].key \in Seq(Int)
    BY <1>3, <1>8, <1>11
  <2>2. ~ LexLess(r[i].key, r[j].key)
    BY <2>1, SameSets, Sorts!LexLessIsOrder
  <2>3. Stably(r[i], r[j])
    BY <1>8, <1>11
  <2> QED
    BY <2>2, <2>3 DEF Stably
<1> QED
  BY <1>9, <1>10, <1>11 DEF r, K, D

LineKey(e) == <<-UnwrapOr(e.weight, 0)>> \o e.text

LEMMA LineKeyed ==
  ASSUME NEW e \in Lines, NEW f \in Lines
  PROVE  /\ LineKey(e) \in Seq(Int)
         /\ e.text = f.text /\ Weigh(e) = Weigh(f) => LineKey(e) = LineKey(f)
<1>1. /\ e.text \in Seq(Int) /\ e.weight \in Weights
      /\ f.text \in Seq(Int) /\ f.weight \in Weights
  BY DEF Lines, Rows, Pairs
<1>2. -UnwrapOr(e.weight, 0) \in Int
  BY <1>1 DEF UnwrapOr, Weights
<1>3. <<-UnwrapOr(e.weight, 0)>> \in Seq(Int)
  BY <1>2
<1> QED
  BY <1>1, <1>3, ConcatProperties DEF LineKey, Weigh

\* sort_group only moves lines.
LEMMA SortGroupReindexes ==
  ASSUME NEW S \in SUBSET Lines, NEW q \in Seq(S)
  PROVE  /\ SortGroup(q) \in Seq(S)
         /\ \E o : Reindexes(SortGroup(q), q, 1 .. Len(q), o)
<1> DEFINE n == Len(q)
           D == 1 .. n
           key == [i \in D |-> LineKey(q[i])]
           K == {[key |-> <<-UnwrapOr(q[i].weight, 0)>> \o q[i].text, at |-> i] :
                   i \in DOMAIN q}
           order == InOrder(Tagged(n, key), Stably)
           r == SortGroup(q)
           o == [i \in D |-> order[i].at]
<1>1. n \in Nat /\ DOMAIN q = D /\ \A i \in D : q[i] \in S /\ q[i] \in Lines
  BY LenProperties, ElementOfSeq
<1>2. key \in [D -> Seq(Int)]
  BY <1>1, LineKeyed
<1>3. r = [i \in D |-> q[o[i]]]
  <2>1. K = Tagged(n, key)
    BY <1>1 DEF Tagged, LineKey
  <2>2. r = [i \in DOMAIN q |-> q[InOrder(K, Stably)[i].at]]
    BY Zenon DEF SortGroup, Sorted
  <2> HIDE DEF K
  <2> QED
    BY <1>1, <2>1, <2>2
<1>4. /\ \A i \in D : order[i].at \in D
      /\ \A j \in D : \E i \in D : order[i].at = j
      /\ \A i, j \in D : i < j /\ key[order[i].at] = key[order[j].at]
           => order[i].at < order[j].at
  <2> HIDE DEF key
  <2> QED
    BY <1>1, <1>2, StablyEnumerates
<1>5. \A i, j \in D : q[i].text = q[j].text /\ Weigh(q[i]) = Weigh(q[j]) => key[i] = key[j]
  BY <1>1, LineKeyed
<1> HIDE DEF order, key, r
<1>6. \A i \in D : o[i] \in D /\ r[i] = q[o[i]]
  BY <1>3, <1>4
<1>7. r \in Seq(S) /\ Len(r) = n
  BY <1>1, <1>3, <1>4
<1>8. \A j \in D : \E i \in D : o[i] = j
  BY <1>4
<1>9. ASSUME NEW i \in D, NEW j \in D, i < j, r[i].text = r[j].text, Weigh(r[i]) = Weigh(r[j])
      PROVE  o[i] < o[j]
  <2>0. PICK x \in D, y \in D : x = o[i] /\ y = o[j] /\ r[i] = q[x] /\ r[j] = q[y]
    BY <1>6
  <2>1. key[x] = key[y] /\ x = order[i].at /\ y = order[j].at
    <3>1. q[x].text = q[y].text /\ Weigh(q[x]) = Weigh(q[y])
      BY <1>9, <2>0
    <3> QED
      BY <1>5, <2>0, <3>1
  <2> QED
    BY <1>4, <1>9, <2>0, <2>1
<1>10. Reindexes(r, q, D, o)
  <2> HIDE DEF o
  <2> QED
    BY <1>6, <1>7, <1>8, <1>9 DEF Reindexes
<1> QED
  BY <1>7, <1>10 DEF r

Picked(q, A) ==
  LET at == InOrder(A, Smaller)
  IN  [n \in DOMAIN at |-> q[at[n]]]

\* r has the elements of q at the places of A in their order.
Keeps(r, q, A, at) ==
  /\ \A n \in 1 .. Len(r) : at[n] \in A /\ r[n] = q[at[n]]
  /\ \A i \in A : \E n \in 1 .. Len(r) : at[n] = i
  /\ \A m, n \in 1 .. Len(r) : m < n => at[m] < at[n]

LEMMA PickedInOrder ==
  ASSUME NEW S, NEW q \in Seq(S), NEW A \in SUBSET (1 .. Len(q))
  PROVE  Picked(q, A) \in Seq(S) /\ \E at : Keeps(Picked(q, A), q, A, at)
<1> DEFINE N == Cardinality(A)
           at == InOrder(A, Smaller)
           r == Picked(q, A)
<1>1. Len(q) \in Nat /\ \A i \in 1 .. Len(q) : q[i] \in S
  BY LenProperties, ElementOfSeq
<1>2. IsFiniteSet(A) /\ N \in Nat
  <2>1. IsFiniteSet(1 .. Len(q))
    BY <1>1, FS_Interval
  <2>2. IsFiniteSet(A)
    BY <2>1, FS_Subset
  <2> QED
    BY <2>2, FS_CardinalityType
<1>3. r = [n \in DOMAIN at |-> q[at[n]]]
  BY DEF Picked
<1>4. at = Totals!Enumeration(A)
  BY Zenon DEF InOrder, Totals!InOrder, Totals!Enumeration, Cardinality, Totals!Cardinality
<1>5. Totals!StrictTotalOrder(A)
  <2>1. \A i \in A : i \in Nat
    BY <1>1
  <2> QED
    BY <2>1 DEF Totals!StrictTotalOrder, Smaller
<1> HIDE DEF at, r
<1>6. /\ at \in [1 .. N -> A]
      /\ \A i \in A : \E n \in 1 .. N : at[n] = i
      /\ \A m, n \in 1 .. N : m < n => at[m] < at[n]
  <2>1. Totals!IsFiniteSet(A) /\ Totals!Cardinality(A) = N
    BY <1>2, SameSets
  <2>2. /\ Totals!Enumeration(A) \in [1 .. Totals!Cardinality(A) -> A]
        /\ \A i \in A : \E n \in 1 .. Totals!Cardinality(A) : Totals!Enumeration(A)[n] = i
        /\ \A m, n \in 1 .. Totals!Cardinality(A) :
             m < n => Smaller(Totals!Enumeration(A)[m], Totals!Enumeration(A)[n])
    BY <1>5, <2>1, Totals!InOrderEnumerates, Zenon
  <2> HIDE DEF N
  <2> QED
    BY <1>4, <2>1, <2>2 DEF Smaller
<1> HIDE DEF N
<1>7. r \in Seq(S) /\ Len(r) = N /\ \A n \in 1 .. N : at[n] \in A /\ r[n] = q[at[n]]
  <2>1. \A n \in 1 .. N : at[n] \in A /\ q[at[n]] \in S
    BY <1>1, <1>6
  <2>2. r = [n \in 1 .. N |-> q[at[n]]]
    BY <1>3, <1>6
  <2> QED
    BY <1>2, <2>1, <2>2
<1>8. Keeps(r, q, A, at)
  BY <1>6, <1>7 DEF Keeps
<1> QED
  BY <1>7, <1>8 DEF r

\* The places of the lines of one code.
OfCode(q, code) == {i \in 1 .. Len(q) : q[i].code = code}

Chosen(q, code) == Selected(q, LAMBDA e : e.code = code)

LEMMA ChosenReindexes ==
  ASSUME NEW q \in Seq(Rows), NEW code
  PROVE  /\ Chosen(q, code) \in Seq(Rows)
         /\ \E o : Reindexes(Chosen(q, code), q, OfCode(q, code), o)
<1>1. DOMAIN q = 1 .. Len(q) /\ OfCode(q, code) \in SUBSET (1 .. Len(q))
  BY LenProperties DEF OfCode
<1>2. Chosen(q, code) = Picked(q, OfCode(q, code))
  <2>1. Chosen(q, code) = Picked(q, {i \in DOMAIN q : q[i].code = code})
    BY Zenon DEF Chosen, Selected, Picked
  <2> QED
    BY <1>1, <2>1 DEF OfCode
<1>3. PICK at : Keeps(Chosen(q, code), q, OfCode(q, code), at)
  BY <1>1, <1>2, PickedInOrder
<1>4. Reindexes(Chosen(q, code), q, OfCode(q, code), at)
  BY <1>3 DEF Reindexes, Keeps
<1> QED
  BY <1>1, <1>2, <1>4, PickedInOrder

-----------------------------------------------------------------------------
(***************************************************************************)
(* What is parsed.                                                         *)
(***************************************************************************)
Field == Seq(Int)

LEMMA EndsOfSet ==
  ASSUME NEW n \in Nat, NEW A \in SUBSET (1 .. n), A # {}
  PROVE  Min(A) \in A /\ Max(A) \in A
<1>1. \A i \in A : i \in Nat /\ i <= n /\ n - i \in Nat
  OBVIOUS
<1>2. \E i \in A : \A j \in A : i <= j
  <2>1. A \subseteq Nat
    BY <1>1
  <2> QED
    BY <2>1, Sorts!LeastNumber
<1>3. \E i \in A : \A j \in A : i >= j
  <2> DEFINE B == {n - i : i \in A}
  <2>1. B \subseteq Nat /\ B # {}
    BY <1>1
  <2>2. PICK b \in B : \A m \in B : b <= m
    <3> HIDE DEF B
    <3> QED
      BY <2>1, Sorts!LeastNumber
  <2>3. PICK i \in A : b = n - i
    OBVIOUS
  <2>4. \A j \in A : n - i <= n - j
    BY <2>2, <2>3
  <2>5. \A j \in A : i >= j
    BY <1>1, <2>4
  <2> QED
    BY <2>5
<1> QED
  BY <1>2, <1>3 DEF Min, Max

LEMMA PartTyped ==
  ASSUME NEW S, NEW q \in Seq(S), NEW m \in Nat \ {0}, NEW n \in Int, n <= Len(q)
  PROVE  SubSeq(q, m, n) \in Seq(S)
<1>1. \A i \in m .. n : q[i] \in S
  BY LenProperties, ElementOfSeq
<1> QED
  BY <1>1, SubSeqProperties

LEMMA AfterTyped ==
  ASSUME NEW S, NEW q \in Seq(S), NEW marker
  PROVE  After(q, marker) \in Seq(S)
<1> DEFINE at == {i \in 2 .. Len(q) : q[i] = marker}
<1>1. Len(q) \in Nat /\ at \in SUBSET (1 .. Len(q))
  BY LenProperties
<1>2. After(q, marker) = IF at = {} THEN q ELSE SubSeq(q, Min(at) + 1, Len(q))
  BY DEF After
<1>3. at # {} => Min(at) \in at
  <2> HIDE DEF at
  <2> QED
    BY <1>1, EndsOfSet
<1>4. at # {} => Min(at) + 1 \in Nat \ {0}
  BY <1>1, <1>3
<1> HIDE DEF at
<1> QED
  BY <1>1, <1>2, <1>4, PartTyped

LEMMA TrimmedTyped ==
  ASSUME NEW line \in Seq(Field)
  PROVE  Trimmed(line) \in Seq(Field)
<1> DEFINE used == {i \in DOMAIN line : line[i] # <<>>}
<1>1. Len(line) \in Nat /\ used \in SUBSET (1 .. Len(line))
  BY LenProperties
<1>2. Trimmed(line) = IF used = {} THEN <<>> ELSE SubSeq(line, Min(used), Max(used))
  BY DEF Trimmed
<1> HIDE DEF used
<1>3. used # {} => /\ Min(used) \in Nat \ {0}
                   /\ Max(used) \in Int /\ Max(used) <= Len(line)
  <2>1. used # {} => Min(used) \in used /\ Max(used) \in used
    BY <1>1, EndsOfSet
  <2>2. \A i \in used : i \in Nat \ {0} /\ i <= Len(line)
    BY <1>1
  <2> QED
    BY <2>1, <2>2
<1> QED
  BY <1>1, <1>2, <1>3, PartTyped, EmptySeq

LEMMA RowTyped ==
  ASSUME NEW fields \in Seq(Field), NEW columns
  PROVE  ParseRow(fields, columns) \in Rows
<1> DEFINE field(i)  == IF i \in DOMAIN fields THEN fields[i] ELSE <<>>
           last(c)   == LET at == {i \in DOMAIN columns : columns[i] = c}
                        IN  IF at = {} THEN <<>> ELSE field(Max(at))
           weighed   == {i \in DOMAIN columns : columns[i] = "weight" /\ field(i) # <<>>}
           number(v) == IF Len(v) = 1 THEN v[1] ELSE NoWeight
<1>1. \A i : field(i) \in Seq(Int)
  BY LenProperties, ElementOfSeq DEF Field
<1>2. ParseRow(fields, columns) =
        [text |-> last("text"), code |-> last("code"),
         weight |-> IF weighed = {} THEN 1 ELSE number(field(Max(weighed)))]
  BY Zenon DEF ParseRow
<1> HIDE DEF field, weighed
<1>3. last("text") \in Seq(Int) /\ last("code") \in Seq(Int)
  BY <1>1
<1>4. \A v \in Seq(Int) : number(v) \in Weights
  BY DEF Weights
<1>5. (IF weighed = {} THEN 1 ELSE number(field(Max(weighed)))) \in Weights
  <2>1. 1 \in Weights
    BY DEF Weights
  <2> HIDE DEF number
  <2> QED
    BY <1>1, <1>4, <2>1
<1> HIDE DEF last, number
<1> QED
  BY <1>2, <1>3, <1>5 DEF Rows

\* Every line of a body has a text, a code and perhaps a weight.
LEMMA BodyTyped ==
  ASSUME NEW lines \in Seq(Seq(Field)), NEW columns
  PROVE  ParseBody(lines, columns).entries \in Seq(Rows)
<1> DEFINE trims == [i \in DOMAIN lines |-> Trimmed(lines[i])]
           A     == {i \in DOMAIN trims : trims[i] # <<>> /\ trims[i][1][1] # Hash}
           rows  == Picked(trims, A)
           ok    == \A i \in DOMAIN rows : Len(rows[i]) >= 2
           parsed == [i \in DOMAIN rows |-> ParseRow(rows[i], columns)]
<1>1. trims \in Seq(Seq(Field))
  <2>1. Len(lines) \in Nat /\ DOMAIN lines = 1 .. Len(lines)
        /\ \A i \in 1 .. Len(lines) : lines[i] \in Seq(Field)
    BY LenProperties, ElementOfSeq
  <2>2. \A i \in 1 .. Len(lines) : Trimmed(lines[i]) \in Seq(Field)
    BY <2>1, TrimmedTyped
  <2> QED
    BY <2>1, <2>2
<1>2. ParseBody(lines, columns).entries = IF ok THEN parsed ELSE <<>>
  BY Zenon DEF ParseBody, Selected, Picked
<1> HIDE DEF trims
<1>3. A \in SUBSET (1 .. Len(trims))
  BY <1>1, LenProperties
<1> HIDE DEF A
<1>4. rows \in Seq(Seq(Field))
  BY <1>1, <1>3, PickedInOrder
<1> HIDE DEF rows
<1>5. Len(rows) \in Nat /\ DOMAIN rows = 1 .. Len(rows)
      /\ \A i \in 1 .. Len(rows) : ParseRow(rows[i], columns) \in Rows
  BY <1>4, LenProperties, ElementOfSeq, RowTyped
<1>6. parsed \in Seq(Rows)
  BY <1>5
<1> HIDE DEF ok, parsed
<1> QED
  BY <1>2, <1>6, EmptySeq

LEMMA ContentTyped ==
  ASSUME NEW c \in Contents
  PROVE  Body(c).entries \in Seq(Rows)
<1>1. c \in Seq(Seq(Field))
  BY CacheAssumption DEF Field
<1>2. ExtractBody(c) \in Seq(Seq(Field))
  BY <1>1, AfterTyped DEF ExtractBody
<1> QED
  BY <1>2, BodyTyped DEF Body

-----------------------------------------------------------------------------
(***************************************************************************)
(* Fragments and what is stitched from them.                               *)
(***************************************************************************)
\* The lines of one code in a body and in the fragment made of it keep the same.
LEMMA FragmentKept ==
  ASSUME NEW c \in Contents, NEW code
  PROVE  LET b == Body(c).entries
             g == GroupOf(Fragment(c).entries, code)
         IN  /\ g \in Seq(Pairs)
             /\ \E k : Kept(b, OfCode(b, code), k) /\ Kept(g, 1 .. Len(g), k)
<1> DEFINE b == Body(c).entries
           ch == Chosen(b, code)
           p == [i \in DOMAIN ch |-> TextWeight(ch[i])]
           g == GroupOf(Fragment(c).entries, code)
           k == FoldLeft(Heavier, <<>>, ch)
<1>1. b \in Seq(Rows) /\ b \in Seq(Lines) /\ OfCode(b, code) \in SUBSET (1 .. Len(b))
      /\ DOMAIN b = 1 .. Len(b)
  <2>1. b \in Seq(Rows)
    BY ContentTyped
  <2>2. Rows \subseteq Lines
    BY DEF Lines
  <2> HIDE DEF b
  <2> QED
    BY <2>1, <2>2, SeqMonotonic, LenProperties DEF OfCode
<1>2. Fragment(c).entries = [d \in {b[i].code : i \in DOMAIN b} |->
        SortGroup([i \in DOMAIN Chosen(b, d) |-> TextWeight(Chosen(b, d)[i])])]
  BY Zenon DEF Fragment, CompileFragment, Chosen
<1>3. g = IF code \in {b[i].code : i \in DOMAIN b} THEN SortGroup(p) ELSE <<>>
  <2>1. g = IF code \in DOMAIN Fragment(c).entries THEN Fragment(c).entries[code] ELSE <<>>
    BY Zenon DEF GroupOf
  <2> HIDE DEF b, g, k
  <2> QED
    BY <1>2, <2>1
<1> HIDE DEF b, g
<1>4. ch \in Seq(Rows) /\ ch \in Seq(Lines)
  <2>1. ch \in Seq(Rows) /\ Rows \subseteq Lines
    BY <1>1, ChosenReindexes DEF Lines
  <2> QED
    BY <2>1, SeqMonotonic
<1>5. PICK o : Reindexes(ch, b, OfCode(b, code), o)
  BY <1>1, ChosenReindexes
<1> HIDE DEF ch
<1>6. Kept(ch, 1 .. Len(ch), k)
  BY <1>4, FoldKept
<1> HIDE DEF k
<1>7. Kept(b, OfCode(b, code), k)
  BY <1>1, <1>4, <1>5, <1>6, KeptMoves
<1>8. CASE code \in {b[i].code : i \in DOMAIN b}
  <2>1. /\ Len(ch) \in Nat /\ DOMAIN ch = 1 .. Len(ch)
        /\ \A i \in 1 .. Len(ch) : /\ TextWeight(ch[i]) \in Pairs
                                   /\ TextWeight(ch[i]).text = ch[i].text
                                   /\ TextWeight(ch[i]).weight = ch[i].weight
    <3>1. \A e \in Lines : /\ TextWeight(e) \in Pairs
                           /\ TextWeight(e).text = e.text /\ TextWeight(e).weight = e.weight
      BY DEF Lines, Rows, Pairs, TextWeight
    <3> HIDE DEF Lines
    <3> QED
      BY <1>4, <3>1, LenProperties, ElementOfSeq
  <2>2. p \in Seq(Pairs) /\ Len(p) = Len(ch)
        /\ \A i \in 1 .. Len(ch) : p[i].text = ch[i].text /\ p[i].weight = ch[i].weight
    BY <2>1
  <2> HIDE DEF p
  <2>3. Reindexes(p, ch, 1 .. Len(ch), [i \in 1 .. Len(ch) |-> i])
    BY <2>1, <2>2 DEF Reindexes
  <2>4. Pairs \in SUBSET Lines /\ p \in Seq(Lines)
    <3>1. Pairs \subseteq Lines
      BY DEF Lines
    <3> QED
      BY <2>2, <3>1, SeqMonotonic
  <2>5. Kept(p, 1 .. Len(p), k)
    BY <1>4, <1>6, <2>3, <2>4, KeptMoves
  <2>6. SortGroup(p) \in Seq(Pairs) /\ \E s : Reindexes(SortGroup(p), p, 1 .. Len(p), s)
    BY <2>2, <2>4, SortGroupReindexes
  <2>7. SortGroup(p) \in Seq(Lines)
    BY <2>4, <2>6, SeqMonotonic
  <2>8. Kept(SortGroup(p), 1 .. Len(SortGroup(p)), k)
    BY <2>4, <2>5, <2>6, <2>7, KeptMoves
  <2> QED
    BY <1>3, <1>7, <1>8, <2>6, <2>8 DEF b, g
<1>9. CASE code \notin {b[i].code : i \in DOMAIN b}
  <2>1. g = <<>> /\ OfCode(b, code) = {}
    BY <1>1, <1>3, <1>9 DEF OfCode
  <2>2. g \in Seq(Lines) /\ g \in Seq(Pairs) /\ Len(g) = 0 /\ 1 .. Len(g) = {}
    BY <2>1, EmptySeq
  <2>3. Reindexes(g, b, OfCode(b, code), o)
    BY <2>1, <2>2 DEF Reindexes
  <2>4. Kept(g, 1 .. Len(g), k)
    BY <1>1, <1>7, <2>2, <2>3, KeptMoves
  <2> QED
    BY <1>7, <2>2, <2>4 DEF b, g
<1> QED
  BY <1>8, <1>9

Made(cs)         == [i \in DOMAIN cs |-> Fragment(cs[i])]
Bodies(cs)       == [i \in DOMAIN cs |-> Body(cs[i]).entries]
Groups(cs, code) == [i \in DOMAIN cs |-> GroupOf(Fragment(cs[i]).entries, code)]

\* The lines of all the files, and those of one code in their fragments.
AllLines(cs)       == FlattenSeq(Bodies(cs))
AllOf(cs, code)    == FlattenSeq(Groups(cs, code))
Summed(cs)         == FoldLeft(Counted, 0, Made(cs))

LEMMA FlattensAgree ==
  \A q : FlattenSeq(q) = Totals!FlattenSeq(q)
BY Zenon DEF FlattenSeq, Totals!FlattenSeq

LEMMA ListsTyped ==
  ASSUME NEW cs \in Seq(Contents)
  PROVE  /\ Bodies(cs) \in Seq(Seq(Rows)) /\ Made(cs) \in Seq(Fragments)
         /\ \A code : Groups(cs, code) \in Seq(Seq(Pairs))
         /\ AllLines(cs) \in Seq(Rows)
         /\ \A code : AllOf(cs, code) \in Seq(Pairs)
<1>1. Len(cs) \in Nat /\ DOMAIN cs = 1 .. Len(cs) /\ \A i \in 1 .. Len(cs) : cs[i] \in Contents
  BY LenProperties, ElementOfSeq
<1>2. Bodies(cs) \in Seq(Seq(Rows))
  <2>1. \A i \in 1 .. Len(cs) : Body(cs[i]).entries \in Seq(Rows)
    BY <1>1, ContentTyped
  <2> HIDE DEF Body
  <2> QED
    BY <1>1, <2>1 DEF Bodies
<1>3. Made(cs) \in Seq(Fragments)
  <2> HIDE DEF Fragment
  <2> QED
    BY <1>1 DEF Made, Fragments
<1>4. ASSUME NEW code
      PROVE  Groups(cs, code) \in Seq(Seq(Pairs))
  <2>1. \A i \in 1 .. Len(cs) : GroupOf(Fragment(cs[i]).entries, code) \in Seq(Pairs)
    BY <1>1, FragmentKept
  <2> HIDE DEF Fragment, GroupOf
  <2> QED
    BY <1>1, <2>1 DEF Groups
<1>5. AllLines(cs) \in Seq(Rows)
  BY <1>2, FlattensAgree, Totals!FlattenMembers DEF AllLines
<1>6. \A code : AllOf(cs, code) \in Seq(Pairs)
  BY <1>4, FlattensAgree, Totals!FlattenMembers DEF AllOf
<1> QED
  BY <1>2, <1>3, <1>4, <1>5, <1>6

\* The stitched fragments of some files agree with their lines.
Agrees(cs) ==
  /\ Summed(cs) = Len(AllLines(cs))
  /\ \A code : \E k : /\ Kept(AllLines(cs), OfCode(AllLines(cs), code), k)
                      /\ Kept(AllOf(cs, code), 1 .. Len(AllOf(cs, code)), k)

LEMMA ListsGrow ==
  ASSUME NEW cs \in Seq(Contents), NEW c \in Contents
  PROVE  LET ds == Append(cs, c)
         IN  /\ ds \in Seq(Contents)
             /\ Summed(ds) = Summed(cs) + Len(Body(c).entries)
             /\ AllLines(ds) = AllLines(cs) \o Body(c).entries
             /\ \A code : AllOf(ds, code) = AllOf(cs, code) \o GroupOf(Fragment(c).entries, code)
<1> DEFINE ds == Append(cs, c)
           n == Len(cs)
<1>1. /\ n \in Nat /\ DOMAIN cs = 1 .. n /\ DOMAIN ds = 1 .. n + 1 /\ ds \in Seq(Contents)
      /\ \A i \in 1 .. n : ds[i] = cs[i]
      /\ ds[n + 1] = c
  BY LenProperties, AppendProperties
<1> HIDE DEF ds, n
<1>2. Bodies(ds) = Append(Bodies(cs), Body(c).entries)
  <2> HIDE DEF Body
  <2> QED
    BY <1>1 DEF Bodies
<1>3. Made(ds) = Append(Made(cs), Fragment(c))
  <2> HIDE DEF Fragment
  <2> QED
    BY <1>1 DEF Made
<1>4. \A code : Groups(ds, code) = Append(Groups(cs, code), GroupOf(Fragment(c).entries, code))
  <2> HIDE DEF Fragment, GroupOf
  <2> QED
    BY <1>1 DEF Groups
<1>5. Summed(ds) = Summed(cs) + Len(Body(c).entries)
  <2>1. Fragment(c) \in Fragments
    BY DEF Fragments
  <2>2. Summed(ds) = Counted(Summed(cs), Fragment(c))
    <3>1. Made(cs) \in Seq(Fragments)
      BY ListsTyped
    <3>2. Totals!Fold(0, Append(Made(cs), Fragment(c)))
            = Counted(Totals!Fold(0, Made(cs)), Fragment(c))
      <4> HIDE DEF Fragments, Fragment, Made
      <4> QED
        BY <2>1, <3>1, Totals!FoldAppend
    <3> QED
      BY <1>3, <3>2, SameFolds DEF Summed
  <2> QED
    BY <2>2 DEF Counted, Fragment, CompileFragment
<1>6. AllLines(ds) = AllLines(cs) \o Body(c).entries
  BY <1>2, ListsTyped, ContentTyped, FlattensAgree, Totals!FlattenAppend DEF AllLines
<1>7. ASSUME NEW code
      PROVE  AllOf(ds, code) = AllOf(cs, code) \o GroupOf(Fragment(c).entries, code)
  <2>1. GroupOf(Fragment(c).entries, code) \in Seq(Pairs)
    BY FragmentKept
  <2> QED
    BY <1>4, <2>1, ListsTyped, FlattensAgree, Totals!FlattenAppend DEF AllOf
<1> QED
  BY <1>1, <1>5, <1>6, <1>7 DEF ds

LEMMA AgreesOnNone == Agrees(<<>>)
<1>1. Bodies(<<>>) = <<>> /\ Made(<<>>) = <<>> /\ \A code : Groups(<<>>, code) = <<>>
  BY DEF Bodies, Made, Groups
<1>2. FlattenSeq(<<>>) = <<>>
  BY DEF FlattenSeq
<1>3. Summed(<<>>) = 0
  BY <1>1, SameFolds, Totals!FoldEmpty DEF Summed
<1>4. AllLines(<<>>) = <<>> /\ \A code : AllOf(<<>>, code) = <<>>
  BY <1>1, <1>2 DEF AllLines, AllOf
<1>5. <<>> \in Seq(Lines) /\ Len(<<>>) = 0 /\ 1 .. Len(<<>>) = {}
  BY EmptySeq
<1>6. Kept(<<>>, 1 .. Len(<<>>), FoldLeft(Heavier, <<>>, <<>>))
  BY <1>5, FoldKept
<1>7. \A code : OfCode(<<>>, code) = 1 .. Len(<<>>)
  BY <1>5 DEF OfCode
<1> QED
  BY <1>3, <1>4, <1>5, <1>6, <1>7 DEF Agrees

LEMMA OneFileMore ==
  ASSUME NEW cs \in Seq(Contents), NEW c \in Contents, Agrees(cs)
  PROVE  Agrees(Append(cs, c))
<1> DEFINE ds == Append(cs, c)
           f == AllLines(cs)
           b == Body(c).entries
<1>1. f \in Seq(Rows) /\ b \in Seq(Rows) /\ f \in Seq(Lines) /\ b \in Seq(Lines)
      /\ Pairs \subseteq Lines
  <2>1. f \in Seq(Rows) /\ b \in Seq(Rows)
    BY ListsTyped, ContentTyped
  <2>2. Rows \subseteq Lines /\ Pairs \subseteq Lines
    BY DEF Lines
  <2> QED
    BY <2>1, <2>2, SeqMonotonic
<1>2. /\ AllLines(ds) = f \o b /\ Summed(ds) = Summed(cs) + Len(b)
      /\ \A code : AllOf(ds, code) = AllOf(cs, code) \o GroupOf(Fragment(c).entries, code)
  BY ListsGrow
<1> HIDE DEF ds, f, b
<1>3. /\ Len(f \o b) = Len(f) + Len(b)
      /\ \A t \in 1 .. Len(f) : (f \o b)[t] = f[t]
      /\ \A t \in 1 .. Len(b) : (f \o b)[Len(f) + t] = b[t]
      /\ Len(f) \in Nat /\ Len(b) \in Nat
  BY <1>1, Totals!ConcatParts, LenProperties
<1>4. Summed(ds) = Len(AllLines(ds))
  BY <1>2, <1>3 DEF Agrees, f
<1>5. ASSUME NEW code
      PROVE  \E k : /\ Kept(AllLines(ds), OfCode(AllLines(ds), code), k)
                    /\ Kept(AllOf(ds, code), 1 .. Len(AllOf(ds, code)), k)
  <2> DEFINE g == AllOf(cs, code)
             h == GroupOf(Fragment(c).entries, code)
  <2>1. PICK k : Kept(f, OfCode(f, code), k) /\ Kept(g, 1 .. Len(g), k)
    BY DEF Agrees, f
  <2>2. PICK m : Kept(b, OfCode(b, code), m) /\ Kept(h, 1 .. Len(h), m)
    BY FragmentKept DEF b
  <2>3. g \in Seq(Lines) /\ h \in Seq(Lines)
    <3>1. g \in Seq(Pairs) /\ h \in Seq(Pairs)
      BY ListsTyped, FragmentKept
    <3> QED
      BY <1>1, <3>1, SeqMonotonic
  <2> HIDE DEF g, h
  <2>4. /\ OfCode(f, code) \in SUBSET (1 .. Len(f)) /\ OfCode(b, code) \in SUBSET (1 .. Len(b))
        /\ 1 .. Len(g) \in SUBSET (1 .. Len(g)) /\ 1 .. Len(h) \in SUBSET (1 .. Len(h))
    BY DEF OfCode
  <2>5. Kept(f \o b, JointPlaces(Len(f), OfCode(f, code), OfCode(b, code)), Joint(k, m))
    BY <1>1, <2>1, <2>2, <2>4, KeptJoins
  <2>6. Kept(g \o h, JointPlaces(Len(g), 1 .. Len(g), 1 .. Len(h)), Joint(k, m))
    BY <2>1, <2>2, <2>3, <2>4, KeptJoins
  <2>7. JointPlaces(Len(f), OfCode(f, code), OfCode(b, code)) = OfCode(f \o b, code)
    <3> DEFINE e == f \o b
               x == Len(f)
               y == Len(b)
    <3>1. /\ x \in Nat /\ y \in Nat /\ Len(e) = x + y
          /\ \A t \in 1 .. x : e[t] = f[t]
          /\ \A t \in 1 .. y : e[x + t] = b[t]
      BY <1>3
    <3> HIDE DEF e, x, y
    <3>2. \A i \in 1 .. x + y : i \in 1 .. x \/ \E t \in 1 .. y : i = x + t
      <4> SUFFICES ASSUME NEW i \in 1 .. x + y, i \notin 1 .. x
                   PROVE  \E t \in 1 .. y : i = x + t
        OBVIOUS
      <4>1. i - x \in 1 .. y /\ i = x + (i - x)
        BY <3>1
      <4> QED
        BY <4>1
    <3>3. \A t \in 1 .. y : x + t \in 1 .. x + y
      BY <3>1
    <3>4. \A t \in 1 .. x : t \in 1 .. x + y
      BY <3>1
    <3>5. \A i : i \in JointPlaces(x, OfCode(f, code), OfCode(b, code)) <=>
                   \/ i \in 1 .. x /\ f[i].code = code
                   \/ \E t \in 1 .. y : i = x + t /\ b[t].code = code
      BY DEF JointPlaces, OfCode, x, y
    <3>6. \A i : i \in OfCode(e, code) <=> i \in 1 .. x + y /\ e[i].code = code
      BY <3>1 DEF OfCode
    <3> DEFINE J == JointPlaces(x, OfCode(f, code), OfCode(b, code))
    <3> HIDE DEF J
    <3>7. ASSUME NEW i \in J
          PROVE  i \in OfCode(e, code)
      <4>1. CASE i \in 1 .. x /\ f[i].code = code
        BY <3>1, <3>4, <3>6, <4>1
      <4>2. ASSUME NEW t \in 1 .. y, i = x + t, b[t].code = code
            PROVE  i \in OfCode(e, code)
        <5>1. e[i] = b[t] /\ i \in 1 .. x + y
          BY <3>1, <3>3, <4>2
        <5> QED
          BY <3>6, <4>2, <5>1
      <4> QED
        BY <3>5, <4>1, <4>2 DEF J
    <3>8. ASSUME NEW i \in OfCode(e, code)
          PROVE  i \in J
      <4>1. i \in 1 .. x + y /\ e[i].code = code
        BY <3>6
      <4>2. CASE i \in 1 .. x
        BY <3>1, <3>5, <4>1, <4>2 DEF J
      <4>3. ASSUME NEW t \in 1 .. y, i = x + t
            PROVE  i \in J
        <5>1. b[t].code = code
          BY <3>1, <4>1, <4>3
        <5> QED
          BY <3>5, <4>3, <5>1 DEF J
      <4> QED
        BY <3>2, <4>1, <4>2, <4>3
    <3> QED
      BY <3>7, <3>8 DEF J, e, x
  <2>8. JointPlaces(Len(g), 1 .. Len(g), 1 .. Len(h)) = 1 .. Len(g \o h)
    <3>1. Len(g) \in Nat /\ Len(h) \in Nat /\ Len(g \o h) = Len(g) + Len(h)
      BY <2>3, ConcatProperties, LenProperties
    <3>2. \A i : i \in 1 .. Len(g) + Len(h) <=>
                   i \in 1 .. Len(g) \/ \E t \in 1 .. Len(h) : i = Len(g) + t
      <4>1. ASSUME NEW i \in 1 .. Len(g) + Len(h), i \notin 1 .. Len(g)
            PROVE  \E t \in 1 .. Len(h) : i = Len(g) + t
        <5>1. i - Len(g) \in 1 .. Len(h) /\ i = Len(g) + (i - Len(g))
          BY <3>1, <4>1
        <5> QED
          BY <5>1
      <4> QED
        BY <3>1, <4>1
    <3> QED
      BY <3>1, <3>2 DEF JointPlaces
  <2> QED
    BY <1>2, <2>5, <2>6, <2>7, <2>8 DEF g, h
<1> QED
  BY <1>4, <1>5 DEF Agrees, ds

LEMMA AllAgree ==
  ASSUME NEW cs \in Seq(Contents)
  PROVE  Agrees(cs)
<1> DEFINE Good == {n \in Nat : \A ds \in Seq(Contents) : Len(ds) = n => Agrees(ds)}
<1>1. 0 \in Good
  BY AgreesOnNone, EmptySeq
<1>2. ASSUME NEW n \in Nat, n \in Good
      PROVE  n + 1 \in Good
  <2> SUFFICES ASSUME NEW ds \in Seq(Contents), Len(ds) = n + 1
               PROVE  Agrees(ds)
    OBVIOUS
  <2> DEFINE es == SubSeq(ds, 1, n)
             c == ds[n + 1]
  <2>1. /\ \A i \in 1 .. n : ds[i] \in Contents
        /\ c \in Contents
    BY ElementOfSeq
  <2>2. es \in Seq(Contents) /\ Len(es) = n /\ \A i \in 1 .. n : es[i] = ds[i]
    <3>1. /\ es \in Seq(Contents)
          /\ Len(es) = IF 1 <= n THEN n - 1 + 1 ELSE 0
          /\ \A i \in 1 .. n - 1 + 1 : es[i] = ds[1 + i - 1]
      BY <2>1, SubSeqProperties
    <3>2. n - 1 + 1 = n /\ \A i \in 1 .. n : 1 + i - 1 = i
      OBVIOUS
    <3> HIDE DEF es
    <3>3. Len(es) = n
      BY <3>1
    <3> QED
      BY <3>1, <3>2, <3>3
  <2> HIDE DEF es
  <2>3. ds = Append(es, c)
    BY <2>1, <2>2
  <2>4. Agrees(es)
    BY <1>2, <2>2
  <2> QED
    BY <2>1, <2>2, <2>3, <2>4, OneFileMore
<1> HIDE DEF Good
<1>3. Len(cs) \in Good
  BY <1>1, <1>2, Totals!SetInduction, LenProperties
<1> QED
  BY <1>3 DEF Good

CodesOf(f) == {f[i].code : i \in DOMAIN f}

\* The codes of the fragments are those of the lines.
LEMMA CodesStitch ==
  ASSUME NEW cs \in Seq(Contents)
  PROVE  UNION {DOMAIN Made(cs)[i].entries : i \in DOMAIN Made(cs)} = CodesOf(AllLines(cs))
<1> DEFINE f == AllLines(cs)
           U == UNION {DOMAIN Made(cs)[i].entries : i \in DOMAIN Made(cs)}
           lines(i) == Body(cs[i]).entries
<1>1. \A x : x \in Range(f) <=> \E i \in 1 .. Len(cs) : x \in Range(lines(i))
  <2>1. Bodies(cs) \in Seq(Seq(Rows)) /\ Len(Bodies(cs)) = Len(cs)
        /\ \A i \in 1 .. Len(cs) : Bodies(cs)[i] = lines(i)
    <3> HIDE DEF Body
    <3> QED
      BY ListsTyped, LenProperties DEF Bodies
  <2>2. \A x : x \in Totals!Range(f) <=> \E i \in 1 .. Len(Bodies(cs)) : x \in Totals!Range(Bodies(cs)[i])
    BY <2>1, FlattensAgree, Totals!FlattenMembers DEF AllLines
  <2>3. \A q : Totals!Range(q) = Range(q)
    BY DEF Totals!Range, Range
  <2> HIDE DEF f, lines
  <2> QED
    BY <2>1, <2>2, <2>3
<1>2. \A code : code \in U <=> \E i \in 1 .. Len(cs) : code \in CodesOf(lines(i))
  <2>1. \A c : DOMAIN Fragment(c).entries = CodesOf(Body(c).entries)
    BY DEF Fragment, CompileFragment, CodesOf
  <2>2. DOMAIN Made(cs) = 1 .. Len(cs) /\ \A i \in 1 .. Len(cs) : Made(cs)[i] = Fragment(cs[i])
    BY LenProperties DEF Made
  <2> HIDE DEF Fragment, Body, CodesOf
  <2> QED
    BY <2>1, <2>2
<1>3. \A q, code : code \in CodesOf(q) <=> \E x \in Range(q) : x.code = code
  BY DEF CodesOf, Range
<1> HIDE DEF f, U, lines
<1>4. \A code : code \in U <=> code \in CodesOf(f)
  BY <1>1, <1>2, <1>3
<1> QED
  BY <1>4 DEF f, U

\* Stitching is building.
LEMMA StitchBuilds ==
  ASSUME NEW cs \in Seq(Contents)
  PROVE  Stitch(Made(cs)) = Build(AllLines(cs))
<1> DEFINE f == AllLines(cs)
           D == UNION {DOMAIN Made(cs)[i].entries : i \in DOMAIN Made(cs)}
           group(code) == SortGroup(AllOf(cs, code))
<1>1. Stitch(Made(cs)) = FromFragment(Summed(cs), [code \in D |-> group(code)])
  <2>1. Stitch(Made(cs)) = FromFragment(Summed(cs), [code \in D |->
          SortGroup(FlattenSeq([i \in DOMAIN Made(cs) |-> GroupOf(Made(cs)[i].entries, code)]))])
    BY Zenon DEF Stitch, Summed
  <2>2. \A code : [i \in DOMAIN Made(cs) |-> GroupOf(Made(cs)[i].entries, code)] = Groups(cs, code)
    <3> HIDE DEF Fragment, GroupOf
    <3> QED
      BY DEF Made, Groups
  <2> QED
    BY <2>1, <2>2 DEF AllOf
<1>2. FromFragment(Summed(cs), [code \in D |-> group(code)]) =
        [kind |-> "memory", total |-> Summed(cs),
         entries |-> [code \in D |-> NormalizeGroup(group(code))]]
  <2> HIDE DEF D, group
  <2>1. FromFragment(Summed(cs), [code \in D |-> group(code)]) =
          [kind |-> "memory", total |-> Summed(cs),
           entries |-> [code \in DOMAIN [d \in D |-> group(d)] |->
                          NormalizeGroup([d \in D |-> group(d)][code])]]
    BY Zenon DEF FromFragment
  <2> QED
    BY <2>1
<1>3. Build(f) = [kind |-> "memory", total |-> Len(f),
                  entries |-> [code \in CodesOf(f) |-> NormalizeGroup(Chosen(f, code))]]
  BY Zenon DEF Build, CodesOf, Chosen
<1>4. D = CodesOf(f) /\ Summed(cs) = Len(f)
  BY CodesStitch, AllAgree DEF Agrees
<1>5. ASSUME NEW code
      PROVE  NormalizeGroup(group(code)) = NormalizeGroup(Chosen(f, code))
  <2> DEFINE g == AllOf(cs, code)
             s == SortGroup(g)
             h == Chosen(f, code)
  <2>1. f \in Seq(Rows) /\ g \in Seq(Pairs) /\ Rows \in SUBSET Lines /\ Pairs \in SUBSET Lines
    BY ListsTyped DEF Lines
  <2>2. PICK k : Kept(f, OfCode(f, code), k) /\ Kept(g, 1 .. Len(g), k)
    BY AllAgree DEF Agrees
  <2> HIDE DEF f, g
  <2>3. f \in Seq(Lines) /\ g \in Seq(Lines) /\ OfCode(f, code) \in SUBSET (1 .. Len(f))
    BY <2>1, SeqMonotonic DEF OfCode
  <2>4. s \in Seq(Lines) /\ \E o : Reindexes(s, g, 1 .. Len(g), o)
    <3>1. s \in Seq(Pairs) /\ \E o : Reindexes(s, g, 1 .. Len(g), o)
      BY <2>1, SortGroupReindexes
    <3> QED
      BY <2>1, <3>1, SeqMonotonic
  <2>5. h \in Seq(Lines) /\ \E o : Reindexes(h, f, OfCode(f, code), o)
    <3>1. h \in Seq(Rows) /\ \E o : Reindexes(h, f, OfCode(f, code), o)
      BY <2>1, ChosenReindexes
    <3> QED
      BY <2>1, <3>1, SeqMonotonic
  <2> HIDE DEF s, h
  <2>6. Kept(s, 1 .. Len(s), k)
    BY <2>2, <2>3, <2>4, KeptMoves
  <2>7. Kept(h, 1 .. Len(h), k)
    BY <2>2, <2>3, <2>5, KeptMoves
  <2>8. NormalizeGroup(s) = NormalizeGroup(h)
    BY <2>4, <2>5, <2>6, <2>7, SameNormalized
  <2> QED
    BY <2>8 DEF s, g, h, f
<1> HIDE DEF f, D, group
<1>6. [code \in D |-> NormalizeGroup(group(code))]
        = [code \in CodesOf(f) |-> NormalizeGroup(Chosen(f, code))]
  BY <1>4, <1>5
<1> QED
  BY <1>1, <1>2, <1>3, <1>4, <1>6 DEF f, D, group

-----------------------------------------------------------------------------
\* The index that load_or_build stitches from fragments is the index that
\* MemoryIndex::build makes of all the lines of the same contents, and the one the
\* CLI makes of them where both find the same body: a duplicate text keeps the
\* weight of the first of its heaviest lines, however the lines were grouped,
\* sorted and saved on the way.
THEOREM StitchedIndexIsBuilt == Spec => []StitchedIsBuilt
<1>1. TypeOK => StitchedIsBuilt
  <2> SUFFICES ASSUME TypeOK, NEW p \in DOMAIN made
               PROVE  LET contents == made[p].contents
                      IN  /\ made[p].index = Build(FlattenSeq([i \in DOMAIN contents |->
                                                                 Body(contents[i]).entries]))
                          /\ (\A i \in DOMAIN contents : SameBody(contents[i]))
                               /\ LoadDirectory(contents).ok
                               => made[p].index = LoadDirectory(contents).index
    BY Zenon DEF StitchedIsBuilt
  <2> DEFINE cs == made[p].contents
  <2>1. cs \in Seq(Contents) /\ made[p].index = Stitch(Made(cs))
    BY TypeParts, Zenon DEF IndexesOK, MadeOK, Made
  <2> HIDE DEF cs
  <2>2. made[p].index = Build(FlattenSeq(Bodies(cs)))
    BY <2>1, StitchBuilds DEF AllLines
  <2>3. ASSUME \A i \in DOMAIN cs : SameBody(cs[i])
        PROVE  LoadDirectory(cs).index = Build(FlattenSeq(Bodies(cs)))
    <3> DEFINE parsed == [i \in DOMAIN cs |-> ParseBody(DictBody(cs[i]), Columns)]
    <3>1. LoadDirectory(cs) =
            [ok    |-> \A i \in DOMAIN parsed : parsed[i].ok /\ parsed[i].entries # <<>>,
             index |-> Build(FlattenSeq([i \in DOMAIN parsed |-> parsed[i].entries]))]
      BY Zenon DEF LoadDirectory
    <3>2. DOMAIN parsed = DOMAIN cs /\ \A i \in DOMAIN cs : parsed[i] = Body(cs[i])
      BY <2>3, Zenon DEF SameBody, Body
    <3> HIDE DEF parsed
    <3>3. [i \in DOMAIN parsed |-> parsed[i].entries] = Bodies(cs)
      BY <3>2 DEF Bodies
    <3> QED
      BY <3>1, <3>3
  <2> QED
    BY <2>2, <2>3 DEF Bodies, cs
<1> QED
  BY <1>1, TypeCorrect, PTL

-----------------------------------------------------------------------------
(***************************************************************************)
(* The tables a table reaches.                                             *)
(***************************************************************************)
\* The sources that Import may find: some of the tables, each with its imports.
WellFormed(sources) ==
  /\ DOMAIN sources \subseteq Tables
  /\ \A t \in DOMAIN sources :
       sources[t].import_tables \in Seq(Tables) /\ sources[t].entries = <<t>>

Imports(sources, t) == Range(sources[t].import_tables)

LEMMA ImportsAreTables ==
  ASSUME NEW sources, WellFormed(sources), NEW t \in DOMAIN sources
  PROVE  Imports(sources, t) \subseteq Tables
  BY LenProperties DEF WellFormed, Imports, Range

LEMMA ReachedLeast ==
  ASSUME NEW sources, NEW x, NEW S \in SUBSET Tables, x \in S, Closed(S, sources)
  PROVE  Reached(x, sources) \subseteq S
  BY DEF Reached

LEMMA ReachedCloses ==
  ASSUME NEW sources, WellFormed(sources), NEW x \in Tables
  PROVE  /\ x \in Reached(x, sources) /\ Reached(x, sources) \subseteq Tables
         /\ \A t \in Reached(x, sources) \intersect DOMAIN sources :
              Imports(sources, t) \subseteq Reached(x, sources)
<1>1. x \in Reached(x, sources) /\ Reached(x, sources) \subseteq Tables
  BY DEF Reached
<1>2. ASSUME NEW t \in Reached(x, sources), t \in DOMAIN sources, NEW u \in Imports(sources, t)
      PROVE  u \in Reached(x, sources)
  <2>1. u \in Tables
    BY <1>2, ImportsAreTables
  <2>2. ASSUME NEW S \in SUBSET Tables, x \in S, Closed(S, sources)
        PROVE  u \in S
    <3>1. t \in S
      BY <1>2, <2>2 DEF Reached
    <3> QED
      BY <1>2, <2>2, <3>1 DEF Closed, Imports
  <2> QED
    BY <2>1, <2>2 DEF Reached
<1> QED
  BY <1>1, <1>2

-----------------------------------------------------------------------------
(***************************************************************************)
(* visit is a function: each of its calls has fewer tables left, or a      *)
(* shorter list of them.                                                   *)
(***************************************************************************)
VisitNames(root, sources) ==
  {root} \union DOMAIN sources \union UNION {Range(sources[t].import_tables) : t \in DOMAIN sources}

VisitStates(root, sources) ==
  [entries : Seq(UNION {Range(sources[t].entries) : t \in DOMAIN sources}),
   done : SUBSET VisitNames(root, sources), error : BOOLEAN]

VisitCalls(root, sources) ==
  Seq(VisitNames(root, sources)) \X (SUBSET VisitNames(root, sources))
    \X VisitStates(root, sources)

VisitOf(root, sources) ==
  CHOOSE visit : visit = [call \in VisitCalls(root, sources) |->
                            Visited(visit, sources, call[1], call[2], call[3])]

Start == [entries |-> <<>>, done |-> {}, error |-> FALSE]

LEMMA ResolveVisits ==
  ASSUME NEW root, NEW sources
  PROVE  ResolveImports(root, sources) = VisitOf(root, sources)[<< <<root>>, {}, Start>>]
  BY Zenon DEF ResolveImports, VisitOf, VisitCalls, VisitStates, VisitNames, Start

\* The state after the first table of a list.
NextState(f, sources, name, visiting, state) ==
  LET after == f[<<sources[name].import_tables, visiting \union {name}, state>>]
  IN  IF name \in state.done THEN state
      ELSE IF name \in visiting \/ name \notin DOMAIN sources
           THEN [state EXCEPT !.error = TRUE]
           ELSE IF after.error THEN after
                ELSE TableDone(after, name, sources[name].entries)

LEMMA VisitedCases ==
  ASSUME NEW f, NEW sources, NEW tables, NEW visiting, NEW state
  PROVE  Visited(f, sources, tables, visiting, state) =
           IF state.error \/ tables = <<>> THEN state
           ELSE f[<<Tail(tables), visiting,
                    NextState(f, sources, Head(tables), visiting, state)>>]
<1> DEFINE name  == Head(tables)
           after == f[<<sources[name].import_tables, visiting \union {name}, state>>]
           next == CASE name \in state.done -> state
                     [] name \notin state.done
                          /\ (name \in visiting \/ name \notin DOMAIN sources) ->
                          [state EXCEPT !.error = TRUE]
                     [] OTHER -> IF after.error THEN after
                                 ELSE TableDone(after, name, sources[name].entries)
<1>1. next = NextState(f, sources, name, visiting, state)
  <2> HIDE DEF after, name
  <2>1. CASE name \in state.done
    BY <2>1 DEF NextState
  <2>2. CASE name \notin state.done /\ (name \in visiting \/ name \notin DOMAIN sources)
    BY <2>2 DEF NextState
  <2>3. CASE name \notin state.done /\ ~ (name \in visiting \/ name \notin DOMAIN sources)
    BY <2>3 DEF NextState, after
  <2> QED
    BY <2>1, <2>2, <2>3
<1>2. Visited(f, sources, tables, visiting, state) =
        IF state.error \/ tables = <<>> THEN state
        ELSE f[<<Tail(tables), visiting, next>>]
  BY Zenon DEF Visited
<1> QED
  BY <1>1, <1>2

LEMMA NamesFinite ==
  ASSUME NEW root \in Tables, NEW sources, WellFormed(sources)
  PROVE  /\ VisitNames(root, sources) \subseteq Tables
         /\ IsFiniteSet(VisitNames(root, sources))
<1>1. VisitNames(root, sources) \subseteq Tables
  BY ImportsAreTables DEF VisitNames, Imports, WellFormed
<1>2. IsFiniteSet(Tables)
  BY CacheAssumption
<1> QED
  BY <1>1, <1>2, FS_Subset

LEMMA ListedNames ==
  ASSUME NEW root \in Tables, NEW sources, WellFormed(sources), NEW t \in DOMAIN sources
  PROVE  /\ t \in VisitNames(root, sources)
         /\ sources[t].import_tables \in Seq(VisitNames(root, sources))
<1> DEFINE q == sources[t].import_tables
           N == VisitNames(root, sources)
<1>1. q \in Seq(Tables)
  BY DEF WellFormed
<1>2. Range(q) \subseteq N /\ t \in N
  BY Zenon DEF VisitNames
<1> HIDE DEF N, q
<1>3. \A i \in DOMAIN q : q[i] \in N
  BY <1>2 DEF Range
<1>4. q \in [1 .. Len(q) -> N] /\ Len(q) \in Nat
  BY <1>1, <1>3, LenProperties
<1>5. q \in Seq(N)
  BY <1>4, SeqDef
<1> QED
  BY <1>2, <1>5 DEF N, q

LEMMA StateFields ==
  ASSUME NEW root \in Tables, NEW sources, WellFormed(sources),
         NEW s, s \in VisitStates(root, sources)
  PROVE  /\ s.entries \in Seq(DOMAIN sources) /\ s.done \subseteq VisitNames(root, sources)
         /\ s.error \in BOOLEAN
<1>1. \A t \in DOMAIN sources : Range(sources[t].entries) = {t}
  BY DEF WellFormed, Range
<1>2. UNION {Range(sources[t].entries) : t \in DOMAIN sources} = DOMAIN sources
  BY <1>1
<1> QED
  BY <1>2 DEF VisitStates

LEMMA FailedFields ==
  ASSUME NEW root \in Tables, NEW sources, WellFormed(sources),
         NEW s, s \in VisitStates(root, sources)
  PROVE  LET r == [s EXCEPT !.error = TRUE]
         IN  /\ r \in VisitStates(root, sources)
             /\ r.done = s.done /\ r.entries = s.entries /\ r.error
<1> HIDE DEF VisitNames
<1> QED
  BY DEF VisitStates

LEMMA DoneFields ==
  ASSUME NEW root \in Tables, NEW sources, WellFormed(sources),
         NEW s, s \in VisitStates(root, sources), NEW t \in DOMAIN sources
  PROVE  LET r == TableDone(s, t, sources[t].entries)
         IN  /\ r \in VisitStates(root, sources) /\ r.error = s.error
             /\ r.done = s.done \union {t} /\ r.entries = Append(s.entries, t)
<1> DEFINE E == UNION {Range(sources[u].entries) : u \in DOMAIN sources}
           N == VisitNames(root, sources)
<1>1. E = DOMAIN sources
  <2>1. \A u \in DOMAIN sources : Range(sources[u].entries) = {u}
    BY DEF WellFormed, Range
  <2> QED
    BY <2>1
<1>2. sources[t].entries = <<t>> /\ t \in N
  BY Zenon DEF WellFormed, VisitNames
<1>3. s \in [entries : Seq(E), done : SUBSET N, error : BOOLEAN]
  BY DEF VisitStates
<1> HIDE DEF E, N
<1>4. s.entries \o <<t>> = Append(s.entries, t) /\ Append(s.entries, t) \in Seq(E)
  BY <1>1, <1>3
<1>5. TableDone(s, t, sources[t].entries)
        = [s EXCEPT !.entries = s.entries \o <<t>>, !.done = s.done \union {t}]
  BY <1>2, <1>3 DEF TableDone
<1>6. TableDone(s, t, sources[t].entries)
        = [s EXCEPT !.entries = Append(s.entries, t), !.done = s.done \union {t}]
  BY <1>4, <1>5
<1> QED
  BY <1>2, <1>3, <1>4, <1>6 DEF VisitStates, E, N

\* The state after the first table is a state, and depends on the call for its
\* imports alone.
LEMMA NextStateTyped ==
  ASSUME NEW root \in Tables, NEW sources, WellFormed(sources),
         NEW f \in [VisitCalls(root, sources) -> VisitStates(root, sources)],
         NEW name \in VisitNames(root, sources),
         NEW visiting \in SUBSET VisitNames(root, sources),
         NEW state \in VisitStates(root, sources)
  PROVE  NextState(f, sources, name, visiting, state) \in VisitStates(root, sources)
<1> DEFINE after == f[<<sources[name].import_tables, visiting \union {name}, state>>]
<1>1. CASE name \in state.done
  BY <1>1 DEF NextState
<1>2. CASE name \notin state.done /\ (name \in visiting \/ name \notin DOMAIN sources)
  BY <1>2, FailedFields DEF NextState
<1>3. CASE name \notin state.done /\ name \notin visiting /\ name \in DOMAIN sources
  <2>1. after \in VisitStates(root, sources)
    BY <1>3, ListedNames DEF VisitCalls
  <2>2. NextState(f, sources, name, visiting, state)
          = IF after.error THEN after ELSE TableDone(after, name, sources[name].entries)
    BY <1>3, Zenon DEF NextState
  <2> HIDE DEF after
  <2> QED
    BY <1>3, <2>1, <2>2, DoneFields
<1> QED
  BY <1>1, <1>2, <1>3

LEMMA VisitExists ==
  ASSUME NEW root \in Tables, NEW sources, WellFormed(sources)
  PROVE  \A call \in VisitCalls(root, sources) :
           VisitOf(root, sources)[call]
             = Visited(VisitOf(root, sources), sources, call[1], call[2], call[3])
<1> DEFINE N == VisitNames(root, sources)
           S == VisitStates(root, sources)
           D == VisitCalls(root, sources)
           n == Cardinality(N)
           rank == [call \in D |-> Cardinality(N \ call[2])]
           size == [call \in D |-> Len(call[1])]
           step == [p \in [D -> S] \X D |->
                      Visited(p[1], sources, p[2][1], p[2][2], p[2][3])]
<1>1. n \in Nat /\ IsFiniteSet(N)
  BY NamesFinite, FS_CardinalityType
<1>2. Start \in S
  BY DEF VisitStates, Start
<1>3. \A call \in D : /\ call[1] \in Seq(N) /\ call[2] \in SUBSET N /\ call[3] \in S
                      /\ call = <<call[1], call[2], call[3]>>
  <2> HIDE DEF N, S
  <2> QED
    BY DEF VisitCalls, D, N, S
<1>4. \A q \in Seq(N), V \in SUBSET N, s \in S : <<q, V, s>> \in D
  <2> HIDE DEF N, S
  <2> QED
    BY DEF VisitCalls, D, N, S
<1>5. rank \in [D -> 0 .. n] /\ \A q \in Seq(N), V \in SUBSET N, s \in S :
        rank[<<q, V, s>>] = Cardinality(N \ V)
  <2>1. ASSUME NEW call \in D PROVE Cardinality(N \ call[2]) \in 0 .. n
    <3>1. N \ call[2] \in SUBSET N
      OBVIOUS
    <3> QED
      BY <1>1, <3>1, FS_Subset, FS_CardinalityType
  <2> HIDE DEF N, S, D, n
  <2> QED
    BY <1>4, <2>1
<1>6. size \in [D -> Nat] /\ \A q \in Seq(N), V \in SUBSET N, s \in S :
        size[<<q, V, s>>] = Len(q)
  <2>1. \A call \in D : Len(call[1]) \in Nat
    BY <1>3, LenProperties
  <2> HIDE DEF N, S, D
  <2> QED
    BY <1>4, <2>1
<1> HIDE DEF rank, size, n
<1>7. ASSUME NEW f \in [D -> S], NEW q \in Seq(N), NEW V \in SUBSET N, NEW s \in S
      PROVE  Visited(f, sources, q, V, s) \in S
  <2>1. CASE s.error \/ q = <<>>
    BY <2>1, VisitedCases
  <2>2. CASE ~ (s.error \/ q = <<>>)
    <3>1. Head(q) \in N /\ Tail(q) \in Seq(N)
      BY <2>2, TailProperties
    <3>2. NextState(f, sources, Head(q), V, s) \in S
      BY <3>1, NextStateTyped
    <3>3. <<Tail(q), V, NextState(f, sources, Head(q), V, s)>> \in D
      BY <1>4, <3>1, <3>2
    <3>4. Visited(f, sources, q, V, s)
            = f[<<Tail(q), V, NextState(f, sources, Head(q), V, s)>>]
      BY <2>2, VisitedCases
    <3> HIDE DEF D, S
    <3> QED
      BY <3>3, <3>4
  <2> QED
    BY <2>1, <2>2
<1>8. /\ step \in [[D -> S] \X D -> S]
      /\ \A f \in [D -> S], c \in D : step[<<f, c>>] = Visited(f, sources, c[1], c[2], c[3])
  <2>1. \A f \in [D -> S], c \in D : Visited(f, sources, c[1], c[2], c[3]) \in S
    BY <1>3, <1>7
  <2> HIDE DEF D, S, N
  <2> QED
    BY <2>1
<1> HIDE DEF step
<1>9. ASSUME NEW c \in D, NEW f \in [D -> S], NEW g \in [D -> S],
             \A d \in D : rank[d] < rank[c] \/ (rank[d] = rank[c] /\ size[d] < size[c])
                            => f[d] = g[d]
      PROVE  step[<<f, c>>] = step[<<g, c>>]
  <2> DEFINE q == c[1]
             V == c[2]
             s == c[3]
  <2>0. q \in Seq(N) /\ V \in SUBSET N /\ s \in S /\ c = <<q, V, s>>
    BY <1>3
  <2>1. step[<<f, c>>] = Visited(f, sources, q, V, s) /\ step[<<g, c>>] = Visited(g, sources, q, V, s)
    BY <1>8
  <2> HIDE DEF q, V, s
  <2>2. rank[c] = Cardinality(N \ V) /\ size[c] = Len(q)
    <3> HIDE DEF N, S, D
    <3>1. rank[<<q, V, s>>] = Cardinality(N \ V) /\ size[<<q, V, s>>] = Len(q)
      BY <1>5, <1>6, <2>0
    <3> QED
      BY <2>0, <3>1
  <2>3. CASE s.error \/ q = <<>>
    BY <2>1, <2>3, VisitedCases
  <2>4. CASE ~ (s.error \/ q = <<>>)
    <3> DEFINE name == Head(q)
               x == NextState(f, sources, name, V, s)
               y == NextState(g, sources, name, V, s)
    <3>1. name \in N /\ Tail(q) \in Seq(N) /\ Len(Tail(q)) = Len(q) - 1
      BY <2>0, <2>4, HeadTailProperties
    <3> HIDE DEF name
    <3>2. ASSUME name \notin V, name \in DOMAIN sources
          PROVE  LET a == <<sources[name].import_tables, V \union {name}, s>>
                 IN  f[a] = g[a]
      <4> DEFINE W == V \union {name}
                 a == <<sources[name].import_tables, W, s>>
      <4>1. W \in SUBSET N
        BY <2>0, <3>1
      <4>2. a \in D /\ rank[a] = Cardinality(N \ W)
        BY <1>4, <1>5, <2>0, <3>2, <4>1, ListedNames
      <4>3. Cardinality(N \ W) = Cardinality(N \ V) - 1 /\ Cardinality(N \ V) \in Nat
        <5>1. IsFiniteSet(N \ V)
          BY <1>1, <2>0, FS_Subset
        <5>2. N \ W = (N \ V) \ {name} /\ name \in N \ V
          BY <3>1, <3>2
        <5> QED
          BY <5>1, <5>2, FS_RemoveElement, FS_CardinalityType
      <4>4. rank[a] < rank[c]
        BY <2>2, <4>2, <4>3
      <4> HIDE DEF a, W, D, N, S, x, y
      <4>6. f[a] = g[a]
        BY <1>9, <4>2, <4>4, Zenon
      <4> QED
        BY <4>6, Zenon DEF a, W
    <3>3. x = y
      BY <3>2, Zenon DEF NextState
    <3>4. x \in S
      BY <2>0, <3>1, NextStateTyped
    <3> HIDE DEF x, y
    <3>5. f[<<Tail(q), V, x>>] = g[<<Tail(q), V, x>>]
      <4> DEFINE d == <<Tail(q), V, x>>
      <4>1. d \in D /\ rank[d] = Cardinality(N \ V) /\ size[d] = Len(q) - 1
        BY <1>4, <1>5, <1>6, <2>0, <3>1, <3>4
      <4>2. Len(q) \in Nat
        BY <2>0, LenProperties
      <4>3. rank[d] = rank[c] /\ size[d] < size[c]
        BY <2>2, <4>1, <4>2
      <4> HIDE DEF d, D
      <4>4. f[d] = g[d]
        BY <1>9, <4>1, <4>3
      <4> QED
        BY <4>4 DEF d
    <3>6. Visited(f, sources, q, V, s) = f[<<Tail(q), V, x>>]
      BY <2>4, VisitedCases DEF x, name
    <3>7. Visited(g, sources, q, V, s) = g[<<Tail(q), V, y>>]
      BY <2>4, VisitedCases DEF y, name
    <3> QED
      BY <2>1, <3>3, <3>5, <3>6, <3>7
  <2> QED
    BY <2>3, <2>4
<1>10. Totals!DescendsIn(D, S, rank, size, step)
  <2> HIDE DEF D, S, N
  <2> QED
    BY <1>9 DEF Totals!DescendsIn
<1> HIDE DEF D, S, N
<1>11. PICK f \in [D -> S] : Totals!Solution(D, step, f)
  BY <1>1, <1>2, <1>5, <1>6, <1>8, <1>10, Totals!NestedRecursionExists, Zenon
<1>12. f = [c \in D |-> Visited(f, sources, c[1], c[2], c[3])]
  BY <1>8, <1>11 DEF Totals!Solution
<1> DEFINE visit == VisitOf(root, sources)
<1>13. visit = [c \in D |-> Visited(visit, sources, c[1], c[2], c[3])]
  BY <1>12, Zenon DEF VisitOf, D
<1> HIDE DEF visit
<1>14. \A c \in D : visit[c] = Visited(visit, sources, c[1], c[2], c[3])
  BY <1>13, Zenon
<1> QED
  BY <1>14, Zenon DEF visit, D

-----------------------------------------------------------------------------
(***************************************************************************)
(* What a call of visit answers.                                           *)
(***************************************************************************)
\* Every table done has its entries, once, after those of the tables it imports.
Ordered(s, sources) ==
  /\ Range(s.entries) = s.done
  /\ \A i, j \in DOMAIN s.entries : s.entries[i] = s.entries[j] => i = j
  /\ \A j \in DOMAIN s.entries : \A u \in Imports(sources, s.entries[j]) :
       \E i \in DOMAIN s.entries : i < j /\ s.entries[i] = u

StateOK(root, sources, s) ==
  /\ s \in VisitStates(root, sources)
  /\ s.error => Broken(root, sources)
  /\ ~ s.error => s.done \subseteq Reached(root, sources) /\ Ordered(s, sources)

\* The tables still to visit are reached from root, and from each of those whose
\* visit has not ended.
Allowed(root, sources, tables, visiting, s) ==
  /\ tables \in Seq(VisitNames(root, sources)) /\ visiting \subseteq VisitNames(root, sources)
  /\ Range(tables) \subseteq Reached(root, sources)
  /\ visiting \subseteq Reached(root, sources) \intersect DOMAIN sources
  /\ \A v \in visiting, x \in Range(tables) :
       \E u \in Imports(sources, v) : x \in Reached(u, sources)
  /\ StateOK(root, sources, s) /\ s.done \intersect visiting = {}

Answered(root, sources, tables, visiting, s, r) ==
  /\ StateOK(root, sources, r) /\ r.done \intersect visiting = {}
  /\ ~ r.error => ~ s.error /\ s.done \union Range(tables) \subseteq r.done

Answers(root, sources, tables, visiting, s) ==
  Answered(root, sources, tables, visiting, s, VisitOf(root, sources)[<<tables, visiting, s>>])

\* An entry more, of a table that was not done and whose imports are.
LEMMA OrderedAppends ==
  ASSUME NEW root \in Tables, NEW sources, WellFormed(sources),
         NEW s, s \in VisitStates(root, sources), Ordered(s, sources),
         NEW t \in DOMAIN sources, t \notin s.done, Imports(sources, t) \subseteq s.done
  PROVE  Ordered(TableDone(s, t, sources[t].entries), sources)
<1> DEFINE r == TableDone(s, t, sources[t].entries)
           q == s.entries
           e == Append(q, t)
           n == Len(q)
<1>1. q \in Seq(DOMAIN sources)
  BY StateFields
<1>2. r.done = s.done \union {t} /\ r.entries = e
  BY DoneFields
<1>3. n \in Nat /\ DOMAIN q = 1 .. n
  BY <1>1, LenProperties
<1>4. /\ e \in Seq(DOMAIN sources) /\ Len(e) = n + 1 /\ e[n + 1] = t
      /\ \A i \in 1 .. n : e[i] = q[i]
  BY <1>1, AppendProperties
<1>5. DOMAIN e = 1 .. n + 1
  BY <1>4, LenProperties
<1>6. /\ \A x : x \in s.done <=> \E i \in 1 .. n : q[i] = x
      /\ \A i, j \in 1 .. n : q[i] = q[j] => i = j
      /\ \A j \in 1 .. n : \A u \in Imports(sources, q[j]) : \E i \in 1 .. n : i < j /\ q[i] = u
  BY <1>3, Zenon DEF Ordered, Range
<1> HIDE DEF e, q, n, r
<1>7. Range(e) = s.done \union {t}
  <2>1. \A x : x \in Range(e) <=> \E i \in 1 .. n + 1 : e[i] = x
    BY <1>5 DEF Range
  <2>2. ASSUME NEW x, x \in s.done PROVE \E i \in 1 .. n + 1 : e[i] = x
    <3>1. PICK i \in 1 .. n : q[i] = x
      BY <1>6, <2>2
    <3> QED
      BY <1>3, <1>4, <3>1
  <2>3. ASSUME NEW i \in 1 .. n + 1 PROVE e[i] \in s.done \union {t}
    <3>1. CASE i \in 1 .. n
      BY <1>4, <1>6, <3>1
    <3>2. CASE i = n + 1
      BY <1>4, <3>2
    <3> QED
      BY <1>3, <3>1, <3>2
  <2>4. \E i \in 1 .. n + 1 : e[i] = t
    BY <1>3, <1>4
  <2> QED
    BY <2>1, <2>2, <2>3, <2>4
<1>8. ASSUME NEW i \in 1 .. n + 1, NEW j \in 1 .. n + 1, e[i] = e[j]
      PROVE  i = j
  <2>1. \A k \in 1 .. n : e[k] \in s.done
    BY <1>4, <1>6
  <2>2. CASE i \in 1 .. n /\ j \in 1 .. n
    BY <1>4, <1>6, <1>8, <2>2
  <2>3. CASE i = n + 1 /\ j \in 1 .. n
    BY <1>4, <1>8, <2>1, <2>3
  <2>4. CASE i \in 1 .. n /\ j = n + 1
    BY <1>4, <1>8, <2>1, <2>4
  <2> QED
    BY <1>3, <2>2, <2>3, <2>4
<1>9. ASSUME NEW j \in 1 .. n + 1, NEW u \in Imports(sources, e[j])
      PROVE  \E i \in 1 .. n + 1 : i < j /\ e[i] = u
  <2>1. CASE j \in 1 .. n
    <3>1. PICK i \in 1 .. n : i < j /\ q[i] = u
      BY <1>4, <1>6, <1>9, <2>1
    <3> QED
      BY <1>3, <1>4, <3>1
  <2>2. CASE j = n + 1
    <3>1. u \in s.done
      BY <1>4, <1>9, <2>2
    <3>2. PICK i \in 1 .. n : q[i] = u
      BY <1>6, <3>1
    <3> QED
      BY <1>3, <1>4, <2>2, <3>2
  <2> QED
    BY <1>3, <2>1, <2>2
<1> HIDE DEF Imports
<1>10. /\ Range(r.entries) = r.done
       /\ \A i, j \in DOMAIN r.entries : r.entries[i] = r.entries[j] => i = j
       /\ \A j \in DOMAIN r.entries : \A u \in Imports(sources, r.entries[j]) :
            \E i \in DOMAIN r.entries : i < j /\ r.entries[i] = u
  BY <1>2, <1>5, <1>7, <1>8, <1>9
<1> QED
  BY <1>10, Zenon DEF Ordered, r

\* A call of visit, by the calls for one table fewer and for one more in progress.
LEMMA FirstTable ==
  ASSUME NEW root \in Tables, NEW sources, WellFormed(sources),
         NEW tables, NEW visiting, NEW s, Allowed(root, sources, tables, visiting, s),
         tables # <<>>, ~ s.error,
         LET name == Head(tables)
             inner == sources[name].import_tables
             more == visiting \union {name}
         IN  name \notin visiting /\ Allowed(root, sources, inner, more, s)
               => Answers(root, sources, inner, more, s)
  PROVE  LET r == NextState(VisitOf(root, sources), sources, Head(tables), visiting, s)
         IN  /\ StateOK(root, sources, r) /\ r.done \intersect visiting = {}
             /\ ~ r.error => s.done \union {Head(tables)} \subseteq r.done
<1> DEFINE name == Head(tables)
           inner == sources[name].import_tables
           more == visiting \union {name}
           f == VisitOf(root, sources)
           r == NextState(f, sources, name, visiting, s)
           R == Reached(root, sources)
<1>1. /\ tables \in Seq(VisitNames(root, sources)) /\ visiting \subseteq VisitNames(root, sources)
      /\ Range(tables) \subseteq R /\ visiting \subseteq R \intersect DOMAIN sources
      /\ \A v \in visiting, x \in Range(tables) :
           \E u \in Imports(sources, v) : x \in Reached(u, sources)
      /\ StateOK(root, sources, s) /\ s.done \intersect visiting = {}
  BY Zenon DEF Allowed
<1>2. name \in Range(tables) /\ name \in R /\ name \in Tables /\ name \in VisitNames(root, sources)
  <2>1. Len(tables) \in Nat \ {0} /\ DOMAIN tables = 1 .. Len(tables)
    BY <1>1, EmptySeq, LenProperties
  <2>2. name = tables[1] /\ 1 \in DOMAIN tables
    BY <1>1, <2>1
  <2>3. name \in Range(tables)
    BY <2>2, Zenon DEF Range
  <2>4. name \in VisitNames(root, sources)
    BY <1>1, TailProperties
  <2> QED
    BY <1>1, <2>3, <2>4, ReachedCloses
<1>3. s \in VisitStates(root, sources) /\ s.done \subseteq R /\ Ordered(s, sources)
  BY <1>1 DEF StateOK
<1>4. CASE name \in s.done
  <2>1. r = s
    BY <1>4, Zenon DEF NextState
  <2> QED
    BY <1>1, <1>4, <2>1
<1>5. CASE name \notin s.done /\ (name \in visiting \/ name \notin DOMAIN sources)
  <2>1. r = [s EXCEPT !.error = TRUE]
    BY <1>5, Zenon DEF NextState
  <2>2. r \in VisitStates(root, sources) /\ r.done = s.done /\ r.error
    BY <1>3, <2>1, FailedFields
  <2>3. Broken(root, sources)
    <3>1. CASE name \in visiting
      <4>1. PICK u \in Imports(sources, name) : name \in Reached(u, sources)
        BY <1>1, <1>2, <3>1
      <4> QED
        BY <1>2, <4>1 DEF Broken, Imports
    <3>2. CASE name \notin DOMAIN sources
      BY <1>2, <3>2 DEF Broken
    <3> QED
      BY <1>5, <3>1, <3>2
  <2>4. StateOK(root, sources, r)
    BY <2>2, <2>3, Zenon DEF StateOK
  <2> QED
    BY <1>1, <2>2, <2>4
<1>6. CASE name \notin s.done /\ name \notin visiting /\ name \in DOMAIN sources
  <2> DEFINE after == f[<<inner, more, s>>]
  <2>1. r = IF after.error THEN after ELSE TableDone(after, name, sources[name].entries)
    BY <1>6, Zenon DEF NextState
  <2>2. Imports(sources, name) \subseteq R
    BY <1>2, <1>6, ReachedCloses
  <2>3. Allowed(root, sources, inner, more, s)
    <3>1. inner \in Seq(VisitNames(root, sources)) /\ more \subseteq VisitNames(root, sources)
      BY <1>1, <1>2, <1>6, ListedNames
    <3>2. Range(inner) = Imports(sources, name)
      BY Zenon DEF Imports
    <3>3. more \subseteq R \intersect DOMAIN sources /\ s.done \intersect more = {}
      BY <1>1, <1>2, <1>6
    <3>4. ASSUME NEW v \in more, NEW x \in Imports(sources, name)
          PROVE  \E u \in Imports(sources, v) : x \in Reached(u, sources)
      <4>1. CASE v = name
        <5>1. x \in Reached(x, sources)
          BY <1>6, ImportsAreTables, ReachedCloses
        <5> QED
          BY <4>1, <5>1
      <4>2. CASE v \in visiting
        <5>1. PICK u \in Imports(sources, v) : name \in Reached(u, sources)
          BY <1>1, <1>2, <4>2
        <5>2. u \in Tables
          BY <1>1, <4>2, ImportsAreTables
        <5>3. x \in Reached(u, sources)
          BY <1>6, <5>1, <5>2, ReachedCloses
        <5> QED
          BY <5>1, <5>3
      <4> QED
        BY <4>1, <4>2
    <3> HIDE DEF inner, more, R, name
    <3> QED
      BY <1>1, <2>2, <3>1, <3>2, <3>3, <3>4 DEF Allowed, R
  <2>4. Answers(root, sources, inner, more, s)
    BY <1>6, <2>3
  <2>5. /\ StateOK(root, sources, after) /\ after.done \intersect more = {}
        /\ ~ after.error => s.done \union Imports(sources, name) \subseteq after.done
    BY <2>4, Zenon DEF Answers, Answered, Imports
  <2> HIDE DEF after, inner
  <2>6. CASE after.error
    BY <2>1, <2>5, <2>6
  <2>7. CASE ~ after.error
    <3>1. r = TableDone(after, name, sources[name].entries)
      BY <2>1, <2>7
    <3>2. /\ after \in VisitStates(root, sources) /\ Ordered(after, sources)
          /\ after.done \subseteq R /\ name \notin after.done
      BY <2>5, <2>7 DEF StateOK
    <3>3. r \in VisitStates(root, sources) /\ r.error = after.error
          /\ r.done = after.done \union {name}
      BY <1>6, <3>1, <3>2, DoneFields
    <3>4. Ordered(r, sources)
      BY <1>6, <2>5, <2>7, <3>1, <3>2, OrderedAppends
    <3> HIDE DEF r, name, R
    <3>5. r.done \subseteq R
      BY <1>2, <3>2, <3>3
    <3>6. StateOK(root, sources, r)
      BY <2>7, <3>3, <3>4, <3>5 DEF StateOK, R
    <3>7. r.done \intersect visiting = {} /\ s.done \union {name} \subseteq r.done
      BY <1>6, <2>5, <2>7, <3>3
    <3> QED
      BY <3>6, <3>7 DEF r, name
  <2> QED
    BY <2>6, <2>7
<1> QED
  BY <1>4, <1>5, <1>6, Zenon

LEMMA VisitStep ==
  ASSUME NEW root \in Tables, NEW sources, WellFormed(sources),
         NEW tables, NEW visiting, NEW s, Allowed(root, sources, tables, visiting, s)
  PROVE  VisitOf(root, sources)[<<tables, visiting, s>>] =
           IF s.error \/ tables = <<>> THEN s
           ELSE VisitOf(root, sources)[<<Tail(tables), visiting,
                  NextState(VisitOf(root, sources), sources, Head(tables), visiting, s)>>]
<1> DEFINE c == <<tables, visiting, s>>
           f == VisitOf(root, sources)
<1>1. c \in VisitCalls(root, sources)
  BY DEF Allowed, StateOK, VisitCalls
<1>2. c[1] = tables /\ c[2] = visiting /\ c[3] = s
  OBVIOUS
<1> HIDE DEF c, f
<1>3. f[c] = Visited(f, sources, c[1], c[2], c[3])
  BY <1>1, VisitExists, Zenon DEF f
<1>4. f[c] = Visited(f, sources, tables, visiting, s)
  BY <1>2, <1>3
<1>5. f[c] = IF s.error \/ tables = <<>> THEN s
             ELSE f[<<Tail(tables), visiting,
                      NextState(f, sources, Head(tables), visiting, s)>>]
  BY <1>4, VisitedCases
<1> QED
  BY <1>5, Zenon DEF f, c

\* The tables of a list, and those after the first.
LEMMA RangeOfTail ==
  ASSUME NEW S, NEW q \in Seq(S), q # <<>>
  PROVE  Range(q) = {Head(q)} \union Range(Tail(q))
<1> DEFINE t == Tail(q)
           n == Len(q)
<1>1. n \in Nat \ {0} /\ DOMAIN q = 1 .. n /\ q \in [1 .. n -> S]
  BY EmptySeq, LenProperties
<1>2. t \in Seq(S) /\ Len(t) = n - 1 /\ \A i \in 1 .. Len(t) : t[i] = q[i + 1]
  BY HeadTailProperties
<1>3. DOMAIN t = 1 .. n - 1 /\ Head(q) = q[1]
  BY <1>2, LenProperties
<1> HIDE DEF t, n
<1>4. ASSUME NEW i \in 1 .. n PROVE q[i] \in {Head(q)} \union Range(t)
  <2>1. CASE i = 1
    BY <1>3, <2>1
  <2>2. CASE i # 1
    <3>1. i - 1 \in 1 .. n - 1 /\ t[i - 1] = q[i]
      BY <1>1, <1>2, <2>2
    <3> QED
      BY <1>3, <3>1 DEF Range
  <2> QED
    BY <2>1, <2>2
<1>5. ASSUME NEW i \in 1 .. n - 1 PROVE t[i] \in Range(q)
  <2>1. i + 1 \in 1 .. n /\ t[i] = q[i + 1]
    BY <1>1, <1>2
  <2> QED
    BY <1>1, <2>1 DEF Range
<1>6. Head(q) \in Range(q)
  BY <1>1, <1>3 DEF Range
<1> QED
  BY <1>1, <1>3, <1>4, <1>5, <1>6 DEF Range, t

LEMMA OneTableMore ==
  ASSUME NEW root \in Tables, NEW sources, WellFormed(sources),
         NEW tables, NEW visiting, NEW s, Allowed(root, sources, tables, visiting, s),
         tables # <<>>, ~ s.error,
         LET name == Head(tables)
             inner == sources[name].import_tables
             more == visiting \union {name}
         IN  name \notin visiting /\ Allowed(root, sources, inner, more, s)
               => Answers(root, sources, inner, more, s),
         \A r : Allowed(root, sources, Tail(tables), visiting, r)
                  => Answers(root, sources, Tail(tables), visiting, r)
  PROVE  Answers(root, sources, tables, visiting, s)
<1> DEFINE f == VisitOf(root, sources)
           r == NextState(f, sources, Head(tables), visiting, s)
           N == VisitNames(root, sources)
           a == f[<<Tail(tables), visiting, r>>]
<1>1. /\ StateOK(root, sources, r) /\ r.done \intersect visiting = {}
      /\ ~ r.error => s.done \union {Head(tables)} \subseteq r.done
  BY FirstTable
<1>2. f[<<tables, visiting, s>>] = a
  BY VisitStep
<1>3. tables \in Seq(N) /\ Tail(tables) \in Seq(N)
      /\ Range(tables) = {Head(tables)} \union Range(Tail(tables))
  BY TailProperties, RangeOfTail DEF Allowed
<1> HIDE DEF r, N
<1>4. Allowed(root, sources, Tail(tables), visiting, r)
  <2> HIDE DEF f
  <2>1. /\ visiting \subseteq N
        /\ Range(tables) \subseteq Reached(root, sources)
        /\ visiting \subseteq Reached(root, sources) \intersect DOMAIN sources
        /\ \A v \in visiting, x \in Range(tables) :
             \E u \in Imports(sources, v) : x \in Reached(u, sources)
    BY Zenon DEF Allowed, N
  <2> QED
    BY <1>1, <1>3, <2>1 DEF Allowed, N
<1>5. Answered(root, sources, Tail(tables), visiting, r, a)
  BY <1>4, Zenon DEF Answers
<1> HIDE DEF a
<1>6. /\ StateOK(root, sources, a) /\ a.done \intersect visiting = {}
      /\ ~ a.error => ~ r.error /\ r.done \union Range(Tail(tables)) \subseteq a.done
  BY <1>5, Zenon DEF Answered
<1>7. ~ a.error => s.done \union Range(tables) \subseteq a.done
  BY <1>1, <1>3, <1>6
<1>8. Answered(root, sources, tables, visiting, s, a)
  BY <1>6, <1>7, Zenon DEF Answered
<1> QED
  BY <1>2, <1>8, Zenon DEF Answers, f

\* By induction on the tables that are not in progress, and in it on the list.
LEMMA VisitAnswers ==
  ASSUME NEW root \in Tables, NEW sources, WellFormed(sources)
  PROVE  \A tables, visiting, s :
           Allowed(root, sources, tables, visiting, s)
             => Answers(root, sources, tables, visiting, s)
<1> DEFINE N == VisitNames(root, sources)
           left(V) == Cardinality(N \ V)
           May(q, V, s) == Allowed(root, sources, q, V, s)
           Does(q, V, s) == Answers(root, sources, q, V, s)
           Good == {n \in Nat : \A q, V, s : May(q, V, s) /\ left(V) < n => Does(q, V, s)}
<1>0. IsFiniteSet(N)
  BY NamesFinite
<1>1. \A V : left(V) \in Nat
  <2>1. ASSUME NEW V PROVE left(V) \in Nat
    <3>1. N \ V \in SUBSET N
      OBVIOUS
    <3> QED
      BY <1>0, <3>1, FS_Subset, FS_CardinalityType
  <2> QED
    BY <2>1
<1>2. ASSUME NEW name \in N, NEW V, name \notin V
      PROVE  left(V \union {name}) < left(V)
  <2>1. N \ V \in SUBSET N /\ N \ (V \union {name}) = (N \ V) \ {name} /\ name \in N \ V
    BY <1>2
  <2>2. IsFiniteSet(N \ V)
    BY <1>0, <2>1, FS_Subset
  <2>3. left(V \union {name}) = left(V) - 1
    <3> DEFINE S == N \ V
    <3>1. N \ (V \union {name}) = S \ {name} /\ name \in S /\ IsFiniteSet(S)
      BY <2>1, <2>2
    <3>2. left(V) = Cardinality(S)
      OBVIOUS
    <3>3. left(V \union {name}) = Cardinality(S \ {name})
      BY <3>1
    <3> HIDE DEF S, left
    <3> QED
      BY <3>1, <3>2, <3>3, FS_RemoveElement
  <2> HIDE DEF left
  <2> QED
    BY <1>1, <2>3
<1>3. \A q, V, s : May(q, V, s) => q \in Seq(N)
  BY Zenon DEF Allowed
<1> HIDE DEF left, N
<1>4. 0 \in Good
  BY <1>1
<1>5. ASSUME NEW n \in Nat, n \in Good
      PROVE  n + 1 \in Good
  <2> DEFINE Inner == {k \in Nat : \A q, V, s : May(q, V, s) /\ left(V) < n + 1 /\ Len(q) = k
                                                  => Does(q, V, s)}
  <2>0. \A q, V, s : May(q, V, s) /\ left(V) < n => Does(q, V, s)
    BY <1>5
  <2>1. ASSUME NEW q, NEW V, NEW s, May(q, V, s), s.error \/ q = <<>>
        PROVE  Does(q, V, s)
    <3>1. VisitOf(root, sources)[<<q, V, s>>] = s
      <4> DEFINE f == VisitOf(root, sources)
                 rest == f[<<Tail(q), V, NextState(f, sources, Head(q), V, s)>>]
      <4>1. Allowed(root, sources, q, V, s)
        BY <2>1
      <4>2. f[<<q, V, s>>] = IF s.error \/ q = <<>> THEN s ELSE rest
        <5> HIDE DEF May, Does, Inner
        <5> QED
          BY <4>1, VisitStep
      <4> HIDE DEF f, rest
      <4>3. f[<<q, V, s>>] = s
        BY <2>1, <4>2
      <4> QED
        BY <4>3 DEF f
    <3>2. Range(<<>>) = {}
      BY DEF Range
    <3>3. StateOK(root, sources, s) /\ s.done \intersect V = {}
      BY <2>1, Zenon DEF Allowed
    <3>4. Answered(root, sources, q, V, s, s)
      BY <2>1, <3>2, <3>3 DEF Answered
    <3> QED
      BY <3>1, <3>4, Zenon DEF Answers
  <2>2. 0 \in Inner
    <3>1. ASSUME NEW q, NEW V, NEW s, May(q, V, s), Len(q) = 0
          PROVE  Does(q, V, s)
      <4>1. q = <<>>
        BY <1>3, <3>1, EmptySeq
      <4> QED
        BY <2>1, <3>1, <4>1
    <3> HIDE DEF May, Does
    <3> QED
      BY <3>1
  <2>3. ASSUME NEW k \in Nat, k \in Inner
        PROVE  k + 1 \in Inner
    <3> SUFFICES ASSUME NEW q, NEW V, NEW s, May(q, V, s), left(V) < n + 1, Len(q) = k + 1
                 PROVE  Does(q, V, s)
      OBVIOUS
    <3>1. CASE s.error
      BY <2>1, <3>1
    <3>2. CASE ~ s.error
      <4> DEFINE name == Head(q)
                 inner == sources[name].import_tables
                 more == V \union {name}
      <4>1. q \in Seq(N) /\ q # <<>>
        BY <1>3, EmptySeq
      <4>2. name \in N /\ Len(Tail(q)) = k
        BY <4>1, HeadTailProperties
      <4>3. ASSUME name \notin V, May(inner, more, s)
            PROVE  Does(inner, more, s)
        <5> HIDE DEF inner, name, May, Does
        <5>1. left(more) < left(V)
          BY <1>2, <4>2, <4>3
        <5>2. left(more) < n
          BY <1>1, <5>1
        <5> HIDE DEF more
        <5> QED
          BY <2>0, <4>3, <5>2
      <4>4. ASSUME NEW r, May(Tail(q), V, r)
            PROVE  Does(Tail(q), V, r)
        <5> HIDE DEF May, Does
        <5> QED
          BY <2>3, <4>2, <4>4
      <4> QED
        BY <3>2, <4>1, <4>3, <4>4, OneTableMore
    <3> QED
      BY <3>1, <3>2
  <2> HIDE DEF Inner
  <2>4. Nat \subseteq Inner
    BY <2>2, <2>3, Totals!SetInduction
  <2>5. ASSUME NEW q, NEW V, NEW s, May(q, V, s), left(V) < n + 1
        PROVE  Does(q, V, s)
    <3>1. Len(q) \in Inner
      BY <1>3, <2>4, <2>5, LenProperties
    <3> HIDE DEF May, Does
    <3> QED
      BY <2>5, <3>1 DEF Inner
  <2> HIDE DEF May, Does
  <2> QED
    BY <2>5
<1> HIDE DEF Good, May, Does
<1>6. Nat \subseteq Good
  BY <1>4, <1>5, Totals!SetInduction
<1>7. ASSUME NEW q, NEW V, NEW s, May(q, V, s)
      PROVE  Does(q, V, s)
  <2>1. left(V) + 1 \in Good /\ left(V) < left(V) + 1
    BY <1>1, <1>6
  <2> QED
    BY <1>7, <2>1 DEF Good
<1> QED
  BY <1>7 DEF May, Does

-----------------------------------------------------------------------------
(***************************************************************************)
(* What resolve_imports answers.                                           *)
(***************************************************************************)
LEMMA StartAllowed ==
  ASSUME NEW root \in Tables, NEW sources, WellFormed(sources)
  PROVE  Allowed(root, sources, <<root>>, {}, Start)
<1>1. Start.entries = <<>> /\ Start.done = {} /\ Start.error = FALSE
  BY DEF Start
<1>2. Start \in VisitStates(root, sources)
  BY DEF VisitStates, Start
<1>3. Ordered(Start, sources)
  <2>1. DOMAIN <<>> = {} /\ Range(<<>>) = {}
    BY DEF Range
  <2> QED
    BY <1>1, <2>1 DEF Ordered
<1>4. <<root>> \in Seq(VisitNames(root, sources)) /\ Range(<<root>>) = {root}
  <2>1. root \in VisitNames(root, sources)
    BY Zenon DEF VisitNames
  <2> QED
    BY <2>1 DEF Range
<1>5. StateOK(root, sources, Start)
  BY <1>1, <1>2, <1>3 DEF StateOK
<1>6. root \in Reached(root, sources)
  BY ReachedCloses
<1> HIDE DEF Start
<1> QED
  BY <1>1, <1>4, <1>5, <1>6 DEF Allowed

LEMMA ResolvedState ==
  ASSUME NEW root \in Tables, NEW sources, WellFormed(sources)
  PROVE  LET r == ResolveImports(root, sources)
         IN  /\ StateOK(root, sources, r)
             /\ ~ r.error => root \in r.done
<1> DEFINE r == ResolveImports(root, sources)
<1>1. r = VisitOf(root, sources)[<< <<root>>, {}, Start>>]
  BY ResolveVisits
<1>2. Answered(root, sources, <<root>>, {}, Start, r)
  BY <1>1, StartAllowed, VisitAnswers, Zenon DEF Answers
<1> HIDE DEF r
<1>3. root \in Range(<<root>>)
  BY DEF Range
<1> QED
  BY <1>2, <1>3 DEF Answered, r

\* A list that is in order has every table reached once, and no table reaches itself.
LEMMA OrderedResult ==
  ASSUME NEW root \in Tables, NEW sources, WellFormed(sources),
         NEW r, r \in VisitStates(root, sources), Ordered(r, sources),
         r.done \subseteq Reached(root, sources), root \in r.done
  PROVE  /\ Range(r.entries) = Reached(root, sources)
         /\ Len(r.entries) = Cardinality(Reached(root, sources))
         /\ ~ Broken(root, sources)
<1> DEFINE R == Reached(root, sources)
           e == r.entries
           n == Len(e)
<1>1. e \in Seq(DOMAIN sources) /\ DOMAIN e = 1 .. n /\ n \in Nat /\ e \in [1 .. n -> DOMAIN sources]
  BY StateFields, LenProperties
<1>2. /\ \A x : x \in r.done <=> \E i \in 1 .. n : e[i] = x
      /\ \A i, j \in 1 .. n : e[i] = e[j] => i = j
      /\ \A j \in 1 .. n : \A u \in Imports(sources, e[j]) : \E i \in 1 .. n : i < j /\ e[i] = u
  BY <1>1, Zenon DEF Ordered, Range
<1>3. Range(e) = r.done
  BY DEF Ordered
<1>4. R \subseteq Tables
  BY ReachedCloses
<1> HIDE DEF e, n
<1>5. r.done = R
  <2>1. \A t \in r.done : Imports(sources, t) \subseteq r.done
    BY <1>2
  <2>2. Closed(r.done, sources)
    BY <2>1 DEF Closed, Imports
  <2>3. r.done \in SUBSET Tables
    BY <1>4
  <2>4. R \subseteq r.done
    BY <2>2, <2>3, ReachedLeast
  <2> QED
    BY <2>4
<1>6. n = Cardinality(R)
  <2>1. e \in [1 .. n -> R]
    BY <1>1, <1>2, <1>5
  <2>2. \A x \in R : \E i \in 1 .. n : e[i] = x
    BY <1>2, <1>5
  <2> HIDE DEF R
  <2>3. e \in Bijection(1 .. n, R)
    BY <1>2, <2>1, <2>2 DEF Bijection, Injection, Surjection, IsInjective
  <2>4. ExistsBijection(1 .. n, R)
    BY <2>3 DEF ExistsBijection
  <2>5. IsFiniteSet(1 .. n) /\ Cardinality(1 .. n) = n
    BY <1>1, FS_Interval
  <2> QED
    BY <2>4, <2>5, FS_Bijection
<1>7. ~ Broken(root, sources)
  <2>1. ASSUME NEW t \in R, NEW u \in Imports(sources, t), t \in Reached(u, sources)
        PROVE  FALSE
    <3>1. PICK j \in 1 .. n : e[j] = t
      BY <1>2, <1>5
    <3>2. PICK i \in 1 .. n : i < j /\ e[i] = u
      BY <1>2, <2>1, <3>1
    <3> DEFINE S == {e[k] : k \in 1 .. i}
    <3>3. S \in SUBSET Tables /\ u \in S
      BY <1>1, <1>2, <1>4, <1>5, <3>2
    <3>4. Closed(S, sources)
      <4>1. ASSUME NEW k \in 1 .. i, NEW w \in Imports(sources, e[k])
            PROVE  w \in S
        <5>1. k \in 1 .. n
          BY <1>1, <3>2
        <5>2. PICK m \in 1 .. n : m < k /\ e[m] = w
          BY <1>2, <4>1, <5>1
        <5>3. m \in 1 .. i
          BY <5>2
        <5> QED
          BY <5>2, <5>3
      <4> QED
        BY <4>1 DEF Closed, Imports
    <3>5. t \in S
      BY <2>1, <3>3, <3>4, ReachedLeast
    <3>6. PICK k \in 1 .. i : e[k] = t
      BY <3>5
    <3>7. k \in 1 .. n /\ k < j
      BY <1>1, <3>2
    <3> QED
      BY <1>2, <3>1, <3>6, <3>7
  <2>2. ASSUME NEW t \in R PROVE t \in DOMAIN sources
    BY <1>1, <1>2, <1>5
  <2> QED
    BY <2>1, <2>2 DEF Broken, Imports
<1> QED
  BY <1>3, <1>5, <1>6, <1>7 DEF e, n

LEMMA ImportsResolve ==
  ASSUME NEW root \in Tables, NEW sources, WellFormed(sources)
  PROVE  LET r == ResolveImports(root, sources)
         IN  /\ r.error <=> Broken(root, sources)
             /\ ~ r.error => ImportedOnce(root, sources, r.entries)
<1> DEFINE r == ResolveImports(root, sources)
           R == Reached(root, sources)
           place(t) == CHOOSE i \in DOMAIN r.entries : r.entries[i] = t
<1>1. StateOK(root, sources, r) /\ (~ r.error => root \in r.done)
  BY ResolvedState
<1> HIDE DEF r
<1>2. CASE r.error
  BY <1>1, <1>2 DEF StateOK, r
<1>3. CASE ~ r.error
  <2>1. r \in VisitStates(root, sources) /\ r.done \subseteq R /\ Ordered(r, sources)
    BY <1>1, <1>3 DEF StateOK
  <2>2. Range(r.entries) = R /\ Len(r.entries) = Cardinality(R) /\ ~ Broken(root, sources)
    BY <1>1, <1>3, <2>1, OrderedResult
  <2>3. /\ \A i, j \in DOMAIN r.entries : r.entries[i] = r.entries[j] => i = j
        /\ \A j \in DOMAIN r.entries : \A u \in Imports(sources, r.entries[j]) :
             \E i \in DOMAIN r.entries : i < j /\ r.entries[i] = u
        /\ DOMAIN r.entries \subseteq Nat
    BY <2>1, StateFields, LenProperties DEF Ordered
  <2> HIDE DEF R
  <2>4. \A i \in DOMAIN r.entries : place(r.entries[i]) = i
    BY <2>3
  <2> HIDE DEF place
  <2>5. ASSUME NEW t \in R, NEW u \in Imports(sources, t)
        PROVE  place(u) < place(t)
    <3>1. PICK j \in DOMAIN r.entries : r.entries[j] = t
      BY <2>2 DEF Range
    <3>2. PICK i \in DOMAIN r.entries : i < j /\ r.entries[i] = u
      BY <2>3, <2>5, <3>1
    <3> QED
      BY <2>4, <3>1, <3>2
  <2>6. \A t \in R : \A u \in Range(sources[t].import_tables) : place(u) < place(t)
    BY <2>5 DEF Imports
  <2>7. ImportedOnce(root, sources, r.entries)
    BY <2>2, <2>6, Zenon DEF ImportedOnce, place, R
  <2> QED
    BY <1>3, <2>2, <2>7 DEF r
<1> QED
  BY <1>2, <1>3

-----------------------------------------------------------------------------
\* What Import asks, and what it was answered.
ImportsOK ==
  imports # Nothing =>
    /\ WellFormed(imports.sources)
    /\ imports.result = ResolveImports(CHOOSE t \in Tables : TRUE, imports.sources)

LEMMA ImportAsks ==
  ASSUME NEW present \in SUBSET Tables,
         NEW lists, lists \in [present -> ImportLists]
  PROVE  WellFormed([t \in present |-> [import_tables |-> lists[t], entries |-> <<t>>]])
<1>1. \A t \in present : lists[t] \in Seq(Tables)
  BY CacheAssumption
<1> QED
  BY <1>1 DEF WellFormed

LEMMA ImportsStay ==
  ASSUME ImportsOK, [Next]_vars
  PROVE  ImportsOK'
<1>1. CASE imports' = imports
  BY <1>1 DEF ImportsOK
<1>2. CASE \E present \in SUBSET Tables : \E sources \in [present -> ImportLists] :
             Import([t \in present |-> [import_tables |-> sources[t], entries |-> <<t>>]])
  <2>0. PICK present \in SUBSET Tables : \E lists \in [present -> ImportLists] :
          Import([t \in present |-> [import_tables |-> lists[t], entries |-> <<t>>]])
    BY <1>2
  <2>1. PICK lists \in [present -> ImportLists] :
          Import([t \in present |-> [import_tables |-> lists[t], entries |-> <<t>>]])
    BY <2>0
  <2> DEFINE sources == [t \in present |-> [import_tables |-> lists[t], entries |-> <<t>>]]
  <2>2. WellFormed(sources)
    BY ImportAsks
  <2>3. Import(sources)
    BY <2>1
  <2> HIDE DEF sources
  <2>4. imports' = [sources |-> sources, result |-> ResolveImports(CHOOSE t \in Tables : TRUE, sources)]
    BY <2>3, Zenon DEF Import
  <2> QED
    BY <2>2, <2>4 DEF ImportsOK
<1> QED
  <2>1. CASE UNCHANGED vars
    BY <1>1, <2>1, Zenon DEF vars
  <2>2. CASE Next
    BY <1>1, <1>2, <2>2, Zenon
      DEF Next, Begin, Probe, OpenFragment, CreateFragment, FillFragment, CallFails, Finish,
          Invalidate, Deploy, CreateTidx, WriteTidx, OpenTiered, Crash, Edit
  <2> QED
    BY <2>1, <2>2

\* resolve_imports fails exactly if a table that the first one reaches is missing
\* or reaches itself; otherwise it has the entries of every table reached once,
\* those of a table after those of the tables it imports, whatever is imported.
THEOREM ImportsAreInOrder == Spec => []ImportsInOrder
<1>1. Init => ImportsOK
  BY DEF Init, ImportsOK
<1>2. ImportsOK => ImportsInOrder
  <2> SUFFICES ASSUME ImportsOK, imports # Nothing PROVE ImportsInOrder
    BY DEF ImportsInOrder
  <2> DEFINE root == CHOOSE t \in Tables : TRUE
  <2>1. root \in Tables
    BY CacheAssumption
  <2>2. WellFormed(imports.sources) /\ imports.result = ResolveImports(root, imports.sources)
    BY DEF ImportsOK
  <2>3. LET r == ResolveImports(root, imports.sources)
        IN  /\ r.error <=> Broken(root, imports.sources)
            /\ ~ r.error => ImportedOnce(root, imports.sources, r.entries)
    BY <2>1, <2>2, ImportsResolve
  <2> QED
    BY <2>2, <2>3, Zenon DEF ImportsInOrder
<1> QED
  BY <1>1, <1>2, ImportsStay, PTL DEF Spec
=============================================================================
