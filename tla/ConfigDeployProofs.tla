-------------------------- MODULE ConfigDeployProofs --------------------------
(***************************************************************************)
(* Theorems about ConfigDeploy, for any number of readers, configurations, *)
(* seconds and deployments, with errors and crashes at every file-system   *)
(* call.  They rest on what the code relies on and does not enforce: one   *)
(* caller deploys at a time, and no configuration twice in one second.     *)
(*                                                                         *)
(* The argument: a directory is whole once its schema is written, a        *)
(* deployment writes only into a directory that is not whole yet, and the  *)
(* pointers, that in current.txt and those readers hold, name whole        *)
(* directories.                                                            *)
(***************************************************************************)
EXTENDS ConfigDeploy, TLAPS

OneAtATime ==
  /\ ~RepeatInSecond
  /\ \A d, e \in Deployer : d = e

Whole(n) == n \in DOMAIN dirs /\ dirs[n].schema = n.yaml

Written   == {"write diagnostics", "create tmp", "write tmp", "rename"}
Described == {"create tmp", "write tmp", "rename"}

\* How far the directory of a deployment under way has come.
Progress ==
  \A d \in Deployer :
    /\ pc[d] = "create dir" => job[d] \notin DOMAIN dirs
    /\ pc[d] \in {"open schema", "write schema"} => job[d] \in DOMAIN dirs /\ ~Whole(job[d])
    /\ pc[d] \in Written => Whole(job[d])
    /\ pc[d] \in Described => dirs[job[d]].diagnostics
    /\ pc[d] = "rename" => tmp = job[d]

PointersWhole ==
  /\ current = Absent \/ Whole(current)
  /\ \A r \in Reader : reading[r] \in {None, Absent} \/ Whole(reading[r])

IInv == TypeOK /\ Progress /\ PointersWhole /\ ReadersSeeWhole

-----------------------------------------------------------------------------
LEMMA NamesAreNames ==
  /\ Absent \notin Name /\ Empty \notin Name /\ None \notin Name
  /\ Absent # None
  /\ \A n \in Name : n.yaml \in Valid /\ n.yaml \in Yaml
  /\ \A y \in Yaml : y \notin {"absent", "torn", "MissingCurrent", "Io", "Parse"}
<1>1. \A n \in Name : n.second # -1
  BY DeployAssumption DEF Name
<1>2. Absent.second = -1 /\ Empty.second = -1 /\ None.second = -1
  BY DEF Absent, Empty, None, NotAName
<1> QED
  BY <1>1, <1>2, DeployAssumption DEF Name, Absent, None, NotAName

\* What is read through a whole directory is the configuration it is named for.
LEMMA WholeLoads ==
  ASSUME TypeOK, NEW n, Whole(n)
  PROVE  n \in Name /\ Load(n) = n.yaml /\ Load(n) \in Valid
BY NamesAreNames, DeployAssumption DEF TypeOK, Whole, Load

LEMMA InitIInv == Init => IInv
BY DeployAssumption, NamesAreNames
   DEF Init, IInv, TypeOK, Progress, PointersWhole, ReadersSeeWhole, Step, Pointer, Written,
       Described

-----------------------------------------------------------------------------
(***************************************************************************)
(* Steps that leave the files alone, and the change of a whole directory.  *)
(***************************************************************************)
LEMMA WholeKept ==
  ASSUME UNCHANGED dirs
  PROVE  \A n : Whole(n)' <=> Whole(n)
BY DEF Whole

\* A deployment writes into its own directory only, which nothing points to
\* before it is whole.
WritesOwn(d) ==
  /\ DOMAIN dirs' = DOMAIN dirs \cup {job[d]}
  /\ \A n \in DOMAIN dirs \ {job[d]} : dirs'[n] = dirs[n]
  /\ dirs'[job[d]] \in Directory
  /\ Whole(job[d]) => dirs'[job[d]].schema = dirs[job[d]].schema

LEMMA WritesOwnKeeps ==
  ASSUME TypeOK, NEW d \in Deployer, WritesOwn(d), job[d] \in Name
  PROVE  /\ \A n : Whole(n) => Whole(n)'
         /\ DOMAIN dirs' \subseteq Name
         /\ \A n \in DOMAIN dirs' : dirs'[n] \in Directory
BY DEF WritesOwn, Whole, TypeOK

\* While one deploys, no other is under way.
LEMMA OthersIdle ==
  ASSUME OneAtATime, NEW d \in Deployer, NEW e \in Deployer
  PROVE  d = e
BY DEF OneAtATime

LEMMA CreateDirKeeps ==
  ASSUME OneAtATime, IInv, NEW d \in Deployer, CreateDir(d)
  PROVE  IInv'
<1>1. job[d] \in Name /\ job[d] \notin DOMAIN dirs
  BY DEF IInv, TypeOK, Progress, CreateDir
<1>2. /\ DOMAIN dirs' = DOMAIN dirs \cup {job[d]}
      /\ \A n \in DOMAIN dirs \ {job[d]} : dirs'[n] = dirs[n]
      /\ dirs'[job[d]] = [schema |-> "absent", diagnostics |-> FALSE]
      /\ ~Whole(job[d])
  BY <1>1 DEF CreateDir, Whole
<1>3. WritesOwn(d)
  BY <1>2 DEF WritesOwn, Directory, File
<1>4. /\ pc' = [pc EXCEPT ![d] = "open schema"]
      /\ UNCHANGED <<clock, tmp, current, reading, seen, job, result>>
  BY DEF CreateDir, Goto, reads
<1>5. TypeOK'
  BY <1>1, <1>3, <1>4, WritesOwnKeeps DEF IInv, TypeOK, Step
<1>6. PointersWhole' /\ ReadersSeeWhole'
  BY <1>1, <1>3, <1>4, WritesOwnKeeps DEF IInv, PointersWhole, ReadersSeeWhole
<1>7. Progress'
  <2>1. job[d] \in DOMAIN dirs' /\ ~Whole(job[d])'
    <3>1. job[d].yaml # "absent" /\ job' = job
      BY <1>1, <1>4, NamesAreNames
    <3>2. dirs'[job[d]].schema = "absent"
      BY <1>2
    <3> QED
      BY <1>2, <3>1, <3>2 DEF Whole
  <2>2. pc'[d] = "open schema" /\ job' = job
    BY <1>4 DEF IInv, TypeOK
  <2> QED
    BY <2>1, <2>2, OthersIdle, <1>4 DEF Progress, Written, Described
<1> QED
  BY <1>5, <1>6, <1>7 DEF IInv

LEMMA OpenSchemaKeeps ==
  ASSUME OneAtATime, IInv, NEW d \in Deployer, OpenSchema(d)
  PROVE  IInv'
<1>1. job[d] \in Name /\ job[d] \in DOMAIN dirs /\ ~Whole(job[d])
  BY DEF IInv, TypeOK, Progress, OpenSchema
<1>2. /\ DOMAIN dirs' = DOMAIN dirs
      /\ \A n \in DOMAIN dirs \ {job[d]} : dirs'[n] = dirs[n]
      /\ dirs'[job[d]] = [dirs[job[d]] EXCEPT !.schema = "torn"]
      /\ dirs[job[d]] \in Directory
  BY <1>1 DEF OpenSchema, SetSchema, IInv, TypeOK
<1>3. WritesOwn(d)
  BY <1>1, <1>2 DEF WritesOwn, Directory, File
<1>4. /\ pc' = [pc EXCEPT ![d] = "write schema"]
      /\ UNCHANGED <<clock, tmp, current, reading, seen, job, result>>
  BY DEF OpenSchema, Goto, reads
<1>5. TypeOK'
  BY <1>1, <1>3, <1>4, WritesOwnKeeps DEF IInv, TypeOK, Step
<1>6. PointersWhole' /\ ReadersSeeWhole'
  BY <1>1, <1>3, <1>4, WritesOwnKeeps DEF IInv, PointersWhole, ReadersSeeWhole
<1>7. Progress'
  <2>1. job[d] \in DOMAIN dirs' /\ ~Whole(job[d])'
    <3>1. job[d].yaml # "torn" /\ job' = job
      BY <1>1, <1>4, NamesAreNames
    <3>2. dirs'[job[d]].schema = "torn"
      BY <1>2 DEF Directory
    <3> QED
      BY <1>1, <1>2, <3>1, <3>2 DEF Whole
  <2>2. pc'[d] = "write schema" /\ job' = job
    BY <1>4 DEF IInv, TypeOK
  <2> QED
    BY <2>1, <2>2, OthersIdle, <1>4 DEF Progress, Written, Described
<1> QED
  BY <1>5, <1>6, <1>7 DEF IInv

LEMMA WriteSchemaKeeps ==
  ASSUME OneAtATime, IInv, NEW d \in Deployer, WriteSchema(d)
  PROVE  IInv'
<1>1. /\ job[d] \in Name /\ job[d] \in DOMAIN dirs /\ ~Whole(job[d])
      /\ job[d].yaml \in Yaml
  BY NamesAreNames DEF IInv, TypeOK, Progress, WriteSchema
<1>2. /\ DOMAIN dirs' = DOMAIN dirs
      /\ \A n \in DOMAIN dirs \ {job[d]} : dirs'[n] = dirs[n]
      /\ dirs'[job[d]] = [dirs[job[d]] EXCEPT !.schema = job[d].yaml]
      /\ dirs[job[d]] \in Directory
  BY <1>1 DEF WriteSchema, SetSchema, IInv, TypeOK
<1>3. WritesOwn(d)
  BY <1>1, <1>2 DEF WritesOwn, Directory, File
<1>4. /\ pc' = [pc EXCEPT ![d] = "write diagnostics"]
      /\ UNCHANGED <<clock, tmp, current, reading, seen, job, result>>
  BY DEF WriteSchema, Goto, reads
<1>5. TypeOK'
  BY <1>1, <1>3, <1>4, WritesOwnKeeps DEF IInv, TypeOK, Step
<1>6. PointersWhole' /\ ReadersSeeWhole'
  BY <1>1, <1>3, <1>4, WritesOwnKeeps DEF IInv, PointersWhole, ReadersSeeWhole
<1>7. Progress'
  <2>1. Whole(job[d])' /\ job' = job
    <3>1. dirs'[job[d]].schema = job[d].yaml
      BY <1>2 DEF Directory
    <3> QED
      BY <1>1, <1>2, <1>4, <3>1 DEF Whole
  <2>2. pc'[d] = "write diagnostics"
    BY <1>4 DEF IInv, TypeOK
  <2> QED
    BY <2>1, <2>2, OthersIdle, <1>4 DEF Progress, Written, Described
<1> QED
  BY <1>5, <1>6, <1>7 DEF IInv

LEMMA WriteDiagnosticsKeeps ==
  ASSUME OneAtATime, IInv, NEW d \in Deployer, WriteDiagnostics(d)
  PROVE  IInv'
<1>1. job[d] \in Name /\ job[d] \in DOMAIN dirs /\ Whole(job[d])
  BY DEF IInv, TypeOK, Progress, WriteDiagnostics, Written, Whole
<1>2. /\ DOMAIN dirs' = DOMAIN dirs
      /\ \A n \in DOMAIN dirs \ {job[d]} : dirs'[n] = dirs[n]
      /\ dirs'[job[d]] = [dirs[job[d]] EXCEPT !.diagnostics = TRUE]
      /\ dirs[job[d]] \in Directory
  BY <1>1 DEF WriteDiagnostics, IInv, TypeOK
<1>3. WritesOwn(d) /\ dirs'[job[d]].diagnostics
  BY <1>1, <1>2 DEF WritesOwn, Directory
<1>4. /\ pc' = [pc EXCEPT ![d] = "create tmp"]
      /\ UNCHANGED <<clock, tmp, current, reading, seen, job, result>>
  BY DEF WriteDiagnostics, Goto, reads
<1>5. TypeOK'
  BY <1>1, <1>3, <1>4, WritesOwnKeeps DEF IInv, TypeOK, Step
<1>6. PointersWhole' /\ ReadersSeeWhole'
  BY <1>1, <1>3, <1>4, WritesOwnKeeps DEF IInv, PointersWhole, ReadersSeeWhole
<1>7. Progress'
  <2>1. Whole(job[d])' /\ job' = job /\ dirs'[job[d]].diagnostics
    BY <1>1, <1>3, <1>4, WritesOwnKeeps DEF IInv
  <2>2. pc'[d] = "create tmp"
    BY <1>4 DEF IInv, TypeOK
  <2> QED
    BY <2>1, <2>2, OthersIdle, <1>4 DEF Progress, Written, Described
<1> QED
  BY <1>5, <1>6, <1>7 DEF IInv

-----------------------------------------------------------------------------
(***************************************************************************)
(* Steps that leave the directories alone.                                 *)
(***************************************************************************)
LEMMA CreateTmpKeeps ==
  ASSUME OneAtATime, IInv, NEW d \in Deployer, CreateTmp(d)
  PROVE  IInv'
<1>1. /\ pc[d] = "create tmp" /\ tmp' = Empty
      /\ pc' = [pc EXCEPT ![d] = "write tmp"]
      /\ UNCHANGED <<clock, dirs, current, reading, seen, job, result>>
  BY DEF CreateTmp, Goto, reads
<1>2. TypeOK'
  BY <1>1 DEF IInv, TypeOK, Step, Pointer
<1>3. PointersWhole' /\ ReadersSeeWhole'
  BY <1>1 DEF IInv, PointersWhole, ReadersSeeWhole, Whole
<1>4. Progress'
  <2>1. Whole(job[d])' /\ dirs'[job'[d]].diagnostics /\ pc'[d] = "write tmp"
    BY <1>1 DEF IInv, TypeOK, Progress, Written, Described, Whole
  <2> QED
    BY <2>1, OthersIdle, <1>1 DEF Progress, Written, Described
<1> QED
  BY <1>2, <1>3, <1>4 DEF IInv

LEMMA WriteTmpKeeps ==
  ASSUME OneAtATime, IInv, NEW d \in Deployer, WriteTmp(d)
  PROVE  IInv'
<1>1. /\ pc[d] = "write tmp" /\ tmp' = job[d]
      /\ pc' = [pc EXCEPT ![d] = "rename"]
      /\ UNCHANGED <<clock, dirs, current, reading, seen, job, result>>
  BY DEF WriteTmp, Goto, reads
<1>2. TypeOK'
  BY <1>1 DEF IInv, TypeOK, Step, Pointer
<1>3. PointersWhole' /\ ReadersSeeWhole'
  BY <1>1 DEF IInv, PointersWhole, ReadersSeeWhole, Whole
<1>4. Progress'
  <2>1. /\ Whole(job[d])' /\ dirs'[job'[d]].diagnostics
        /\ pc'[d] = "rename" /\ tmp' = job'[d]
    BY <1>1 DEF IInv, TypeOK, Progress, Written, Described, Whole
  <2> QED
    BY <2>1, OthersIdle, <1>1 DEF Progress, Written, Described
<1> QED
  BY <1>2, <1>3, <1>4 DEF IInv

LEMMA RenameKeeps ==
  ASSUME OneAtATime, IInv, NEW d \in Deployer, Rename(d)
  PROVE  IInv'
<1>1. /\ pc[d] = "rename" /\ current' = tmp /\ tmp' = Absent
      /\ pc' = [pc EXCEPT ![d] = "idle"] /\ result' = [result EXCEPT ![d] = "Ok"]
      /\ UNCHANGED <<clock, dirs, reading, seen, job>>
  BY DEF Rename, Return, reads
<1>2. Whole(tmp) /\ pc'[d] = "idle"
  BY <1>1 DEF IInv, TypeOK, Progress, Written
<1>3. TypeOK'
  BY <1>1 DEF IInv, TypeOK, Step, Pointer
<1>4. PointersWhole' /\ ReadersSeeWhole'
  BY <1>1, <1>2 DEF IInv, PointersWhole, ReadersSeeWhole, Whole
<1>5. Progress'
  BY <1>2, OthersIdle DEF Progress, Written, Described
<1> QED
  BY <1>3, <1>4, <1>5 DEF IInv

\* An error and a crash end the call where it stands.
LEMMA StopKeeps ==
  ASSUME OneAtATime, IInv, NEW d \in Deployer, IoError(d) \/ Crash(d)
  PROVE  IInv'
<1>1. /\ pc' = [pc EXCEPT ![d] = "idle"]
      /\ \E r \in {"Io", "none"} : result' = [result EXCEPT ![d] = r]
      /\ UNCHANGED <<clock, dirs, tmp, current, reading, seen, job>>
  BY DEF IoError, Crash, Return, files, reads
<1>2. pc'[d] = "idle"
  BY <1>1 DEF IInv, TypeOK
<1>3. TypeOK'
  BY <1>1 DEF IInv, TypeOK, Step
<1>4. PointersWhole' /\ ReadersSeeWhole'
  BY <1>1 DEF IInv, PointersWhole, ReadersSeeWhole, Whole
<1>5. Progress'
  BY <1>2, OthersIdle DEF Progress, Written, Described
<1> QED
  BY <1>3, <1>4, <1>5 DEF IInv

LEMMA BeginKeeps ==
  ASSUME OneAtATime, IInv, NEW d \in Deployer, NEW y \in Yaml, Begin(d, y)
  PROVE  IInv'
<1>1. /\ UNCHANGED <<clock, dirs, tmp, current, reading, seen>>
      /\ NameOf(y) \notin DOMAIN dirs
  BY DEF Begin, files, reads, OneAtATime
<1>2. PointersWhole' /\ ReadersSeeWhole'
  BY <1>1 DEF IInv, PointersWhole, ReadersSeeWhole, Whole
<1>3. CASE /\ pc' = [pc EXCEPT ![d] = "idle"] /\ job' = job
             /\ \E r \in {"Parse", "Validation"} : result' = [result EXCEPT ![d] = r]
  <2>1. pc'[d] = "idle"
    BY <1>3 DEF IInv, TypeOK
  <2>2. TypeOK'
    BY <1>1, <1>3 DEF IInv, TypeOK, Step
  <2>3. Progress'
    BY <2>1, OthersIdle DEF Progress, Written, Described
  <2> QED
    BY <1>2, <2>2, <2>3 DEF IInv
<1>4. CASE /\ y \in Valid /\ job' = [job EXCEPT ![d] = NameOf(y)]
             /\ pc' = [pc EXCEPT ![d] = "create dir"] /\ result' = result
  <2>1. /\ job'[d] = NameOf(y) /\ pc'[d] = "create dir"
        /\ NameOf(y) \notin DOMAIN dirs' /\ NameOf(y) \in Name
    BY <1>1, <1>4 DEF IInv, TypeOK, NameOf, Name
  <2>2. TypeOK'
    <3>1. /\ pc' \in [Deployer -> Step] /\ job' \in [Deployer -> Name \cup {None}]
          /\ \A e \in Deployer : pc'[e] # "idle" => job'[e] \in Name
      BY <1>4, <2>1, OthersIdle DEF IInv, TypeOK, Step
    <3> QED
      BY <1>1, <1>4, <3>1 DEF IInv, TypeOK
  <2>3. Progress'
    BY <2>1, OthersIdle DEF Progress, Written, Described
  <2> QED
    BY <1>2, <2>2, <2>3 DEF IInv
<1> QED
  BY <1>3, <1>4 DEF Begin, Return

-----------------------------------------------------------------------------
(***************************************************************************)
(* Readers.  What is whole stays whole, so a pointer read before a switch  *)
(* is as good after it.                                                    *)
(***************************************************************************)
LEMMA ReadPointerKeeps ==
  ASSUME IInv, NEW r \in Reader, ReadPointer(r)
  PROVE  IInv'
<1>1. /\ reading' = [reading EXCEPT ![r] = current]
      /\ UNCHANGED <<clock, dirs, tmp, current, pc, job, result, seen>>
  BY DEF ReadPointer, files, calls
<1>2. TypeOK' /\ Progress' /\ ReadersSeeWhole'
  BY <1>1 DEF IInv, TypeOK, Progress, ReadersSeeWhole, Whole
<1>3. PointersWhole'
  BY <1>1 DEF IInv, TypeOK, PointersWhole, Whole
<1> QED
  BY <1>2, <1>3 DEF IInv

LEMMA ReadSchemaKeeps ==
  ASSUME IInv, NEW r \in Reader, ReadSchema(r)
  PROVE  IInv'
<1>1. /\ reading' = [reading EXCEPT ![r] = None]
      /\ seen' = [seen EXCEPT ![r] = Load(reading[r])]
      /\ reading[r] # None
      /\ UNCHANGED <<clock, dirs, tmp, current, pc, job, result>>
  BY DEF ReadSchema, files, calls
<1>2. Load(reading[r]) \in Valid \cup {"MissingCurrent"}
  <2>1. CASE reading[r] = Absent
    BY <2>1 DEF Load
  <2>2. CASE Whole(reading[r])
    BY <2>2, WholeLoads DEF IInv
  <2> QED
    BY <1>1, <2>1, <2>2 DEF IInv, PointersWhole
<1>3. Progress' /\ PointersWhole'
  BY <1>1 DEF IInv, TypeOK, Progress, PointersWhole, Whole
<1>4. TypeOK'
  BY <1>1, <1>2, DeployAssumption DEF IInv, TypeOK
<1>5. ReadersSeeWhole'
  BY <1>1, <1>2 DEF IInv, TypeOK, ReadersSeeWhole
<1> QED
  BY <1>3, <1>4, <1>5 DEF IInv

LEMMA StillKeeps ==
  ASSUME IInv, Tick \/ UNCHANGED vars
  PROVE  IInv'
<1>1. /\ clock' \in 0 .. MaxTime
      /\ UNCHANGED <<dirs, tmp, current, pc, job, result, reading, seen>>
  BY DeployAssumption DEF IInv, TypeOK, Tick, vars, files, calls, reads
<1> QED
  BY <1>1 DEF IInv, TypeOK, Progress, PointersWhole, ReadersSeeWhole, Whole

LEMMA NextIInv ==
  ASSUME OneAtATime, IInv, [Next]_vars
  PROVE  IInv'
<1>1. ASSUME NEW d \in Deployer, Deploy(d) PROVE IInv'
  BY <1>1, BeginKeeps, CreateDirKeeps, OpenSchemaKeeps, WriteSchemaKeeps,
     WriteDiagnosticsKeeps, CreateTmpKeeps, WriteTmpKeeps, RenameKeeps, StopKeeps DEF Deploy
<1>2. ASSUME NEW d \in Deployer, Crash(d) PROVE IInv'
  BY <1>2, StopKeeps
<1>3. ASSUME NEW r \in Reader, ReadPointer(r) \/ ReadSchema(r) PROVE IInv'
  BY <1>3, ReadPointerKeeps, ReadSchemaKeeps
<1>4. CASE Tick \/ UNCHANGED vars
  BY <1>4, StillKeeps
<1> QED
  BY <1>1, <1>2, <1>3, <1>4 DEF Next

-----------------------------------------------------------------------------
(***************************************************************************)
(* The theorems.                                                           *)
(***************************************************************************)
\* Directories, pointers and calls are in step in every reachable state.
THEOREM DeployInvariance == ASSUME OneAtATime PROVE Spec => []IInv
<1>1. IInv /\ [Next]_vars => IInv'
  BY NextIInv
<1> QED
  BY InitIInv, <1>1, PTL DEF Spec

\* Files and callers keep their types.
THEOREM DeployTypes == ASSUME OneAtATime PROVE Spec => []TypeOK
<1>1. IInv => TypeOK
  BY DEF IInv
<1> QED
  BY <1>1, DeployInvariance, PTL

\* What is deployed is a validated configuration at every moment, whatever a
\* deployment under way, failed or killed has left behind.
THEOREM ActiveIsValid == ASSUME OneAtATime PROVE Spec => []CurrentLoads
<1>1. IInv => CurrentLoads
  BY WholeLoads DEF IInv, PointersWhole, CurrentLoads, Active
<1> QED
  BY <1>1, DeployInvariance, PTL

\* A reader gets a whole, validated configuration, a switch between its two
\* reads or not.
THEOREM ReadersGetWhole == ASSUME OneAtATime PROVE Spec => []ReadersSeeWhole
<1>1. IInv => ReadersSeeWhole
  BY DEF IInv
<1> QED
  BY <1>1, DeployInvariance, PTL

\* A step that keeps the pointer and what is whole keeps what is active.
LEMMA ActiveKept ==
  ASSUME IInv, current' = current, TypeOK', \A n : Whole(n) => Whole(n)'
  PROVE  Active' = Active
<1>1. CASE current = Absent
  BY <1>1 DEF Active, Load
<1>2. CASE Whole(current)
  <2>1. Active = current.yaml
    BY <1>2, WholeLoads DEF IInv, Active
  <2>2. current' \in Name /\ current' # Absent /\ Whole(current)'
    BY <1>2, WholeLoads, NamesAreNames DEF IInv
  <2>3. Active' = current'.yaml
    BY <2>2, NamesAreNames, DeployAssumption DEF Active, Load, Whole
  <2> QED
    BY <2>1, <2>3
<1> QED
  BY <1>1, <1>2 DEF IInv, PointersWhole

\* Before the rename nothing of what is whole changes, and no call that ends
\* otherwise than by it returns success.
LEMMA OtherSteps ==
  ASSUME IInv, NEW d \in Deployer, (Deploy(d) /\ ~Rename(d)) \/ Crash(d)
  PROVE  /\ current' = current
         /\ \A n : Whole(n) => Whole(n)'
         /\ ~(pc[d] = "rename" /\ pc'[d] = "idle" /\ result'[d] = "Ok")
<1>1. CASE CreateDir(d)
  <2>1. /\ job[d] \notin DOMAIN dirs /\ pc[d] # "rename" /\ current' = current
        /\ \A n \in DOMAIN dirs : n \in DOMAIN dirs' /\ dirs'[n] = dirs[n]
    BY <1>1 DEF IInv, Progress, CreateDir
  <2> QED
    BY <2>1 DEF Whole
<1>2. CASE OpenSchema(d) \/ WriteSchema(d)
  <2>1. /\ ~Whole(job[d]) /\ pc[d] # "rename" /\ current' = current
        /\ DOMAIN dirs' = DOMAIN dirs
        /\ \A n \in DOMAIN dirs \ {job[d]} : dirs'[n] = dirs[n]
    BY <1>2 DEF IInv, Progress, OpenSchema, WriteSchema, SetSchema
  <2> QED
    BY <2>1 DEF Whole
<1>3. CASE WriteDiagnostics(d)
  <2>1. /\ pc[d] # "rename" /\ current' = current
        /\ DOMAIN dirs' = DOMAIN dirs
        /\ \A n \in DOMAIN dirs : dirs'[n].schema = dirs[n].schema
    BY <1>3 DEF IInv, TypeOK, Directory, WriteDiagnostics
  <2> QED
    BY <2>1 DEF Whole
<1>4. CASE \/ \E y \in Yaml : Begin(d, y)
           \/ CreateTmp(d) \/ WriteTmp(d)
  <2>1. pc[d] # "rename" /\ UNCHANGED <<dirs, current>>
    BY <1>4 DEF Begin, CreateTmp, WriteTmp, files
  <2> QED
    BY <2>1 DEF Whole
<1>5. CASE IoError(d) \/ Crash(d)
  <2>1. UNCHANGED <<dirs, current>> /\ result'[d] \in {"Io", "none"}
    BY <1>5 DEF IoError, Crash, Return, files, IInv, TypeOK
  <2> QED
    BY <2>1 DEF Whole
<1> QED
  BY <1>1, <1>2, <1>3, <1>4, <1>5 DEF Deploy

\* The active configuration changes only in the step that returns success, and
\* is then the one that was validated, with its report.
THEOREM SwitchIsSuccess == ASSUME OneAtATime PROVE Spec => SwitchedOnSuccess
<1> DEFINE Succeeds(d) == pc[d] = "rename" /\ pc'[d] = "idle" /\ result'[d] = "Ok"
           Switched == /\ Active' # Active => \E d \in Deployer : Succeeds(d)
                       /\ \A d \in Deployer : Succeeds(d) =>
                            Active' = job[d].yaml /\ dirs[job[d]].diagnostics
<1>1. ASSUME IInv, IInv', [Next]_vars PROVE [Switched]_vars
  <2>1. ASSUME NEW d \in Deployer, Rename(d) PROVE Switched
    <3>1. /\ pc[d] = "rename" /\ current' = tmp /\ dirs' = dirs /\ tmp = job[d]
          /\ pc'[d] = "idle" /\ result'[d] = "Ok"
          /\ Whole(job[d]) /\ dirs[job[d]].diagnostics
      BY <1>1, <2>1 DEF Rename, Return, IInv, TypeOK, Progress, Written, Described
    <3>2. job[d] \in Name /\ job[d] # Absent /\ job[d].yaml \in Parsable
      BY <1>1, <3>1, WholeLoads, NamesAreNames, DeployAssumption DEF IInv
    <3>3. Active' = job[d].yaml
      BY <3>1, <3>2, NamesAreNames DEF Active, Load, Whole
    <3> QED
      BY <3>1, <3>3, OthersIdle
  <2>2. ASSUME NEW d \in Deployer, (Deploy(d) /\ ~Rename(d)) \/ Crash(d) PROVE Switched
    <3>1. /\ current' = current /\ \A n : Whole(n) => Whole(n)'
          /\ ~Succeeds(d)
      BY <1>1, <2>2, OtherSteps
    <3> QED
      BY <1>1, <3>1, ActiveKept, OthersIdle DEF IInv
  <2>3. ASSUME UNCHANGED <<dirs, current, pc>> PROVE Switched
    <3>1. Active' = Active
      BY <2>3 DEF Active, Load
    <3> QED
      BY <2>3, <3>1
  <2>4. ASSUME NEW r \in Reader, ReadPointer(r) \/ ReadSchema(r)
        PROVE  UNCHANGED <<dirs, current, pc>>
    BY <2>4 DEF ReadPointer, ReadSchema, files, calls
  <2>5. ASSUME Tick PROVE UNCHANGED <<dirs, current, pc>>
    BY <2>5 DEF Tick, files, calls
  <2> HIDE DEF Switched
  <2> QED
    BY <1>1, <2>1, <2>2, <2>3, <2>4, <2>5 DEF Next
<1>2. IInv /\ IInv' /\ [Next]_vars => [Switched]_vars
  BY <1>1
<1> QED
  BY <1>2, DeployInvariance, PTL DEF Spec, SwitchedOnSuccess

=============================================================================
