---------------------------- MODULE ConfigDeploy ----------------------------
(***************************************************************************)
(* DeploymentManager (crates/cheime-config/src/deploy.rs): schema          *)
(* configurations written to versioned directories, the active one named   *)
(* by current.txt.                                                         *)
(*                                                                         *)
(* deploy is one action per call into the file system, because an error or *)
(* a crash may come at each of them, and readers and other deployers may   *)
(* run in between.  A crash is that of a process: what was written stays.  *)
(***************************************************************************)
EXTENDS Integers, FiniteSets

CONSTANTS
  Yaml,             \* configurations that may be deployed
  Parsable,         \* those that parse as a SchemaConfig
  Valid,            \* those validate finds no error in
  Deployer, Reader, \* callers of deploy and of current
  RepeatInSecond,   \* may a configuration be deployed twice in one second?
                    \*   Then a write error breaks what is deployed; see README.md
  MaxTime,          \* bound: the clock, in seconds
  MaxDeploys        \* bound: calls of deploy

ASSUME DeployAssumption ==
  /\ Valid \subseteq Parsable /\ Parsable \subseteq Yaml
  /\ {"absent", "torn", "MissingCurrent", "Io", "Parse"} \cap Yaml = {}
  /\ RepeatInSecond \in BOOLEAN
  /\ MaxTime \in Nat /\ MaxDeploys \in Nat

VARIABLES
  clock,
  dirs,             \* directory name -> its schema.yaml and diagnostics.json
  tmp,              \* current.tmp
  current,          \* current.txt
  pc, job,          \* of each deployer: the step it is at, what it deploys
  result,           \* of each deployer: what its last call returned
  reading,          \* of each reader: the pointer it has read
  seen,             \* of each reader: what its last call returned
  deploys

files == <<dirs, tmp, current>>
calls == <<pc, job, result>>
reads == <<reading, seen>>
vars  == <<clock, files, calls, reads, deploys>>

\* now_iso counts seconds, and short_hash tells contents apart: two deployments
\* have one name exactly when they are of one yaml in one second.
Name      == [second : 0 .. MaxTime, yaml : Valid]
NameOf(y) == [second |-> clock, yaml |-> y]
NotAName(what) == [second |-> -1, yaml |-> what]
Absent    == NotAName("absent")   \* no such file
Empty     == NotAName("empty")    \* a file with nothing in it
None      == NotAName("none")     \* nothing read, or nothing to deploy
Pointer   == {Absent, Empty} \cup Name
File      == {"absent", "torn"} \cup Yaml
Directory == [schema : File, diagnostics : BOOLEAN]

Step == {"idle", "create dir", "open schema", "write schema", "write diagnostics",
         "create tmp", "write tmp", "rename"}

-----------------------------------------------------------------------------
(***************************************************************************)
(* Reading the pointer, then the file it names: DeploymentManager::current *)
(***************************************************************************)
Load(pointer) ==
  IF pointer = Absent THEN "MissingCurrent"
  ELSE IF pointer \notin DOMAIN dirs THEN "Io"
  ELSE IF dirs[pointer].schema = "absent" THEN "Io"
  ELSE IF dirs[pointer].schema \notin Parsable THEN "Parse"
  ELSE dirs[pointer].schema

Active == Load(current)

ReadPointer(r) ==
  /\ reading[r] = None
  /\ reading' = [reading EXCEPT ![r] = current]
  /\ UNCHANGED <<clock, files, calls, seen, deploys>>

ReadSchema(r) ==
  /\ reading[r] # None
  /\ seen' = [seen EXCEPT ![r] = Load(reading[r])]
  /\ reading' = [reading EXCEPT ![r] = None]
  /\ UNCHANGED <<clock, files, calls, deploys>>

-----------------------------------------------------------------------------
(***************************************************************************)
(* deploy.                                                                 *)
(***************************************************************************)
Return(d, r) ==
  /\ pc' = [pc EXCEPT ![d] = "idle"]
  /\ result' = [result EXCEPT ![d] = r]
  /\ UNCHANGED job

Goto(d, step) ==
  /\ pc' = [pc EXCEPT ![d] = step]
  /\ UNCHANGED <<job, result>>

\* Variant for mutation: what parses is deployed, valid or not.
BeginUnvalidated(d, y) ==
  /\ pc[d] = "idle"
  /\ deploys < MaxDeploys
  /\ RepeatInSecond \/ NameOf(y) \notin DOMAIN dirs
  /\ deploys' = deploys + 1
  /\ \/ y \notin Parsable /\ Return(d, "Parse")
     \/ /\ y \in Parsable
        /\ job' = [job EXCEPT ![d] = NameOf(y)]
        /\ pc' = [pc EXCEPT ![d] = "create dir"]
        /\ UNCHANGED result
  /\ UNCHANGED <<clock, files, reads>>

\* Steps 1 and 2, and the directory name.
Begin(d, y) ==
  /\ pc[d] = "idle"
  /\ deploys < MaxDeploys
  /\ RepeatInSecond \/ NameOf(y) \notin DOMAIN dirs
  /\ deploys' = deploys + 1
  /\ \/ y \notin Parsable /\ Return(d, "Parse")
     \/ y \in Parsable \ Valid /\ Return(d, "Validation")
     \/ /\ y \in Valid
        /\ job' = [job EXCEPT ![d] = NameOf(y)]
        /\ pc' = [pc EXCEPT ![d] = "create dir"]
        /\ UNCHANGED result
  /\ UNCHANGED <<clock, files, reads>>

SetSchema(name, content) == dirs' = [dirs EXCEPT ![name].schema = content]

\* Any call into the file system may fail: deploy returns the error, and what
\* was done so far stays.
IoError(d) ==
  /\ pc[d] # "idle"
  /\ Return(d, "Io")
  /\ UNCHANGED <<clock, files, reads, deploys>>

CreateDir(d) ==
  /\ pc[d] = "create dir"
  /\ dirs' = [n \in DOMAIN dirs \cup {job[d]} |->
                IF n \in DOMAIN dirs THEN dirs[n]
                                     ELSE [schema |-> "absent", diagnostics |-> FALSE]]
  /\ Goto(d, "open schema")
  /\ UNCHANGED <<clock, tmp, current, reads, deploys>>

\* std::fs::write truncates the file and then writes it.
OpenSchema(d) ==
  /\ pc[d] = "open schema"
  /\ SetSchema(job[d], "torn")
  /\ Goto(d, "write schema")
  /\ UNCHANGED <<clock, tmp, current, reads, deploys>>

WriteSchema(d) ==
  /\ pc[d] = "write schema"
  /\ SetSchema(job[d], job[d].yaml)
  /\ Goto(d, "write diagnostics")
  /\ UNCHANGED <<clock, tmp, current, reads, deploys>>

WriteDiagnostics(d) ==
  /\ pc[d] = "write diagnostics"
  /\ dirs' = [dirs EXCEPT ![job[d]].diagnostics = TRUE]
  /\ Goto(d, "create tmp")
  /\ UNCHANGED <<clock, tmp, current, reads, deploys>>

\* File::create truncates a current.tmp that is there.
CreateTmp(d) ==
  /\ pc[d] = "create tmp"
  /\ tmp' = Empty
  /\ Goto(d, "write tmp")
  /\ UNCHANGED <<clock, dirs, current, reads, deploys>>

\* Variant for mutation: no temporary file, current.txt written in place.
WriteCurrent(d) ==
  /\ pc[d] = "write tmp"
  /\ tmp' = job[d] /\ current' = Empty
  /\ Goto(d, "rename")
  /\ UNCHANGED <<clock, dirs, reads, deploys>>

WriteTmp(d) ==
  /\ pc[d] = "write tmp"
  /\ tmp' = job[d]
  /\ Goto(d, "rename")
  /\ UNCHANGED <<clock, dirs, current, reads, deploys>>

\* Variant for mutation: earlier deployments are removed after the switch.
RenameAndPrune(d) ==
  /\ pc[d] = "rename"
  /\ tmp # Absent
  /\ current' = tmp
  /\ tmp' = Absent
  /\ dirs' = [n \in {tmp} |-> dirs[n]]
  /\ Return(d, "Ok")
  /\ UNCHANGED <<clock, reads, deploys>>

\* Variant for mutation: an error of the rename is not reported.
RenameUnchecked(d) ==
  /\ pc[d] = "rename"
  /\ tmp # Absent
  /\ \/ current' = tmp /\ tmp' = Absent
     \/ UNCHANGED <<current, tmp>>
  /\ Return(d, "Ok")
  /\ UNCHANGED <<clock, dirs, reads, deploys>>

Rename(d) ==
  /\ pc[d] = "rename"
  /\ tmp # Absent
  /\ current' = tmp
  /\ tmp' = Absent
  /\ Return(d, "Ok")
  /\ UNCHANGED <<clock, dirs, reads, deploys>>

Deploy(d) ==
  \/ \E y \in Yaml : Begin(d, y)
  \/ CreateDir(d) \/ OpenSchema(d) \/ WriteSchema(d) \/ WriteDiagnostics(d)
  \/ CreateTmp(d) \/ WriteTmp(d) \/ Rename(d)
  \/ IoError(d)

-----------------------------------------------------------------------------
\* The process of a deployer ends where it stands; its caller gets no result.
Crash(d) ==
  /\ pc[d] # "idle"
  /\ Return(d, "none")
  /\ UNCHANGED <<clock, files, reads, deploys>>

Tick ==
  /\ clock < MaxTime
  /\ clock' = clock + 1
  /\ UNCHANGED <<files, calls, reads, deploys>>

Init ==
  /\ clock = 0
  /\ dirs = [n \in {} |-> [schema |-> "absent", diagnostics |-> FALSE]]
  /\ tmp = Absent /\ current = Absent
  /\ pc = [d \in Deployer |-> "idle"]
  /\ job = [d \in Deployer |-> None]
  /\ result = [d \in Deployer |-> "none"]
  /\ reading = [r \in Reader |-> None]
  /\ seen = [r \in Reader |-> "MissingCurrent"]
  /\ deploys = 0

Next ==
  \/ \E d \in Deployer : Deploy(d) \/ Crash(d)
  \/ \E r \in Reader : ReadPointer(r) \/ ReadSchema(r)
  \/ Tick

Spec == Init /\ [][Next]_vars

-----------------------------------------------------------------------------
(***************************************************************************)
(* Properties.                                                             *)
(***************************************************************************)

\* Type correctness of the files and the callers.
TypeOK ==
  /\ clock \in 0 .. MaxTime
  /\ DOMAIN dirs \subseteq Name
  /\ \A n \in DOMAIN dirs : dirs[n] \in Directory
  /\ tmp \in Pointer /\ current \in Pointer
  /\ pc \in [Deployer -> Step]
  /\ job \in [Deployer -> Name \cup {None}]
  /\ \A d \in Deployer : pc[d] # "idle" => job[d] \in Name
  /\ result \in [Deployer -> {"none", "Ok", "Io", "Parse", "Validation"}]
  /\ reading \in [Reader -> Pointer \cup {None}]
  /\ seen \in [Reader -> Yaml \cup {"MissingCurrent", "Io", "Parse"}]

\* Once something is deployed, current() returns a validated configuration at
\* every moment, whatever a deployment under way has written, failed at or
\* left behind.
CurrentLoads == current # Absent => Active \in Valid

\* "On failure, the current deployment is untouched" (deploy.rs, deploy): what
\* current() returns changes only in the step that returns success, and then it
\* is the schema that was validated, with its report.
SwitchedOnSuccess ==
  [][LET succeeds(d) == pc[d] = "rename" /\ pc'[d] = "idle" /\ result'[d] = "Ok"
     IN  /\ Active' # Active => \E d \in Deployer : succeeds(d)
         /\ \A d \in Deployer : succeeds(d) =>
              Active' = job[d].yaml /\ dirs[job[d]].diagnostics]_vars

\* A reader that reads the pointer before a switch and the schema after it
\* still gets a whole configuration.
ReadersSeeWhole ==
  \A r \in Reader :
    seen[r] \in Valid \cup {"MissingCurrent"}
=============================================================================
