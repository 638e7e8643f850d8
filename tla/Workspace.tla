----------------------------- MODULE Workspace ------------------------------
(***************************************************************************)
(* The node's ephemeral workspace (EphemeralLabWorkspace in                *)
(* src/c2lab/lab_runtime.py) and its life in the node process (close and   *)
(* reset_lab_workspace of NodeExecutor, src/c2lab/node.py).  A playbook is *)
(* a fixed list of file operations between two checks of the whole         *)
(* directory; every operation can fail, which ends the playbook where it   *)
(* stands, and an interrupt can end it between two operations.             *)
(*                                                                         *)
(* File contents are fixed, and all of them together are smaller than      *)
(* MAX_WORKSPACE_BYTES, so the size checks never fail and are left out;    *)
(* nobody else writes into the directory (same-user interference is out of *)
(* the program's scope).                                                   *)
(***************************************************************************)
EXTENDS Naturals, Sequences, FiniteSets

CONSTANTS
    MAX_WORKSPACE_FILES,
    MaxFiles            \* bound: files created altogether

ASSUME WorkspaceAssumption == {MAX_WORKSPACE_FILES, MaxFiles} \subseteq Nat

Fixtures == {"accounts", "planning", "telemetry"}
MANIFEST == "manifest"
CANARY == "canary"
Names == Fixtures \cup {MANIFEST, CANARY}

PLAYBOOK_NAMES ==
    {"DISCOVERY_FIXTURES", "COLLECT_AND_STAGE", "CREATE_CANARY", "CLEANUP"}

VARIABLES
    mode,       \* "building", "failing" (in __init__), "open" or "closed"
    disk,       \* files in the directory
    artifacts,  \* _artifacts: logical name -> file
    handles,    \* _handles: file -> whether its handle is open
    created,    \* number of files created, which numbers them
    playbook,   \* the playbook being executed, or "none"
    todo,       \* its operations still to do
    answer      \* what the last execute did: "result", "error" or "none"

registry == <<artifacts, handles>>
vars == <<mode, disk, registry, created, playbook, todo, answer>>

Op(what, name) == [what |-> what, name |-> name]
Check == Op("assert", MANIFEST)

CreateFixtures ==
    << Op("create", "accounts"), Op("create", "planning"), Op("create", "telemetry") >>
ReadFixtures ==
    << Op("read", "accounts"), Op("read", "planning"), Op("read", "telemetry") >>

\* The file operations of a playbook, in the order of the code.
Program(p) ==
    CASE p = "DISCOVERY_FIXTURES" -> ReadFixtures
      [] p = "COLLECT_AND_STAGE"  -> << Op("remove", MANIFEST) >> \o ReadFixtures
                                       \o << Op("create", MANIFEST) >>
      [] p = "CREATE_CANARY"      -> << Op("ensure", CANARY) >>
      [] p = "CLEANUP"            -> << Op("remove", MANIFEST), Op("remove", CANARY) >>

\* TemporaryDirectory has been made; __init__ goes on to fill it.
Build ==
    /\ mode' = "building"
    /\ disk' = {}
    /\ artifacts' = << >>
    /\ handles' = << >>
    /\ playbook' = "none"
    /\ todo' = Append(CreateFixtures, Check)
    /\ answer' = "none"

Init ==
    /\ mode = "building"
    /\ disk = {}
    /\ artifacts = << >>
    /\ handles = << >>
    /\ created = 0
    /\ playbook = "none"
    /\ todo = Append(CreateFixtures, Check)
    /\ answer = "none"

Without(f, x) == [y \in DOMAIN f \ {x} |-> f[y]]
With(f, x, v) == [y \in DOMAIN f \cup {x} |-> IF y = x THEN v ELSE f[y]]

-----------------------------------------------------------------------------
(***************************************************************************)
(* How an operation ends.  An error in __init__ closes the workspace and   *)
(* ends the process; an error in execute is answered as a failed task.     *)
(***************************************************************************)
Proceed ==
    /\ todo' = Tail(todo)
    /\ UNCHANGED <<mode, playbook, answer>>

Raise ==
    /\ todo' = << >>
    /\ IF mode = "building"
         THEN /\ mode' = "failing"
              /\ UNCHANGED <<playbook, answer>>
         ELSE /\ playbook' = "none"
              /\ answer' = "error"
              /\ UNCHANGED mode

\* The next operation is `what`, on the logical name it returns.
Doing(what) == todo # << >> /\ Head(todo).what = what

\* _safe_member_path of a registered file.
SafeMember(file) == file \in DOMAIN handles /\ file \in disk

\* Fault: names are compared, the handles are not looked at.
NamesMatch == disk = DOMAIN handles /\ Cardinality(disk) <= MAX_WORKSPACE_FILES

WorkspaceIntact ==
    /\ disk = DOMAIN handles
    /\ Cardinality(disk) <= MAX_WORKSPACE_FILES
    /\ \A file \in disk : handles[file]

AssertWorkspace ==
    /\ Doing("assert")
    /\ IF WorkspaceIntact THEN Proceed ELSE Raise
    /\ UNCHANGED <<disk, registry, created>>

\* _read_artifact; a closed handle raises, and so may the read itself.
ReadArtifact(name) ==
    /\ \/ /\ name \in DOMAIN artifacts
          /\ SafeMember(artifacts[name])
          /\ handles[artifacts[name]]
          /\ Proceed
       \/ Raise
    /\ UNCHANGED <<disk, registry, created>>

\* _remove_artifact: the handle is closed first; when the file cannot be
\* deleted then, its entries stay, with the closed handle.
RemoveArtifact(name) ==
    \/ /\ name \notin DOMAIN artifacts
       /\ Proceed
       /\ UNCHANGED <<disk, registry>>
    \/ /\ name \in DOMAIN artifacts
       /\ ~SafeMember(artifacts[name])
       /\ Raise
       /\ UNCHANGED <<disk, registry>>
    \/ /\ name \in DOMAIN artifacts
       /\ SafeMember(artifacts[name])
       /\ \/ /\ disk' = disk \ {artifacts[name]}
             /\ handles' = Without(handles, artifacts[name])
             /\ artifacts' = Without(artifacts, name)
             /\ Proceed
          \/ /\ handles' = [handles EXCEPT ![artifacts[name]] = FALSE]
             /\ Raise
             /\ UNCHANGED <<disk, artifacts>>

MayCreate(name) ==
    /\ name \notin DOMAIN artifacts
    /\ Cardinality(DOMAIN artifacts) < MAX_WORKSPACE_FILES

\* _create_member: the file is made and registered; or it cannot be made; or it
\* is made, cannot be written, and is deleted again, if that succeeds.
CreateMember(name) ==
    /\ created < MaxFiles
    /\ LET file == created + 1
       IN \/ /\ MayCreate(name)
             /\ created' = file
             /\ disk' = disk \cup {file}
             /\ artifacts' = With(artifacts, name, file)
             /\ handles' = With(handles, file, TRUE)
             /\ Proceed
          \/ /\ Raise
             /\ UNCHANGED <<disk, registry, created>>
          \/ /\ MayCreate(name)
             /\ Raise
             /\ created' = file
             /\ disk' = disk \cup {file}
             /\ UNCHANGED registry

Read == Doing("read") /\ ReadArtifact(Head(todo).name)

Remove == Doing("remove") /\ RemoveArtifact(Head(todo).name) /\ UNCHANGED created

Create == Doing("create") /\ CreateMember(Head(todo).name)

\* _create_canary: a canary that is there is read, otherwise it is created.
Ensure ==
    /\ Doing("ensure")
    /\ IF Head(todo).name \in DOMAIN artifacts
         THEN ReadArtifact(Head(todo).name)
         ELSE CreateMember(Head(todo).name)

-----------------------------------------------------------------------------
Opened ==
    /\ mode = "building"
    /\ todo = << >>
    /\ mode' = "open"
    /\ UNCHANGED <<disk, registry, created, playbook, todo, answer>>

\* A bound of the model: a playbook is not begun without room for its files.
Execute(p) ==
    /\ mode = "open"
    /\ playbook = "none"
    /\ created < MaxFiles
    /\ playbook' = p
    /\ todo' = << Check >> \o Program(p) \o << Check >>
    /\ answer' = "none"
    /\ UNCHANGED <<mode, disk, registry, created>>

Return ==
    /\ mode = "open"
    /\ playbook # "none"
    /\ todo = << >>
    /\ answer = "none"
    /\ answer' = "result"
    /\ UNCHANGED <<mode, disk, registry, created, playbook, todo>>

\* The answer is taken away; the next playbook may come.
Taken ==
    /\ answer = "result"
    /\ playbook' = "none"
    /\ answer' = "none"
    /\ UNCHANGED <<mode, disk, registry, created, todo>>

\* close: the handles are closed and the directory is deleted with all in it.
Emptied ==
    /\ disk' = {}
    /\ artifacts' = << >>
    /\ handles' = << >>
    /\ playbook' = "none"
    /\ todo' = << >>
    /\ answer' = "none"

\* reset_lab_workspace on a lost session: the old workspace is closed and a new
\* one is built.
Rotate ==
    /\ mode = "open"
    /\ playbook = "none"
    /\ created + Cardinality(Fixtures) < MaxFiles
    /\ Build
    /\ UNCHANGED created

\* run_node ends, normally or by an interrupt in the middle of a playbook; or
\* __init__ failed, which the node process does not survive.
Close ==
    /\ mode \in {"open", "failing"}
    /\ mode' = "closed"
    /\ Emptied
    /\ UNCHANGED created

Done ==
    /\ mode = "closed"
    /\ UNCHANGED vars

Next ==
    \/ AssertWorkspace \/ Read \/ Remove \/ Create \/ Ensure
    \/ Opened \/ Return \/ Taken \/ Rotate \/ Close \/ Done
    \/ \E p \in PLAYBOOK_NAMES : Execute(p)

Spec == Init /\ [][Next]_vars

-----------------------------------------------------------------------------
\* Every registered name leads to a file with a handle, also after a failed
\* deletion (_artifacts and _handles of EphemeralLabWorkspace).
WorkspaceTypeOK ==
    /\ mode \in {"building", "failing", "open", "closed"}
    /\ disk \subseteq 1 .. created
    /\ DOMAIN artifacts \subseteq Names
    /\ {artifacts[name] : name \in DOMAIN artifacts} = DOMAIN handles
    /\ \A file \in DOMAIN handles : handles[file] \in BOOLEAN
    /\ playbook \in PLAYBOOK_NAMES \cup {"none"}
    /\ answer \in {"result", "error", "none"}

Holds(name) ==
    /\ name \in DOMAIN artifacts
    /\ artifacts[name] \in disk

\* What the evidence of a playbook claims about the directory.
Claimed(p) ==
    CASE p = "DISCOVERY_FIXTURES" -> TRUE
      [] p = "COLLECT_AND_STAGE"  -> Holds(MANIFEST)
      [] p = "CREATE_CANARY"      -> Holds(CANARY)
      [] p = "CLEANUP"            -> ~Holds(MANIFEST) /\ ~Holds(CANARY)

\* A result is returned only for a directory in which its evidence is true:
\* the fixtures are there, the artifacts are as the playbook says, every file
\* is a registered one and can be read, whatever failed in earlier playbooks.
EvidenceIsTrue ==
    answer = "result" =>
        /\ Claimed(playbook)
        /\ \A name \in Fixtures : Holds(name)
        /\ disk = {artifacts[name] : name \in DOMAIN artifacts}
        /\ \A file \in disk : handles[file]

\* The fixtures outlive every playbook, failed ones included: no operation
\* closes or deletes one before the workspace itself is closed.
FixturesSurvive ==
    mode = "open" => \A name \in Fixtures : Holds(name) /\ handles[artifacts[name]]

\* What execute of LabRuntime returns is true of the directory, the fixtures
\* survive and the registered names lead to files.
WorkspaceInv == WorkspaceTypeOK /\ FixturesSurvive /\ EvidenceIsTrue
=============================================================================
