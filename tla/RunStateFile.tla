---------------------------- MODULE RunStateFile ----------------------------
(***************************************************************************)
(* .anvil/run-state.json at the granularity of file operations             *)
(* (state/checkpoint_store.py).  One file holds the states of all runs of  *)
(* a workspace.  A save reads it, changes one run's entry, writes the      *)
(* whole of it to run-state.json.tmp and renames that over the file.       *)
(*                                                                         *)
(* A run's own operations are serialized by its lock, so each run has at   *)
(* most one save under way; different runs of one workspace have different *)
(* locks.  Readers hold no lock: they are the scans for a run's workspace  *)
(* (routes_runs._find_run_workspace) made by requests for other runs.      *)
(***************************************************************************)
EXTENDS Naturals, FiniteSets

CONSTANTS
    Runs,         \* the runs kept in this workspace's file
    Readers,      \* requests that look a run up in the file
    MaxSaves,     \* bound: saves of each run
    NoFile,       \* no such file
    Torn          \* bytes that are not JSON

ASSUME FileAssumption ==
    /\ MaxSaves \in Nat \ {0}
    /\ NoFile # Torn
    /\ {NoFile, Torn} \cap [Runs -> 0 .. MaxSaves] = {}

VARIABLES
    pc,       \* pc[r]: where run r's save is
    copy,     \* copy[r]: the container as r read and changed it
    inode,    \* inode[i]: the bytes of inode i
    file,     \* the inode named run-state.json, 0 if there is none
    tmp,      \* the inode named run-state.json.tmp, 0 if there is none
    fd,       \* fd[r]: the inode r is writing
    acked,    \* acked[r]: the last save of r that returned
    read      \* read[q]: what reader q got

vars == <<pc, copy, inode, file, tmp, fd, acked, read>>

Containers == [Runs -> 0 .. MaxSaves]
Empty == [r \in Runs |-> 0]

\* Enough inodes for the file and for a temporary file of each writer.
Inodes == 1 .. Cardinality(Runs) + 2

\* The bytes under a name.
Bytes(i) == IF i = 0 THEN NoFile ELSE inode[i]

Named == {file, tmp} \cup {fd[r] : r \in Runs}

Init ==
    /\ pc = [r \in Runs |-> "idle"]
    /\ copy = [r \in Runs |-> Empty]
    /\ inode = [i \in Inodes |-> Torn]
    /\ file = 0
    /\ tmp = 0
    /\ fd = [r \in Runs |-> 0]
    /\ acked = Empty
    /\ read = [q \in Readers |-> NoFile]

-----------------------------------------------------------------------------
(***************************************************************************)
(* _read_container: a file that does not parse is moved aside, and the     *)
(* caller goes on with an empty container.                                 *)
(***************************************************************************)
Container == IF Bytes(file) \in Containers THEN Bytes(file) ELSE Empty

\* Fault: whatever is read is moved aside.
SetAsideAll == file' = 0

SetAsideCorrupt == file' = IF Bytes(file) = Torn THEN 0 ELSE file

\* _persist_state: read the container and put this run's new state in it.
ReadForSave(r) ==
    /\ pc[r] = "idle"
    /\ acked[r] < MaxSaves
    /\ copy' = [copy EXCEPT ![r] = [Container EXCEPT ![r] = acked[r] + 1]]
    /\ SetAsideCorrupt
    /\ pc' = [pc EXCEPT ![r] = "open"]
    /\ UNCHANGED <<inode, tmp, fd, acked, read>>

\* tmp.open("w") truncates the file of that name, or makes a new one.
OpenTmp(r) ==
    /\ pc[r] = "open"
    /\ \E i \in IF tmp = 0 THEN Inodes \ Named ELSE {tmp} :
        /\ tmp' = i
        /\ fd' = [fd EXCEPT ![r] = i]
        /\ inode' = [inode EXCEPT ![i] = Torn]
    /\ pc' = [pc EXCEPT ![r] = "write"]
    /\ UNCHANGED <<copy, file, acked, read>>

\* json.dump and close.  Two writers of one inode may mix their bytes.
WriteTmp(r) ==
    /\ pc[r] = "write"
    /\ \E bytes \in {copy[r]} \cup
           (IF \E s \in Runs \ {r} : fd[s] = fd[r] THEN {Torn} ELSE {}) :
        inode' = [inode EXCEPT ![fd[r]] = bytes]
    /\ fd' = [fd EXCEPT ![r] = 0]
    /\ pc' = [pc EXCEPT ![r] = "rename"]
    /\ UNCHANGED <<copy, file, tmp, acked, read>>

\* tmp.replace(path): the save is done, or raises if tmp is gone already.
Rename(r) ==
    /\ pc[r] = "rename"
    /\ IF tmp # 0
       THEN /\ file' = tmp
            /\ tmp' = 0
            /\ acked' = [acked EXCEPT ![r] = @ + 1]
       ELSE UNCHANGED <<file, tmp, acked>>
    /\ pc' = [pc EXCEPT ![r] = "idle"]
    /\ UNCHANGED <<copy, inode, fd, read>>

\* load_run_state by a request that holds no run's lock.
Read(q) ==
    /\ read' = [read EXCEPT ![q] = Bytes(file)]
    /\ SetAsideCorrupt
    /\ UNCHANGED <<pc, copy, inode, tmp, fd, acked>>

\* The process dies: the saves under way are never finished.
Crash ==
    /\ pc' = [r \in Runs |-> "idle"]
    /\ fd' = [r \in Runs |-> 0]
    /\ UNCHANGED <<copy, inode, file, tmp, acked, read>>

Next ==
    \/ \E r \in Runs : ReadForSave(r) \/ OpenTmp(r) \/ WriteTmp(r) \/ Rename(r)
    \/ \E q \in Readers : Read(q)
    \/ Crash

Spec == Init /\ [][Next]_vars

-----------------------------------------------------------------------------
\* Write-then-rename: whoever looks at run-state.json, at any moment and
\* after any crash, finds a whole container.
NeverTorn == Bytes(file) # Torn

\* A save that has returned is in the file, whatever other runs saved since.
SavesSurvive == \A r \in Runs : acked[r] =< Container[r]

(***************************************************************************)
(* The file implements the registers its callers think of.  The rename is  *)
(* the step that counts.                                                   *)
(***************************************************************************)
Registers == INSTANCE AtomicStore WITH store <- Container

ImplementsStore == Registers!Spec

=============================================================================
