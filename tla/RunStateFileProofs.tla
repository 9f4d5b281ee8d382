------------------------- MODULE RunStateFileProofs -------------------------
(***************************************************************************)
(* One run saves at a time: then write-then-rename makes the file an       *)
(* atomic store, for any number of saves, readers and crashes.  The        *)
(* invariant says that the two names never share an inode, that what is    *)
(* under the file's name is the last save that returned, and that what is  *)
(* about to be renamed over it is the next one.                            *)
(***************************************************************************)
EXTENDS RunStateFile, TLAPS

Typed ==
    /\ pc \in [Runs -> {"idle", "open", "write", "rename"}]
    /\ copy \in [Runs -> Containers]
    /\ inode \in [Inodes -> Containers \cup {Torn}]
    /\ file \in Inodes \cup {0}
    /\ tmp \in Inodes \cup {0}
    /\ fd \in [Runs -> Inodes \cup {0}]
    /\ acked \in Containers

\* The file is whole and is what was saved last; tmp is another inode.
FileOK ==
    /\ Bytes(file) # Torn
    /\ Container = acked
    /\ tmp # 0 => tmp # file

\* What run w is saving.
SavingOK(w) ==
    /\ pc[w] # "idle" =>
           acked[w] < MaxSaves /\ copy[w] = [acked EXCEPT ![w] = acked[w] + 1]
    /\ pc[w] = "write" => tmp # 0 /\ fd[w] = tmp
    /\ pc[w] = "rename" => tmp # 0 /\ inode[tmp] = copy[w]

IInv == Typed /\ FileOK /\ \A w \in Runs : SavingOK(w)

\* The operations on the file, and the steps that change it.
Quiet == UNCHANGED <<file, acked>> /\ Container' = Container

-----------------------------------------------------------------------------
\* A container is neither of the two values that are not one, 0 no inode.
LEMMA Kinds ==
    /\ Torn \notin Containers /\ NoFile \notin Containers /\ NoFile # Torn
    /\ 0 \notin Inodes
    /\ MaxSaves \in Nat /\ MaxSaves > 0
    /\ Empty \in Containers
  BY FileAssumption DEF Containers, Inodes, Empty

LEMMA InitInv == Init => IInv
  BY Kinds DEF Init, IInv, Typed, FileOK, SavingOK, Bytes, Container, Empty

\* With the file whole nobody moves it aside.
LEMMA NobodySetsAside == IInv /\ SetAsideCorrupt => file' = file
  BY DEF IInv, FileOK, SetAsideCorrupt

\* The first read of a save.
LEMMA ReadForSaveInv ==
    ASSUME NEW w \in Runs, Runs = {w}, IInv, ReadForSave(w)
    PROVE  IInv' /\ Quiet
  <1>1. /\ file' = file
        /\ copy' = [copy EXCEPT ![w] = [Container EXCEPT ![w] = acked[w] + 1]]
        /\ pc' = [pc EXCEPT ![w] = "open"]
        /\ acked[w] < MaxSaves
        /\ UNCHANGED <<inode, tmp, fd, acked>>
    BY NobodySetsAside DEF ReadForSave
  <1>2. Container = acked /\ Container' = Container /\ Bytes(file)' = Bytes(file)
    BY <1>1 DEF IInv, FileOK, Container, Bytes
  <1>3. [acked EXCEPT ![w] = acked[w] + 1] \in Containers
    BY <1>1, Kinds DEF IInv, Typed, Containers
  <1> QED
    BY <1>1, <1>2, <1>3 DEF IInv, Typed, FileOK, SavingOK, Quiet

\* tmp is opened, which empties an inode that is not the file's.
LEMMA OpenTmpInv ==
    ASSUME NEW w \in Runs, Runs = {w}, IInv, OpenTmp(w)
    PROVE  IInv' /\ Quiet
  <1>1. PICK i \in Inodes :
            /\ i # file
            /\ tmp' = i /\ fd' = [fd EXCEPT ![w] = i]
            /\ inode' = [inode EXCEPT ![i] = Torn]
    BY DEF OpenTmp, Named, IInv, Typed, FileOK
  <1>2. /\ pc[w] = "open" /\ pc' = [pc EXCEPT ![w] = "write"]
        /\ UNCHANGED <<copy, file, acked>>
    BY DEF OpenTmp
  <1>3. Bytes(file)' = Bytes(file) /\ Container' = Container
    BY <1>1, <1>2 DEF IInv, Typed, Bytes, Container
  <1> QED
    BY <1>1, <1>2, <1>3, Kinds DEF IInv, Typed, FileOK, SavingOK, Quiet

\* The next save is written into tmp: nobody else writes there.
LEMMA WriteTmpInv ==
    ASSUME NEW w \in Runs, Runs = {w}, IInv, WriteTmp(w)
    PROVE  IInv' /\ Quiet
  <1>1. /\ pc[w] = "write" /\ tmp # 0 /\ fd[w] = tmp /\ tmp # file
        /\ inode' = [inode EXCEPT ![tmp] = copy[w]]
        /\ fd' = [fd EXCEPT ![w] = 0]
        /\ pc' = [pc EXCEPT ![w] = "rename"]
        /\ UNCHANGED <<copy, file, tmp, acked>>
    BY DEF WriteTmp, IInv, FileOK, SavingOK
  <1>2. Bytes(file)' = Bytes(file) /\ Container' = Container
    BY <1>1 DEF IInv, Typed, Bytes, Container
  <1> QED
    BY <1>1, <1>2, Kinds DEF IInv, Typed, FileOK, SavingOK, Quiet

\* The rename is the save.
LEMMA RenameInv ==
    ASSUME NEW w \in Runs, Runs = {w}, IInv, Rename(w)
    PROVE  /\ IInv'
           /\ Container' = [Container EXCEPT ![w] = Container[w] + 1]
           /\ Container[w] + 1 \in 1 .. MaxSaves
  <1>1. /\ pc[w] = "rename" /\ tmp # 0 /\ inode[tmp] = copy[w]
        /\ copy[w] = [acked EXCEPT ![w] = acked[w] + 1] /\ acked[w] < MaxSaves
        /\ file' = tmp /\ tmp' = 0
        /\ acked' = [acked EXCEPT ![w] = acked[w] + 1]
        /\ pc' = [pc EXCEPT ![w] = "idle"]
        /\ UNCHANGED <<copy, inode, fd>>
    BY DEF Rename, IInv, SavingOK
  <1>2. copy[w] \in Containers /\ acked' = copy[w]
    BY <1>1 DEF IInv, Typed
  <1>3. Bytes(file)' = copy[w] /\ Container' = copy[w]
    BY <1>1, <1>2, Kinds DEF Bytes, Container
  <1>4. Container[w] + 1 \in 1 .. MaxSaves
    BY <1>1, Kinds DEF IInv, Typed, FileOK, Containers
  <1>5. Container' = [Container EXCEPT ![w] = Container[w] + 1]
    BY <1>1, <1>3 DEF IInv, FileOK
  <1>6. IInv'
    BY <1>1, <1>2, <1>3, Kinds DEF IInv, Typed, FileOK, SavingOK
  <1> QED BY <1>4, <1>5, <1>6

\* Readers and crashes change nothing that a reader can see.
LEMMA ReadInv == ASSUME IInv, NEW q \in Readers, Read(q) PROVE IInv' /\ Quiet
  <1>1. file' = file /\ UNCHANGED <<pc, copy, inode, tmp, fd, acked>>
    BY NobodySetsAside DEF Read
  <1> QED
    BY <1>1 DEF IInv, Typed, FileOK, SavingOK, Quiet, Bytes, Container

LEMMA CrashInv == IInv /\ Crash => IInv' /\ Quiet
  <1> SUFFICES ASSUME IInv, Crash PROVE IInv' /\ Quiet
    OBVIOUS
  <1>1. /\ pc' = [r \in Runs |-> "idle"] /\ fd' = [r \in Runs |-> 0]
        /\ UNCHANGED <<copy, inode, file, tmp, acked>>
    BY DEF Crash
  <1> QED
    BY <1>1 DEF IInv, Typed, FileOK, SavingOK, Quiet, Bytes, Container

\* A step keeps the invariant, and is a save of the store or nothing to it.
LEMMA StepInv ==
    ASSUME NEW w \in Runs, Runs = {w}, IInv, [Next]_vars
    PROVE  IInv' /\ [Registers!Next]_Container
  <1>1. CASE Rename(w)
    <2>1. Registers!Save(w)
      <3>1. Container[w] \in Nat
        BY Kinds DEF IInv, Typed, FileOK, Containers
      <3>2. Container[w] + 1 > Container[w]
        BY <3>1
      <3> QED BY <1>1, <3>2, RenameInv DEF Registers!Save
    <2> QED BY <1>1, <2>1, RenameInv DEF Registers!Next
  <1>2. CASE UNCHANGED vars
    BY <1>2 DEF vars, IInv, Typed, FileOK, SavingOK, Bytes, Container
  <1>3. ASSUME ~Rename(w), Next PROVE IInv' /\ Quiet
    BY <1>3, ReadForSaveInv, OpenTmpInv, WriteTmpInv, ReadInv, CrashInv DEF Next
  <1> QED BY <1>1, <1>2, <1>3 DEF Quiet

-----------------------------------------------------------------------------
\* With one writer the file is the atomic store that its callers think of,
\* through every crash and beside any readers: write-then-rename loses no save
\* that returned and shows no half of one (checkpoint_store.py:69-76).
THEOREM StoreRefined == ASSUME NEW w \in Runs, Runs = {w} PROVE Spec => ImplementsStore
  <1>1. IInv /\ [Next]_vars => IInv' /\ [Registers!Next]_Container
    BY StepInv
  <1>2. Init => IInv /\ Registers!Init
    BY InitInv, Kinds DEF Init, Registers!Init, IInv, FileOK, Empty
  <1> QED BY <1>1, <1>2, PTL DEF Spec, ImplementsStore, Registers!Spec

\* So nobody ever finds half a container under the file's name.
THEOREM NeverHalf == ASSUME NEW w \in Runs, Runs = {w} PROVE Spec => []NeverTorn
  <1>1. IInv /\ [Next]_vars => IInv'
    BY StepInv
  <1>2. IInv => NeverTorn
    BY DEF IInv, FileOK, NeverTorn
  <1> QED BY <1>1, <1>2, InitInv, PTL DEF Spec

=============================================================================
