---------------------------- MODULE InterfaceMap ----------------------------
(***************************************************************************)
(* The other artifacts' interfaces that a repair prompt shows              *)
(* (verify/interface_map.py): those the failing file uses come first, then *)
(* those that use it, and whole files are left out to stay under a cap.    *)
(***************************************************************************)
EXTENDS Naturals, Sequences, FiniteSets, SequencesExt, Ordered

CONSTANTS
    Siblings,   \* the number of the other .py artifacts, by the order they were written in
    Sizes,      \* lengths of a file's interface
    Broken,     \* the length of "(currently broken)"
    Note,       \* the length of "(N file(s) omitted)"
    Cap         \* INTERFACE_MAP_MAX_CHARS

\* What ties a sibling to the failing file: the failing file names it, it
\* names the failing file's module, it names something defined there.
Ties == {"used", "names module", "names def"}

Files == {[parses |-> TRUE, ties |-> t, size |-> n] : t \in SUBSET Ties, n \in Sizes}
            \cup {[parses |-> FALSE, ties |-> {}, size |-> Broken]}

VARIABLES
    parses,     \* the failing file does
    file,       \* file[i]: the i-th sibling
    pc,
    ranked,     \* the siblings, as positions, in the order of their ranks
    next,       \* the position in ranked of the one to add next
    shown,      \* those that the map shows
    used        \* what their blocks take up

vars == <<parses, file, pc, ranked, next, shown, used>>

Init ==
    /\ parses \in BOOLEAN
    /\ file \in [1 .. Siblings -> Files]
    /\ pc = "rank"
    /\ ranked = <<>> /\ next = 1 /\ shown = <<>> /\ used = 0

-----------------------------------------------------------------------------
\* A file that does not parse uses nothing and defines nothing.
Uses(i) == file[i].parses /\ parses /\ "used" \in file[i].ties
UsedBy(i) ==
    /\ file[i].parses
    /\ "names module" \in file[i].ties \/ (parses /\ "names def" \in file[i].ties)

RankOf(i) == IF Uses(i) THEN 0 ELSE IF UsedBy(i) THEN 1 ELSE 2

\* Fault: the artifacts come in the order they were written.
RankAsWritten == ranked' = [i \in 1 .. Siblings |-> i]

Rank ==
    ranked' = Ranked(1 .. Siblings,
        LAMBDA i, j : \/ RankOf(i) < RankOf(j)
                      \/ RankOf(i) = RankOf(j) /\ i < j)

Begin ==
    /\ pc = "rank"
    /\ Rank
    /\ pc' = "add"
    /\ UNCHANGED <<parses, file, next, shown, used>>

Fits(i) == used + file[i].size <= Cap \/ shown = <<>>

\* The next sibling is added, or left out: the loop goes on either way.
Add ==
    /\ pc = "add" /\ next <= Len(ranked)
    /\ LET i == ranked[next] IN
        /\ shown' = IF Fits(i) THEN Append(shown, i) ELSE shown
        /\ used' = IF Fits(i) THEN used + file[i].size ELSE used
    /\ next' = next + 1
    /\ UNCHANGED <<parses, file, pc, ranked>>

End ==
    /\ pc = "add" /\ next > Len(ranked)
    /\ pc' = "done"
    /\ UNCHANGED <<parses, file, ranked, next, shown, used>>

Next == Begin \/ Add \/ End

Spec == Init /\ [][Next]_vars

-----------------------------------------------------------------------------
Omitted == 1 .. Siblings \ ToSet(shown)

\* The text that is returned: blank lines join its blocks, and the note comes
\* last; the loop has counted neither.
MapLength ==
    IF shown = <<>> THEN 0
    ELSE used + 2 * (Len(shown) - 1) + IF Omitted = {} THEN 0 ELSE 2 + Note

\* If there are siblings, the map is not empty and the closest leads it, ranks only
\* go down, and a sibling is left out only where its block would not have fitted
\* behind those before it.  Unless the closest alone is above the cap, the blocks
\* are within it, and the map above it by its blank lines and note at most
\* (interface_map.py:96-109, 147-160).
ClosestShown ==
    pc = "done" =>
        /\ Siblings > 0 => shown # <<>>
        /\ \A i \in 1 .. Siblings : RankOf(shown[1]) <= RankOf(i)
        /\ \A m, n \in DOMAIN shown : m < n => RankOf(shown[m]) <= RankOf(shown[n])
        /\ \/ used <= Cap /\ MapLength <= Cap + 2 * Len(shown) + Note
           \/ Len(shown) = 1
        /\ \A i \in Omitted :
              used + file[i].size > Cap /\ \E j \in ToSet(shown) : RankOf(j) <= RankOf(i)

\* FR-IC-002: "the block is capped (default 6,000 chars) by dropping whole files":
\* with its blank lines and note.
MapWithinCap == pc = "done" => MapLength <= Cap \/ Len(shown) = 1

\* FR-IC-002: the cap is kept "by dropping whole files from the tail of that
\* order": what is shown is no further down than what is left out.
TailDropped ==
    pc = "done" => \A i \in Omitted, j \in ToSet(shown) : RankOf(j) <= RankOf(i)

=============================================================================
