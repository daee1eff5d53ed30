----------------------------- MODULE PathNames -----------------------------
(***************************************************************************)
(* Names in paths and in directory entries (src/src/directory.c): taking a *)
(* path apart into a buffer of DIRSIZE bytes that need not end in NUL,     *)
(* writing names into entries, comparing and listing them.                 *)
(*                                                                         *)
(* A call walks a path as namex() does, to the last element; what it does  *)
(* with the directory of that element (dirlink(), clearing the entry,      *)
(* readdir) is done to the one directory of this model.  NameOps has the   *)
(* tree, with names that are values.                                       *)
(***************************************************************************)
EXTENDS Naturals, Sequences, SequencesExt, FiniteSets, FiniteSetsExt

CONSTANTS
    Letters,        \* the bytes of names
    DIRSIZE,
    MaxPath,        \* longest path
    MaxDirents      \* longest directory

ASSUME NameAssumption ==
    /\ {DIRSIZE, MaxPath, MaxDirents} \subseteq Nat \ {0}
    /\ Letters \cap {"/", "NUL"} = {}

Chars == Letters \cup {"/"}
Buffers == [1 .. DIRSIZE -> Letters \cup {"NUL"}]
NoEntry == [inum |-> 0, name |-> [k \in 1 .. DIRSIZE |-> "NUL"]]

VARIABLES
    full,       \* the path of the call
    path,       \* what is left of it
    name,       \* the buffer for its elements
    got,        \* the elements so far, as they can be read from the buffer
    stage,      \* "idle", "walk", "last" when the parent has been found, or "listed"
    dir,        \* the entries of the directory
    linked,     \* the names that were linked and not removed
    listing     \* what the last readdir gave

vars == <<full, path, name, got, stage, dir, linked, listing>>

-----------------------------------------------------------------------------
(* Strings in buffers.                                                     *)

\* What strncmp() and a reader that stops after DIRSIZE bytes see.
Seen(buf) ==
    LET nuls == {k \in 1 .. DIRSIZE : buf[k] = "NUL"}
    IN  SubSeq(buf, 1, IF nuls = {} THEN DIRSIZE ELSE Min(nuls) - 1)

dirnamecmp(a, b) == Seen(a) = Seen(b)

\* strncpy() pads with NUL.
strncpy(src) == [k \in 1 .. DIRSIZE |-> IF k <= Len(Seen(src)) THEN src[k] ELSE "NUL"]

\* The part of p from the first byte that is not, or that is, a slash.
From(p, slash) ==
    LET hits == {k \in DOMAIN p : (p[k] = "/") = slash}
    IN  IF hits = {} THEN <<>> ELSE SubSeq(p, Min(hits), Len(p))
Element(p) == SubSeq(From(p, FALSE), 1, Len(From(p, FALSE)) - Len(From(From(p, FALSE), TRUE)))

\* An element of at least DIRSIZE bytes is cut off, a shorter one ends in NUL;
\* what is behind the NUL stays.
Fill(buf, elem) ==
    [k \in 1 .. DIRSIZE |->
        IF k <= Len(elem) THEN elem[k] ELSE IF k = Len(elem) + 1 THEN "NUL" ELSE buf[k]]

\* Mutant: the slashes after the element stay.
skipelem_Slashes(p, buf) ==
    [found |-> Element(p) # <<>>,
     rest |-> From(From(p, FALSE), TRUE),
     name |-> IF Element(p) = <<>> THEN buf ELSE Fill(buf, Element(p))]

skipelem(p, buf) ==
    [found |-> Element(p) # <<>>,
     rest |-> From(From(From(p, FALSE), TRUE), FALSE),
     name |-> IF Element(p) = <<>> THEN buf ELSE Fill(buf, Element(p))]

-----------------------------------------------------------------------------
(* The directory.                                                          *)

\* Mutant: the bytes are compared to the end of the buffers.
Matches_Whole(buf) == {k \in DOMAIN dir : dir[k].inum # 0 /\ dir[k].name = buf}

\* dirlookup(): the entries that it would return, of which it takes the first.
Matches(buf) == {k \in DOMAIN dir : dir[k].inum # 0 /\ dirnamecmp(dir[k].name, buf)}

\* Mutant: free entries are listed.
InUse_All == DOMAIN dir
InUse == {k \in DOMAIN dir : dir[k].inum # 0}
FirstFree == {k \in DOMAIN dir : dir[k].inum = 0}

\* strcpy() from an entry runs on into the next one if the name fills its
\* own: the low byte of a number that is not 0 is copied, or, behind the last
\* entry, whatever is there.
dirnamecpy(k) ==
    LET seen == Seen(dir[k].name)
        more == {seen \o <<"#">>}
    IN  IF Len(seen) < DIRSIZE THEN {seen}
        ELSE IF k < Len(dir) THEN (IF dir[k + 1].inum # 0 THEN more ELSE {seen})
        ELSE {seen} \cup more

-----------------------------------------------------------------------------

Paths == {<<"/">> \o s : s \in BoundedSeq(Chars, MaxPath - 1)}

Init ==
    /\ full = <<>> /\ path = <<>> /\ got = <<>> /\ stage = "idle"
    /\ name = NoEntry.name
    /\ dir = <<>> /\ linked = {} /\ listing = {}

\* The call returns, and its buffer is gone.
Return ==
    /\ path' = <<>> /\ full' = <<>> /\ got' = <<>> /\ stage' = "idle"
    /\ name' = NoEntry.name

\* A call with a path; its buffer is not initialized.
Call ==
    /\ stage \in {"idle", "listed"}
    /\ \E p \in Paths : path' = p /\ full' = p
    /\ name' \in Buffers
    /\ got' = <<>> /\ stage' = "walk" /\ listing' = {}
    /\ UNCHANGED <<dir, linked>>

\* The loop of namex(): the next element; "last" if nothing follows it.  A
\* path without an element has no parent.
Walk ==
    /\ stage = "walk"
    /\ LET s == skipelem(path, name)
       IN  IF s.found
           THEN /\ name' = s.name /\ path' = s.rest
                /\ got' = Append(got, Seen(s.name))
                /\ stage' = IF s.rest = <<>> THEN "last" ELSE "walk"
                /\ UNCHANGED full
           ELSE Return
    /\ UNCHANGED <<dir, linked, listing>>

\* dirlink(): a name that is there is refused, a free entry is used again.
dirlink ==
    /\ stage = "last"
    /\ IF Matches(name) = {}
       THEN LET de == [inum |-> 1, name |-> strncpy(name)]
            IN  /\ FirstFree = {} => Len(dir) < MaxDirents
                /\ dir' = IF FirstFree = {} THEN Append(dir, de)
                          ELSE [dir EXCEPT ![Min(FirstFree)] = de]
                /\ linked' = linked \cup {Last(got)}
       ELSE UNCHANGED <<dir, linked>>
    /\ Return
    /\ UNCHANGED listing

\* myfuse_unlink() and myfuse_rmdir() write a zero entry over the one found.
RemoveEntry ==
    /\ stage = "last"
    /\ IF Matches(name) # {}
       THEN /\ dir' = [dir EXCEPT ![Min(Matches(name))] = NoEntry]
            /\ linked' = linked \ {Last(got)}
       ELSE UNCHANGED <<dir, linked>>
    /\ Return
    /\ UNCHANGED listing

readdir ==
    /\ stage = "idle"
    /\ stage' = "listed"
    /\ \E copy \in [DOMAIN dir -> UNION {dirnamecpy(k) : k \in DOMAIN dir}] :
        /\ \A k \in DOMAIN dir : copy[k] \in dirnamecpy(k)
        /\ listing' = {copy[k] : k \in InUse}
    /\ UNCHANGED <<full, path, name, got, dir, linked>>

Next == Call \/ Walk \/ dirlink \/ RemoveEntry \/ readdir

Spec == Init /\ [][Next]_vars

\* skiptoend() runs the same loop and returns what follows the last element.
skiptoend == path

-----------------------------------------------------------------------------
(* Properties.                                                             *)

\* The buffers of names keep their size.
TypeOK ==
    /\ full \in Paths \cup {<<>>} /\ stage \in {"idle", "walk", "last", "listed"}
    /\ name \in Buffers
    /\ \A k \in DOMAIN dir : dir[k].inum \in {0, 1} /\ dir[k].name \in Buffers

\* The elements of a path: what stands between slashes, cut off at DIRSIZE.
Elements(p) ==
    LET starts == {k \in DOMAIN p : p[k] # "/" /\ (k = 1 \/ p[k - 1] = "/")}
        End(k) == Max({e \in k .. Len(p) : \A j \in k .. e : p[j] # "/"})
        Cut(s) == SubSeq(s, 1, IF Len(s) < DIRSIZE THEN Len(s) ELSE DIRSIZE)
        order == SetToSortSeq(starts, <)
    IN  [n \in DOMAIN order |-> Cut(SubSeq(p, order[n], End(order[n])))]

\* Repeated skipelem() gives the elements of the path, in order, whatever was
\* in the buffer, and namex() stops for the parent exactly at the last.
WalkExact ==
    /\ IsPrefix(got, Elements(full))
    /\ stage = "last" <=> got # <<>> /\ got = Elements(full)

\* A walk takes a path apart exactly, in buffers that keep their size.
PathInv == TypeOK /\ WalkExact

\* The directory has one entry for each name that was linked and not removed,
\* and a lookup with the buffer of a walk finds it and nothing else.
DirectoryExact ==
    /\ {Seen(dir[k].name) : k \in {j \in DOMAIN dir : dir[j].inum # 0}} = linked
    /\ stage = "last" =>
        Cardinality(Matches(name)) = IF Last(got) \in linked THEN 1 ELSE 0

Listed(S) == stage = "listed" => listing \cap S = linked \cap S
Names(n) == BoundedSeq(Letters \cup {"#"}, n)

\* readdir gives every linked name that is shorter than DIRSIZE, and of names
\* of that length no others.
ShortNamesListed == Listed(Names(DIRSIZE - 1))

-----------------------------------------------------------------------------
(* What does not hold.                                                     *)

\* readdir gives every linked name, up to the f_namemax = DIRSIZE of statfs.
NamesListed == Listed(Names(DIRSIZE + 1))

\* The assertion of skiptoend(): what it returns is the last element, which is
\* in its buffer by then.
SkiptoendAssertion == stage = "last" => skiptoend = Seen(name)
=============================================================================
