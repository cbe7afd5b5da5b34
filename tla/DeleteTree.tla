----------------------------- MODULE DeleteTree -----------------------------
(* The token by which a user confirms the deletion of a tree.  It is       *)
(* computed twice: as a stream while the tree is walked for the intent,    *)
(* and from the complete snapshot of a second walk when the deletion       *)
(* comes.  Other processes change the tree meanwhile.                      *)
(*                                                                         *)
(* SHA-256 over length-prefixed fields is taken as injective: a digest is  *)
(* the record of what was written to it.  Mode, size, times, identity and  *)
(* content hash of an entry are its mark.                                  *)
EXTENDS Naturals, Sequences, FiniteSets
LOCAL INSTANCE SequencesExt

CONSTANTS
    Labels,          \* entry names, numbers so that they are ordered
    MaxTreeChanges   \* bound: changes of the tree

VARIABLES
    tree,        \* kind and mark of what is at each path
    todo,        \* the walk: paths still to visit, in order
    walk,        \* "visit", "list" (the folder just visited is to be read), "done", "failed"
    seenEntries, \* what the walk visited, in order
    stream,      \* deleteTreeMerkleStreamV3
    confirmed,   \* the first walk: its entries and its token
    treeChanges

treeVars == <<tree, todo, walk, seenEntries, stream, confirmed, treeChanges>>

\* Paths are sequences of names below the target, two levels deep.
Top == <<>>
TreePaths == {Top} \cup {<<a>> : a \in Labels} \cup {<<a, b>> : a, b \in Labels}
NoDigest == [dir |-> FALSE, mark |-> 0, kids |-> <<>>]
NoTreeToken == [root |-> NoDigest, nodes |-> 0]
Absent == [kind |-> "none", mark |-> 0]
Below(p) == {q \in TreePaths : Len(q) = Len(p) + 1 /\ Front(q) = p}

-----------------------------------------------------------------------------
(* The stream.                                                             *)

NewStream == [frames |-> <<>>, root |-> NoDigest, has |-> FALSE, nodes |-> 0, bad |-> FALSE]
Frame(e) == [path |-> e.path, mark |-> e.mark, kids |-> <<>>]
FileDigest(e) == [dir |-> FALSE, mark |-> e.mark, kids |-> <<>>]
DirDigest(f) == [dir |-> TRUE, mark |-> f.mark, kids |-> f.kids]
Child(p, digest) == [name |-> Last(p), digest |-> digest]

\* closeTopDirectory: the digest of the innermost open folder goes to its parent.
CloseTop(s) ==
    LET top  == Last(s.frames)
        rest == Front(s.frames)
    IN  IF rest = <<>> THEN [s EXCEPT !.frames = rest, !.root = DirDigest(top), !.has = TRUE]
        ELSE [s EXCEPT !.frames = Append(Front(rest),
                 [Last(rest) EXCEPT !.kids = Append(@, Child(top.path, DirDigest(top)))])]

\* Variant: one folder is closed at most, although a walk may leave several at once.
CloseOne(s, p) ==
    IF s.frames # <<>> /\ Last(s.frames).path # p THEN CloseTop(s) ELSE s

\* Folders are closed until the one at path p is innermost, or none is open.
RECURSIVE CloseTo(_, _)
CloseTo(s, p) ==
    IF s.frames = <<>> \/ Last(s.frames).path = p THEN s ELSE CloseTo(CloseTop(s), p)

\* The last child written to a folder or still open below it.
LastName(s) ==
    LET f == Last(s.frames) IN IF f.kids = <<>> THEN 0 ELSE Last(f.kids).name

\* add: the first entry is the target; any other belongs to the innermost folder that is left
\* open for it and comes after its siblings.
Add(s, e) ==
    IF s.nodes = 0
    THEN IF e.path # Top THEN [s EXCEPT !.bad = TRUE]
         ELSE IF e.dir THEN [s EXCEPT !.nodes = 1, !.frames = <<Frame(e)>>]
         ELSE [s EXCEPT !.nodes = 1, !.root = FileDigest(e), !.has = TRUE]
    ELSE LET c == CloseTo(s, Front(e.path)) IN
         IF \/ s.has \/ e.path = Top
            \/ c.frames = <<>> \/ Last(c.frames).path # Front(e.path)
            \/ Last(e.path) <= LastName(c)
         THEN [s EXCEPT !.bad = TRUE]
         ELSE IF e.dir THEN [c EXCEPT !.nodes = @ + 1, !.frames = Append(@, Frame(e))]
         ELSE [c EXCEPT !.nodes = @ + 1,
                        !.frames = Append(Front(@), [Last(@) EXCEPT
                            !.kids = Append(@, Child(e.path, FileDigest(e)))])]

\* finish: every folder is closed.
Outside == <<0>>
Finish(s) ==
    LET c == CloseTo(s, Outside)
    IN  IF s.bad \/ ~c.has THEN NoTreeToken ELSE [root |-> c.root, nodes |-> s.nodes]

-----------------------------------------------------------------------------
(* The complete snapshot.                                                  *)

EntryAt(E, p) == CHOOSE e \in E : e.path = p
NamesIn(E, p) == SetToSortSeq({Last(e.path) : e \in {x \in E : x.path \in Below(p)}}, <)

\* digest: a folder's children in name order.
Digest(E) ==
    LET D[p \in TreePaths] ==
            LET e     == EntryAt(E, p)
                names == NamesIn(E, p)
            IN  IF ~e.dir THEN FileDigest(e)
                ELSE [dir |-> TRUE, mark |-> e.mark,
                      kids |-> [i \in DOMAIN names |->
                                   [name |-> names[i], digest |-> D[Append(p, names[i])]]]]
    IN  D[Top]

\* buildDeleteTreeMerkleV3 and deleteTreeTokenV3: one entry for each path, and a folder above
\* each but the target.
Built(entries) ==
    LET E == Range(entries) IN
    IF /\ Top \in {e.path : e \in E}
       /\ Cardinality({e.path : e \in E}) = Len(entries)
       /\ \A e \in E : e.path # Top => \E d \in E : d.dir /\ d.path = Front(e.path)
    THEN [root |-> Digest(E), nodes |-> Len(entries)]
    ELSE NoTreeToken

-----------------------------------------------------------------------------
(* The walk.                                                               *)

Entry(p) == [path |-> p, dir |-> tree[p].kind = "dir", mark |-> tree[p].mark]

\* walkWorkspaceEntry: an entry is looked at, handed on, and then, if it was a folder, opened
\* and listed.
VisitEntry ==
    /\ walk = "visit" /\ todo # <<>>
    /\ LET p == Head(todo) IN
       IF tree[p].kind = "none" THEN walk' = "failed" /\ UNCHANGED <<todo, seenEntries, stream>>
       ELSE /\ seenEntries' = Append(seenEntries, Entry(p))
            /\ stream' = Add(stream, Entry(p))
            /\ IF tree[p].kind = "dir" THEN walk' = "list" /\ UNCHANGED todo
               ELSE walk' = "visit" /\ todo' = Tail(todo)
    /\ UNCHANGED <<tree, confirmed, treeChanges>>

ReadFolder ==
    /\ walk = "list"
    /\ LET p     == Head(todo)
           names == SetToSortSeq({Last(q) : q \in {x \in Below(p) : tree[x].kind # "none"}}, <)
       IN  IF tree[p].kind # "dir" THEN walk' = "failed" /\ UNCHANGED todo
           ELSE /\ walk' = "visit"
                /\ todo' = [i \in DOMAIN names |-> Append(p, names[i])] \o Tail(todo)
    /\ UNCHANGED <<tree, seenEntries, stream, confirmed, treeChanges>>

\* prepareDeleteIntentTargets: the token of the stream; the second walk follows.
EndFirstWalk ==
    /\ walk = "visit" /\ todo = <<>> /\ confirmed.entries = <<>>
    /\ confirmed' = [entries |-> seenEntries, token |-> Finish(stream)]
    /\ todo' = <<Top>> /\ seenEntries' = <<>> /\ stream' = NewStream
    /\ UNCHANGED <<tree, walk, treeChanges>>

\* deleteTargetSnapshotLocked: the token of the snapshot.
EndSecondWalk ==
    /\ walk = "visit" /\ todo = <<>> /\ confirmed.entries # <<>>
    /\ walk' = "done"
    /\ UNCHANGED <<tree, todo, seenEntries, stream, confirmed, treeChanges>>

\* Somebody else adds, removes or changes an entry.
ChangeTree ==
    /\ walk \in {"visit", "list"} /\ treeChanges < MaxTreeChanges
    /\ treeChanges' = treeChanges + 1
    /\ \E p \in TreePaths, k \in {"none", "file", "dir"} :
          /\ p # Top => tree[Front(p)].kind = "dir"
          /\ k = "none" => tree[p].kind # "none"
          /\ tree' = [q \in TreePaths |->
                        IF q = p THEN IF k = "none" THEN Absent
                                      ELSE [kind |-> k, mark |-> treeChanges + 1]
                        ELSE IF k # "dir" /\ IsPrefix(p, q) THEN Absent ELSE tree[q]]
    /\ UNCHANGED <<todo, walk, seenEntries, stream, confirmed>>

WellFormed(tr) == \A p \in TreePaths : p # Top /\ tr[p].kind # "none" => tr[Front(p)].kind = "dir"

TreeInit ==
    /\ tree \in {tr \in [TreePaths -> [kind : {"none", "file", "dir"}, mark : {0}]] :
                    WellFormed(tr) /\ tr[Top].kind # "none"}
    /\ todo = <<Top>> /\ walk = "visit" /\ seenEntries = <<>> /\ stream = NewStream
    /\ confirmed = [entries |-> <<>>, token |-> NoTreeToken]
    /\ treeChanges = 0

TreeNext == VisitEntry \/ ReadFolder \/ EndFirstWalk \/ EndSecondWalk \/ ChangeTree
TreeSpec == TreeInit /\ [][TreeNext]_treeVars

-----------------------------------------------------------------------------
(* The two computations name the same trees: whatever changes during the   *)
(* walks, a finished first walk has a token, and the token of the second   *)
(* walk's snapshot equals it exactly if both walks saw the same entries.   *)
TokensAgree ==
    /\ confirmed.entries # <<>> => confirmed.token # NoTreeToken
    /\ walk = "done" =>
          (Built(seenEntries) = confirmed.token <=> Range(seenEntries) = Range(confirmed.entries))

=============================================================================
