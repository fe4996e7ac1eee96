----------------------------- MODULE FileSearch -----------------------------
(***************************************************************************)
(* files.search and files.list (core/tools/filesystem.py) on one tree: a   *)
(* walk in breadth with a limit for everything, that may be cancelled      *)
(* before any entry and says whether it left something out.  Entries are   *)
(* files with their number of matching lines, directories, links, hidden   *)
(* entries and files that are too large, binary or cannot be read.         *)
(***************************************************************************)
EXTENDS Naturals, Sequences, Selection

CONSTANTS
    Trees,          \* trees: sequences of directories, which are sequences of entries
    Limits,         \* limits: [scan, directories, files, matches]
    MaxDepth        \* largest depth asked of files.list

VARIABLES
    op,             \* "search" or "list"
    tree, limits, depth,
    queue,          \* directories to scan, with their level
    batch,          \* entries of the directory under way, with its level
    directories,    \* directories_scanned
    files,          \* files_scanned
    found,          \* matches or entries
    truncated,
    at              \* "scan", "entries", "done" or "failed"

walkVars == <<op, tree, limits, depth, queue, batch, directories, files, found,
              truncated, at>>
request == <<op, tree, limits, depth>>

Kinds == {"file", "dir", "link", "large", "binary", "unreadable", "hidden"}

\* A file with its matching lines, or a directory with its place in the tree.
Entry(kind, value) == [kind |-> kind, value |-> value]
Entries(t) == {e \in [kind : Kinds, value : Nat] : e.kind = "dir" => e.value \in DOMAIN t}
IsTree(t) == t # <<>> /\ t \in Seq(Seq(Entries(t)))

\* The tools refuse limits and arguments below one.
IsLimits(l) ==
    l \in [scan : Nat \ {0}, directories : Nat \ {0}, files : Nat \ {0}, matches : Nat \ {0}]

WalkInit ==
    /\ op \in {"search", "list"} /\ tree \in Trees /\ limits \in Limits /\ depth \in 0 .. MaxDepth
    /\ queue = <<[dir |-> 1, level |-> 0]>> /\ batch = [level |-> 0, left |-> <<>>]
    /\ directories = 0 /\ files = 0 /\ found = 0 /\ truncated = FALSE /\ at = "scan"

\* _bounded_scandir; the rest of a large directory is not looked at.
Visible(d) == Only(tree[d], {e \in Entries(tree) : e.kind # "hidden"})
Scanned(d) == SubSeq(Visible(d), 1, IF Len(Visible(d)) > limits.scan THEN limits.scan
                                    ELSE Len(Visible(d)))

Scan ==
    /\ at = "scan" /\ queue # <<>>
    /\ LET q == Head(queue) IN
       /\ batch' = [level |-> q.level, left |-> Scanned(q.dir)]
       /\ truncated' = (truncated \/ Len(Visible(q.dir)) > limits.scan)
    /\ queue' = Tail(queue) /\ directories' = directories + 1 /\ at' = "entries"
    /\ UNCHANGED <<request, files, found>>

First == Head(batch.left)
Next1 == batch' = [batch EXCEPT !.left = Tail(@)]
Enqueued(d) == queue' = Append(queue, [dir |-> d, level |-> batch.level + 1])
Taking == at = "entries" /\ batch.left # <<>>

-----------------------------------------------------------------------------
(* files.search *)

SearchDirectory ==
    /\ Taking /\ op = "search" /\ First.kind = "dir" /\ Next1
    /\ IF directories + Len(queue) >= limits.directories
       THEN truncated' = TRUE /\ UNCHANGED queue
       ELSE Enqueued(First.value) /\ UNCHANGED truncated
    /\ UNCHANGED <<request, directories, files, found, at>>

\* Links and what is no file are passed over.
SearchOther ==
    /\ Taking /\ op = "search" /\ First.kind = "link" /\ Next1
    /\ UNCHANGED <<request, queue, directories, files, found, truncated, at>>

IsFile(e) == e.kind \in {"file", "large", "binary", "unreadable"}

\* The file after the last one allowed ends the walk.
Said_AtEnd == UNCHANGED truncated
Said == truncated' = TRUE

TooManyFiles ==
    /\ Taking /\ op = "search" /\ IsFile(First) /\ files = limits.files
    /\ files' = files + 1 /\ Said /\ at' = "done"
    /\ UNCHANGED <<request, queue, batch, directories, found>>

\* Large, binary and unreadable files have no matches.
Hits(e) == IF e.kind = "file" THEN e.value ELSE 0

SearchFile ==
    /\ Taking /\ op = "search" /\ IsFile(First) /\ files < limits.files /\ Next1
    /\ files' = files + 1
    /\ LET all == found + Hits(First) IN
       IF all >= limits.matches
       THEN found' = limits.matches /\ truncated' = TRUE /\ at' = "done"
       ELSE found' = all /\ UNCHANGED <<truncated, at>>
    /\ UNCHANGED <<request, queue, directories>>

-----------------------------------------------------------------------------
(* files.list *)

\* Whatever can be read is an entry; max_entries is the limit for matches.
ListEntry ==
    /\ Taking /\ op = "list" /\ Next1
    /\ IF First.kind = "unreadable"
       THEN UNCHANGED <<found, truncated, at, queue>>
       ELSE /\ found' = found + 1
            /\ IF found' >= limits.matches
               THEN truncated' = TRUE /\ at' = "done" /\ UNCHANGED queue
               ELSE /\ UNCHANGED <<truncated, at>>
                    /\ IF First.kind = "dir" /\ batch.level < depth
                       THEN Enqueued(First.value) ELSE UNCHANGED queue
    /\ UNCHANGED <<request, directories, files>>

-----------------------------------------------------------------------------
DirectoryEnds ==
    /\ at = "entries" /\ batch.left = <<>>
    /\ at' = IF queue = <<>> THEN "done" ELSE "scan"
    /\ UNCHANGED <<request, queue, batch, directories, files, found, truncated>>

\* raise_if_cancelled before every directory and entry, and directories that
\* cannot be scanned.
Cancelled ==
    /\ at \in {"scan", "entries"} /\ at' = "failed"
    /\ UNCHANGED <<request, queue, batch, directories, files, found, truncated>>

WalkNext ==
    \/ Scan \/ SearchDirectory \/ SearchOther \/ TooManyFiles \/ SearchFile
    \/ ListEntry \/ DirectoryEnds \/ Cancelled

WalkSpec == WalkInit /\ [][WalkNext]_walkVars

-----------------------------------------------------------------------------
\* What there is to find, by definition: how deep a directory lies, the entries
\* of those in reach and what they count.
Children(d) == {tree[d][i].value : i \in {j \in DOMAIN tree[d] : tree[d][j].kind = "dir"}}
Reached(n) == LET down[k \in 0 .. n] == IF k = 0 THEN {1}
                      ELSE down[k - 1] \cup UNION {Children(d) : d \in down[k - 1]}
              IN down[n]
InReach == Reached(IF op = "search" THEN Len(tree) ELSE depth)

Worth(e) == CASE e.kind = "hidden" -> 0
              [] op = "search" -> Hits(e)
              [] OTHER -> IF e.kind = "unreadable" THEN 0 ELSE 1
InDirectory(d) == LET sum[i \in 0 .. Len(tree[d])] ==
                          IF i = 0 THEN 0 ELSE sum[i - 1] + Worth(tree[d][i])
                  IN sum[Len(tree[d])]
Total(ds) == LET sum[d \in 0 .. Len(tree)] ==
                     IF d = 0 THEN 0
                     ELSE sum[d - 1] + (IF d \in ds THEN InDirectory(d) ELSE 0)
             IN sum[Len(tree)]

\* An answer that does not say it is truncated is complete (FilesSearchTool.execute
\* and FilesListTool.execute).
AnswerIsComplete == at = "done" /\ ~truncated => found = Total(InReach)

\* No answer is beyond its limits: the directories of the queue count before they
\* are scanned.
WithinLimits ==
    /\ found <= limits.matches /\ files <= limits.files + 1
    /\ op = "search" => directories + Len(queue) <= limits.directories

-----------------------------------------------------------------------------
(* The inductive invariant of the limits                                    *)

WalkTypes ==
    /\ op \in {"search", "list"} /\ IsTree(tree) /\ IsLimits(limits) /\ depth \in Nat
    /\ queue \in Seq([dir : DOMAIN tree, level : Nat])
    /\ batch \in [level : Nat, left : Seq(Entries(tree))]
    /\ directories \in Nat /\ files \in Nat /\ found \in Nat
    /\ truncated \in BOOLEAN /\ at \in {"scan", "entries", "done", "failed"}

\* A walk that goes on may still find something.
WalkInv ==
    /\ WalkTypes /\ WithinLimits
    /\ at \in {"scan", "entries"} => found < limits.matches /\ files <= limits.files
=============================================================================
