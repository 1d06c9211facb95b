---------------------------- MODULE CatalogSync ----------------------------
(***************************************************************************)
(* How a download listed by the TorBox API becomes an entry of the mounted *)
(* file system, and how the user hides it again:                           *)
(*                                                                         *)
(*   API listing --Refresh--> state database --ApplyHides--> catalogue     *)
(*   tree --SyncTree--> entries of the mount <--Unlink, Rmdir-- the user   *)
(*                                                                         *)
(* Refresh (internal/catalog/catalog.go) runs in one goroutine at a time,  *)
(* the FUSE handlers (internal/fusefs/fs.go) and the dashboard's handlers  *)
(* (internal/dashboard/dashboard.go) run beside it without a common lock.  *)
(* The database (internal/state/db.go) survives a crash; the tree and the  *)
(* mount do not.                                                           *)
(*                                                                         *)
(* A file is a content key.  A path is where BuildTree puts it (under      *)
(* /movies or /series); AllOf gives its second place under /all, or None   *)
(* when the /all directory is switched off.  The category directories stay *)
(* once they are made; those below them come with SyncTree, and go with it *)
(* or when a handler finds them empty.                                     *)
(***************************************************************************)
EXTENDS Naturals, FiniteSets

CONSTANTS
    Keys,        \* content keys
    Paths,       \* file paths under /movies and /series
    PathsOf,     \* key -> the paths the API's data may give it over time
    AllOf,       \* path -> its path under /all, or None
    Dirs,        \* directories below the category directories
    Under,       \* directory -> the mount paths and directories below it, at any depth
    Before,      \* mount path -> those of its directory with a smaller name
    KindOf,      \* key -> 1..Kinds
    Kinds,       \* number of listings one refresh asks for
    Downloads,   \* set of sets of keys: the files of one download
    Users,       \* concurrent FUSE or dashboard requests
    MaxChanges,  \* bound: changes of the API's listing and user requests
    MaxFaults,   \* bound: failed calls and crashes
    None

MountPaths == (Paths \cup {AllOf[p] : p \in Paths}) \ {None}
Names == Keys \cup Dirs                  \* what the inodes table has rows for
NoPaths == [k \in Keys |-> None]

ASSUME CatalogAssumption ==
    /\ None \notin Keys \cup Paths
    /\ Keys \cap Dirs = {} /\ None \notin Dirs /\ Dirs \cap MountPaths = {}
    /\ PathsOf \in [Keys -> SUBSET Paths]
    /\ \A p \in Paths : AllOf[p] \notin Paths
    /\ Under \in [Dirs -> SUBSET (MountPaths \cup Dirs)]
    /\ \A d \in Dirs : d \notin Under[d]
    /\ \A d, e \in Dirs : e \in Under[d] => Under[e] \subseteq Under[d]
    /\ \A q \in MountPaths : \E d \in Dirs : q \in Under[d]
    /\ Before \in [MountPaths -> SUBSET MountPaths]
    /\ \A p, q \in MountPaths : q \in Before[p] => p \notin Before[q]
    /\ Kinds \in Nat \ {0}
    /\ KindOf \in [Keys -> 1..Kinds]
    /\ Downloads \subseteq SUBSET Keys
    /\ MaxChanges \in Nat
    /\ MaxFaults \in Nat

VARIABLES
    listing,     \* the API's answer: key -> path, or None when not listed
    files,       \* table files: key -> path, or None
    hidden,      \* table hidden_files
    inode,       \* table inodes: key or directory -> inode, 0 for no row
    nextInode,   \* DB.nextInode
    up,          \* the process is running
    tree,        \* Catalog.tree: set of <<mount path, key>>
    dirs,        \* the mount: the directories it has
    shown,       \* the mount: mount path -> the key of its FileNode, or None
    refresh,     \* the goroutine inside Refresh or OnAdd
    op,          \* the user requests being served
    changes,     \* changes so far
    faults,      \* faults so far
    steady,      \* history: entries wanted at every moment of this refresh
    shunned      \* history: keys hidden when it began and not unhidden since

dbVars == <<files, hidden>>
inodeVars == <<inode, nextInode>>
mount == <<dirs, shown>>
vars == <<listing, files, hidden, inode, nextInode, up, tree, dirs, shown, refresh,
          op, changes, faults, steady, shunned>>

----------------------------------------------------------------------------
(* Trees.                                                                  *)

\* What BuildTree makes of a listing: each file at its path and under /all.
MainEntries(at) == {<<at[k], k>> : k \in {j \in Keys : at[j] # None}}
AllEntries(at) ==
    {<<AllOf[at[k]], k>> : k \in {j \in Keys : at[j] # None /\ AllOf[at[j]] # None}}
Entries(at) == MainEntries(at) \cup AllEntries(at)

\* For every path of the files table, the record the query returned first.
FirstRecord ==
    {f \in [Paths -> Keys \cup {None}] :
        \A p \in Paths : IF f[p] = None THEN \A k \in Keys : files[k] # p
                                        ELSE files[f[p]] = p}

\* BuildTreeFromDB finds the file for /all by its path: of several records with
\* one path the first stands for all of them.
EntriesFromDB(first) ==
    {<<e[1], IF e[1] \in Paths THEN e[2] ELSE first[files[e[2]]]>> :
        e \in Entries(files)}

ApplyHides(entries, set) == {e \in entries : e[2] \notin set}

InTree(q) == \E k \in Keys : <<q, k>> \in tree

\* The entries the mount ought to show now.
Wanted == ApplyHides(Entries(listing), hidden)

----------------------------------------------------------------------------
(* The mount.                                                              *)

\* What len(Children()) = 0 says of a directory, and what collectFileKeys finds.
IsEmpty(d) == \A n \in Under[d] : n \notin dirs /\ (n \in MountPaths => shown[n] = None)
FileKeys(d) == {shown[q] : q \in Under[d] \cap MountPaths} \ {None}

\* A place that can be reached from the root, not one in a detached directory.
Attached(n) == \A d \in Dirs : n \in Under[d] => d \in dirs

\* RmChild of a directory: whatever is below it by now goes with it.
Detach(d) ==
    /\ dirs' = dirs \ ({d} \cup Under[d])
    /\ shown' = [q \in MountPaths |-> IF q \in Under[d] THEN None ELSE shown[q]]

----------------------------------------------------------------------------
(* The state.                                                              *)

Idle == [pc |-> "idle", kind |-> 1, built |-> NoPaths, recs |-> {}, todo |-> {}]
IdleOp == [pc |-> "idle", keys |-> {}, todo |-> {}, rmdir |-> FALSE, dir |-> None]

Located == {f \in [Keys -> Paths \cup {None}] :
                \A k \in Keys : f[k] \in PathsOf[k] \cup {None}}

RefreshState ==
    [pc : {"idle", "list", "assign", "read", "sync"}, kind : 1..Kinds,
     built : [Keys -> Paths \cup {None}], recs : SUBSET Keys,
     todo : SUBSET (Keys \cup MountPaths \cup Dirs)]

OpState ==
    [pc : {"idle", "hide", "remove", "prune", "kick"}, keys : SUBSET Keys,
     todo : SUBSET (Keys \cup {"main", "all"} \cup Dirs), rmdir : BOOLEAN,
     dir : Dirs \cup {None}]

Init ==
    /\ listing \in Located
    /\ files = NoPaths
    /\ hidden = {}
    /\ inode = [n \in Names |-> 0]
    /\ nextInode = 0
    /\ up = FALSE
    /\ tree = {}
    /\ dirs = {}
    /\ shown = [q \in MountPaths |-> None]
    /\ refresh = Idle
    /\ op = [u \in Users |-> IdleOp]
    /\ changes = 0
    /\ faults = 0
    /\ steady = {}
    /\ shunned = {}

Change == changes < MaxChanges /\ changes' = changes + 1
Fault == faults < MaxFaults /\ faults' = faults + 1

\* The history variables of a step that neither starts a refresh nor restarts;
\* of `freed` it is no longer said that they are hidden.
Forget(freed) ==
    IF refresh'.pc = "idle" THEN steady' = {} /\ shunned' = {}
    ELSE steady' = steady \cap Wanted' /\ shunned' = shunned \ freed

Follow == Forget({})

----------------------------------------------------------------------------
(* DB.AssignInode, under db.mu.                                            *)

\* Mutant: an existing row is not looked up.
AssignInodeAnew(n) ==
    /\ inode' = [inode EXCEPT ![n] = nextInode]
    /\ nextInode' = nextInode + 1

AssignInode(n) ==
    \/ inode[n] # 0 /\ UNCHANGED inodeVars
    \/ /\ inode[n] = 0
       /\ inode' = [inode EXCEPT ![n] = nextInode]
       /\ nextInode' = nextInode + 1

\* A failed query leaves the counter alone, a failed insert has advanced it.
AssignInodeFails(n) ==
    /\ Fault
    /\ \/ nextInode' = nextInode
       \/ inode[n] = 0 /\ nextInode' = nextInode + 1
    /\ inode' = inode

----------------------------------------------------------------------------
(* Catalog.Refresh.                                                        *)

\* The compare-and-swap of refreshing succeeds.
Begin ==
    /\ refresh.pc = "idle"
    /\ refresh' = [Idle EXCEPT !.pc = "list"]
    /\ steady' = Wanted
    /\ shunned' = hidden

\* The ticker, the webhook, or the refresh main starts in the background.
StartRefresh ==
    /\ up
    /\ Begin
    /\ UNCHANGED <<listing, dbVars, inodeVars, up, tree, mount, op, changes, faults>>

\* Mutant: one more round of the loop over the kinds.
LastKindMissed == refresh.kind > Kinds

LastKind == refresh.kind = Kinds

\* One ListDownloads call.  Downloads of one kind are listed at one moment,
\* those of the next kind later.  After the last one the tree is built.
ListKind ==
    /\ refresh.pc = "list"
    /\ LET got == [k \in Keys |-> IF KindOf[k] = refresh.kind THEN listing[k]
                                                              ELSE refresh.built[k]]
       IN refresh' = IF LastKind
                     THEN [refresh EXCEPT !.built = got, !.pc = "assign",
                              !.todo = {k \in Keys : got[k] # None}]
                     ELSE [refresh EXCEPT !.built = got, !.kind = @ + 1]
    /\ UNCHANGED <<listing, dbVars, inodeVars, up, tree, mount, op, changes, faults>>
    /\ Follow

\* Mutant: the refresh goes on without that kind.
ListFailsGoesOn ==
    /\ refresh.pc = "list"
    /\ Fault
    /\ refresh' = IF refresh.kind < Kinds
                  THEN [refresh EXCEPT !.kind = @ + 1]
                  ELSE [refresh EXCEPT !.pc = "assign",
                           !.todo = {k \in Keys : refresh.built[k] # None}]
    /\ UNCHANGED <<listing, dbVars, inodeVars, up, tree, mount, op, changes>>
    /\ Follow

\* The call fails: the refresh is given up and changes nothing.
ListFails ==
    /\ refresh.pc = "list"
    /\ Fault
    /\ refresh' = Idle
    /\ UNCHANGED <<listing, dbVars, inodeVars, up, tree, mount, op, changes>>
    /\ Follow

\* The loop over the tree's files: the directories in the order of Go's map
\* iteration, the files of one by their names.
NextFile(k) ==
    /\ k \in refresh.todo
    /\ \A j \in refresh.todo : refresh.built[j] \notin Before[refresh.built[k]]

Assign(k) ==
    /\ refresh.pc = "assign"
    /\ NextFile(k)
    /\ AssignInode(k)
    /\ refresh' = [refresh EXCEPT !.todo = @ \ {k}, !.recs = @ \cup {k}]
    /\ UNCHANGED <<listing, dbVars, up, tree, mount, op, changes, faults>>
    /\ Follow

\* The file stays in the tree that is being built but gets no record.
AssignFails(k) ==
    /\ refresh.pc = "assign"
    /\ NextFile(k)
    /\ AssignInodeFails(k)
    /\ refresh' = [refresh EXCEPT !.todo = @ \ {k}]
    /\ UNCHANGED <<listing, dbVars, up, tree, mount, op, changes>>
    /\ Follow

\* DB.ReplaceFiles, one transaction: the records become the table, and hides of
\* keys without a record are deleted.
ReplaceFiles ==
    /\ refresh.pc = "assign"
    /\ refresh.todo = {}
    /\ files' = [k \in Keys |-> IF k \in refresh.recs THEN refresh.built[k] ELSE None]
    /\ hidden' = hidden \cap refresh.recs
    /\ refresh' = [refresh EXCEPT !.pc = "read", !.recs = {}]
    /\ UNCHANGED <<listing, inodeVars, up, tree, mount, op, changes, faults>>
    /\ Follow

ReplaceFails ==
    /\ refresh.pc = "assign"
    /\ refresh.todo = {}
    /\ Fault
    /\ refresh' = Idle
    /\ UNCHANGED <<listing, dbVars, inodeVars, up, tree, mount, op, changes>>
    /\ Follow

StartSync == refresh' = [Idle EXCEPT !.pc = "sync", !.todo = MountPaths \cup Dirs]

\* HiddenSet, ApplyHides, the swap of the tree, and the callback's SyncTree begins.
Swap(set) ==
    /\ refresh.pc = "read"
    /\ tree' = ApplyHides(Entries(refresh.built), set)
    /\ StartSync
    /\ UNCHANGED <<listing, dbVars, inodeVars, up, mount, op, changes>>

\* Mutant: the hides are not applied.
ReadHiddenUnfiltered == Swap({}) /\ Follow /\ UNCHANGED faults

ReadHidden == Swap(hidden) /\ Follow /\ UNCHANGED faults

\* HiddenSet fails: a warning, and the tree is exposed with the hidden files.
ReadHiddenFails ==
    /\ Swap({})
    /\ Fault
    /\ Forget(Keys)

----------------------------------------------------------------------------
(* RootNode.SyncTree, and OnAdd, whose walk is the same on an empty mount. *)

Walking == refresh.pc = "sync"

\* Where the walk can be: /movies and /series come before /all, a directory
\* before what is below it, and of the files of a directory to be added the one
\* with the smallest name.
Main == Paths \cup {d \in Dirs : Under[d] \cap Paths # {}}
Ahead == {n \in refresh.todo :
             /\ n \in Main \/ refresh.todo \cap Main = {}
             /\ \A d \in refresh.todo \cap Dirs : n \notin Under[d]
             /\ InTree(n) => \A p \in refresh.todo \cap Before[n] : ~InTree(p)}

\* The tree has a directory when it has an entry below it.
HasEntries(d) == \E q \in Under[d] \cap MountPaths : InTree(q)
Skip(set) == refresh' = [refresh EXCEPT !.todo = @ \ set]

\* addSubDirNode: the new directory is in the mount before anything is below it,
\* unless SyncTree is in a directory that was detached meanwhile.
AddDir(d) ==
    /\ AssignInode(d)
    /\ dirs' = IF Attached(d) THEN dirs \cup {d} ELSE dirs
    /\ UNCHANGED shown
    /\ Skip({d})

\* RmAllChildren and RmChild of a directory that the tree no longer has.
DropDir(d) == Detach(d) /\ Skip({d} \cup Under[d]) /\ UNCHANGED inodeVars

\* syncDir at the name of a directory; one that both have is walked.
SyncDir(d) ==
    /\ Walking
    /\ d \in Ahead
    /\ \/ ~HasEntries(d) /\ DropDir(d)
       \/ HasEntries(d) /\ d \notin dirs /\ AddDir(d)
       \/ HasEntries(d) /\ d \in dirs /\ Skip({d}) /\ UNCHANGED <<mount, inodeVars>>
    /\ UNCHANGED <<listing, dbVars, up, tree, op, changes, faults>>
    /\ Follow

\* Its inode cannot be assigned: the directory is left out with all below it.
SyncDirFails(d) ==
    /\ Walking
    /\ d \in Ahead
    /\ HasEntries(d) /\ d \notin dirs
    /\ AssignInodeFails(d)
    /\ Skip({d} \cup Under[d])
    /\ UNCHANGED <<listing, dbVars, up, tree, mount, op, changes>>
    /\ Follow

\* Mutant: nothing is removed.
DropEntryMissing(q) == UNCHANGED <<shown, inodeVars>>

DropEntry(q) == shown' = [shown EXCEPT ![q] = None] /\ UNCHANGED inodeVars

\* Mutant: nothing is added.
AddEntryMissing(q) == UNCHANGED <<shown, inodeVars>>

\* addFileNode.  Of several entries with one name the first to come is added; what
\* is added to a directory detached meanwhile is not in the mount.
AddEntry(q) ==
    \E k \in Keys : /\ <<q, k>> \in tree
                    /\ AssignInode(k)
                    /\ shown' = IF Attached(q) THEN [shown EXCEPT ![q] = k] ELSE shown

\* syncDir at one name: a name the tree no longer has is removed, a new one
\* added, and a name both have is skipped whatever file it stands for.
SyncEntry(q) ==
    /\ Walking
    /\ q \in Ahead
    /\ \/ ~InTree(q) /\ DropEntry(q)
       \/ InTree(q) /\ shown[q] = None /\ AddEntry(q)
       \/ InTree(q) /\ shown[q] # None /\ UNCHANGED <<shown, inodeVars>>
    /\ Skip({q})
    /\ UNCHANGED <<listing, dbVars, up, tree, dirs, op, changes, faults>>
    /\ Follow

\* addFileNode cannot assign the inode: the file is left out.
SyncEntryFails(q) ==
    /\ Walking
    /\ q \in Ahead
    /\ shown[q] = None
    /\ \E k \in Keys : <<q, k>> \in tree /\ AssignInodeFails(k)
    /\ Skip({q})
    /\ UNCHANGED <<listing, dbVars, up, tree, mount, op, changes>>
    /\ Follow

\* Refresh returns and releases refreshing.
EndRefresh ==
    /\ Walking
    /\ refresh.todo = {}
    /\ refresh' = Idle
    /\ UNCHANGED <<listing, dbVars, inodeVars, up, tree, mount, op, changes, faults>>
    /\ Follow

----------------------------------------------------------------------------
(* The user's requests.                                                    *)

Serve(u, request) ==
    /\ up
    /\ op[u].pc = "idle"
    /\ Change
    /\ op' = [op EXCEPT ![u] = request]

\* DirNode.Unlink on the entry at q: first HideFile.
Unlink(u, q) ==
    /\ shown[q] # None
    /\ Serve(u, [IdleOp EXCEPT !.pc = "hide", !.keys = {shown[q]}, !.todo = {shown[q]}])
    /\ UNCHANGED <<listing, dbVars, inodeVars, up, tree, mount, refresh, faults>>
    /\ Follow

\* DirNode.Rmdir on d: the keys of the files below it are collected first; if there
\* is none, the directory is to be removed.
Rmdir(u, d) ==
    /\ d \in dirs
    /\ LET keys == FileKeys(d)
       IN Serve(u, IF keys = {}
                   THEN [IdleOp EXCEPT !.pc = "prune", !.dir = d]
                   ELSE [IdleOp EXCEPT !.pc = "hide", !.keys = keys, !.todo = keys,
                                       !.rmdir = TRUE])
    /\ UNCHANGED <<listing, dbVars, inodeVars, up, tree, mount, refresh, faults>>
    /\ Follow

\* What follows the HideFile of k: the next key, or removeContentKeys.
AfterHide(u, k) ==
    op' = [op EXCEPT ![u].todo = IF @ = {k} THEN {"main", "all"} ELSE @ \ {k},
                     ![u].pc = IF op[u].todo = {k} THEN "remove" ELSE @]

HideFile(u, k) ==
    /\ op[u].pc = "hide"
    /\ k \in op[u].todo
    /\ hidden' = hidden \cup {k}
    /\ AfterHide(u, k)
    /\ UNCHANGED <<listing, files, inodeVars, up, tree, mount, refresh, changes, faults>>
    /\ Follow

\* Unlink answers EIO; Rmdir goes on and removes the file unhidden.
HideFileFails(u, k) ==
    /\ op[u].pc = "hide"
    /\ k \in op[u].todo
    /\ Fault
    /\ IF op[u].rmdir THEN AfterHide(u, k) ELSE op' = [op EXCEPT ![u] = IdleOp]
    /\ UNCHANGED <<listing, dbVars, inodeVars, up, tree, mount, refresh, changes>>
    /\ Follow

\* removeKeysFromDir in one category, /movies and /series first, then /all.
RemoveKeys(u, place) ==
    /\ op[u].pc = "remove"
    /\ place \in op[u].todo
    /\ place = "all" => "main" \notin op[u].todo
    /\ shown' = [q \in MountPaths |->
                    IF (q \in Paths <=> place = "main") /\ shown[q] \in op[u].keys
                    THEN None ELSE shown[q]]
    /\ op' = IF place = "all"
             THEN [op EXCEPT ![u] = [IdleOp EXCEPT !.pc = "prune", !.todo = Dirs]]
             ELSE [op EXCEPT ![u].todo = @ \ {place}]
    /\ UNCHANGED <<listing, dbVars, inodeVars, up, tree, dirs, refresh, changes, faults>>
    /\ Follow

\* The request goes on with the directories in rest; dir was found empty.
Prune(u, rest, dir) ==
    op' = [op EXCEPT ![u] = IF rest = {} /\ dir = None THEN IdleOp
                            ELSE [@ EXCEPT !.todo = rest, !.dir = dir]]

\* pruneEmptyDirs looks at d, after the directories below d and those of the
\* categories before.
PruneEmptyDirs(u, d) ==
    /\ op[u].pc = "prune" /\ op[u].dir = None
    /\ d \in op[u].todo
    /\ d \in Main \/ op[u].todo \cap Main = {}
    /\ Under[d] \cap op[u].todo = {}
    /\ Prune(u, op[u].todo \ {d}, IF d \in dirs /\ IsEmpty(d) THEN d ELSE None)
    /\ UNCHANGED <<listing, dbVars, inodeVars, up, tree, mount, refresh, changes, faults>>
    /\ Follow

\* The RmChild of pruneEmptyDirs and of Rmdir, without another look.  A SyncTree
\* that is in the directory goes on filling the detached one.
RmChild(u) ==
    /\ op[u].dir # None
    /\ Detach(op[u].dir)
    /\ Prune(u, op[u].todo, None)
    /\ UNCHANGED <<listing, dbVars, inodeVars, up, tree, refresh, changes, faults>>
    /\ Follow

\* Dashboard.UnhideDownload: the hides of one download, then a refresh.
UnhideDownload(u, d) ==
    /\ hidden \cap d # {}
    /\ Serve(u, [IdleOp EXCEPT !.pc = "kick"])
    /\ hidden' = hidden \ d
    /\ UNCHANGED <<listing, files, inodeVars, up, tree, mount, refresh, faults>>
    /\ Forget(d)

\* Dashboard.DeleteDownload: the API may go on listing the download for a while.
DeleteDownload(u, d) ==
    /\ Serve(u, [IdleOp EXCEPT !.pc = "kick"])
    /\ listing' \in {listing, [k \in Keys |-> IF k \in d THEN None ELSE listing[k]]}
    /\ UNCHANGED <<dbVars, inodeVars, up, tree, mount, refresh, faults>>
    /\ Follow

\* Both end with a Refresh, which answers ErrRefreshInProgress if one runs.
Kick(u) ==
    /\ op[u].pc = "kick"
    /\ op' = [op EXCEPT ![u] = IdleOp]
    /\ UNCHANGED <<listing, dbVars, inodeVars, up, tree, mount, changes, faults>>
    /\ \/ Begin
       \/ refresh.pc # "idle" /\ UNCHANGED refresh /\ Follow

----------------------------------------------------------------------------
(* The environment.                                                        *)

\* A download is added, removed, or filed under another path at TorBox.
Relist(k) ==
    /\ Change
    /\ \E p \in PathsOf[k] \cup {None} :
          p # listing[k] /\ listing' = [listing EXCEPT ![k] = p]
    /\ UNCHANGED <<dbVars, inodeVars, up, tree, mount, refresh, op, faults>>
    /\ Follow

\* The process dies; the three tables survive.
Crash ==
    /\ up
    /\ Fault
    /\ up' = FALSE
    /\ nextInode' = 0
    /\ tree' = {}
    /\ dirs' = {}
    /\ shown' = [q \in MountPaths |-> None]
    /\ refresh' = Idle
    /\ op' = [u \in Users |-> IdleOp]
    /\ steady' = {}
    /\ shunned' = {}
    /\ UNCHANGED <<listing, dbVars, inode, changes>>

\* Mutant: MAX(inode) is given out again.
InitNextInodeAgain ==
    \E m \in {1} \cup {inode[n] : n \in Names} :
        /\ \A n \in Names : inode[n] <= m
        /\ nextInode' = m

\* initNextInode: MAX(inode) + 1, or 1 for an empty table.
InitNextInode ==
    \E m \in {1} \cup {inode[n] + 1 : n \in Names} :
        /\ \A n \in Names : inode[n] < m
        /\ nextInode' = m

\* main: Open, LoadFromDB, and the mount, whose OnAdd walks the loaded tree.
Load(entries, set) ==
    /\ ~up
    /\ up' = TRUE
    /\ InitNextInode
    /\ tree' = ApplyHides(entries, set)
    /\ StartSync
    /\ steady' = {}
    /\ UNCHANGED <<listing, dbVars, inode, mount, op, changes>>

Start ==
    /\ \E first \in FirstRecord : Load(EntriesFromDB(first), hidden)
    /\ shunned' = hidden
    /\ UNCHANGED faults

\* ListFiles fails and the mount starts empty, or HiddenSet fails and it starts
\* with the hidden files.
StartFails ==
    /\ Fault
    /\ \/ Load({}, {})
       \/ \E first \in FirstRecord : Load(EntriesFromDB(first), {})
    /\ shunned' = {}

----------------------------------------------------------------------------

RefreshStep ==
    \/ StartRefresh \/ ListKind \/ ListFails \/ ReplaceFiles \/ ReplaceFails
    \/ ReadHidden \/ ReadHiddenFails \/ EndRefresh
    \/ \E k \in Keys : Assign(k) \/ AssignFails(k)
    \/ \E d \in Dirs : SyncDir(d) \/ SyncDirFails(d)
    \/ \E q \in MountPaths : SyncEntry(q) \/ SyncEntryFails(q)

OpStep(u) ==
    \/ \E k \in Keys : HideFile(u, k) \/ HideFileFails(u, k)
    \/ \E place \in {"main", "all"} : RemoveKeys(u, place)
    \/ \E d \in Dirs : PruneEmptyDirs(u, d)
    \/ RmChild(u)
    \/ Kick(u)

Request(u) ==
    \/ \E q \in MountPaths : Unlink(u, q)
    \/ \E d \in Dirs : Rmdir(u, d)
    \/ \E d \in Downloads : UnhideDownload(u, d) \/ DeleteDownload(u, d)

Next ==
    \/ RefreshStep
    \/ \E u \in Users : OpStep(u) \/ Request(u)
    \/ \E k \in Keys : Relist(k)
    \/ Crash \/ Start \/ StartFails

\* The refresh ticker of main, and goroutines that the scheduler does not starve.
Fairness == WF_vars(RefreshStep) /\ \A u \in Users : WF_vars(OpStep(u))

Spec == Init /\ [][Next]_vars /\ Fairness

----------------------------------------------------------------------------
(* Properties.                                                             *)

\* Every variable stays in its domain; what memory holds is empty while the
\* process is down, and no step of Refresh or of a handler runs then; a file is
\* shown in directories that the mount has.
TypeOK ==
    /\ listing \in [Keys -> Paths \cup {None}]
    /\ files \in [Keys -> Paths \cup {None}]
    /\ hidden \subseteq Keys
    /\ inode \in [Names -> Nat]
    /\ nextInode \in Nat
    /\ up \in BOOLEAN
    /\ tree \subseteq MountPaths \X Keys
    /\ dirs \subseteq Dirs
    /\ shown \in [MountPaths -> Keys \cup {None}]
    /\ \A q \in MountPaths : shown[q] # None => Attached(q)
    /\ refresh \in RefreshState
    /\ op \in [Users -> OpState]
    /\ changes \in 0..MaxChanges
    /\ faults \in 0..MaxFaults
    /\ ~up => refresh = Idle /\ op = [u \in Users |-> IdleOp]

\* No two files or directories ever share an inode number, whatever inserts
\* fail and whenever the process is restarted (AssignInode, initNextInode).
InodesUnique ==
    \A m, n \in Names : m # n /\ inode[m] = inode[n] => inode[m] = 0

\* The counter the next insert will use is above every number in the table.
CounterAhead == up => \A n \in Names : inode[n] < nextInode

\* An inode number once given is never changed or withdrawn, across refreshes
\* and restarts ("stable inode numbers survive across API refreshes", db.go).
InodesStable == [][\A n \in Names : inode[n] # 0 => inode'[n] = inode[n]]_vars

\* An entry that was listed and unhidden from the beginning of a refresh on is
\* not taken from the mount by it, whatever calls fail and whatever runs beside it:
\* it goes only with the process, because a request names its key, or in the RmChild
\* of a directory above it that a request had found empty.
NoVanish ==
    [][\A q \in MountPaths :
          shown[q] # None /\ shown'[q] # shown[q] /\ up' =>
              \/ <<q, shown[q]>> \notin steady
              \/ \E u \in Users : shown[q] \in op[u].keys
              \/ \E u \in Users : /\ op[u].dir # None /\ q \in Under[op[u].dir]
                                  /\ op'[u].dir = None]_vars

\* A key that was hidden when a refresh or a start began, and that no request has
\* unhidden since, is not added to the mount by it, unless the hides could not be
\* read or the refresh could not record the file and so deleted its hide.
NoResurrection ==
    [][\A q \in MountPaths :
          shown'[q] # shown[q] => \/ shown'[q] \notin shunned
                                  \/ files[shown'[q]] = None]_vars

\* When SyncTree is done, the mount shows nothing but entries of the tree it was
\* given ("incrementally updates the FUSE inode tree to match the latest catalog
\* state", fs.go).
SyncMatchesTree ==
    [][Walking /\ refresh'.pc = "idle" /\ up' =>
          \A q \in MountPaths : shown[q] # None => <<q, shown[q]>> \in tree]_vars

\* Once the listing, the requests and the faults come to rest, a running process
\* comes to show every listed file that is not hidden, in all its places, and
\* nothing else: no lost race of a handler with SyncTree is permanent.
Settled == \A q \in MountPaths, k \in Keys : shown[q] = k <=> <<q, k>> \in Wanted
Converges == <>[](up => Settled)

=============================================================================
