------------------------- MODULE CatalogSyncProofs -------------------------
(***************************************************************************)
(* Proofs about CatalogSync, for any keys, directories, paths and bounds:  *)
(* the inode numbers, the types, and what a refresh may do to the mount.   *)
(***************************************************************************)
EXTENDS CatalogSync, TLAPS

USE DEF mount

\* The inodes table and the counter, typed.
InodeTypes == inode \in [Names -> Nat] /\ nextInode \in Nat

\* The inductive invariant: a running process's counter is above every number
\* in the table, so that an insert cannot repeat one, also after a restart.
Inv == InodeTypes /\ InodesUnique /\ CounterAhead

\* What a step may do to the table, as far as inode numbers are concerned:
\* nothing, a gap after a failed insert, one insert, a crash, or a start.
InodeStep ==
    \/ UNCHANGED <<inode, nextInode, up>>
    \/ /\ up /\ up'
       /\ inode' = inode
       /\ nextInode' = nextInode + 1
    \/ /\ up /\ up'
       /\ \E n \in Names : /\ inode[n] = 0
                           /\ inode' = [inode EXCEPT ![n] = nextInode]
       /\ nextInode' = nextInode + 1
    \/ ~up' /\ nextInode' = 0 /\ inode' = inode
    \/ /\ up' /\ inode' = inode
       /\ InitNextInode

\* Nothing of a refresh or of a request exists while the process is down.
Quiet == ~up => refresh = Idle /\ op = [u \in Users |-> IdleOp]

LEMMA AssignIsInodeStep ==
    ASSUME NEW n \in Names, up, UNCHANGED up,
           AssignInode(n) \/ AssignInodeFails(n)
    PROVE InodeStep
BY DEF AssignInode, AssignInodeFails, InodeStep, inodeVars

LEMMA QuietInit == Init => Quiet
BY DEF Init, Quiet

LEMMA RefreshRuns == Quiet /\ refresh.pc # "idle" => up
BY DEF Quiet, Idle

LEMMA RequestRuns ==
    ASSUME NEW u \in Users, Quiet, op[u].pc # "idle" \/ op[u].dir # None
    PROVE up
BY DEF Quiet, IdleOp

LEMMA RefreshStepInodes == Quiet /\ RefreshStep => InodeStep /\ Quiet' /\ up
<1> SUFFICES ASSUME Quiet, RefreshStep
             PROVE InodeStep /\ Quiet' /\ up
    OBVIOUS
<1>1. \A k \in Keys : k \in Names
    BY DEF Names
<1>2. \A d \in Dirs : d \in Names
    BY DEF Names
<1>3. CASE StartRefresh
    BY <1>3 DEF StartRefresh, InodeStep, inodeVars, Quiet
<1>4. CASE ListKind \/ ListFails \/ ReplaceFiles \/ ReplaceFails \/ EndRefresh
    <2>1. up
        BY <1>4, RefreshRuns DEF ListKind, ListFails, ReplaceFiles, ReplaceFails,
                                 EndRefresh, Walking
    <2>2. UNCHANGED <<inode, nextInode, up>>
        BY <1>4 DEF ListKind, ListFails, ReplaceFiles, ReplaceFails, EndRefresh, inodeVars
    <2> QED BY <2>1, <2>2 DEF InodeStep, Quiet
<1>5. CASE ReadHidden \/ ReadHiddenFails
    <2>1. up
        BY <1>5, RefreshRuns DEF ReadHidden, ReadHiddenFails, Swap
    <2>2. UNCHANGED <<inode, nextInode, up>>
        BY <1>5 DEF ReadHidden, ReadHiddenFails, Swap, inodeVars
    <2> QED BY <2>1, <2>2 DEF InodeStep, Quiet
<1>6. ASSUME NEW k \in Keys, Assign(k) \/ AssignFails(k)
      PROVE InodeStep /\ Quiet' /\ up
    <2>1. up /\ UNCHANGED up
        BY <1>6, RefreshRuns DEF Assign, AssignFails
    <2>2. AssignInode(k) \/ AssignInodeFails(k)
        BY <1>6 DEF Assign, AssignFails
    <2> QED BY <1>1, <2>1, <2>2, AssignIsInodeStep DEF Quiet
<1>7. ASSUME NEW d \in Dirs, SyncDir(d) \/ SyncDirFails(d)
      PROVE InodeStep /\ Quiet' /\ up
    <2>1. up /\ UNCHANGED up
        BY <1>7, RefreshRuns DEF SyncDir, SyncDirFails, Walking
    <2>2. UNCHANGED <<inode, nextInode>> \/ AssignInode(d) \/ AssignInodeFails(d)
        BY <1>7 DEF SyncDir, SyncDirFails, AddDir, DropDir, inodeVars
    <2>3. InodeStep
        BY <1>2, <2>1, <2>2, AssignIsInodeStep DEF InodeStep
    <2> QED BY <2>1, <2>3 DEF Quiet
<1>8. ASSUME NEW q \in MountPaths, SyncEntry(q) \/ SyncEntryFails(q)
      PROVE InodeStep /\ Quiet' /\ up
    <2>1. up /\ UNCHANGED up
        BY <1>8, RefreshRuns DEF SyncEntry, SyncEntryFails, Walking
    <2>2. \/ UNCHANGED <<inode, nextInode>>
          \/ \E k \in Keys : AssignInode(k) \/ AssignInodeFails(k)
        BY <1>8 DEF SyncEntry, SyncEntryFails, DropEntry, AddEntry, inodeVars
    <2>3. InodeStep
        BY <1>1, <2>1, <2>2, AssignIsInodeStep DEF InodeStep
    <2> QED BY <2>1, <2>3 DEF Quiet
<1> QED BY <1>3, <1>4, <1>5, <1>6, <1>7, <1>8 DEF RefreshStep

LEMMA RequestStepInodes ==
    ASSUME NEW u \in Users, Quiet, OpStep(u) \/ Request(u)
    PROVE InodeStep /\ Quiet' /\ up
<1>1. CASE OpStep(u)
    <2>1. up
        BY <1>1, RequestRuns DEF OpStep, HideFile, HideFileFails, RemoveKeys,
                                 PruneEmptyDirs, RmChild, Kick
    <2>2. UNCHANGED <<inode, nextInode, up>>
        BY <1>1 DEF OpStep, HideFile, HideFileFails, RemoveKeys, PruneEmptyDirs, RmChild,
                    Kick, inodeVars
    <2> QED BY <2>1, <2>2 DEF InodeStep, Quiet
<1>2. CASE Request(u)
    <2>1. up
        BY <1>2 DEF Request, Unlink, Rmdir, UnhideDownload, DeleteDownload, Serve
    <2>2. UNCHANGED <<inode, nextInode, up>>
        BY <1>2 DEF Request, Unlink, Rmdir, UnhideDownload, DeleteDownload, inodeVars
    <2> QED BY <2>1, <2>2 DEF InodeStep, Quiet
<1> QED BY <1>1, <1>2

LEMMA StartInodes ==
    ASSUME Start \/ StartFails
    PROVE InodeStep /\ Quiet'
BY DEF Start, StartFails, Load, StartSync, InodeStep, Quiet

LEMMA NextInodes == Quiet /\ [Next]_vars => InodeStep /\ Quiet'
<1> SUFFICES ASSUME Quiet, [Next]_vars
             PROVE InodeStep /\ Quiet'
    OBVIOUS
<1>1. CASE RefreshStep
    BY <1>1, RefreshStepInodes
<1>2. CASE \E u \in Users : OpStep(u) \/ Request(u)
    BY <1>2, RequestStepInodes
<1>3. CASE \E k \in Keys : Relist(k)
    BY <1>3 DEF Relist, InodeStep, inodeVars, Quiet
<1>4. CASE Crash
    BY <1>4 DEF Crash, InodeStep, Quiet
<1>5. CASE Start \/ StartFails
    BY <1>5, StartInodes
<1>6. CASE UNCHANGED vars
    BY <1>6 DEF vars, InodeStep, Quiet
<1> QED BY <1>1, <1>2, <1>3, <1>4, <1>5, <1>6 DEF Next

\* An insert uses a number above all others, a start puts the counter there.
LEMMA InvStep == Inv /\ InodeStep => Inv'
<1> SUFFICES ASSUME Inv, InodeStep
             PROVE Inv'
    OBVIOUS
<1> USE DEF Inv, InodeTypes, InodesUnique, CounterAhead
<1>1. CASE UNCHANGED <<inode, nextInode, up>>
    BY <1>1
<1>2. CASE up /\ up' /\ inode' = inode /\ nextInode' = nextInode + 1
    BY <1>2
<1>3. CASE /\ up /\ up' /\ nextInode' = nextInode + 1
           /\ \E n \in Names : /\ inode[n] = 0
                               /\ inode' = [inode EXCEPT ![n] = nextInode]
    BY <1>3
<1>4. CASE ~up' /\ nextInode' = 0 /\ inode' = inode
    BY <1>4
<1>5. CASE up' /\ inode' = inode /\ InitNextInode
    BY <1>5 DEF InitNextInode
<1> QED BY <1>1, <1>2, <1>3, <1>4, <1>5 DEF InodeStep

LEMMA InvInit == Init => Inv
BY DEF Init, Inv, InodeTypes, InodesUnique, CounterAhead

LEMMA Invariance == Spec => [](Inv /\ Quiet)
<1>1. Inv /\ Quiet /\ [Next]_vars => (Inv /\ Quiet)'
    BY NextInodes, InvStep
<1> QED BY <1>1, InvInit, QuietInit, PTL DEF Spec

\* No two files or directories share an inode number, whatever inserts fail and
\* whenever the process dies and comes back (AssignInode, initNextInode).
THEOREM InodesNeverShared == Spec => []InodesUnique
<1>1. Inv => InodesUnique
    BY DEF Inv
<1> QED BY <1>1, Invariance, PTL

\* An inode number once given is never changed or withdrawn: not by a refresh
\* that lists the file no longer, not by a failed insert, not by a restart.
THEOREM InodesKept == Spec => InodesStable
<1>1. Inv /\ Quiet /\ [Next]_vars
        => [\A n \in Names : inode[n] # 0 => inode'[n] = inode[n]]_vars
    <2> SUFFICES ASSUME Inv, Quiet, [Next]_vars, NEW n \in Names, inode[n] # 0
                 PROVE inode'[n] = inode[n]
        OBVIOUS
    <2>1. InodeStep
        BY NextInodes
    <2> QED BY <2>1 DEF Inv, InodeTypes, InodeStep
<1> QED BY <1>1, Invariance, PTL DEF Spec, InodesStable

----------------------------------------------------------------------------
(* Trees.                                                                  *)

LEMMA EntryOf ==
    ASSUME NEW at, NEW e \in Entries(at)
    PROVE  /\ e = <<e[1], e[2]>>
           /\ e[2] \in Keys /\ at[e[2]] # None
           /\ \/ e[1] = at[e[2]]
              \/ e[1] = AllOf[at[e[2]]] /\ e[1] # None
BY DEF Entries, MainEntries, AllEntries

\* Whether a file has an entry depends on where that file is listed alone.
LEMMA EntryLocal ==
    ASSUME NEW at, NEW bt, NEW e \in Entries(at), at[e[2]] = bt[e[2]]
    PROVE  e \in Entries(bt)
<1>1. /\ e = <<e[1], e[2]>> /\ e[2] \in Keys /\ bt[e[2]] # None
      /\ e[1] = bt[e[2]] \/ (e[1] = AllOf[bt[e[2]]] /\ e[1] # None)
    BY EntryOf
<1> DEFINE q == e[1]
           k == e[2]
<1>2. e = <<q, k>> /\ k \in Keys /\ bt[k] # None
      /\ (q = bt[k] \/ (q = AllOf[bt[k]] /\ q # None))
    BY <1>1
<1> HIDE DEF q, k
<1> QED BY <1>2 DEF Entries, MainEntries, AllEntries

\* A mount path that BuildTree may give to the file with key k.
Owned(q, k) == \E p \in PathsOf[k] : q = p \/ q = AllOf[p]

LEMMA EntriesPlaced ==
    ASSUME NEW at \in Located, NEW e \in Entries(at)
    PROVE  e \in MountPaths \X Keys /\ Owned(e[1], e[2])
<1> DEFINE q == e[1]
           k == e[2]
<1>1. /\ e = <<q, k>> /\ k \in Keys /\ at[k] # None
      /\ q = at[k] \/ (q = AllOf[at[k]] /\ q # None)
    BY EntryOf
<1> HIDE DEF q, k
<1>2. at[k] \in PathsOf[k] /\ at[k] \in Paths
    BY <1>1, CatalogAssumption DEF Located
<1>3. q \in MountPaths
    BY <1>1, <1>2, CatalogAssumption DEF MountPaths
<1>4. Owned(q, k)
    BY <1>1, <1>2 DEF Owned
<1> QED BY <1>1, <1>3, <1>4 DEF q, k

LEMMA DBEntriesPlaced ==
    ASSUME files \in Located, NEW first \in FirstRecord, NEW e \in EntriesFromDB(first)
    PROVE  e \in MountPaths \X Keys /\ Owned(e[1], e[2])
<1>1. PICK d \in Entries(files) :
          e = <<d[1], IF d[1] \in Paths THEN d[2] ELSE first[files[d[2]]]>>
    BY DEF EntriesFromDB
<1> DEFINE q == d[1]
           k == d[2]
<1>2. /\ k \in Keys /\ files[k] # None
      /\ q = files[k] \/ (q = AllOf[files[k]] /\ q # None)
      /\ q \in MountPaths /\ Owned(q, k)
    BY EntryOf, EntriesPlaced
<1> DEFINE p == files[k]
           j == first[p]
<1>3. e = <<q, IF q \in Paths THEN k ELSE j>>
    BY <1>1
<1> HIDE DEF q, k
<1>4. p \in Paths
    BY <1>2 DEF Located
<1>5. j \in Keys /\ files[j] = p
    BY <1>2, <1>4 DEF FirstRecord
<1>6. CASE q \in Paths
    BY <1>2, <1>3, <1>6
<1>7. CASE q \notin Paths
    <2>1. e = <<q, j>> /\ q = AllOf[p]
        BY <1>2, <1>3, <1>4, <1>7
    <2>2. p \in PathsOf[j]
        BY <1>2, <1>5 DEF Located
    <2> QED BY <1>2, <1>5, <2>1, <2>2 DEF Owned
<1> QED BY <1>6, <1>7

----------------------------------------------------------------------------
(* The types.                                                              *)

\* Every list of paths comes from the API's data, and so does every entry.
Placed ==
    /\ listing \in Located /\ files \in Located /\ hidden \subseteq Keys
    /\ refresh \in RefreshState /\ refresh.built \in Located
    /\ tree \subseteq MountPaths \X Keys /\ \A e \in tree : Owned(e[1], e[2])
    /\ dirs \subseteq Dirs /\ shown \in [MountPaths -> Keys \cup {None}]
    /\ \A q \in MountPaths : shown[q] # None => Owned(q, shown[q]) /\ Attached(q)

\* The rest of the types: the requests, the bounds and the process.
Served ==
    /\ op \in [Users -> OpState]
    /\ changes \in 0..MaxChanges /\ faults \in 0..MaxFaults
    /\ up \in BOOLEAN

LEMMA IdleTyped == Idle \in RefreshState /\ Idle.built \in Located /\ Idle.pc = "idle"
<1>1. NoPaths \in [Keys -> Paths \cup {None}] /\ NoPaths \in Located /\ 1 \in 1..Kinds
    BY CatalogAssumption DEF NoPaths, Located
<1> HIDE DEF NoPaths
<1> QED BY <1>1 DEF Idle, RefreshState, NoPaths

LEMMA SyncStarts ==
    ASSUME StartSync
    PROVE  /\ refresh' \in RefreshState /\ refresh'.built \in Located
           /\ refresh'.pc = "sync" /\ refresh'.todo = MountPaths \cup Dirs
BY IdleTyped DEF StartSync, Idle, RefreshState

\* The refresh goes on with what it has to do.
LEMMA GoOn ==
    ASSUME Placed, NEW set, NEW recs \in SUBSET Keys,
           refresh' = [refresh EXCEPT !.todo = @ \ set, !.recs = recs]
           \/ refresh' = [refresh EXCEPT !.todo = @ \ set]
    PROVE  /\ refresh' \in RefreshState /\ refresh'.built = refresh.built
           /\ refresh'.pc = refresh.pc /\ refresh'.todo = refresh.todo \ set
           /\ refresh'.kind = refresh.kind
<1>1. refresh \in RefreshState
    BY DEF Placed
<1> QED BY <1>1 DEF RefreshState

LEMMA PlacedInit == Init => Placed
<1> SUFFICES ASSUME Init PROVE Placed
    OBVIOUS
<1>1. NoPaths \in Located
    BY IdleTyped DEF Idle
<1> QED BY <1>1, IdleTyped DEF Init, Placed

\* A step that leaves the listing, the tables, the tree and the mount alone.
LEMMA OnlyRefresh ==
    ASSUME Placed, UNCHANGED <<listing, files, hidden, tree, dirs, shown>>,
           refresh' \in RefreshState, refresh'.built \in Located
    PROVE  Placed'
BY DEF Placed, Attached

\* A directory is detached: no file loses a directory above it and stays.
LEMMA DetachPlaced ==
    ASSUME Placed, NEW d \in Dirs, Detach(d)
    PROVE  /\ dirs' \subseteq Dirs /\ shown' \in [MountPaths -> Keys \cup {None}]
           /\ \A q \in MountPaths : shown'[q] \in {shown[q], None}
           /\ \A q \in MountPaths : shown'[q] # None => Owned(q, shown'[q]) /\ Attached(q)'
<1>1. dirs' \subseteq Dirs /\ shown' \in [MountPaths -> Keys \cup {None}]
    BY DEF Placed, Detach
<1>2. \A q \in MountPaths : shown'[q] \in {shown[q], None}
    BY DEF Detach
<1>3. ASSUME NEW q \in MountPaths, shown'[q] # None
      PROVE  Owned(q, shown'[q]) /\ Attached(q)'
    <2>1. q \notin Under[d] /\ shown'[q] = shown[q]
        BY <1>3 DEF Detach
    <2>2. Owned(q, shown[q]) /\ Attached(q)
        BY <1>3, <2>1 DEF Placed
    <2>3. ASSUME NEW e \in Dirs, q \in Under[e] PROVE e \in dirs'
        <3>1. e \in dirs /\ e # d
            BY <2>1, <2>2, <2>3 DEF Attached
        <3>2. e \notin Under[d]
            BY <2>1, <2>3, CatalogAssumption
        <3> QED BY <3>1, <3>2 DEF Detach
    <2> QED BY <2>1, <2>2, <2>3 DEF Attached
<1> QED BY <1>1, <1>2, <1>3

LEMMA ListingPlaced ==
    ASSUME Placed, StartRefresh \/ ListKind \/ ListFails \/ ReplaceFails \/ EndRefresh
    PROVE  Placed'
<1>0. refresh \in RefreshState /\ refresh.built \in Located /\ listing \in Located
    BY DEF Placed
<1>a. UNCHANGED <<listing, files, hidden, tree, dirs, shown>>
    BY DEF StartRefresh, ListKind, ListFails, ReplaceFails, EndRefresh, dbVars
<1>1. CASE StartRefresh
    <2>1. refresh' = [Idle EXCEPT !.pc = "list"]
        BY <1>1 DEF StartRefresh, Begin
    <2>2. refresh' \in RefreshState /\ refresh'.built = Idle.built
        BY <2>1, IdleTyped DEF RefreshState
    <2> QED BY <1>a, <2>2, IdleTyped, OnlyRefresh
<1>2. CASE ListKind
    <2> DEFINE got == [k \in Keys |-> IF KindOf[k] = refresh.kind THEN listing[k]
                                                                  ELSE refresh.built[k]]
               todo == {k \in Keys : got[k] # None}
    <2>1. got \in Located /\ got \in [Keys -> Paths \cup {None}]
        BY <1>0 DEF Located
    <2>2. todo \in SUBSET (Keys \cup MountPaths)
        OBVIOUS
    <2>3. refresh' = IF LastKind
                     THEN [refresh EXCEPT !.built = got, !.pc = "assign", !.todo = todo]
                     ELSE [refresh EXCEPT !.built = got, !.kind = @ + 1]
        BY <1>2 DEF ListKind
    <2> HIDE DEF got, todo
    <2>4. CASE LastKind
        <3>1. refresh' = [refresh EXCEPT !.built = got, !.pc = "assign", !.todo = todo]
            BY <2>3, <2>4
        <3>2. refresh' \in RefreshState /\ refresh'.built = got
            BY <1>0, <2>1, <2>2, <3>1 DEF RefreshState
        <3> QED BY <1>a, <2>1, <3>2, OnlyRefresh
    <2>5. CASE ~LastKind
        <3>1. refresh' = [refresh EXCEPT !.built = got, !.kind = @ + 1]
            BY <2>3, <2>5
        <3>2. refresh.kind \in 1..Kinds /\ refresh.kind # Kinds
            BY <1>0, <2>5 DEF RefreshState, LastKind
        <3>3. refresh.kind + 1 \in 1..Kinds
            BY <3>2, CatalogAssumption
        <3>4. refresh' \in RefreshState /\ refresh'.built = got
            BY <1>0, <2>1, <3>1, <3>3 DEF RefreshState
        <3> QED BY <1>a, <2>1, <3>4, OnlyRefresh
    <2> QED BY <2>4, <2>5
<1>3. CASE ListFails \/ ReplaceFails \/ EndRefresh
    <2>1. refresh' = Idle
        BY <1>3 DEF ListFails, ReplaceFails, EndRefresh
    <2> QED BY <1>a, <2>1, IdleTyped, OnlyRefresh
<1> QED BY <1>1, <1>2, <1>3

LEMMA AssignPlaced ==
    ASSUME Placed, NEW k \in Keys, Assign(k) \/ AssignFails(k)
    PROVE  Placed'
<1>1. UNCHANGED <<listing, files, hidden, tree, dirs, shown>> /\ refresh.built \in Located
    BY DEF Assign, AssignFails, dbVars, Placed
<1>2. refresh.recs \cup {k} \in SUBSET Keys
    BY DEF Placed, RefreshState
<1>3. \/ refresh' = [refresh EXCEPT !.todo = @ \ {k}, !.recs = refresh.recs \cup {k}]
      \/ refresh' = [refresh EXCEPT !.todo = @ \ {k}]
    BY DEF Assign, AssignFails
<1>4. refresh' \in RefreshState /\ refresh'.built = refresh.built
    BY <1>2, <1>3, GoOn
<1> QED BY <1>1, <1>4, OnlyRefresh

LEMMA ReplacePlaced ==
    ASSUME Placed, ReplaceFiles
    PROVE  Placed'
<1>0. refresh \in RefreshState /\ refresh.built \in Located
    BY DEF Placed
<1> DEFINE new == [k \in Keys |-> IF k \in refresh.recs THEN refresh.built[k] ELSE None]
<1>1. new \in Located
    BY <1>0 DEF Located
<1> HIDE DEF new
<1>2. /\ files' = new /\ hidden' = hidden \cap refresh.recs
      /\ refresh' = [refresh EXCEPT !.pc = "read", !.recs = {}]
      /\ UNCHANGED <<listing, tree, dirs, shown>>
    BY DEF ReplaceFiles, new
<1>3. refresh' \in RefreshState /\ refresh'.built = refresh.built
    BY <1>0, <1>2 DEF RefreshState
<1>4. hidden' \subseteq Keys
    BY <1>2 DEF Placed
<1> QED BY <1>0, <1>1, <1>2, <1>3, <1>4 DEF Placed, Attached

\* A new tree is taken over, from the API's data or from the database.
LEMMA NewTreePlaced ==
    ASSUME Placed, NEW entries, NEW set,
           \A e \in entries : e \in MountPaths \X Keys /\ Owned(e[1], e[2]),
           tree' = ApplyHides(entries, set),
           StartSync, UNCHANGED <<listing, files, hidden, dirs, shown>>
    PROVE  Placed'
<1>1. refresh' \in RefreshState /\ refresh'.built \in Located
    BY SyncStarts
<1>2. tree' \subseteq entries
    BY DEF ApplyHides
<1> QED BY <1>1, <1>2 DEF Placed, Attached

LEMMA TreePlaced ==
    ASSUME Placed, ReadHidden \/ ReadHiddenFails \/ Start \/ StartFails
    PROVE  Placed'
<1>1. ASSUME NEW set, Swap(set) PROVE Placed'
    <2>1. \A e \in Entries(refresh.built) : e \in MountPaths \X Keys /\ Owned(e[1], e[2])
        BY EntriesPlaced DEF Placed
    <2> QED BY <1>1, <2>1, NewTreePlaced DEF Swap, dbVars
<1>2. ASSUME NEW first \in FirstRecord, NEW set, Load(EntriesFromDB(first), set)
      PROVE  Placed'
    <2>1. \A e \in EntriesFromDB(first) : e \in MountPaths \X Keys /\ Owned(e[1], e[2])
        BY DBEntriesPlaced DEF Placed
    <2> QED BY <1>2, <2>1, NewTreePlaced DEF Load, dbVars
<1>3. ASSUME NEW set, Load({}, set) PROVE Placed'
    BY <1>3, NewTreePlaced DEF Load, dbVars
<1> QED BY <1>1, <1>2, <1>3 DEF ReadHidden, ReadHiddenFails, Start, StartFails

LEMMA SyncPlaced ==
    ASSUME Placed,
           \/ \E d \in Dirs : SyncDir(d) \/ SyncDirFails(d)
           \/ \E q \in MountPaths : SyncEntry(q) \/ SyncEntryFails(q)
    PROVE  Placed'
<1>0. UNCHANGED <<listing, files, hidden, tree>> /\ refresh.built \in Located
    BY DEF SyncDir, SyncDirFails, SyncEntry, SyncEntryFails, dbVars, Placed
<1>1. ASSUME NEW set, Skip(set) PROVE refresh' \in RefreshState /\ refresh'.built \in Located
    <2>1. refresh' \in RefreshState /\ refresh'.built = refresh.built
        BY <1>1, GoOn DEF Skip
    <2> QED BY <1>0, <2>1
<1>2. ASSUME NEW d \in Dirs, SyncDir(d) \/ SyncDirFails(d) PROVE Placed'
    <2>1. /\ Skip({d}) \/ Skip({d} \cup Under[d])
          /\ \/ Detach(d)
             \/ UNCHANGED <<dirs, shown>>
             \/ UNCHANGED shown /\ dirs' = dirs \cup {d}
        BY <1>2 DEF SyncDir, SyncDirFails, AddDir, DropDir
    <2>2. refresh' \in RefreshState /\ refresh'.built \in Located
        BY <1>1, <2>1
    <2>3. CASE Detach(d)
        BY <1>0, <2>2, <2>3, DetachPlaced DEF Placed
    <2>4. CASE UNCHANGED shown /\ dirs \subseteq dirs' /\ dirs' \subseteq dirs \cup {d}
        BY <1>0, <2>2, <2>4 DEF Placed, Attached
    <2> QED BY <2>1, <2>3, <2>4
<1>3. ASSUME NEW q \in MountPaths, SyncEntry(q) \/ SyncEntryFails(q) PROVE Placed'
    <2>1. Skip({q})
        BY <1>3 DEF SyncEntry, SyncEntryFails
    <2>2. refresh' \in RefreshState /\ refresh'.built \in Located
        BY <1>1, <2>1
    <2>3. \/ UNCHANGED shown
          \/ shown' = [shown EXCEPT ![q] = None]
          \/ \E k \in Keys : /\ <<q, k>> \in tree /\ Attached(q)
                             /\ shown' = [shown EXCEPT ![q] = k]
        BY <1>3 DEF SyncEntry, SyncEntryFails, DropEntry, AddEntry
    <2>4. /\ \A k \in Keys : <<q, k>> \in tree => Owned(q, k)
          /\ dirs' = dirs
        BY <1>3 DEF Placed, SyncEntry, SyncEntryFails
    <2>5. /\ shown' \in [MountPaths -> Keys \cup {None}]
          /\ \A p \in MountPaths : shown'[p] # None => Owned(p, shown'[p]) /\ Attached(p)
        BY <2>3, <2>4 DEF Placed
    <2>6. \A p \in MountPaths : Attached(p)' <=> Attached(p)
        BY <2>4 DEF Attached
    <2> QED BY <1>0, <2>2, <2>4, <2>5, <2>6 DEF Placed
<1> QED BY <1>2, <1>3

LEMMA RequestPlaced ==
    ASSUME Placed, Served, NEW u \in Users, OpStep(u) \/ Request(u)
    PROVE  Placed'
<1>1. ASSUME UNCHANGED <<listing, files, tree, dirs, shown, refresh>>, hidden' \subseteq Keys
      PROVE  Placed'
    BY <1>1 DEF Placed, Attached
<1>2. ASSUME NEW k \in Keys, HideFile(u, k) \/ HideFileFails(u, k) PROVE Placed'
    BY <1>1, <1>2 DEF HideFile, HideFileFails, dbVars, Placed
<1>3. ASSUME NEW place, RemoveKeys(u, place) PROVE Placed'
    <2>1. /\ UNCHANGED <<listing, files, hidden, tree, dirs, refresh>>
          /\ shown' \in [MountPaths -> Keys \cup {None}]
          /\ \A q \in MountPaths : shown'[q] # None => shown'[q] = shown[q]
        BY <1>3 DEF RemoveKeys, dbVars, Placed
    <2> QED BY <2>1 DEF Placed, Attached
<1>a. ASSUME NEW d \in Dirs, PruneEmptyDirs(u, d) PROVE Placed'
    BY <1>1, <1>a DEF PruneEmptyDirs, dbVars, Placed
<1>4. CASE RmChild(u)
    <2>1. UNCHANGED <<listing, files, hidden, tree, refresh>>
        BY <1>4 DEF RmChild, dbVars
    <2>2. op[u].dir \in Dirs /\ Detach(op[u].dir)
        BY <1>4 DEF RmChild, Served, OpState
    <2> QED BY <2>1, <2>2, DetachPlaced DEF Placed
<1>5. CASE Kick(u)
    <2>1. UNCHANGED <<listing, files, hidden, tree, dirs, shown>>
        BY <1>5 DEF Kick, dbVars
    <2>2. refresh' = refresh \/ refresh' = [Idle EXCEPT !.pc = "list"]
        BY <1>5 DEF Kick, Begin
    <2>3. refresh' \in RefreshState /\ refresh'.built \in Located
        BY <2>2, IdleTyped DEF RefreshState, Placed
    <2> QED BY <2>1, <2>3, OnlyRefresh
<1>6. ASSUME NEW q \in MountPaths, Unlink(u, q) PROVE Placed'
    BY <1>1, <1>6 DEF Unlink, dbVars, Placed
<1>7. ASSUME NEW d \in Dirs, Rmdir(u, d) PROVE Placed'
    BY <1>1, <1>7 DEF Rmdir, dbVars, Placed
<1>8. ASSUME NEW d \in Downloads, UnhideDownload(u, d) PROVE Placed'
    BY <1>1, <1>8 DEF UnhideDownload, Placed
<1>9. ASSUME NEW d \in Downloads, DeleteDownload(u, d) PROVE Placed'
    <2> DEFINE new == [k \in Keys |-> IF k \in d THEN None ELSE listing[k]]
    <2>1. new \in Located
        BY DEF Placed, Located
    <2> HIDE DEF new
    <2>2. listing' \in {listing, new} /\ UNCHANGED <<files, hidden, tree, dirs, shown, refresh>>
        BY <1>9 DEF DeleteDownload, dbVars, new
    <2> QED BY <2>1, <2>2 DEF Placed, Attached
<1> QED BY <1>a, <1>2, <1>3, <1>4, <1>5, <1>6, <1>7, <1>8, <1>9 DEF OpStep, Request

LEMMA NextPlaced == Placed /\ Served /\ [Next]_vars => Placed'
<1> SUFFICES ASSUME Placed, Served, [Next]_vars PROVE Placed'
    OBVIOUS
<1>1. CASE RefreshStep
    BY <1>1, ListingPlaced, AssignPlaced, ReplacePlaced, TreePlaced, SyncPlaced
       DEF RefreshStep
<1>2. CASE \E u \in Users : OpStep(u) \/ Request(u)
    BY <1>2, RequestPlaced
<1>3. ASSUME NEW k \in Keys, Relist(k) PROVE Placed'
    <2>1. PICK p \in PathsOf[k] \cup {None} : listing' = [listing EXCEPT ![k] = p]
        BY <1>3 DEF Relist
    <2>2. listing' \in Located
        BY <2>1, CatalogAssumption DEF Placed, Located
    <2> QED BY <1>3, <2>2 DEF Relist, dbVars, Placed, Attached
<1>4. CASE Crash
    <2>1. /\ refresh' = Idle /\ tree' = {} /\ dirs' = {} /\ shown' = [q \in MountPaths |-> None]
          /\ UNCHANGED <<listing, files, hidden>>
        BY <1>4 DEF Crash, dbVars
    <2> QED BY <2>1, IdleTyped DEF Placed
<1>5. CASE Start \/ StartFails
    BY <1>5, TreePlaced
<1>6. CASE UNCHANGED vars
    BY <1>6 DEF vars, Placed, Attached
<1> QED BY <1>1, <1>2, <1>3, <1>4, <1>5, <1>6 DEF Next

LEMMA IdleOpTyped == IdleOp \in OpState
BY DEF IdleOp, OpState

\* A request that is taken on, with keys of the catalogue.
LEMMA ServeTyped ==
    ASSUME Served, NEW u \in Users, NEW request \in OpState, Serve(u, request)
    PROVE  op' \in [Users -> OpState] /\ changes' \in 0..MaxChanges
<1>1. op' \in [Users -> OpState]
    BY DEF Served, Serve
<1>2. changes' \in 0..MaxChanges
    BY CatalogAssumption DEF Served, Serve, Change
<1> QED BY <1>1, <1>2

LEMMA OpStepServed ==
    ASSUME Served, NEW u \in Users, OpStep(u)
    PROVE  op' \in [Users -> OpState]
<1>0. op \in [Users -> OpState] /\ op[u] \in OpState
    BY DEF Served
<1>1. ASSUME NEW k \in Keys, AfterHide(u, k) PROVE op' \in [Users -> OpState]
    <2> DEFINE todo == IF op[u].todo = {k} THEN {"main", "all"} ELSE op[u].todo \ {k}
               l == IF op[u].todo = {k} THEN "remove" ELSE op[u].pc
               x == [op[u] EXCEPT !.todo = todo, !.pc = l]
    <2>1. op' = [op EXCEPT ![u] = x]
        BY <1>0, <1>1 DEF AfterHide
    <2>2. /\ todo \in SUBSET (Keys \cup {"main", "all"} \cup Dirs)
          /\ l \in {"idle", "hide", "remove", "prune", "kick"}
        BY <1>0 DEF OpState
    <2> HIDE DEF todo, l
    <2>3. x \in OpState
        BY <1>0, <2>2 DEF OpState
    <2> QED BY <1>0, <2>1, <2>3
<1>2. ASSUME NEW place, RemoveKeys(u, place) PROVE op' \in [Users -> OpState]
    <2> DEFINE x == [op[u] EXCEPT !.todo = @ \ {place}]
               y == [IdleOp EXCEPT !.pc = "prune", !.todo = Dirs]
    <2>1. op' = [op EXCEPT ![u] = x] \/ op' = [op EXCEPT ![u] = y]
        BY <1>0, <1>2 DEF RemoveKeys
    <2>2. x \in OpState
        BY <1>0 DEF OpState
    <2>3. y \in OpState
        BY DEF IdleOp, OpState
    <2> HIDE DEF x, y
    <2> QED BY <1>0, <2>1, <2>2, <2>3
<1>a. ASSUME NEW rest \in SUBSET op[u].todo, NEW dir \in Dirs \cup {None}, Prune(u, rest, dir)
      PROVE  op' \in [Users -> OpState]
    <2> DEFINE x == [op[u] EXCEPT !.todo = rest, !.dir = dir]
    <2>1. op' = [op EXCEPT ![u] = IdleOp] \/ op' = [op EXCEPT ![u] = x]
        BY <1>0, <1>a DEF Prune
    <2>2. x \in OpState
        BY <1>0 DEF OpState
    <2> HIDE DEF x
    <2> QED BY <1>0, <2>1, <2>2, IdleOpTyped
<1>b. ASSUME NEW d \in Dirs, PruneEmptyDirs(u, d) PROVE op' \in [Users -> OpState]
    BY <1>a, <1>b DEF PruneEmptyDirs
<1>c. CASE RmChild(u)
    BY <1>a, <1>c DEF RmChild
<1>3. ASSUME op' = [op EXCEPT ![u] = IdleOp] PROVE op' \in [Users -> OpState]
    BY <1>0, <1>3, IdleOpTyped
<1> QED BY <1>0, <1>1, <1>2, <1>3, <1>b, <1>c
       DEF OpStep, HideFile, HideFileFails, Kick

LEMMA RequestServed ==
    ASSUME Served, Placed, NEW u \in Users, Request(u)
    PROVE  op' \in [Users -> OpState] /\ changes' \in 0..MaxChanges
<1>0. \A q \in MountPaths : shown[q] \in Keys \cup {None}
    BY DEF Placed
<1>1. ASSUME NEW keys \in SUBSET Keys, NEW rmdir \in BOOLEAN
      PROVE  [IdleOp EXCEPT !.pc = "hide", !.keys = keys, !.todo = keys, !.rmdir = rmdir]
               \in OpState
    BY DEF IdleOp, OpState
<1>2. ASSUME NEW q \in MountPaths, Unlink(u, q)
      PROVE  op' \in [Users -> OpState] /\ changes' \in 0..MaxChanges
    <2> DEFINE x == [IdleOp EXCEPT !.pc = "hide", !.keys = {shown[q]}, !.todo = {shown[q]}]
    <2>1. Serve(u, x) /\ shown[q] \in Keys
        BY <1>0, <1>2 DEF Unlink
    <2>2. x \in OpState
        BY <2>1 DEF IdleOp, OpState
    <2> HIDE DEF x
    <2> QED BY <2>1, <2>2, ServeTyped
<1>3. ASSUME NEW d \in Dirs, Rmdir(u, d)
      PROVE  op' \in [Users -> OpState] /\ changes' \in 0..MaxChanges
    <2> DEFINE keys == FileKeys(d)
               x == [IdleOp EXCEPT !.pc = "hide", !.keys = keys, !.todo = keys, !.rmdir = TRUE]
               y == [IdleOp EXCEPT !.pc = "prune", !.dir = d]
    <2>1. Serve(u, x) \/ Serve(u, y)
        BY <1>3 DEF Rmdir
    <2>2. keys \in SUBSET Keys
        BY <1>0, CatalogAssumption DEF FileKeys
    <2> HIDE DEF keys
    <2>3. x \in OpState
        BY <1>1, <2>2
    <2>4. y \in OpState
        BY DEF IdleOp, OpState
    <2> HIDE DEF x, y
    <2> QED BY <2>1, <2>3, <2>4, ServeTyped
<1>4. ASSUME NEW d \in Downloads, UnhideDownload(u, d) \/ DeleteDownload(u, d)
      PROVE  op' \in [Users -> OpState] /\ changes' \in 0..MaxChanges
    <2> DEFINE x == [IdleOp EXCEPT !.pc = "kick"]
    <2>1. Serve(u, x)
        BY <1>4 DEF UnhideDownload, DeleteDownload
    <2>2. x \in OpState
        BY DEF IdleOp, OpState
    <2> HIDE DEF x
    <2> QED BY <2>1, <2>2, ServeTyped
<1> QED BY <1>2, <1>3, <1>4 DEF Request

LEMMA NextServed == Served /\ Placed /\ [Next]_vars => Served'
<1> SUFFICES ASSUME Served, Placed, [Next]_vars PROVE Served'
    OBVIOUS
<1>a. Fault => faults' \in 0..MaxFaults
    BY CatalogAssumption DEF Served, Fault
<1>b. Change => changes' \in 0..MaxChanges
    BY CatalogAssumption DEF Served, Change
<1>1. CASE RefreshStep
    <2>1. UNCHANGED <<op, changes, up>> /\ (Fault \/ UNCHANGED faults)
        BY <1>1 DEF RefreshStep, StartRefresh, ListKind, ListFails, ReplaceFiles, ReplaceFails,
                    ReadHidden, ReadHiddenFails, Swap, EndRefresh, Assign, AssignFails,
                    SyncDir, SyncDirFails, SyncEntry, SyncEntryFails, AssignInodeFails
    <2> QED BY <1>a, <2>1 DEF Served
<1>2. ASSUME NEW u \in Users, OpStep(u) PROVE Served'
    <2>1. UNCHANGED <<changes, up>> /\ (Fault \/ UNCHANGED faults)
        BY <1>2 DEF OpStep, HideFile, HideFileFails, RemoveKeys, PruneEmptyDirs, RmChild, Kick
    <2> QED BY <1>2, <1>a, <2>1, OpStepServed DEF Served
<1>3. ASSUME NEW u \in Users, Request(u) PROVE Served'
    <2>1. UNCHANGED <<faults, up>>
        BY <1>3 DEF Request, Unlink, Rmdir, UnhideDownload, DeleteDownload
    <2> QED BY <1>3, <2>1, RequestServed DEF Served
<1>4. ASSUME NEW k \in Keys, Relist(k) PROVE Served'
    BY <1>4, <1>b DEF Relist, Served
<1>5. CASE Crash
    <2>1. op' = [u \in Users |-> IdleOp] /\ UNCHANGED changes /\ Fault /\ up' = FALSE
        BY <1>5 DEF Crash
    <2> QED BY <1>a, <2>1, IdleOpTyped DEF Served
<1>6. CASE Start \/ StartFails
    <2>1. UNCHANGED <<op, changes>> /\ (Fault \/ UNCHANGED faults) /\ up' = TRUE
        BY <1>6 DEF Start, StartFails, Load
    <2> QED BY <1>a, <2>1 DEF Served
<1>7. CASE UNCHANGED vars
    BY <1>7 DEF vars, Served
<1> QED BY <1>1, <1>2, <1>3, <1>4, <1>5, <1>6, <1>7 DEF Next

LEMMA ServedInit == Init => Served
<1> SUFFICES ASSUME Init PROVE Served
    OBVIOUS
<1>1. op \in [Users -> OpState] /\ up \in BOOLEAN
    BY IdleOpTyped DEF Init
<1>2. changes \in 0..MaxChanges /\ faults \in 0..MaxFaults
    BY CatalogAssumption DEF Init
<1> QED BY <1>1, <1>2 DEF Served

LEMMA Typing == Spec => [](Placed /\ Served)
<1>1. Placed /\ Served /\ [Next]_vars => (Placed /\ Served)'
    BY NextPlaced, NextServed
<1> QED BY <1>1, PlacedInit, ServedInit, PTL DEF Spec

\* The catalogue's state keeps its types, and nothing of a refresh or of a request
\* survives the process.
THEOREM TypeCorrect == Spec => []TypeOK
<1>1. Inv /\ Quiet /\ Placed /\ Served => TypeOK
    <2> SUFFICES ASSUME Inv, Quiet, Placed, Served PROVE TypeOK
        OBVIOUS
    <2>1. \A f \in Located : f \in [Keys -> Paths \cup {None}]
        BY DEF Located
    <2> QED BY <2>1 DEF Inv, InodeTypes, Quiet, Placed, Served, TypeOK
<1> QED BY <1>1, Invariance, Typing, PTL

----------------------------------------------------------------------------
(* What a refresh knows of the entries that were wanted, and of the keys   *)
(* that were hidden, ever since it began.                                  *)

\* A refresh r with tables fl and hd and tree tr: entries st wanted all along are in
\* what it has listed, then in the tree it builds.  Keys sh hidden when it began are
\* hidden until ReplaceFiles, which takes the hide only together with the record; so
\* those of them that are in the tree have no record.
Expected(r, st, sh, hd, fl, tr) ==
    /\ r.pc = "list" =>
          \A e \in st : KindOf[e[2]] < r.kind => e \in Entries(r.built)
    /\ r.pc \in {"assign", "read"} => st \subseteq Entries(r.built)
    /\ r.pc \in {"list", "assign"} => sh \subseteq hd
    /\ r.pc = "read" => \A k \in sh : k \in hd \/ fl[k] = None
    /\ r.pc = "sync" => st \subseteq tr /\ \A e \in tr : e[2] \notin sh \/ fl[e[2]] = None

Histories ==
    /\ steady \subseteq Wanted
    /\ shunned \subseteq Keys
    /\ Expected(refresh, steady, shunned, hidden, files, tree)

LEMMA Followed ==
    ASSUME Histories, NEW freed, Forget(freed),
           Expected(refresh', steady, shunned \ freed, hidden', files', tree')
    PROVE  Histories'
<1>1. /\ steady' \subseteq steady /\ steady' \subseteq Wanted'
      /\ shunned' \subseteq shunned \ freed /\ shunned' \subseteq Keys
    BY DEF Forget, Histories
<1>2. Expected(refresh', steady', shunned', hidden', files', tree')
    BY <1>1 DEF Expected
<1> QED BY <1>1, <1>2 DEF Histories

\* The refresh stays where it is, apart from what it has to do, and no hides go but
\* those that a request takes.
LEMMA SamePhase ==
    ASSUME Histories, NEW freed, Forget(freed), UNCHANGED <<files, tree>>,
           hidden \ freed \subseteq hidden', refresh'.pc = refresh.pc,
           refresh'.built = refresh.built, refresh'.kind = refresh.kind
    PROVE  Histories'
<1>1. Expected(refresh', steady, shunned \ freed, hidden', files', tree')
    BY DEF Histories, Expected
<1> QED BY <1>1, Followed

LEMMA SamePhaseFollow ==
    ASSUME Histories, Follow, UNCHANGED <<files, tree>>, hidden \subseteq hidden',
           refresh'.pc = refresh.pc, refresh'.built = refresh.built,
           refresh'.kind = refresh.kind
    PROVE  Histories'
BY SamePhase DEF Follow

LEMMA BeginHistories ==
    ASSUME Placed, Begin, UNCHANGED <<listing, hidden>>
    PROVE  Histories'
<1>1. refresh'.pc = "list" /\ refresh'.kind = 1
    BY DEF Begin, Idle
<1>2. steady' = Wanted /\ Wanted' = Wanted /\ shunned' = hidden
    BY DEF Begin, Wanted, ApplyHides, Entries, MainEntries, AllEntries
<1>3. ASSUME NEW e \in steady' PROVE ~(KindOf[e[2]] < 1)
    <2>1. e[2] \in Keys
        BY <1>2, <1>3, EntryOf DEF Wanted, ApplyHides
    <2>2. KindOf[e[2]] \in 1..Kinds
        BY <2>1, CatalogAssumption
    <2> QED BY <2>2, CatalogAssumption
<1>4. shunned' \subseteq Keys /\ shunned' \subseteq hidden'
    BY <1>2 DEF Placed
<1> QED BY <1>1, <1>2, <1>3, <1>4 DEF Histories, Expected

\* The listing of one kind adds the wanted entries of that kind.
LEMMA ListHistories ==
    ASSUME Placed, Histories, ListKind
    PROVE  Histories'
<1> DEFINE got == [k \in Keys |-> IF KindOf[k] = refresh.kind THEN listing[k]
                                                              ELSE refresh.built[k]]
           todo == {k \in Keys : got[k] # None}
<1>0. /\ refresh \in RefreshState /\ refresh.pc = "list" /\ Forget({})
      /\ refresh.kind \in 1..Kinds
    BY DEF ListKind, Placed, RefreshState, Follow
<1>b. shunned \ {} \subseteq hidden'
    BY <1>0 DEF ListKind, dbVars, Histories, Expected
<1>1. ASSUME NEW e \in steady, KindOf[e[2]] <= refresh.kind PROVE e \in Entries(got)
    <2>1. e \in Entries(listing) /\ e[2] \in Keys
        BY EntryOf DEF Histories, Wanted, ApplyHides
    <2>2. KindOf[e[2]] \in 1..Kinds
        BY <2>1, CatalogAssumption
    <2>3. CASE KindOf[e[2]] = refresh.kind
        <3>1. got[e[2]] = listing[e[2]]
            BY <2>1, <2>3
        <3> HIDE DEF got
        <3> QED BY <2>1, <3>1, EntryLocal
    <2>4. CASE KindOf[e[2]] # refresh.kind
        <3>1. got[e[2]] = refresh.built[e[2]]
            BY <2>1, <2>4
        <3>2. KindOf[e[2]] < refresh.kind
            BY <1>0, <1>1, <2>2, <2>4, CatalogAssumption
        <3>3. e \in Entries(refresh.built)
            BY <1>0, <3>2 DEF Histories, Expected
        <3> HIDE DEF got
        <3> QED BY <3>1, <3>3, EntryLocal
    <2> QED BY <2>3, <2>4
<1>2. refresh' = IF LastKind
                 THEN [refresh EXCEPT !.built = got, !.pc = "assign", !.todo = todo]
                 ELSE [refresh EXCEPT !.built = got, !.kind = @ + 1]
    BY DEF ListKind
<1>a. \A e \in steady : KindOf[e[2]] \in 1..Kinds
    <2>1. \A e \in steady : e[2] \in Keys
        BY EntryOf DEF Histories, Wanted, ApplyHides
    <2> QED BY <2>1, CatalogAssumption
<1> HIDE DEF got, todo
<1>3. CASE LastKind
    <2>1. refresh'.pc = "assign" /\ refresh'.built = got
        BY <1>0, <1>2, <1>3 DEF RefreshState
    <2>2. \A e \in steady : KindOf[e[2]] <= refresh.kind
        BY <1>a, <1>3, CatalogAssumption DEF LastKind
    <2>3. Expected(refresh', steady, shunned \ {}, hidden', files', tree')
        BY <1>1, <1>b, <2>1, <2>2 DEF Expected
    <2> QED BY <1>0, <2>3, Followed
<1>4. CASE ~LastKind
    <2>1. refresh'.pc = "list" /\ refresh'.built = got /\ refresh'.kind = refresh.kind + 1
        BY <1>0, <1>2, <1>4 DEF RefreshState
    <2>2. \A e \in steady : KindOf[e[2]] < refresh.kind + 1 => KindOf[e[2]] <= refresh.kind
        BY <1>0, <1>a, CatalogAssumption
    <2>3. \A e \in steady : KindOf[e[2]] < refresh'.kind => e \in Entries(refresh'.built)
        BY <1>1, <2>1, <2>2
    <2>4. Expected(refresh', steady, shunned \ {}, hidden', files', tree')
        BY <1>b, <2>1, <2>3 DEF Expected
    <2> QED BY <1>0, <2>4, Followed
<1> QED BY <1>3, <1>4

\* The hides of recorded files survive ReplaceFiles.
LEMMA ReplaceHistories ==
    ASSUME Placed, Histories, ReplaceFiles
    PROVE  Histories'
<1>1. /\ refresh' = [refresh EXCEPT !.pc = "read", !.recs = {}]
      /\ refresh.pc = "assign" /\ Forget({}) /\ refresh \in RefreshState
    BY DEF ReplaceFiles, Placed, Follow
<1>2. refresh'.pc = "read" /\ refresh'.built = refresh.built
    BY <1>1 DEF RefreshState
<1>3. ASSUME NEW k \in shunned PROVE k \in hidden' \/ files'[k] = None
    <2>1. k \in Keys /\ k \in hidden
        BY <1>1 DEF Histories, Expected
    <2> QED BY <2>1 DEF ReplaceFiles
<1>4. steady \subseteq Entries(refresh'.built)
    BY <1>1, <1>2 DEF Histories, Expected
<1>5. Expected(refresh', steady, shunned \ {}, hidden', files', tree')
    BY <1>2, <1>3, <1>4 DEF Expected
<1> QED BY <1>1, <1>5, Followed

\* The tree that is exposed has the wanted entries and, of the hidden keys, only those
\* without a record.
LEMMA ReadHistories ==
    ASSUME Placed, Histories, ReadHidden \/ ReadHiddenFails
    PROVE  Histories'
<1>0. /\ refresh.pc = "read" /\ refresh'.pc = "sync"
      /\ steady \subseteq Entries(refresh.built) /\ UNCHANGED <<files, hidden>>
    BY SyncStarts DEF ReadHidden, ReadHiddenFails, Swap, Histories, Expected, dbVars
<1>1. CASE ReadHidden
    <2>1. tree' = ApplyHides(Entries(refresh.built), hidden) /\ Forget({})
        BY <1>1 DEF ReadHidden, Swap, Follow
    <2>2. \A e \in steady : e[2] \notin hidden
        BY DEF Histories, Wanted, ApplyHides
    <2>3. steady \subseteq tree' /\ \A e \in tree' : e[2] \notin shunned \/ files[e[2]] = None
        BY <1>0, <2>1, <2>2 DEF ApplyHides, Histories, Expected
    <2>4. Expected(refresh', steady, shunned \ {}, hidden', files', tree')
        BY <1>0, <2>3 DEF Expected
    <2> QED BY <2>1, <2>4, Followed
<1>2. CASE ReadHiddenFails
    <2>1. tree' = Entries(refresh.built) /\ Forget(Keys)
        BY <1>2 DEF ReadHiddenFails, Swap, ApplyHides
    <2>2. shunned \ Keys = {}
        BY DEF Histories
    <2>3. Expected(refresh', steady, shunned \ Keys, hidden', files', tree')
        BY <1>0, <2>1, <2>2 DEF Expected
    <2> QED BY <2>1, <2>3, Followed
<1> QED BY <1>1, <1>2

LEMMA RefreshHistories ==
    ASSUME Placed, Histories, RefreshStep
    PROVE  Histories'
<1>1. CASE StartRefresh
    BY <1>1, BeginHistories DEF StartRefresh, dbVars
<1>2. CASE ListFails \/ ReplaceFails \/ EndRefresh
    <2>1. refresh'.pc = "idle" /\ Forget({})
        BY <1>2, IdleTyped DEF ListFails, ReplaceFails, EndRefresh, Follow
    <2>2. Expected(refresh', steady, shunned \ {}, hidden', files', tree')
        BY <2>1 DEF Expected
    <2> QED BY <2>1, <2>2, Followed
<1>4. ASSUME NEW k \in Keys, Assign(k) \/ AssignFails(k) PROVE Histories'
    <2>1. /\ refresh.recs \cup {k} \in SUBSET Keys
          /\ UNCHANGED <<files, hidden, tree>> /\ Follow
        BY <1>4 DEF Placed, RefreshState, Assign, AssignFails, dbVars
    <2>2. \/ refresh' = [refresh EXCEPT !.todo = @ \ {k}, !.recs = refresh.recs \cup {k}]
          \/ refresh' = [refresh EXCEPT !.todo = @ \ {k}]
        BY <1>4 DEF Assign, AssignFails
    <2>3. /\ refresh'.built = refresh.built /\ refresh'.pc = refresh.pc
          /\ refresh'.kind = refresh.kind
        BY <2>1, <2>2, GoOn
    <2> QED BY <2>1, <2>3, SamePhaseFollow
<1>5. ASSUME NEW set, Skip(set), Follow, UNCHANGED <<files, hidden, tree>> PROVE Histories'
    <2>1. /\ refresh'.built = refresh.built /\ refresh'.pc = refresh.pc
          /\ refresh'.kind = refresh.kind
        BY <1>5, GoOn DEF Skip
    <2> QED BY <1>5, <2>1, SamePhaseFollow
<1>6. ASSUME NEW d \in Dirs, SyncDir(d) \/ SyncDirFails(d) PROVE Histories'
    BY <1>5, <1>6 DEF SyncDir, SyncDirFails, AddDir, DropDir, dbVars
<1>7. ASSUME NEW q \in MountPaths, SyncEntry(q) \/ SyncEntryFails(q) PROVE Histories'
    BY <1>5, <1>7 DEF SyncEntry, SyncEntryFails, dbVars
<1> QED BY <1>1, <1>2, <1>4, <1>6, <1>7, ListHistories, ReplaceHistories, ReadHistories
        DEF RefreshStep

LEMMA RequestHistories ==
    ASSUME Placed, Histories, NEW u \in Users, OpStep(u) \/ Request(u)
    PROVE  Histories'
<1>1. CASE UNCHANGED <<files, tree, refresh>> /\ hidden \subseteq hidden' /\ Follow
    BY <1>1, SamePhaseFollow
<1>2. CASE Kick(u)
    BY <1>1, <1>2, BeginHistories DEF Kick, dbVars
<1>3. CASE \/ \E k \in Keys : HideFile(u, k) \/ HideFileFails(u, k)
           \/ \E place \in {"main", "all"} : RemoveKeys(u, place)
    BY <1>1, <1>3 DEF HideFile, HideFileFails, RemoveKeys, dbVars
<1>4. CASE RmChild(u) \/ \E d \in Dirs : PruneEmptyDirs(u, d)
    BY <1>1, <1>4 DEF RmChild, PruneEmptyDirs, dbVars
<1>5. ASSUME NEW d \in Downloads, UnhideDownload(u, d) PROVE Histories'
    BY <1>5, SamePhase DEF UnhideDownload
<1>6. CASE \/ \E q \in MountPaths : Unlink(u, q)
           \/ \E d \in Dirs : Rmdir(u, d)
           \/ \E d \in Downloads : DeleteDownload(u, d)
    BY <1>1, <1>6 DEF Unlink, Rmdir, DeleteDownload, dbVars
<1> QED BY <1>2, <1>3, <1>4, <1>5, <1>6 DEF OpStep, Request

LEMMA NextHistories == Placed /\ Histories /\ [Next]_vars => Histories'
<1> SUFFICES ASSUME Placed, Histories, [Next]_vars PROVE Histories'
    OBVIOUS
<1>1. CASE RefreshStep
    BY <1>1, RefreshHistories
<1>2. CASE \E u \in Users : OpStep(u) \/ Request(u)
    BY <1>2, RequestHistories
<1>3. CASE \E k \in Keys : Relist(k)
    BY <1>3, SamePhaseFollow DEF Relist, dbVars
<1>4. CASE Crash
    BY <1>4, IdleTyped DEF Crash, Histories, Expected
<1>5. CASE Start \/ StartFails
    <2>1. refresh'.pc = "sync" /\ steady' = {} /\ hidden' = hidden /\ hidden \subseteq Keys
        BY <1>5, SyncStarts DEF Start, StartFails, Load, dbVars, Placed
    <2>2. shunned' \subseteq hidden /\ \A e \in tree' : e[2] \notin shunned'
        BY <1>5 DEF Start, StartFails, Load, ApplyHides
    <2> QED BY <2>1, <2>2 DEF Histories, Expected
<1>6. CASE UNCHANGED vars
    BY <1>6 DEF vars, Histories, Expected, Wanted, ApplyHides, Entries, MainEntries, AllEntries
<1> QED BY <1>1, <1>2, <1>3, <1>4, <1>5, <1>6 DEF Next

LEMMA HistoriesInit == Init => Histories
BY IdleTyped DEF Init, Histories, Expected

LEMMA HistoriesHold == Spec => []Histories
BY HistoriesInit, NextHistories, Typing, PTL DEF Spec

----------------------------------------------------------------------------
(* What happens to the mount.                                              *)

\* An entry changes because SyncTree does not find or finds it in the tree, because a
\* request names its key or had found a directory above it empty, or with the death of
\* the process.
Changes(q) ==
    \/ Walking /\ ~InTree(q) /\ shown'[q] = None /\ UNCHANGED up
    \/ Walking /\ shown[q] = None /\ <<q, shown'[q]>> \in tree
    \/ shown'[q] = None /\ \E u \in Users : shown[q] \in op[u].keys
    \/ shown'[q] = None /\ \E u \in Users : /\ op[u].dir # None /\ q \in Under[op[u].dir]
                                           /\ op'[u].dir = None
    \/ shown'[q] = None /\ ~up'

LEMMA MountChanges ==
    ASSUME Placed, Served, [Next]_vars, NEW q \in MountPaths, shown'[q] # shown[q]
    PROVE  Changes(q)
<1>0. shown \in [MountPaths -> Keys \cup {None}]
    BY DEF Placed
<1>1. CASE RefreshStep
    <2>1. \/ \E d \in Dirs : SyncDir(d) /\ DropDir(d) /\ ~HasEntries(d)
          \/ \E p \in MountPaths : SyncEntry(p)
        BY <1>1 DEF RefreshStep, StartRefresh, ListKind, ListFails, ReplaceFiles, ReplaceFails,
                    ReadHidden, ReadHiddenFails, Swap, EndRefresh, Assign, AssignFails,
                    SyncDir, AddDir, SyncDirFails, SyncEntryFails
    <2>a. ASSUME NEW d \in Dirs, SyncDir(d), DropDir(d), ~HasEntries(d) PROVE Changes(q)
        <3>1. q \in Under[d] /\ shown'[q] = None
            BY <2>a DEF DropDir, Detach
        <3>2. ~InTree(q) /\ Walking /\ UNCHANGED up
            BY <2>a, <3>1 DEF SyncDir, HasEntries
        <3> QED BY <3>1, <3>2 DEF Changes
    <2>b. ASSUME NEW p \in MountPaths, SyncEntry(p) PROVE Changes(q)
        <3>1. CASE ~InTree(p) /\ DropEntry(p)
            BY <1>0, <2>b, <3>1 DEF SyncEntry, DropEntry, Changes
        <3>2. CASE InTree(p) /\ shown[p] = None /\ AddEntry(p)
            BY <1>0, <2>b, <3>2 DEF SyncEntry, AddEntry, Changes
        <3> QED BY <2>b, <3>1, <3>2 DEF SyncEntry
    <2> QED BY <2>1, <2>a, <2>b
<1>2. ASSUME NEW u \in Users, OpStep(u) \/ Request(u) PROVE Changes(q)
    <2>1. RmChild(u) \/ \E place \in {"main", "all"} : RemoveKeys(u, place)
        BY <1>2 DEF OpStep, HideFile, HideFileFails, PruneEmptyDirs, Kick,
                    Request, Unlink, Rmdir, UnhideDownload, DeleteDownload
    <2>2. ASSUME NEW place, RemoveKeys(u, place) PROVE Changes(q)
        <3>1. shown'[q] = None /\ shown[q] \in op[u].keys
            BY <2>2 DEF RemoveKeys
        <3> QED BY <3>1 DEF Changes
    <2>3. CASE RmChild(u)
        <3>1. op[u].dir # None /\ shown'[q] = None /\ q \in Under[op[u].dir]
            BY <2>3 DEF RmChild, Detach
        <3>2. op'[u].dir = None
            BY <2>3 DEF RmChild, Prune, Served, OpState, IdleOp
        <3> QED BY <3>1, <3>2 DEF Changes
    <2> QED BY <2>1, <2>2, <2>3
<1>3. CASE \E k \in Keys : Relist(k)
    BY <1>3 DEF Relist
<1>4. CASE Crash
    BY <1>4 DEF Crash, Changes
<1>5. CASE Start \/ StartFails
    BY <1>5 DEF Start, StartFails, Load
<1>6. CASE UNCHANGED vars
    BY <1>6 DEF vars
<1> QED BY <1>1, <1>2, <1>3, <1>4, <1>5, <1>6 DEF Next

\* A refresh takes away no entry that was listed and unhidden ever since it began,
\* although the listing is read kind by kind, hides come and go meanwhile, and calls
\* fail at any point: what takes it is a request for its key, the RmChild of a directory
\* above it that a request had found empty, or the end of the process.
THEOREM NothingVanishes == Spec => NoVanish
<1>1. Placed /\ Served /\ Histories /\ [Next]_vars =>
        [\A q \in MountPaths :
            shown[q] # None /\ shown'[q] # shown[q] /\ up' =>
                \/ <<q, shown[q]>> \notin steady
                \/ \E u \in Users : shown[q] \in op[u].keys
                \/ \E u \in Users : /\ op[u].dir # None /\ q \in Under[op[u].dir]
                                    /\ op'[u].dir = None]_vars
    <2> SUFFICES ASSUME Placed, Served, Histories, [Next]_vars, NEW q \in MountPaths,
                        shown[q] # None, shown'[q] # shown[q], up',
                        <<q, shown[q]>> \in steady
                 PROVE  \/ \E u \in Users : shown[q] \in op[u].keys
                        \/ \E u \in Users : /\ op[u].dir # None /\ q \in Under[op[u].dir]
                                            /\ op'[u].dir = None
        OBVIOUS
    <2>1. Changes(q) /\ shown[q] \in Keys
        BY MountChanges DEF Placed
    <2>2. Walking => InTree(q)
        BY <2>1 DEF Histories, Expected, Walking, InTree
    <2> QED BY <2>1, <2>2 DEF Changes
<1> QED BY <1>1, Typing, HistoriesHold, PTL DEF Spec, NoVanish

\* No refresh and no start brings back a key that was hidden when it began and that no
\* request has unhidden, unless the hides could not be read or the refresh itself could
\* not record the file, in which case ReplaceFiles deletes the hide too.
THEOREM NothingResurrected == Spec => NoResurrection
<1>1. Placed /\ Served /\ Histories /\ [Next]_vars =>
        [\A q \in MountPaths :
            shown'[q] # shown[q] => \/ shown'[q] \notin shunned
                                    \/ files[shown'[q]] = None]_vars
    <2> SUFFICES ASSUME Placed, Served, Histories, [Next]_vars, NEW q \in MountPaths,
                        shown'[q] # shown[q]
                 PROVE  shown'[q] \notin shunned \/ files[shown'[q]] = None
        OBVIOUS
    <2>1. Changes(q) /\ None \notin shunned
        BY MountChanges, CatalogAssumption DEF Histories
    <2>2. ASSUME Walking, <<q, shown'[q]>> \in tree
          PROVE  shown'[q] \notin shunned \/ files[shown'[q]] = None
        BY <2>2 DEF Histories, Expected, Walking
    <2> QED BY <2>1, <2>2 DEF Changes
<1> QED BY <1>1, Typing, HistoriesHold, PTL DEF Spec, NoResurrection

----------------------------------------------------------------------------
(* When SyncTree is done.                                                  *)

\* Where the walk has been, the mount has no name that the tree lacks.
Walked == Walking => \A q \in MountPaths \ refresh.todo : shown[q] # None => InTree(q)

\* SyncTree passes over places where the mount has nothing.
LEMMA SkipWalked ==
    ASSUME Placed, Walked, NEW set, Skip(set), UNCHANGED tree,
           \A q \in MountPaths : shown'[q] \in {shown[q], None},
           \A q \in set \cap MountPaths : shown'[q] = None
    PROVE  Walked'
<1>1. refresh'.pc = refresh.pc /\ refresh'.todo = refresh.todo \ set
    BY GoOn DEF Skip
<1> QED BY <1>1 DEF Walked, Walking, InTree

LEMMA NextWalked == Placed /\ Served /\ Walked /\ [Next]_vars => Walked'
<1> SUFFICES ASSUME Placed, Served, Walked, [Next]_vars PROVE Walked'
    OBVIOUS
<1>0. refresh \in RefreshState
    BY DEF Placed
<1>1. ASSUME UNCHANGED <<tree, refresh>>, \A q \in MountPaths : shown'[q] \in {shown[q], None}
      PROVE  Walked'
    BY <1>1 DEF Walked, Walking, InTree
<1>2. ASSUME refresh'.pc # "sync" \/ refresh'.todo = MountPaths \cup Dirs PROVE Walked'
    BY <1>2 DEF Walked, Walking
<1>3. CASE RefreshStep
    <2>1. CASE StartRefresh \/ ListFails \/ ReplaceFails \/ EndRefresh
        BY <1>2, <2>1, IdleTyped
           DEF StartRefresh, Begin, ListFails, ReplaceFails, EndRefresh, Idle
    <2>2. CASE ListKind
        BY <1>0, <1>2, <2>2 DEF ListKind, RefreshState
    <2>3. CASE ReplaceFiles
        BY <1>0, <1>2, <2>3 DEF ReplaceFiles, RefreshState
    <2>4. CASE ReadHidden \/ ReadHiddenFails
        BY <1>2, <2>4, SyncStarts DEF ReadHidden, ReadHiddenFails, Swap
    <2>5. ASSUME NEW k \in Keys, Assign(k) \/ AssignFails(k) PROVE Walked'
        BY <1>0, <1>2, <2>5 DEF Assign, AssignFails, RefreshState
    <2>6. ASSUME NEW d \in Dirs, SyncDir(d) PROVE Walked'
        <3>0. tree' = tree /\ d \notin MountPaths
            BY <2>6, CatalogAssumption DEF SyncDir
        <3>1. CASE DropDir(d)
            <4>1. /\ Skip({d} \cup Under[d])
                  /\ \A q \in MountPaths : shown'[q] \in {shown[q], None}
                  /\ \A q \in Under[d] \cap MountPaths : shown'[q] = None
                BY <3>1 DEF DropDir, Detach
            <4> QED BY <3>0, <4>1, SkipWalked
        <3>2. CASE Skip({d}) /\ UNCHANGED shown
            BY <3>0, <3>2, SkipWalked
        <3> QED BY <2>6, <3>1, <3>2 DEF SyncDir, AddDir
    <2>7. ASSUME NEW d \in Dirs, SyncDirFails(d) PROVE Walked'
        <3>1. /\ Skip({d} \cup Under[d]) /\ UNCHANGED <<tree, shown>>
              /\ d \notin dirs /\ d \notin MountPaths
            BY <2>7, CatalogAssumption DEF SyncDirFails
        <3>2. \A q \in Under[d] \cap MountPaths : shown[q] = None
            BY <3>1 DEF Placed, Attached
        <3> QED BY <3>1, <3>2, SkipWalked
    <2>8. ASSUME NEW q \in MountPaths, SyncEntryFails(q) PROVE Walked'
        <3>1. Skip({q}) /\ UNCHANGED <<tree, shown>> /\ shown[q] = None
            BY <2>8 DEF SyncEntryFails
        <3> QED BY <3>1, SkipWalked
    <2>9. ASSUME NEW q \in MountPaths, SyncEntry(q) PROVE Walked'
        <3>1. Skip({q}) /\ tree' = tree /\ Walking
            BY <2>9 DEF SyncEntry
        <3>2. refresh'.pc = refresh.pc /\ refresh'.todo = refresh.todo \ {q}
            BY <3>1, GoOn DEF Skip
        <3>3. (shown'[q] # None => InTree(q)) /\ \A p \in MountPaths \ {q} : shown'[p] = shown[p]
            BY <2>9 DEF SyncEntry, DropEntry, AddEntry, Placed
        <3> QED BY <3>1, <3>2, <3>3 DEF Walked, Walking, InTree
    <2> QED BY <1>3, <2>1, <2>2, <2>3, <2>4, <2>5, <2>6, <2>7, <2>8, <2>9 DEF RefreshStep
<1>4. ASSUME NEW u \in Users, OpStep(u) \/ Request(u) PROVE Walked'
    <2>1. ASSUME NEW d \in Dirs, PruneEmptyDirs(u, d) PROVE Walked'
        BY <1>1, <2>1 DEF PruneEmptyDirs
    <2>a. CASE RmChild(u)
        BY <1>1, <2>a DEF RmChild, Detach
    <2>2. CASE Kick(u)
        BY <1>1, <1>2, <2>2 DEF Kick, Begin, Idle
    <2>3. ASSUME NEW place, RemoveKeys(u, place) PROVE Walked'
        BY <1>1, <2>3 DEF RemoveKeys
    <2>4. ASSUME NEW k \in Keys, HideFile(u, k) \/ HideFileFails(u, k) PROVE Walked'
        BY <1>1, <2>4 DEF HideFile, HideFileFails
    <2>5. CASE Request(u)
        BY <1>1, <2>5 DEF Request, Unlink, Rmdir, UnhideDownload, DeleteDownload
    <2> QED BY <1>4, <2>1, <2>a, <2>2, <2>3, <2>4, <2>5 DEF OpStep
<1>5. CASE \E k \in Keys : Relist(k)
    BY <1>1, <1>5 DEF Relist
<1>6. CASE Crash
    BY <1>2, <1>6, IdleTyped DEF Crash
<1>7. CASE Start \/ StartFails
    BY <1>2, <1>7, SyncStarts DEF Start, StartFails, Load
<1>8. CASE UNCHANGED vars
    BY <1>1, <1>8 DEF vars
<1> QED BY <1>3, <1>4, <1>5, <1>6, <1>7, <1>8 DEF Next

LEMMA WalkedInit == Init => Walked
BY IdleTyped DEF Init, Walked, Walking

\* Only EndRefresh and a crash end a walk.
LEMMA WalkEnds ==
    ASSUME Placed, [Next]_vars, Walking, refresh'.pc = "idle", up'
    PROVE  refresh.todo = {}
<1>0. refresh.pc = "sync" /\ refresh \in RefreshState
    BY DEF Walking, Placed
<1>a. \A set : Skip(set) => refresh'.pc = "sync"
    BY <1>0, GoOn DEF Skip
<1>1. CASE RefreshStep
    BY <1>0, <1>1, <1>a DEF RefreshStep, StartRefresh, Begin, ListKind, ListFails, ReplaceFiles,
          ReplaceFails, ReadHidden, ReadHiddenFails, Swap, EndRefresh, Assign, AssignFails,
          SyncDir, AddDir, DropDir, SyncDirFails, SyncEntry, SyncEntryFails
<1>2. CASE \E u \in Users : OpStep(u) \/ Request(u)
    BY <1>0, <1>2, <1>a DEF OpStep, HideFile, HideFileFails, RemoveKeys, PruneEmptyDirs, RmChild, Kick,
          Begin, Request, Unlink, Rmdir, UnhideDownload, DeleteDownload
<1>3. CASE \E k \in Keys : Relist(k)
    BY <1>0, <1>3 DEF Relist
<1>4. CASE Crash
    BY <1>4 DEF Crash
<1>5. CASE Start \/ StartFails
    BY <1>5, SyncStarts DEF Start, StartFails, Load
<1>6. CASE UNCHANGED vars
    BY <1>0, <1>6 DEF vars
<1> QED BY <1>1, <1>2, <1>3, <1>4, <1>5, <1>6 DEF Next

\* No two files can be given one path, now or after a relisting.
OwnPaths == \A j, k \in Keys, q \in MountPaths : Owned(q, j) /\ Owned(q, k) => j = k

\* Where no two files compete for a path, the mount shows nothing but entries of the
\* latest tree once SyncTree is done: syncDir's comparison by name is then enough,
\* whatever handlers removed and pruned meanwhile.
THEOREM SyncExact == OwnPaths => (Spec => SyncMatchesTree)
<1> SUFFICES ASSUME OwnPaths PROVE Spec => SyncMatchesTree
    OBVIOUS
<1>1. Placed /\ Walked /\ [Next]_vars =>
        [Walking /\ refresh'.pc = "idle" /\ up' =>
            \A q \in MountPaths : shown[q] # None => <<q, shown[q]>> \in tree]_vars
    <2> SUFFICES ASSUME Placed, Walked, [Next]_vars, Walking, refresh'.pc = "idle", up',
                        NEW q \in MountPaths, shown[q] # None
                 PROVE  <<q, shown[q]>> \in tree
        OBVIOUS
    <2>1. InTree(q)
        BY WalkEnds DEF Walked
    <2>2. PICK k \in Keys : <<q, k>> \in tree
        BY <2>1 DEF InTree
    <2>3. shown[q] \in Keys /\ Owned(q, shown[q]) /\ Owned(q, k)
        BY <2>2 DEF Placed
    <2>4. shown[q] = k
        BY <2>3 DEF OwnPaths
    <2> QED BY <2>2, <2>4
<1> QED BY <1>1, WalkedInit, NextWalked, Typing, PTL DEF Spec, SyncMatchesTree
=============================================================================
