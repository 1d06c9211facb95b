--------------------------- MODULE HandleTracking ---------------------------
(***************************************************************************)
(* Open, Read and Release of one file's FUSE handles (internal/fusefs/     *)
(* fs.go) against the bookkeeping StreamReader keeps for the file: the     *)
(* readersMap of open handles, the session, the map of inflight windows    *)
(* and the registry of recently closed files.  The maps are sync.Maps: one *)
(* call on one of them is a step, a function that makes several is not.    *)
(***************************************************************************)
EXTENDS Integers, FiniteSets

CONSTANTS Handles,  \* file handles; a released one stands for a later Open, too
          Windows,  \* identities of the file's inflightWindow objects
          Maps      \* identities of readersMap objects: 1, 2, ...

ASSUME TrackingAssumption == Maps \subseteq Nat \ {0}

\* No object.
Nil == 0

VARIABLES pc,       \* where a handle's current FUSE call stands
          reg,      \* the readersMap a handle's current call has loaded
          readers,  \* StreamReader.readers: the file's readersMap
          pos,      \* readersMap.pos of each object, as the handles in it
          session,  \* StreamReader.sessions: the file's fileSession
          closed,   \* the file is in recentlyClosed
          todo,     \* windows a CancelFile has yet to visit
          win       \* the windows and their fetchWindow goroutines

vars == <<pc, reg, readers, pos, session, closed, todo, win>>

\* A session: is there one, is its access pattern sequential, does it know the size.
Session == [here : BOOLEAN, seq : BOOLEAN, sized : BOOLEAN]
NoSession == [here |-> FALSE, seq |-> FALSE, sized |-> FALSE]

\* A window: is it in the inflight map, is it cancelled, and the access pattern of
\* the session its goroutine has loaded.
NoWindow == [pc |-> "none", inMap |-> FALSE, cancelled |-> FALSE, seq |-> FALSE]

Init ==
  /\ pc = [h \in Handles |-> "closed"]
  /\ reg = [h \in Handles |-> Nil]
  /\ readers = Nil
  /\ pos = [m \in Maps |-> {}]
  /\ session = NoSession
  /\ closed = FALSE
  /\ todo = [h \in Handles |-> {}]
  /\ win = [w \in Windows |-> NoWindow]

Goto(h, label) == pc' = [pc EXCEPT ![h] = label]

getOrCreateSession == [session EXCEPT !.here = TRUE]

InMap == {w \in Windows : win[w].inMap}

\* getOrCreateWindow puts a new window in the map.  A Range that has begun may or
\* may not come across it.
Spawn(base, w) ==
  /\ win[w].pc = "none"
  /\ win' = [base EXCEPT ![w] = [NoWindow EXCEPT !.pc = "start", !.inMap = TRUE]]
  /\ todo' = [h \in Handles |-> todo[h] \ {w}]
-----------------------------------------------------------------------------
Open(h) ==
  /\ pc[h] = "closed"
  /\ Goto(h, "open")
  /\ UNCHANGED <<reg, readers, pos, session, closed, todo, win>>

\* Read calls ReadAt, which takes note of the access pattern and the file size.
Read(h) ==
  /\ pc[h] = "open"
  /\ Goto(h, "reading")
  /\ \E seq \in BOOLEAN : session' = [here |-> TRUE, seq |-> seq, sized |-> TRUE]
  /\ UNCHANGED <<reg, readers, pos, closed, todo, win>>

\* On its way, ReadAt starts a window, for the bytes it needs or for read-ahead.
ReadSpawns(h, w) ==
  /\ pc[h] = "reading"
  /\ Spawn(win, w)
  /\ session' = getOrCreateSession
  /\ UNCHANGED <<pc, reg, readers, pos, closed>>

\* It may find a window of the map that has failed, and drops it.
ReadDrops(h, w) ==
  /\ pc[h] = "reading"
  /\ win[w].pc = "failed"
  /\ win' = [win EXCEPT ![w] = NoWindow]
  /\ UNCHANGED <<pc, reg, readers, pos, session, closed, todo>>

\* ReadAt fails: the handle is not tracked.
ReadFails(h) ==
  /\ pc[h] = "reading"
  /\ Goto(h, "open")
  /\ UNCHANGED <<reg, readers, pos, session, closed, todo, win>>

\* Objects that neither the map nor a call refers to; a new readersMap is one.
FreeMaps == {m \in Maps : m # readers /\ \A h \in Handles : reg[h] # m}
FreshMap == CHOOSE m \in FreeMaps : TRUE

\* ReadAt succeeds: TrackReader's LoadOrStore ...
TrackLoad(h) ==
  /\ pc[h] = "reading"
  /\ Goto(h, "track")
  /\ IF readers # Nil
     THEN reg' = [reg EXCEPT ![h] = readers] /\ UNCHANGED <<readers, pos>>
     ELSE /\ FreeMaps # {}
          /\ readers' = FreshMap
          /\ reg' = [reg EXCEPT ![h] = FreshMap]
          /\ pos' = [pos EXCEPT ![FreshMap] = {}]
  /\ UNCHANGED <<session, closed, todo, win>>

\* ... its entry in the map it has got ...
TrackPos(h) ==
  /\ pc[h] = "track"
  /\ pos' = [pos EXCEPT ![reg[h]] = @ \cup {h}]
  /\ reg' = [reg EXCEPT ![h] = Nil]
  /\ Goto(h, "unclose")
  /\ UNCHANGED <<readers, session, closed, todo, win>>

\* Mutant: the registry of closed files is left alone.
TrackUncloseMissing(h) ==
  /\ pc[h] = "unclose"
  /\ Goto(h, "open")
  /\ UNCHANGED <<reg, readers, pos, session, closed, todo, win>>

\* ... and the file is no longer a closed one.
TrackUnclose(h) ==
  /\ pc[h] = "unclose"
  /\ closed' = FALSE
  /\ Goto(h, "open")
  /\ UNCHANGED <<reg, readers, pos, session, todo, win>>

\* Mutant: the map is used without the question whether the file has one.
ReleaseUnchecked(h) ==
  /\ pc[h] = "open"
  /\ reg' = [reg EXCEPT ![h] = readers]
  /\ Goto(h, "untrack")
  /\ UNCHANGED <<readers, pos, session, closed, todo, win>>

\* Release: UntrackReader loads the file's map, if there is one ...
Release(h) ==
  /\ pc[h] = "open"
  /\ reg' = [reg EXCEPT ![h] = readers]
  /\ Goto(h, IF readers = Nil THEN "has" ELSE "untrack")
  /\ UNCHANGED <<readers, pos, session, closed, todo, win>>

\* Mutant: the entry is kept.
UntrackKeepsEntry(h) ==
  /\ pc[h] = "untrack"
  /\ reg' = [reg EXCEPT ![h] = Nil]
  /\ Goto(h, IF pos[reg[h]] = {} THEN "dropMap" ELSE "has")
  /\ UNCHANGED <<readers, pos, session, closed, todo, win>>

\* ... takes the handle out ...
Untrack(h) ==
  /\ pc[h] = "untrack"
  /\ pos' = [pos EXCEPT ![reg[h]] = @ \ {h}]
  /\ reg' = [reg EXCEPT ![h] = Nil]
  /\ Goto(h, IF pos[reg[h]] \subseteq {h} THEN "dropMap" ELSE "has")
  /\ UNCHANGED <<readers, session, closed, todo, win>>

\* ... and deletes the map if that leaves it empty: whichever map is there by now.
UntrackDrop(h) ==
  /\ pc[h] = "dropMap"
  /\ readers' = Nil
  /\ Goto(h, "has")
  /\ UNCHANGED <<reg, pos, session, closed, todo, win>>

\* HasReaders loads the map and counts its entries.
HasLoad(h) ==
  /\ pc[h] = "has"
  /\ reg' = [reg EXCEPT ![h] = readers]
  /\ Goto(h, IF readers = Nil THEN "cancel" ELSE "count")
  /\ todo' = [todo EXCEPT ![h] = IF readers = Nil THEN InMap ELSE {}]
  /\ UNCHANGED <<readers, pos, session, closed, win>>

HasCount(h) ==
  /\ pc[h] = "count"
  /\ reg' = [reg EXCEPT ![h] = Nil]
  /\ Goto(h, IF pos[reg[h]] = {} THEN "cancel" ELSE "closed")
  /\ todo' = [todo EXCEPT ![h] = IF pos[reg[h]] = {} THEN InMap ELSE {}]
  /\ UNCHANGED <<readers, pos, session, closed, win>>

\* CancelFile: every window in the map is cancelled and taken out, one by one ...
CancelWindow(h, w) ==
  /\ pc[h] = "cancel"
  /\ win[w].inMap
  /\ win' = IF win[w].pc = "failed" THEN [win EXCEPT ![w] = NoWindow]
            ELSE [win EXCEPT ![w].inMap = FALSE, ![w].cancelled = TRUE]
  /\ todo' = [todo EXCEPT ![h] = @ \ {w}]
  /\ UNCHANGED <<pc, reg, readers, pos, session, closed>>

\* ... the file is noted as closed if its size is known, from a window, the session
\* or the cache ...
CancelNote(h) ==
  /\ pc[h] = "cancel"
  /\ todo[h] \cap InMap = {}
  /\ todo' = [todo EXCEPT ![h] = {}]
  /\ closed' \in (IF session.sized THEN {TRUE} ELSE {closed, TRUE})
  /\ Goto(h, "dropSession")
  /\ UNCHANGED <<reg, readers, pos, session, win>>

\* ... and the session and the map of readers are deleted.
CancelDropSession(h) ==
  /\ pc[h] = "dropSession"
  /\ session' = NoSession
  /\ Goto(h, "dropReaders")
  /\ UNCHANGED <<reg, readers, pos, closed, todo, win>>

CancelDropReaders(h) ==
  /\ pc[h] = "dropReaders"
  /\ readers' = Nil
  /\ Goto(h, "closed")
  /\ UNCHANGED <<reg, pos, session, closed, todo, win>>
-----------------------------------------------------------------------------
(* fetchWindow and its cleanup, for what they do to the maps. *)

\* With a budget slot, fetchWindow asks for the session, dropped or not.
FetchStart(w) ==
  /\ win[w].pc = "start"
  /\ win' = [win EXCEPT ![w].pc = "fetch"]
  /\ session' = getOrCreateSession
  /\ UNCHANGED <<pc, reg, readers, pos, closed, todo>>

\* A cancelled window without a slot goes straight to its cleanup.
FetchRefused(w) ==
  /\ win[w].pc = "start"
  /\ win[w].cancelled
  /\ win' = [win EXCEPT ![w].pc = "cleanup"]
  /\ UNCHANGED <<pc, reg, readers, pos, session, closed, todo>>

\* A failed window gets no cleanup: it stays in the map if it is there.
FetchFails(w) ==
  /\ win[w].pc = "fetch"
  /\ win' = [win EXCEPT ![w] = IF @.inMap THEN [@ EXCEPT !.pc = "failed"] ELSE NoWindow]
  /\ UNCHANGED <<pc, reg, readers, pos, session, closed, todo>>

\* A complete one, or a cancelled one that stopped between two chunks, loads the
\* session for its read-ahead.
FetchSucceeds(w) ==
  /\ win[w].pc = "fetch"
  /\ session' = getOrCreateSession
  /\ win' = [win EXCEPT ![w].pc = "ahead", ![w].seq = session'.seq]
  /\ UNCHANGED <<pc, reg, readers, pos, closed, todo>>

FetchAhead(w) ==
  /\ win[w].pc = "ahead"
  /\ LET after == [win EXCEPT ![w].pc = "cleanup", ![w].seq = FALSE]
     IN \/ win' = after /\ UNCHANGED todo
        \/ win[w].seq /\ \E v \in Windows : Spawn(after, v)
  /\ UNCHANGED <<pc, reg, readers, pos, session, closed>>

\* cleanupWindow takes the window out of the map, unless somebody has.
Cleanup(w) ==
  /\ win[w].pc = "cleanup"
  /\ win' = [win EXCEPT ![w].pc = "tidy", ![w].inMap = FALSE]
  /\ UNCHANGED <<pc, reg, readers, pos, session, closed, todo>>

\* maybeCleanupSession: not with windows in the map or handles that read ...
TidyCheck(w) ==
  /\ win[w].pc = "tidy"
  /\ win' = IF InMap # {} \/ (readers # Nil /\ pos[readers] # {})
            THEN [win EXCEPT ![w] = NoWindow]
            ELSE [win EXCEPT ![w].pc = "drop"]
  /\ UNCHANGED <<pc, reg, readers, pos, session, closed, todo>>

\* ... else the session is deleted, by now another's or not.
TidyDrop(w) ==
  /\ win[w].pc = "drop"
  /\ win' = [win EXCEPT ![w] = NoWindow]
  /\ session' = NoSession
  /\ UNCHANGED <<pc, reg, readers, pos, closed, todo>>
-----------------------------------------------------------------------------
\* cleanupRecentlyClosed: the entry is too old.
Expire ==
  /\ closed
  /\ closed' = FALSE
  /\ UNCHANGED <<pc, reg, readers, pos, session, todo, win>>

Call(h) ==
  \/ Open(h)
  \/ Read(h) \/ ReadFails(h)
  \/ TrackLoad(h) \/ TrackPos(h) \/ TrackUnclose(h)
  \/ Release(h) \/ Untrack(h) \/ UntrackDrop(h)
  \/ HasLoad(h) \/ HasCount(h)
  \/ CancelNote(h) \/ CancelDropSession(h) \/ CancelDropReaders(h)

Fetch(w) ==
  \/ FetchStart(w) \/ FetchRefused(w) \/ FetchFails(w) \/ FetchSucceeds(w)
  \/ FetchAhead(w) \/ Cleanup(w) \/ TidyCheck(w) \/ TidyDrop(w)

Next ==
  \/ \E h \in Handles : Call(h)
  \/ \E h \in Handles, w \in Windows :
       ReadSpawns(h, w) \/ ReadDrops(h, w) \/ CancelWindow(h, w)
  \/ \E w \in Windows : Fetch(w)
  \/ Expire

Spec == Init /\ [][Next]_vars
-----------------------------------------------------------------------------
Labels == {"closed", "open", "reading", "track", "unclose", "untrack", "dropMap", "has",
           "count", "cancel", "dropSession", "dropReaders"}
FetchLabels == {"none", "start", "fetch", "failed", "ahead", "cleanup", "tidy", "drop"}

\* The types of the bookkeeping; a call has a readersMap in hand when it uses one.
TypeOK ==
  /\ pc \in [Handles -> Labels]
  /\ reg \in [Handles -> Maps \cup {Nil}]
  /\ \A h \in Handles : reg[h] # Nil <=> pc[h] \in {"track", "untrack", "count"}
  /\ readers \in Maps \cup {Nil}
  /\ pos \in [Maps -> SUBSET Handles]
  /\ session \in Session
  /\ closed \in BOOLEAN
  /\ todo \in [Handles -> SUBSET Windows]
  /\ win \in [Windows -> [pc : FetchLabels, inMap : BOOLEAN, cancelled : BOOLEAN,
                          seq : BOOLEAN]]

\* The handles that HasReaders would find.
Tracked == IF readers = Nil THEN {} ELSE pos[readers]

\* Handles whose Release has untracked them.
Untracked == {h \in Handles : pc[h] \in {"closed", "dropMap", "has", "count", "cancel",
                                         "dropSession", "dropReaders"}}

\* A released handle never stays behind in, or comes back to, the map that HasReaders
\* looks at: it would keep the file's windows and session alive for ever.
NoStaleReader == Tracked \cap Untracked = {}

\* The comment in TrackReader: the dashboard never shows a file both as active and as
\* recently closed, once no TrackReader and no CancelFile is half-way.
NotBothActiveAndClosed ==
  (\A h \in Handles : pc[h] \notin {"unclose", "dropSession", "dropReaders"})
    => ~(closed /\ Tracked # {})

\* The comment on Release: windows are cancelled only when the last handle of the
\* file is closed.
ReleaseSparesOthers ==
  [][\A w \in Windows : ~win[w].cancelled /\ win'[w].cancelled
       => \A g, h \in Handles : pc[h] = "cancel" /\ pc[g] \in {"open", "reading"} => g = h]_vars
=============================================================================
