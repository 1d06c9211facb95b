------------------------ MODULE HandleTrackingProofs ------------------------
(***************************************************************************)
(* The bookkeeping of open handles is right for any number of handles,     *)
(* windows and readersMap objects, although no lock spans two of its       *)
(* sync.Map calls.                                                         *)
(***************************************************************************)
EXTENDS HandleTracking, TLAPS

\* Between UntrackReader's Load and its critical section, the map in hand is the only
\* one the handle can still be in: a map stored meanwhile does not know it.
UntrackInHand ==
  \A h \in Handles : pc[h] = "untrack" /\ reg[h] # readers => h \notin Tracked

\* The inductive invariant.
Inv ==
  /\ TypeOK
  /\ NoStaleReader
  /\ UntrackInHand
  /\ NotBothActiveAndClosed

LEMMA InitInv == Init => Inv
<1> SUFFICES ASSUME Init PROVE Inv
  OBVIOUS
<1>1. TypeOK
  BY DEF Init, TypeOK, Labels, FetchLabels, NoWindow, NoSession, Session, Nil
<1>2. Tracked = {}
  BY DEF Init, Tracked
<1> QED BY <1>1, <1>2 DEF Inv, NoStaleReader, UntrackInHand, NotBothActiveAndClosed

\* A step of a call preserves the types.
LEMMA CallType ==
  ASSUME Inv, NEW h \in Handles, Call(h)
  PROVE  TypeOK'
<1> USE TrackingAssumption DEF Inv, TypeOK, Labels, Session, NoSession, Goto, Nil
<1>1. CASE Open(h) BY <1>1 DEF Open
<1>2. CASE Read(h) BY <1>2 DEF Read
<1>3. CASE ReadFails(h) BY <1>3 DEF ReadFails
<1>4. CASE TrackLoad(h)
  <2>1. FreeMaps # {} => FreshMap \in Maps BY DEF FreeMaps, FreshMap
  <2> QED BY <1>4, <2>1 DEF TrackLoad
<1>5. CASE TrackPos(h) BY <1>5 DEF TrackPos
<1>6. CASE TrackUnclose(h) BY <1>6 DEF TrackUnclose
<1>7. CASE Release(h) BY <1>7 DEF Release
<1>8. CASE Untrack(h) BY <1>8 DEF Untrack
<1>9. CASE UntrackDrop(h) BY <1>9 DEF UntrackDrop
<1>10. CASE HasLoad(h) BY <1>10 DEF HasLoad, InMap
<1>11. CASE HasCount(h) BY <1>11 DEF HasCount, InMap
<1>12. CASE CancelNote(h) BY <1>12 DEF CancelNote
<1>13. CASE CancelDropSession(h) BY <1>13 DEF CancelDropSession
<1>14. CASE CancelDropReaders(h) BY <1>14 DEF CancelDropReaders
<1> QED BY <1>1, <1>2, <1>3, <1>4, <1>5, <1>6, <1>7, <1>8, <1>9, <1>10, <1>11, <1>12,
           <1>13, <1>14 DEF Call

\* A step of a call keeps released handles out of the map that HasReaders looks at.
LEMMA CallTracking ==
  ASSUME Inv, NEW h \in Handles, Call(h)
  PROVE  (NoStaleReader /\ UntrackInHand)'
<1> USE TrackingAssumption DEF Inv, TypeOK, NoStaleReader, UntrackInHand, Tracked,
        Untracked, Goto, Nil
<1>1. CASE Open(h) BY <1>1 DEF Open
<1>2. CASE Read(h) BY <1>2 DEF Read
<1>3. CASE ReadFails(h) BY <1>3 DEF ReadFails
<1>4. CASE TrackLoad(h)
  <2>1. FreeMaps # {} => FreshMap \in Maps BY DEF FreeMaps, FreshMap
  <2> QED BY <1>4, <2>1 DEF TrackLoad
<1>5. CASE TrackPos(h) BY <1>5 DEF TrackPos
<1>6. CASE TrackUnclose(h) BY <1>6 DEF TrackUnclose
<1>7. CASE Release(h) BY <1>7 DEF Release
<1>8. CASE Untrack(h) BY <1>8 DEF Untrack
<1>9. CASE UntrackDrop(h) BY <1>9 DEF UntrackDrop
<1>10. CASE HasLoad(h) BY <1>10 DEF HasLoad
<1>11. CASE HasCount(h) BY <1>11 DEF HasCount
<1>12. CASE CancelNote(h) BY <1>12 DEF CancelNote
<1>13. CASE CancelDropSession(h) BY <1>13 DEF CancelDropSession
<1>14. CASE CancelDropReaders(h) BY <1>14 DEF CancelDropReaders
<1> QED BY <1>1, <1>2, <1>3, <1>4, <1>5, <1>6, <1>7, <1>8, <1>9, <1>10, <1>11, <1>12,
           <1>13, <1>14 DEF Call

\* A step of a call does not leave the file both active and closed.
LEMMA CallClosed ==
  ASSUME Inv, NEW h \in Handles, Call(h)
  PROVE  NotBothActiveAndClosed'
<1> USE TrackingAssumption DEF Inv, TypeOK, NotBothActiveAndClosed, Tracked, Goto, Nil
<1>1. CASE Open(h) BY <1>1 DEF Open
<1>2. CASE Read(h) BY <1>2 DEF Read
<1>3. CASE ReadFails(h) BY <1>3 DEF ReadFails
<1>4. CASE TrackLoad(h)
  <2>1. FreeMaps # {} => FreshMap \in Maps BY DEF FreeMaps, FreshMap
  <2> QED BY <1>4, <2>1 DEF TrackLoad
<1>5. CASE TrackPos(h) BY <1>5 DEF TrackPos
<1>6. CASE TrackUnclose(h) BY <1>6 DEF TrackUnclose
<1>7. CASE Release(h) BY <1>7 DEF Release
<1>8. CASE Untrack(h) BY <1>8 DEF Untrack
<1>9. CASE UntrackDrop(h) BY <1>9 DEF UntrackDrop
<1>10. CASE HasLoad(h) BY <1>10 DEF HasLoad
<1>11. CASE HasCount(h) BY <1>11 DEF HasCount
<1>12. CASE CancelNote(h) BY <1>12 DEF CancelNote
<1>13. CASE CancelDropSession(h) BY <1>13 DEF CancelDropSession
<1>14. CASE CancelDropReaders(h) BY <1>14 DEF CancelDropReaders
<1> QED BY <1>1, <1>2, <1>3, <1>4, <1>5, <1>6, <1>7, <1>8, <1>9, <1>10, <1>11, <1>12,
           <1>13, <1>14 DEF Call

\* The variables that the tracking of handles consists of.
tracking == <<pc, reg, readers, pos>>

\* Steps that leave those alone, and do not close the file, disturb only types.
LEMMA OtherSteps ==
  ASSUME Inv, TypeOK', UNCHANGED tracking, closed' => closed
  PROVE  Inv'
  BY DEF Inv, tracking, NoStaleReader, UntrackInHand, NotBothActiveAndClosed, Tracked,
         Untracked

\* The steps of windows, and those of calls on a window, leave the tracking alone.
LEMMA WindowSteps ==
  ASSUME Inv, NEW w \in Windows, Fetch(w)
  PROVE  Inv'
<1> USE DEF Inv, TypeOK, FetchLabels, Session, NoSession, NoWindow, getOrCreateSession,
            tracking
<1>1. CASE FetchStart(w) BY <1>1, OtherSteps DEF FetchStart
<1>2. CASE FetchRefused(w) BY <1>2, OtherSteps DEF FetchRefused
<1>3. CASE FetchFails(w) BY <1>3, OtherSteps DEF FetchFails
<1>4. CASE FetchSucceeds(w)
  <2>1. session' \in Session /\ session'.seq \in BOOLEAN BY <1>4 DEF FetchSucceeds
  <2>2. PICK b \in BOOLEAN : win' = [win EXCEPT ![w].pc = "ahead", ![w].seq = b]
    BY <1>4, <2>1, Zenon DEF FetchSucceeds
  <2>3. UNCHANGED <<tracking, closed, todo>> BY <1>4 DEF FetchSucceeds
  <2>4. TypeOK' BY <2>1, <2>2, <2>3
  <2> QED BY <2>3, <2>4, OtherSteps
<1>5. CASE FetchAhead(w) BY <1>5, OtherSteps DEF FetchAhead, Spawn
<1>6. CASE Cleanup(w) BY <1>6, OtherSteps DEF Cleanup
<1>7. CASE TidyCheck(w) BY <1>7, OtherSteps DEF TidyCheck
<1>8. CASE TidyDrop(w) BY <1>8, OtherSteps DEF TidyDrop
<1> QED BY <1>1, <1>2, <1>3, <1>4, <1>5, <1>6, <1>7, <1>8 DEF Fetch

LEMMA CallsOnWindows ==
  ASSUME Inv, NEW h \in Handles, NEW w \in Windows,
         ReadSpawns(h, w) \/ ReadDrops(h, w) \/ CancelWindow(h, w)
  PROVE  Inv'
<1> USE DEF Inv, TypeOK, FetchLabels, Session, NoWindow, getOrCreateSession, tracking
<1>1. CASE ReadSpawns(h, w) BY <1>1, OtherSteps DEF ReadSpawns, Spawn
<1>2. CASE ReadDrops(h, w) BY <1>2, OtherSteps DEF ReadDrops
<1>3. CASE CancelWindow(h, w) BY <1>3, OtherSteps DEF CancelWindow
<1> QED BY <1>1, <1>2, <1>3

LEMMA NextInv == Inv /\ [Next]_vars => Inv'
<1> SUFFICES ASSUME Inv, [Next]_vars PROVE Inv'
  OBVIOUS
<1>1. CASE \E h \in Handles : Call(h)
  BY <1>1, CallType, CallTracking, CallClosed DEF Inv
<1>2. CASE \E h \in Handles, w \in Windows :
             ReadSpawns(h, w) \/ ReadDrops(h, w) \/ CancelWindow(h, w)
  BY <1>2, CallsOnWindows
<1>3. CASE \E w \in Windows : Fetch(w)
  BY <1>3, WindowSteps
<1>4. CASE Expire
  <2>1. TypeOK' BY <1>4 DEF Inv, Expire, TypeOK
  <2> QED BY <1>4, <2>1, OtherSteps DEF Expire, tracking
<1>5. CASE UNCHANGED vars
  <2>1. TypeOK' BY <1>5 DEF Inv, vars, TypeOK
  <2> QED BY <1>5, <2>1, OtherSteps DEF vars, tracking
<1> QED BY <1>1, <1>2, <1>3, <1>4, <1>5 DEF Next

\* The inductive invariant holds in every behaviour of the handles and windows.
THEOREM Invariance == Spec => []Inv
  BY InitInv, NextInv, PTL DEF Spec

\* The bookkeeping keeps its types, and a call has a readersMap in hand exactly when
\* it is about to use one (TrackReader, UntrackReader, HasReaders).
THEOREM TypeCorrect == Spec => []TypeOK
<1>1. Inv => TypeOK BY DEF Inv
<1> QED BY <1>1, Invariance, PTL

\* Release forgets its handle for good, however the sync.Map calls of other handles'
\* reads and releases interleave with UntrackReader's.
THEOREM ReleasedStaysUntracked == Spec => []NoStaleReader
<1>1. Inv => NoStaleReader BY DEF Inv
<1> QED BY <1>1, Invariance, PTL

\* TrackReader and CancelFile, which update readers and recentlyClosed in opposite
\* orders, never leave a file both active and recently closed.
THEOREM ActiveOrClosed == Spec => []NotBothActiveAndClosed
<1>1. Inv => NotBothActiveAndClosed BY DEF Inv
<1> QED BY <1>1, Invariance, PTL
=============================================================================
