-------------------------- MODULE WindowFetchProofs --------------------------
(***************************************************************************)
(* Proofs about WindowFetch, for a file and windows of any size, any       *)
(* readers, requests, retries and faults.                                  *)
(***************************************************************************)
EXTENDS WindowFetch, SequenceTheorems, WellFoundedInduction, TLAPS

-----------------------------------------------------------------------------
(* The inductive invariant.  Its parts speak of any map inf, windows wn and *)
(* reads rd, so that the effects of one step can be taken one by one; sl    *)
(* says that some prefix copy has come out short.                           *)

\* What a window may look like.  An attempt starts with an empty buffer, and the body
\* is asked for from where the buffer ends.
SoundWindow(x, sl) ==
  /\ x.pc \in {"acquire", "prefix", "fill", "backoff"} => x.buf = <<>> /\ x.readyTo = 0
  /\ sl = FALSE =>
       /\ x.readyTo = Len(x.buf)
       /\ Genuine(x.start, x.buf)
       /\ x.pc = "request" => Len(x.buf) = x.cachedLen
       /\ x.pc = "stream" => Len(x.buf) = x.cachedLen + x.read

\* What a read may look like: it stays in the file, takes no more than it wants, and
\* goes on only while something is missing.
SoundReader(x, sl) ==
  /\ x.off + x.want <= FileSize
  /\ Len(x.got) <= x.want
  /\ x.pc \in {"small", "direct", "window", "load", "create", "wait"} =>
       Len(x.got) < x.want
  /\ x.pc \in {"small", "direct"} => x.small = TRUE /\ x.got = <<>>
  /\ x.pc = "idle" /\ x.small = FALSE => Len(x.got) = x.want
  /\ sl = FALSE => Genuine(x.off, x.got)

\* A read waits for a window that starts where its bytes are, or before.
WaitsFor(x, wn) ==
  x.pc = "wait" => x.win \in Windows /\ wn[x.win].start <= x.off + Len(x.got)

\* A fetch that is over leaves an error, a cleanup to come, or nothing in the map.
Leaves(x, inf, w) ==
  x.pc \in {"release", "finish", "ended"} =>
    \/ x.err = TRUE \/ x.cleanup = TRUE
    \/ \A ws \in Starts : inf[ws] # w

\* A window is in the map under its own start only.
Mapped(inf, wn) == \A ws \in Starts : inf[ws] # NoWin => wn[inf[ws]].start = ws

Sound(inf, wn, rd, sl) ==
  /\ inf \in [Starts -> Windows \cup {NoWin}]
  /\ wn \in [Windows -> Window]
  /\ rd \in [Readers -> Reader]
  /\ \A w \in Windows : SoundWindow(wn[w], sl) /\ Leaves(wn[w], inf, w)
  /\ \A r \in Readers : SoundReader(rd[r], sl) /\ WaitsFor(rd[r], wn)
  /\ Mapped(inf, wn)

CacheSound ==
  /\ cache \in [Offsets -> Seq(Byte)]
  /\ slipped = FALSE => CacheHoldsFileBytes

Inv ==
  /\ Sound(inflight, win, reader, slipped)
  /\ CacheSound
  /\ faults \in 0..MaxFaults
  /\ slipped \in BOOLEAN

-----------------------------------------------------------------------------
(* Windows as intervals of the file. *)

LEMMA StartProperties ==
  ASSUME NEW o \in Offsets
  PROVE  /\ WindowStart(o) \in Starts
         /\ WindowStart(o) \in Offsets
         /\ WindowStart(o) <= o
<1>1. WindowStart(o) \in Starts
  BY DEF Starts
<1>2. /\ o \in Int /\ WindowSize \in Int /\ WindowSize > 0 /\ o >= 0
  BY FetchAssumption DEF Offsets
<1>3. o \div WindowSize \in Int /\ (o \div WindowSize) * WindowSize <= o
      /\ (o \div WindowSize) >= 0
  BY <1>2
<1>4. (o \div WindowSize) * WindowSize \in Int /\ (o \div WindowSize) * WindowSize >= 0
  BY <1>2, <1>3
<1> QED BY <1>1, <1>2, <1>3, <1>4, FetchAssumption DEF WindowStart, Offsets

LEMMA StartsAreOffsets == Starts \subseteq Offsets
BY StartProperties DEF Starts

LEMMA ZeroIsStart == 0 \in Starts
<1>1. 0 \in Offsets
  BY FetchAssumption DEF Offsets
<1>2. 0 \div WindowSize = 0
  BY FetchAssumption
<1>3. WindowStart(0) = 0
  BY <1>2, FetchAssumption DEF WindowStart
<1> QED BY <1>1, <1>3 DEF Starts

LEMMA NextStart ==
  ASSUME NEW ws \in Starts, ws + WindowSize < FileSize
  PROVE  ws + WindowSize \in Starts
<1>1. PICK o \in Offsets : ws = (o \div WindowSize) * WindowSize
  BY DEF Starts, WindowStart
<1>2. o \in Int /\ WindowSize \in Int /\ WindowSize > 0 /\ FileSize \in Int
  BY FetchAssumption DEF Offsets
<1> DEFINE q == o \div WindowSize
<1>3. q \in Int
  BY <1>2
<1> HIDE DEF q
<1>4. ws = q * WindowSize /\ ws \in Offsets
  BY <1>1, StartsAreOffsets DEF q
<1>5. ws + WindowSize \in Offsets
  BY <1>2, <1>4 DEF Offsets
<1>6. ((q + 1) * WindowSize) \div WindowSize = q + 1
  BY <1>2, <1>3
<1>7. ws + WindowSize = (q + 1) * WindowSize
  BY <1>2, <1>3, <1>4
<1>8. WindowStart(ws + WindowSize) = ws + WindowSize
  BY <1>6, <1>7 DEF WindowStart
<1> QED BY <1>5, <1>8 DEF Starts

-----------------------------------------------------------------------------
(* Bytes. *)

\* What CopyTo copies: at most what it is asked for, the file's bytes if the cache has
\* nothing else.
LEMMA CopyToProperties ==
  ASSUME cache \in [Offsets -> Seq(Byte)],
         NEW off \in Offsets, NEW n \in Nat, NEW data \in CopyTo(off, n)
  PROVE  /\ data \in Seq(Byte)
         /\ Len(data) <= n
         /\ CacheHoldsFileBytes => Genuine(off, data)
<1>1. PICK s \in Offsets :
        /\ s <= off /\ off < s + Len(cache[s])
        /\ data = SubSeq(cache[s], off - s + 1, Lesser(off - s + n, Len(cache[s])))
  BY DEF CopyTo
<1> DEFINE c == cache[s]
           to == Lesser(off - s + n, Len(c))
<1>2. c \in Seq(Byte) /\ Len(c) \in Nat /\ s \in Nat /\ off \in Nat
  BY FetchAssumption DEF Offsets
<1>3. to \in Int /\ to <= Len(c) /\ to <= off - s + n
  BY <1>1, <1>2 DEF Lesser
<1>a. data = SubSeq(c, off - s + 1, to) /\ off - s + 1 \in 1..(Len(c) + 1)
  BY <1>1, <1>2
<1> HIDE DEF c, to
<1>4. /\ data \in Seq(Byte)
      /\ Len(data) = IF off - s + 1 <= to THEN to - (off - s) ELSE 0
      /\ \A i \in 1..(to - (off - s)) : data[i] = c[off - s + i]
  <2> DEFINE m == off - s + 1
  <2>1. m \in Int /\ m >= 1 /\ to - m + 1 = to - (off - s)
    BY <1>1, <1>2, <1>3
  <2>2. \A i \in Int : m + i - 1 = off - s + i
    BY <1>2
  <2>3. data = SubSeq(c, m, to) /\ (off - s + 1 <= to <=> m <= to)
    BY <1>a
  <2> HIDE DEF m
  <2>4. \A i \in m..to : c[i] \in Byte
    BY <1>2, <1>3, <2>1, ElementOfSeq
  <2>5. /\ data \in Seq(Byte)
        /\ Len(data) = IF m <= to THEN to - m + 1 ELSE 0
        /\ \A i \in 1..(to - m + 1) : data[i] = c[m + i - 1]
    BY <1>3, <2>1, <2>3, <2>4, SubSeqProperties
  <2>6. Len(data) = IF off - s + 1 <= to THEN to - (off - s) ELSE 0
    BY <2>1, <2>3, <2>5
  <2>7. ASSUME NEW i \in 1..(to - (off - s)) PROVE data[i] = c[off - s + i]
    <3>1. i \in 1..(to - m + 1) /\ m + i - 1 = off - s + i
      BY <2>1, <2>2
    <3>2. data[i] = c[m + i - 1]
      BY <2>5, <3>1
    <3> QED BY <3>1, <3>2
  <2> QED BY <2>5, <2>6, <2>7
<1>5. ASSUME CacheHoldsFileBytes PROVE Genuine(off, data)
  <2> SUFFICES ASSUME NEW i \in 1..Len(data) PROVE data[i] = off + i - 1
    BY DEF Genuine
  <2>1. i \in 1..(to - (off - s)) /\ off - s + i \in 1..Len(c)
    BY <1>1, <1>2, <1>3, <1>4
  <2>2. c[off - s + i] = s + (off - s + i) - 1
    BY <1>5, <2>1 DEF CacheHoldsFileBytes, Genuine, c
  <2> QED BY <1>2, <1>4, <2>1, <2>2
<1> QED BY <1>1, <1>2, <1>3, <1>4, <1>5

LEMMA CopiedProperties ==
  ASSUME cache \in [Offsets -> Seq(Byte)],
         NEW off \in Offsets, NEW n \in Nat, NEW data \in Copied(off, n)
  PROVE  /\ data \in Seq(Byte)
         /\ Len(data) <= n
         /\ CacheHoldsFileBytes => Genuine(off, data)
<1>1. CASE CopyTo(off, n) = {}
  <2>1. data = <<>>
    BY <1>1 DEF Copied
  <2> QED BY <2>1 DEF Genuine
<1>2. CASE CopyTo(off, n) # {}
  <2>1. data \in CopyTo(off, n)
    BY <1>2 DEF Copied
  <2> QED BY <2>1, CopyToProperties
<1> QED BY <1>1, <1>2

\* Bytes that follow on each other.
LEMMA GenuineConcat ==
  ASSUME NEW off \in Nat, NEW s \in Seq(Byte), NEW t \in Seq(Byte),
         Genuine(off, s), Genuine(off + Len(s), t)
  PROVE  Genuine(off, s \o t)
<1> SUFFICES ASSUME NEW i \in 1..Len(s \o t) PROVE (s \o t)[i] = off + i - 1
  BY DEF Genuine
<1>1. Len(s) \in Nat /\ Len(t) \in Nat /\ Len(s \o t) = Len(s) + Len(t)
  OBVIOUS
<1>2. CASE i <= Len(s)
  BY <1>1, <1>2 DEF Genuine
<1>3. CASE i > Len(s)
  <2>1. i - Len(s) \in 1..Len(t) /\ (s \o t)[i] = t[i - Len(s)]
    BY <1>1, <1>3
  <2> QED BY <1>1, <2>1 DEF Genuine
<1> QED BY <1>1, <1>2, <1>3

LEMMA GenuineAppend ==
  ASSUME NEW off \in Nat, NEW s \in Seq(Byte), Genuine(off, s), NEW b \in Byte,
         b = off + Len(s)
  PROVE  Genuine(off, Append(s, b))
BY DEF Genuine

\* The cache after a Put.
LEMMA PutProperties ==
  ASSUME CacheSound, NEW off \in Offsets, NEW data \in Seq(Byte),
         cache' = Put(off, data), slipped' = slipped,
         slipped = FALSE => Genuine(off, data)
  PROVE  CacheSound'
<1>1. cache' \in [Offsets -> Seq(Byte)]
  BY DEF CacheSound, Put
<1>2. ASSUME slipped = FALSE PROVE CacheHoldsFileBytes'
  BY <1>2 DEF CacheSound, Put, CacheHoldsFileBytes
<1> QED BY <1>1, <1>2 DEF CacheSound

\* A slice within the buffer's length has the window's bytes.
LEMMA SliceProperties ==
  ASSUME NEW buf \in Seq(Byte), NEW i \in Nat, NEW n \in Nat
  PROVE  /\ Slice(buf, i, n) \in Seq(Byte)
         /\ Len(Slice(buf, i, n)) = n
         /\ \A off \in Int : Genuine(off, buf) /\ i + n <= Len(buf)
              => Genuine(off + i, Slice(buf, i, n))
<1> DEFINE s == Slice(buf, i, n)
<1>1. \A j \in 1..n : (IF i + j <= Len(buf) THEN buf[i + j] ELSE Zero) \in Byte
  <2> SUFFICES ASSUME NEW j \in 1..n, i + j <= Len(buf) PROVE buf[i + j] \in Byte
    BY DEF Byte
  <2>1. i + j \in 1..Len(buf)
    OBVIOUS
  <2> QED BY <2>1, ElementOfSeq
<1>2. s \in Seq(Byte) /\ Len(s) = n /\ \A j \in 1..n :
         s[j] = IF i + j <= Len(buf) THEN buf[i + j] ELSE Zero
  <2>1. s \in [1..n -> Byte]
    BY <1>1 DEF Slice
  <2>2. s \in Seq(Byte) /\ Len(s) = n
    BY <2>1, IsASeq, LenProperties
  <2> QED BY <2>2 DEF Slice
<1> HIDE DEF s
<1>3. ASSUME NEW off \in Int, Genuine(off, buf), i + n <= Len(buf)
      PROVE  Genuine(off + i, s)
  <2> SUFFICES ASSUME NEW j \in 1..n PROVE s[j] = off + i + j - 1
    BY <1>2 DEF Genuine
  <2>1. i + j \in 1..Len(buf)
    BY <1>3
  <2> QED BY <1>2, <1>3, <2>1 DEF Genuine
<1> QED BY <1>2, <1>3 DEF s

-----------------------------------------------------------------------------
(* Window objects. *)

\* A new window takes the least identity that nobody refers to.
LEMMA FreshProperties ==
  ASSUME \E w \in Windows : Unreferenced(w)
  PROVE  FreshWindow \in Windows /\ Unreferenced(FreshWindow)
<1> DEFINE F == {w \in Windows : Unreferenced(w)}
<1>1. F \subseteq Nat /\ F # {}
  BY FetchAssumption
<1> HIDE DEF F
<1>2. PICK w \in F : \A v \in F : ~(<<v, w>> \in OpToRel(<, Nat))
  BY <1>1, NatLessThanWellFounded, WFMin
<1>3. \A m, n \in Nat : m <= n \/ <<n, m>> \in OpToRel(<, Nat)
  BY DEF OpToRel
<1>5. \A v \in F : w <= v
  BY <1>1, <1>2, <1>3
<1>4. w \in Windows /\ Unreferenced(w) /\ \A v \in Windows : Unreferenced(v) => w <= v
  BY <1>2, <1>5 DEF F
<1> QED BY <1>4 DEF FreshWindow

LEMMA NewWindowSound ==
  ASSUME NEW ws \in Starts, NEW sl
  PROVE  NewWindow(ws) \in Window /\ SoundWindow(NewWindow(ws), sl)
<1>1. /\ NewWindow(ws).buf = <<>> /\ NewWindow(ws).readyTo = 0
      /\ NewWindow(ws).pc = "acquire"
  BY DEF NewWindow
<1>2. <<>> \in Seq(Byte) /\ Len(<<>>) = 0
  OBVIOUS
<1>3. NewWindow(ws) \in Window
  BY <1>2, FetchAssumption DEF NewWindow, Window, FetchLabels
<1> QED BY <1>1, <1>2, <1>3 DEF SoundWindow, Genuine

-----------------------------------------------------------------------------
(* The effects a step may have on the map, the windows and the reads. *)

\* One window changes.
LEMMA OneWindow ==
  ASSUME NEW inf, NEW wn, NEW rd, NEW sl, NEW to, Sound(inf, wn, rd, sl),
         to = FALSE => sl = FALSE,
         NEW w \in Windows, NEW x \in Window, x.start = wn[w].start,
         SoundWindow(x, to), Leaves(x, inf, w)
  PROVE  Sound(inf, [wn EXCEPT ![w] = x], rd, to)
<1> DEFINE new == [wn EXCEPT ![w] = x]
<1>1. new \in [Windows -> Window] /\ new[w] = x /\ \A v \in Windows \ {w} : new[v] = wn[v]
  BY DEF Sound
<1>a. \A v \in Windows : new[v].start = wn[v].start
  BY <1>1
<1> HIDE DEF new
<1>2. \A v \in Windows : SoundWindow(new[v], to) /\ Leaves(new[v], inf, v)
  <2> SUFFICES ASSUME NEW v \in Windows, v # w
               PROVE  SoundWindow(wn[v], to) /\ Leaves(wn[v], inf, v)
    BY <1>1
  <2> QED BY DEF Sound, SoundWindow
<1>3. \A r \in Readers : SoundReader(rd[r], to) /\ WaitsFor(rd[r], new)
  <2> TAKE r \in Readers
  <2>1. SoundReader(rd[r], sl) /\ WaitsFor(rd[r], wn)
    BY DEF Sound
  <2>2. SoundReader(rd[r], to)
    BY <2>1 DEF SoundReader
  <2>3. WaitsFor(rd[r], new)
    BY <1>a, <2>1 DEF WaitsFor
  <2> QED BY <2>2, <2>3
<1>4. Mapped(inf, new)
  BY <1>a DEF Sound, Mapped
<1>5. Sound(inf, new, rd, to)
  BY <1>1, <1>2, <1>3, <1>4 DEF Sound
<1> QED BY <1>5 DEF new

\* One read changes.
LEMMA OneReader ==
  ASSUME NEW inf, NEW wn, NEW rd, NEW sl, Sound(inf, wn, rd, sl),
         NEW r \in Readers, NEW x \in Reader,
         SoundReader(x, sl), WaitsFor(x, wn)
  PROVE  Sound(inf, wn, [rd EXCEPT ![r] = x], sl)
BY DEF Sound

\* Windows are taken from the map.
LEMMA Unmapped ==
  ASSUME NEW inf, NEW wn, NEW rd, NEW sl, Sound(inf, wn, rd, sl),
         NEW to \in [Starts -> Windows \cup {NoWin}],
         \A ws \in Starts : to[ws] = inf[ws] \/ to[ws] = NoWin
  PROVE  Sound(to, wn, rd, sl)
<1>0. NoWin \notin Windows
  BY FetchAssumption DEF NoWin
<1>1. ASSUME NEW w \in Windows PROVE SoundWindow(wn[w], sl) /\ Leaves(wn[w], to, w)
  <2>1. SoundWindow(wn[w], sl) /\ Leaves(wn[w], inf, w)
    BY DEF Sound
  <2> QED BY <1>0, <2>1 DEF Leaves
<1>2. Mapped(to, wn)
  BY DEF Sound, Mapped
<1> QED BY <1>1, <1>2 DEF Sound

\* A window that nobody refers to begins anew.
LEMMA Spawned ==
  ASSUME NEW inf, NEW wn, NEW rd, NEW sl, Sound(inf, wn, rd, sl),
         NEW ws \in Starts, NEW f \in Windows,
         \A v \in Starts : inf[v] # f,
         \A r \in Readers : rd[r].win # f
  PROVE  Sound([inf EXCEPT ![ws] = f], [wn EXCEPT ![f] = NewWindow(ws)], rd, sl)
<1> DEFINE to == [inf EXCEPT ![ws] = f]
           x == NewWindow(ws)
           new == [wn EXCEPT ![f] = x]
<1>0. x \in Window /\ SoundWindow(x, sl) /\ x.pc = "acquire" /\ x.start = ws
  BY NewWindowSound DEF NewWindow
<1> HIDE DEF x
<1>1. /\ to \in [Starts -> Windows \cup {NoWin}]
      /\ to[ws] = f /\ \A v \in Starts \ {ws} : to[v] = inf[v]
  BY DEF Sound
<1>2. new \in [Windows -> Window] /\ new[f] = x /\ \A w \in Windows \ {f} : new[w] = wn[w]
  BY <1>0 DEF Sound
<1> HIDE DEF to, new
<1>3. ASSUME NEW w \in Windows PROVE SoundWindow(new[w], sl) /\ Leaves(new[w], to, w)
  <2>1. CASE w = f
    BY <1>0, <1>2, <2>1 DEF Leaves
  <2>2. CASE w # f
    <3>1. SoundWindow(wn[w], sl) /\ Leaves(wn[w], inf, w) /\ new[w] = wn[w]
      BY <1>2, <2>2 DEF Sound
    <3>2. \A v \in Starts : inf[v] # w => to[v] # w
      BY <1>1, <2>2
    <3> QED BY <3>1, <3>2 DEF Leaves
  <2> QED BY <2>1, <2>2
<1>4. ASSUME NEW r \in Readers PROVE SoundReader(rd[r], sl) /\ WaitsFor(rd[r], new)
  <2>1. SoundReader(rd[r], sl) /\ WaitsFor(rd[r], wn) /\ rd[r].win # f
    BY DEF Sound
  <2> QED BY <1>2, <2>1 DEF WaitsFor
<1>5. Mapped(to, new)
  <2> SUFFICES ASSUME NEW v \in Starts, to[v] # NoWin PROVE new[to[v]].start = v
    BY DEF Mapped
  <2>1. CASE v = ws
    BY <1>0, <1>1, <1>2, <2>1
  <2>2. CASE v # ws
    <3>1. to[v] = inf[v] /\ inf[v] \in Windows /\ inf[v] # f /\ wn[inf[v]].start = v
      BY <1>1, <2>2 DEF Sound, Mapped
    <3> QED BY <1>2, <3>1
  <2> QED BY <2>1, <2>2
<1>6. Sound(to, new, rd, sl)
  BY <1>1, <1>2, <1>3, <1>4, <1>5 DEF Sound
<1> QED BY <1>6 DEF to, new, x

-----------------------------------------------------------------------------
(* The steps of fetchWindow. *)

\* A step of window w alone.
LEMMA WindowStep ==
  ASSUME Inv, NEW w \in Windows, NEW x \in Window,
         win' = [win EXCEPT ![w] = x], x.start = win[w].start,
         SoundWindow(x, slipped'), Leaves(x, inflight, w),
         inflight' = inflight, reader' = reader, CacheSound',
         Fault \/ faults' = faults,
         slipped' \in BOOLEAN, slipped' = FALSE => slipped = FALSE
  PROVE  Inv'
<1>1. Sound(inflight, [win EXCEPT ![w] = x], reader, slipped')
  BY OneWindow DEF Inv
<1>2. faults' \in 0..MaxFaults
  BY FetchAssumption DEF Inv, Fault
<1> QED BY <1>1, <1>2 DEF Inv

LEMMA CacheUntouched ==
  ASSUME Inv, cache' = cache, slipped' = FALSE => slipped = FALSE
  PROVE  CacheSound'
BY DEF Inv, CacheSound, CacheHoldsFileBytes

LEMMA AcquireInv ==
  ASSUME Inv, NEW w \in Windows, Acquire(w) \/ AcquireFails(w)
  PROVE  Inv'
<1>0. win[w] \in Window /\ SoundWindow(win[w], slipped)
  BY DEF Inv, Sound
<1>a. CacheSound' /\ slipped' \in BOOLEAN
  BY CacheUntouched DEF Inv, Acquire, AcquireFails
<1>1. CASE Acquire(w)
  <2> DEFINE x == [win[w] EXCEPT !.pc = "prefix"]
  <2>1. win' = [win EXCEPT ![w] = x]
    BY <1>1 DEF Acquire, Goto
  <2>2. /\ x \in Window /\ x.start = win[w].start /\ x.pc = "prefix"
        /\ x.buf = win[w].buf /\ x.readyTo = win[w].readyTo
    BY <1>0 DEF Window, FetchLabels
  <2> HIDE DEF x
  <2>3. SoundWindow(x, slipped) /\ Leaves(x, inflight, w)
    BY <1>0, <1>1, <2>2 DEF SoundWindow, Leaves, Acquire
  <2> QED BY <1>1, <1>a, <2>1, <2>2, <2>3, WindowStep DEF Acquire
<1>2. CASE AcquireFails(w)
  <2> DEFINE x == [win[w] EXCEPT !.pc = "ended", !.err = TRUE, !.done = TRUE, !.cleanup = TRUE]
  <2>1. win' = [win EXCEPT ![w] = x]
    BY <1>2 DEF AcquireFails
  <2>2. /\ x \in Window /\ x.start = win[w].start /\ x.pc = "ended" /\ x.err = TRUE
        /\ x.buf = win[w].buf /\ x.readyTo = win[w].readyTo
    BY <1>0 DEF Window, FetchLabels
  <2> HIDE DEF x
  <2>3. SoundWindow(x, slipped) /\ Leaves(x, inflight, w)
    BY <1>0, <1>2, <2>2 DEF SoundWindow, Leaves, AcquireFails
  <2> QED BY <1>2, <1>a, <2>1, <2>2, <2>3, WindowStep DEF AcquireFails
<1> QED BY <1>1, <1>2

LEMMA CheckPrefixInv ==
  ASSUME Inv, NEW w \in Windows, CheckPrefix(w)
  PROVE  Inv'
<1>0. win[w] \in Window /\ SoundWindow(win[w], slipped) /\ win[w].start \in Offsets
  BY StartsAreOffsets DEF Inv, Sound, Window
<1> DEFINE n == Len(cache[win[w].start])
           l == IF n > 0 THEN "fill" ELSE "request"
           x == [win[w] EXCEPT !.pc = l, !.cachedLen = n, !.buf = <<>>]
<1>1. n \in Nat /\ l \in {"fill", "request"} /\ (l = "request" => n = 0)
  BY <1>0 DEF Inv, CacheSound
<1>2. win' = [win EXCEPT ![w] = x]
  BY DEF CheckPrefix
<1> HIDE DEF n, l
<1>3. /\ x \in Window /\ x.start = win[w].start /\ x.pc = l /\ x.cachedLen = n
      /\ x.buf = <<>> /\ x.readyTo = win[w].readyTo
  <2>1. <<>> \in Seq(Byte) /\ l \in FetchLabels
    BY <1>1 DEF FetchLabels
  <2> QED BY <1>0, <1>1, <2>1 DEF Window
<1> HIDE DEF x
<1>4. SoundWindow(x, slipped) /\ Leaves(x, inflight, w)
  <2>1. x.readyTo = 0
    BY <1>0, <1>3 DEF SoundWindow, CheckPrefix
  <2> QED BY <1>1, <1>3, <2>1 DEF SoundWindow, Leaves, Genuine
<1>5. CacheSound' /\ slipped' \in BOOLEAN
  BY CacheUntouched DEF Inv, CheckPrefix
<1> QED BY <1>2, <1>3, <1>4, <1>5, WindowStep DEF CheckPrefix

\* The buffer is filled from the cache, in full or short of the promise.
LEMMA FillInv ==
  ASSUME Inv, NEW w \in Windows, FillWhole(w) \/ FillPrefix(w)
  PROVE  Inv'
<1>0. /\ win[w] \in Window /\ SoundWindow(win[w], slipped) /\ win[w].start \in Offsets
      /\ win[w].cachedLen \in Nat /\ win[w].start \in Nat
  <2>1. win[w] \in Window /\ SoundWindow(win[w], slipped)
    BY DEF Inv, Sound
  <2>2. win[w].start \in Starts /\ win[w].cachedLen \in Nat
    BY <2>1 DEF Window
  <2>3. win[w].start \in Offsets
    BY <2>2, StartsAreOffsets
  <2>4. win[w].start \in Nat
    BY <2>3 DEF Offsets
  <2> QED BY <2>1, <2>2, <2>3, <2>4
<1>1. CASE FillWhole(w)
  <2>1. PICK data \in Copied(win[w].start, WindowLen(w)) :
          LET rest == [i \in 1..(WindowLen(w) - Len(data)) |-> Zero]
          IN /\ win' = [win EXCEPT ![w].pc = "putWhole", ![w].buf = data \o rest,
                                   ![w].readyTo = Len(data)]
             /\ slipped' = (slipped \/ rest # <<>>)
    BY <1>1 DEF FillWhole
  <2>2. WindowLen(w) \in Nat
    BY <1>0, FetchAssumption DEF WindowLen, WindowEnd, Offsets
  <2>3. /\ data \in Seq(Byte) /\ Len(data) \in Nat /\ Len(data) <= WindowLen(w)
        /\ CacheHoldsFileBytes => Genuine(win[w].start, data)
    BY <1>0, <2>2, CopiedProperties DEF Inv, CacheSound
  <2> DEFINE k == WindowLen(w) - Len(data)
             rest == [i \in 1..k |-> Zero]
             x == [win[w] EXCEPT !.pc = "putWhole", !.buf = data \o rest, !.readyTo = Len(data)]
  <2>4. k \in Nat
    BY <2>2, <2>3
  <2> HIDE DEF k
  <2>5. rest \in Seq(Byte) /\ (rest = <<>> => data \o rest = data)
    <3>1. rest \in Seq(Byte)
      BY <2>4 DEF Byte
    <3> QED BY <2>3, <3>1, ConcatEmptySeq
  <2>6. win' = [win EXCEPT ![w] = x] /\ slipped' = (slipped \/ rest # <<>>)
    BY <2>1 DEF k
  <2> HIDE DEF rest
  <2>7. data \o rest \in Seq(Byte)
    BY <2>3, <2>5, ConcatProperties
  <2>8. /\ x \in Window /\ x.start = win[w].start /\ x.pc = "putWhole"
        /\ x.buf = data \o rest /\ x.readyTo = Len(data)
    BY <1>0, <2>3, <2>7 DEF Window, FetchLabels
  <2> HIDE DEF x
  <2>9. slipped' \in BOOLEAN /\ (slipped' = FALSE => slipped = FALSE /\ rest = <<>>)
    BY <2>6 DEF Inv
  <2>10. CacheSound'
    BY <1>1, <2>9, CacheUntouched DEF FillWhole
  <2>11. SoundWindow(x, slipped') /\ Leaves(x, inflight, w)
    BY <2>3, <2>5, <2>8, <2>9 DEF SoundWindow, Leaves, Inv, CacheSound
  <2>12. faults' = faults /\ inflight' = inflight /\ reader' = reader
    BY <1>1 DEF FillWhole
  <2> QED BY <2>6, <2>8, <2>9, <2>10, <2>11, <2>12, WindowStep
<1>2. CASE FillPrefix(w)
  <2> DEFINE n == win[w].cachedLen
  <2>1. PICK data \in Copied(win[w].start, n) :
          /\ win' = [win EXCEPT ![w].pc = "request", ![w].buf = data, ![w].readyTo = Len(data)]
          /\ slipped' = (slipped \/ Len(data) < n)
    BY <1>2 DEF FillPrefix
  <2>3. /\ data \in Seq(Byte) /\ Len(data) \in Nat /\ Len(data) <= n
        /\ CacheHoldsFileBytes => Genuine(win[w].start, data)
    BY <1>0, CopiedProperties DEF Inv, CacheSound
  <2> DEFINE x == [win[w] EXCEPT !.pc = "request", !.buf = data, !.readyTo = Len(data)]
  <2>6. win' = [win EXCEPT ![w] = x] /\ slipped' = (slipped \/ Len(data) < n)
    BY <2>1
  <2>8. /\ x \in Window /\ x.start = win[w].start /\ x.pc = "request"
        /\ x.buf = data /\ x.readyTo = Len(data) /\ x.cachedLen = n
    BY <1>0, <2>3 DEF Window, FetchLabels
  <2> HIDE DEF x
  <2>9. slipped' \in BOOLEAN /\ (slipped' = FALSE => slipped = FALSE /\ Len(data) = n)
    <3>1. slipped' \in BOOLEAN /\ (slipped' = FALSE => slipped = FALSE /\ ~(Len(data) < n))
      BY <2>6 DEF Inv
    <3> QED BY <1>0, <2>3, <3>1
  <2>10. CacheSound'
    BY <1>2, <2>9, CacheUntouched DEF FillPrefix
  <2>11. SoundWindow(x, slipped') /\ Leaves(x, inflight, w)
    BY <2>3, <2>8, <2>9 DEF SoundWindow, Leaves, Inv, CacheSound
  <2>12. faults' = faults /\ inflight' = inflight /\ reader' = reader
    BY <1>2 DEF FillPrefix
  <2> QED BY <2>6, <2>8, <2>9, <2>10, <2>11, <2>12, WindowStep
<1> QED BY <1>1, <1>2

\* The buffer goes to the cache: a whole window, or what an attempt has got.
LEMMA StoreInv ==
  ASSUME Inv, NEW w \in Windows, PutWhole(w) \/ Store(w)
  PROVE  Inv'
<1>0. win[w] \in Window /\ SoundWindow(win[w], slipped)
  BY DEF Inv, Sound
<1>1. CacheSound' /\ slipped' \in BOOLEAN
  <2>1. win[w].start \in Offsets /\ win[w].buf \in Seq(Byte)
    BY <1>0, StartsAreOffsets DEF Window
  <2>2. slipped = FALSE => Genuine(win[w].start, win[w].buf)
    BY <1>0 DEF SoundWindow
  <2>3. cache' = Put(win[w].start, win[w].buf) /\ slipped' = slipped
    BY DEF PutWhole, Store
  <2> QED BY <2>1, <2>2, <2>3, PutProperties DEF Inv
<1>2. CASE PutWhole(w)
  <2> DEFINE x == [win[w] EXCEPT !.pc = "ahead", !.done = TRUE]
  <2>1. win' = [win EXCEPT ![w] = x]
    BY <1>2 DEF PutWhole
  <2>2. /\ x \in Window /\ x.start = win[w].start /\ x.pc = "ahead"
        /\ x.buf = win[w].buf /\ x.readyTo = win[w].readyTo
    BY <1>0 DEF Window, FetchLabels
  <2> HIDE DEF x
  <2>3. SoundWindow(x, slipped) /\ Leaves(x, inflight, w)
    BY <1>0, <2>2 DEF SoundWindow, Leaves
  <2> QED BY <1>1, <1>2, <2>1, <2>2, <2>3, WindowStep DEF PutWhole
<1>3. CASE Store(w)
  <2> DEFINE x == [win[w] EXCEPT !.pc = "settle"]
  <2>1. win' = [win EXCEPT ![w] = x]
    BY <1>3 DEF Store, Goto
  <2>2. /\ x \in Window /\ x.start = win[w].start /\ x.pc = "settle"
        /\ x.buf = win[w].buf /\ x.readyTo = win[w].readyTo
    BY <1>0 DEF Window, FetchLabels
  <2> HIDE DEF x
  <2>3. SoundWindow(x, slipped) /\ Leaves(x, inflight, w)
    BY <1>0, <2>2 DEF SoundWindow, Leaves
  <2> QED BY <1>1, <1>3, <2>1, <2>2, <2>3, WindowStep DEF Store
<1> QED BY <1>2, <1>3

\* The answer to a request, and the body as it comes: every chunk goes where the buffer
\* ends, for the request asked for what follows the prefix.
LEMMA AnswerInv ==
  ASSUME Inv, NEW w \in Windows, Answer(w)
  PROVE  Inv'
<1>0. win[w] \in Window /\ SoundWindow(win[w], slipped) /\ win[w].start \in Offsets
  BY StartsAreOffsets DEF Inv, Sound, Window
<1>1. PICK end \in {WindowEnd(win[w].start)} \cup
                (IF win[w].start + win[w].cachedLen = 0 THEN {FileSize} ELSE {}) :
        win' = [win EXCEPT ![w].pc = "stream", ![w].bodyEnd = end, ![w].read = 0]
  BY DEF Answer
<1>2. end \in 0..FileSize
  BY <1>0, FetchAssumption DEF WindowEnd, Offsets
<1> DEFINE x == [win[w] EXCEPT !.pc = "stream", !.bodyEnd = end, !.read = 0]
<1>3. win' = [win EXCEPT ![w] = x]
  BY <1>1
<1>4. /\ x \in Window /\ x.start = win[w].start /\ x.pc = "stream" /\ x.read = 0
      /\ x.buf = win[w].buf /\ x.readyTo = win[w].readyTo
      /\ x.cachedLen = win[w].cachedLen /\ x.cachedLen \in Nat
  BY <1>0, <1>2 DEF Window, FetchLabels
<1> HIDE DEF x
<1>5. SoundWindow(x, slipped) /\ Leaves(x, inflight, w)
  BY <1>0, <1>4 DEF SoundWindow, Leaves, Answer
<1>6. CacheSound' /\ slipped' \in BOOLEAN
  BY CacheUntouched DEF Inv, Answer
<1> QED BY <1>3, <1>4, <1>5, <1>6, WindowStep DEF Answer

LEMMA StreamChunkInv ==
  ASSUME Inv, NEW w \in Windows, StreamChunk(w)
  PROVE  Inv'
<1>0. /\ win[w] \in Window /\ SoundWindow(win[w], slipped)
      /\ win[w].cancelled \in BOOLEAN /\ win[w].start \in Offsets
  BY StartsAreOffsets DEF Inv, Sound, Window
<1> DEFINE y == win[w]
           off == y.start + y.cachedLen + y.read
           l == IF y.cancelled THEN "store" ELSE "stream"
           x == [y EXCEPT !.buf = Append(y.buf, off), !.read = y.read + 1,
                          !.readyTo = y.cachedLen + y.read + 1,
                          !.pc = l, !.success = y.cancelled]
<1>1. y.pc = "stream" /\ off < y.bodyEnd
  BY DEF StreamChunk
<1>a. win' = [win EXCEPT ![w] = x]
  BY DEF StreamChunk
<1>2. /\ y.start \in Nat /\ y.cachedLen \in Nat /\ y.read \in Nat /\ y.bodyEnd \in 0..FileSize
      /\ y.buf \in Seq(Byte)
  BY <1>0 DEF Window, Offsets
<1>3. off \in Byte /\ off \in Nat
  <2>1. off \in Nat /\ off <= FileSize - 1
    <3> HIDE DEF y
    <3> QED BY <1>1, <1>2, FetchAssumption
  <2>2. off \in Offsets
    BY <2>1, FetchAssumption DEF Offsets
  <2> QED BY <2>1, <2>2 DEF Byte
<1>4. l \in {"store", "stream"} /\ l \in FetchLabels
  BY DEF FetchLabels
<1>5. /\ Append(y.buf, off) \in Seq(Byte)
      /\ Len(Append(y.buf, off)) = Len(y.buf) + 1
      /\ y.cachedLen + y.read + 1 \in Nat /\ y.read + 1 \in Nat /\ Len(y.buf) \in Nat
  BY <1>2, <1>3, AppendProperties
<1> HIDE DEF l, off
<1>6. /\ x \in Window /\ x.start = y.start /\ x.pc = l /\ x.read = y.read + 1
      /\ x.buf = Append(y.buf, off) /\ x.readyTo = y.cachedLen + y.read + 1
      /\ x.cachedLen = y.cachedLen
  <2> HIDE DEF y
  <2>1. y \in Window /\ y.cancelled \in BOOLEAN
    BY <1>0 DEF y
  <2> QED BY <1>4, <1>5, <2>1 DEF Window
<1> HIDE DEF x
<1>7. ASSUME slipped = FALSE
      PROVE  Len(y.buf) = y.cachedLen + y.read /\ Genuine(y.start, Append(y.buf, off))
  <2>1. Len(y.buf) = y.cachedLen + y.read /\ Genuine(y.start, y.buf)
    BY <1>0, <1>1, <1>7 DEF SoundWindow
  <2>2. off = y.start + Len(y.buf)
    BY <1>2, <2>1 DEF off
  <2> QED BY <1>2, <1>3, <2>1, <2>2, GenuineAppend
<1>8. SoundWindow(x, slipped) /\ Leaves(x, inflight, w)
  <2> HIDE DEF y
  <2>1. x.pc \notin {"acquire", "prefix", "fill", "backoff", "request", "release", "finish", "ended"}
    BY <1>4, <1>6
  <2>2. ASSUME slipped = FALSE
        PROVE  /\ x.readyTo = Len(x.buf) /\ Genuine(x.start, x.buf)
               /\ Len(x.buf) = x.cachedLen + x.read
    <3>1. Len(y.buf) = y.cachedLen + y.read /\ Genuine(y.start, Append(y.buf, off))
      BY <1>7, <2>2
    <3>2. Len(x.buf) = y.cachedLen + y.read + 1
      BY <1>2, <1>5, <1>6, <3>1
    <3>3. Genuine(x.start, x.buf)
      BY <1>6, <3>1
    <3> QED BY <1>2, <1>6, <3>2, <3>3
  <2> QED BY <2>1, <2>2 DEF SoundWindow, Leaves
<1>9. CacheSound' /\ slipped' \in BOOLEAN
  BY CacheUntouched DEF Inv, StreamChunk
<1> QED BY <1>a, <1>6, <1>8, <1>9, WindowStep DEF StreamChunk

\* The body ends or breaks.
LEMMA StreamEndInv ==
  ASSUME Inv, NEW w \in Windows, StreamEOF(w) \/ StreamBreaks(w)
  PROVE  Inv'
<1>0. win[w] \in Window /\ SoundWindow(win[w], slipped)
  BY DEF Inv, Sound
<1>1. PICK ok \in BOOLEAN : win' = [win EXCEPT ![w].pc = "store", ![w].success = ok]
  BY DEF StreamEOF, StreamBreaks
<1> DEFINE x == [win[w] EXCEPT !.pc = "store", !.success = ok]
<1>2. win' = [win EXCEPT ![w] = x]
  BY <1>1
<1>3. /\ x \in Window /\ x.start = win[w].start /\ x.pc = "store"
      /\ x.buf = win[w].buf /\ x.readyTo = win[w].readyTo
  BY <1>0 DEF Window, FetchLabels
<1> HIDE DEF x
<1>4. SoundWindow(x, slipped) /\ Leaves(x, inflight, w)
  BY <1>0, <1>3 DEF SoundWindow, Leaves
<1>5. CacheSound' /\ slipped' \in BOOLEAN
  BY CacheUntouched DEF Inv, StreamEOF, StreamBreaks
<1>6. /\ Fault \/ faults' = faults
      /\ inflight' = inflight /\ reader' = reader /\ slipped' = slipped
  BY DEF StreamEOF, StreamBreaks
<1> QED BY <1>2, <1>3, <1>4, <1>5, <1>6, WindowStep

\* fetchWindow returns from window y: the buffer stays for those who wait.
ReturnOf(y) ==
  [y EXCEPT !.pc = "release", !.attempt = 0, !.cachedLen = 0, !.read = 0,
            !.bodyEnd = 0, !.success = FALSE]

LEMMA ReturnSound ==
  ASSUME NEW y \in Window, NEW sl, SoundWindow(y, sl), y.err = TRUE \/ y.cleanup = TRUE
  PROVE  /\ ReturnOf(y) \in Window /\ ReturnOf(y).start = y.start
         /\ SoundWindow(ReturnOf(y), sl)
         /\ \A inf, w : Leaves(ReturnOf(y), inf, w)
<1> DEFINE x == ReturnOf(y)
<1>1. /\ x \in Window /\ x.start = y.start /\ x.pc = "release" /\ x.err = y.err
      /\ x.cleanup = y.cleanup /\ x.buf = y.buf /\ x.readyTo = y.readyTo
  <2>1. 0 \in 0..MaxRetries /\ 0 \in 0..FileSize /\ "release" \in FetchLabels
    BY FetchAssumption DEF FetchLabels
  <2> QED BY <2>1 DEF Window, ReturnOf
<1> HIDE DEF x
<1>2. SoundWindow(x, sl)
  BY <1>1 DEF SoundWindow
<1>3. \A inf, w : Leaves(x, inf, w)
  BY <1>1 DEF Leaves
<1> QED BY <1>1, <1>2, <1>3 DEF x

\* The error that ends the attempts.
LEMMA ErrorSound ==
  ASSUME Inv, NEW w \in Windows
  PROVE  LET y == [win[w] EXCEPT !.err = TRUE]
         IN /\ Return([win EXCEPT ![w].err = TRUE], w) = [win EXCEPT ![w] = ReturnOf(y)]
            /\ ReturnOf(y) \in Window /\ ReturnOf(y).start = win[w].start
            /\ SoundWindow(ReturnOf(y), slipped)
            /\ Leaves(ReturnOf(y), inflight, w)
<1>0. win[w] \in Window /\ SoundWindow(win[w], slipped) /\ win \in [Windows -> Window]
  BY DEF Inv, Sound
<1> DEFINE y == [win[w] EXCEPT !.err = TRUE]
<1>1. /\ y \in Window /\ y.start = win[w].start /\ y.err = TRUE /\ y.pc = win[w].pc
      /\ y.buf = win[w].buf /\ y.readyTo = win[w].readyTo
      /\ y.cachedLen = win[w].cachedLen /\ y.read = win[w].read
  BY <1>0 DEF Window
<1>2. Return([win EXCEPT ![w].err = TRUE], w) = [win EXCEPT ![w] = ReturnOf(y)]
  BY <1>0 DEF Return, ReturnOf
<1> HIDE DEF y
<1>3. SoundWindow(y, slipped)
  BY <1>0, <1>1 DEF SoundWindow
<1>4. /\ ReturnOf(y) \in Window /\ ReturnOf(y).start = y.start
      /\ SoundWindow(ReturnOf(y), slipped) /\ Leaves(ReturnOf(y), inflight, w)
  BY <1>1, <1>3, ReturnSound
<1> QED BY <1>1, <1>2, <1>4 DEF y

\* Another attempt, from an empty buffer, or the error.
LEMMA RetryInv ==
  ASSUME Inv, NEW w \in Windows, NEW retryable \in BOOLEAN, win' = Retry(w, retryable),
         UNCHANGED <<cache, inflight, reader, slipped>>, Fault \/ faults' = faults
  PROVE  Inv'
<1>0. /\ win[w] \in Window /\ win[w].start \in Starts
      /\ win[w].done \in BOOLEAN /\ win[w].cancelled \in BOOLEAN
      /\ win[w].attempt \in 0..MaxRetries
  BY DEF Inv, Sound, Window
<1>a. CacheSound' /\ slipped' \in BOOLEAN
  BY CacheUntouched DEF Inv
<1>1. CASE retryable /\ win[w].attempt < MaxRetries
  <2> DEFINE n == NewWindow(win[w].start)
             x == [n EXCEPT !.pc = "backoff", !.attempt = win[w].attempt + 1,
                            !.done = win[w].done, !.cancelled = win[w].cancelled]
  <2>1. win' = [win EXCEPT ![w] = x]
    BY <1>1 DEF Retry
  <2>2. n \in Window /\ n.buf = <<>> /\ n.readyTo = 0 /\ n.start = win[w].start
    BY <1>0, NewWindowSound DEF NewWindow
  <2> HIDE DEF n
  <2>3. win[w].attempt + 1 \in 0..MaxRetries
    BY <1>0, <1>1, FetchAssumption
  <2>4. /\ x \in Window /\ x.start = win[w].start /\ x.pc = "backoff"
        /\ x.buf = <<>> /\ x.readyTo = 0
    BY <1>0, <2>2, <2>3 DEF Window, FetchLabels
  <2> HIDE DEF x
  <2>5. SoundWindow(x, slipped) /\ Leaves(x, inflight, w)
    BY <2>4 DEF SoundWindow, Leaves, Genuine
  <2> QED BY <1>a, <2>1, <2>4, <2>5, WindowStep
<1>2. CASE ~(retryable /\ win[w].attempt < MaxRetries)
  <2> DEFINE x == ReturnOf([win[w] EXCEPT !.err = TRUE])
  <2>1. /\ win' = [win EXCEPT ![w] = x] /\ x \in Window /\ x.start = win[w].start
        /\ SoundWindow(x, slipped) /\ Leaves(x, inflight, w)
    BY <1>2, ErrorSound DEF Retry
  <2> HIDE DEF x
  <2> QED BY <1>a, <2>1, WindowStep
<1> QED BY <1>1, <1>2

LEMMA FailureInv ==
  ASSUME Inv, NEW w \in Windows, RequestFails(w) \/ Backoff(w) \/ Settle(w)
  PROVE  Inv'
<1>0. win[w] \in Window /\ SoundWindow(win[w], slipped)
  BY DEF Inv, Sound
<1>1. CASE RequestFails(w)
  <2>1. \E retryable \in BOOLEAN : win' = Retry(w, retryable)
    BY <1>1 DEF RequestFails
  <2>2. UNCHANGED <<cache, inflight, reader, slipped>> /\ (Fault \/ faults' = faults)
    BY <1>1 DEF RequestFails
  <2> QED BY <2>1, <2>2, RetryInv
<1>2. CASE Backoff(w)
  <2>a. CacheSound' /\ slipped' \in BOOLEAN /\ UNCHANGED <<inflight, reader, faults, slipped>>
    BY <1>2, CacheUntouched DEF Inv, Backoff
  <2>1. CASE win' = Goto(w, "prefix")
    <3> DEFINE x == [win[w] EXCEPT !.pc = "prefix"]
    <3>1. win' = [win EXCEPT ![w] = x]
      BY <2>1 DEF Goto
    <3>2. /\ x \in Window /\ x.start = win[w].start /\ x.pc = "prefix"
          /\ x.buf = win[w].buf /\ x.readyTo = win[w].readyTo
      BY <1>0 DEF Window, FetchLabels
    <3> HIDE DEF x
    <3>3. SoundWindow(x, slipped) /\ Leaves(x, inflight, w)
      BY <1>0, <1>2, <3>2 DEF SoundWindow, Leaves, Backoff
    <3> QED BY <2>a, <3>1, <3>2, <3>3, WindowStep
  <2>2. CASE win' = Return([win EXCEPT ![w].err = TRUE], w)
    <3> DEFINE x == ReturnOf([win[w] EXCEPT !.err = TRUE])
    <3>1. /\ win' = [win EXCEPT ![w] = x] /\ x \in Window /\ x.start = win[w].start
          /\ SoundWindow(x, slipped) /\ Leaves(x, inflight, w)
      BY <2>2, ErrorSound
    <3> HIDE DEF x
    <3> QED BY <2>a, <3>1, WindowStep
  <2> QED BY <1>2, <2>1, <2>2 DEF Backoff
<1>3. CASE Settle(w)
  <2>1. CASE win' = Retry(w, TRUE)
    BY <1>3, <2>1, RetryInv DEF Settle
  <2>2. CASE win' = [win EXCEPT ![w].pc = "ahead", ![w].done = TRUE]
    <3> DEFINE x == [win[w] EXCEPT !.pc = "ahead", !.done = TRUE]
    <3>1. win' = [win EXCEPT ![w] = x]
      BY <2>2
    <3>2. /\ x \in Window /\ x.start = win[w].start /\ x.pc = "ahead"
          /\ x.buf = win[w].buf /\ x.readyTo = win[w].readyTo
      BY <1>0 DEF Window, FetchLabels
    <3> HIDE DEF x
    <3>3. SoundWindow(x, slipped) /\ Leaves(x, inflight, w)
      BY <1>0, <3>2 DEF SoundWindow, Leaves
    <3>4. CacheSound' /\ slipped' \in BOOLEAN /\ UNCHANGED <<inflight, reader, faults, slipped>>
      BY <1>3, CacheUntouched DEF Inv, Settle
    <3> QED BY <3>1, <3>2, <3>3, <3>4, WindowStep
  <2> QED BY <1>3, <2>1, <2>2 DEF Settle
<1> QED BY <1>1, <1>2, <1>3

\* maybeReadAhead, next to other changes of the step that have been dealt with.
LEMMA ReadAheadSound ==
  ASSUME NEW base, NEW rd, Sound(inflight, base, rd, slipped),
         \A r \in Readers : rd[r].win = reader[r].win \/ rd[r].win = NoWin,
         NEW ws \in Starts, NEW end, MaybeReadAhead(ws, end, base)
  PROVE  Sound(inflight', win', rd, slipped)
<1>1. CASE UNCHANGED inflight /\ win' = base
  BY <1>1
<1>2. CASE ReadAhead(ws, end, base)
  <2> DEFINE next == ws + WindowSize
             f == FreshWindow
  <2>1. /\ next < FileSize /\ \E w \in Windows : Unreferenced(w)
        /\ inflight' = [inflight EXCEPT ![next] = f]
        /\ win' = [base EXCEPT ![f] = NewWindow(next)]
    BY <1>2 DEF ReadAhead, Spawn
  <2>2. next \in Starts
    BY <2>1, NextStart
  <2>3. f \in Windows /\ Unreferenced(f) /\ f # NoWin
    BY <2>1, FreshProperties, FetchAssumption DEF NoWin
  <2>4. (\A v \in Starts : inflight[v] # f) /\ \A r \in Readers : rd[r].win # f
    BY <2>3 DEF Unreferenced
  <2> HIDE DEF next, f
  <2> QED BY <2>1, <2>2, <2>3, <2>4, Spawned
<1> QED BY <1>1, <1>2 DEF MaybeReadAhead

\* A window is done: read-ahead, and the cleanup that takes it from the map.
LEMMA FetchAheadInv ==
  ASSUME Inv, NEW w \in Windows, FetchAhead(w)
  PROVE  Inv'
<1>0. /\ win[w] \in Window /\ SoundWindow(win[w], slipped) /\ win \in [Windows -> Window]
      /\ Sound(inflight, win, reader, slipped)
  BY DEF Inv, Sound
<1> DEFINE y == [win[w] EXCEPT !.cleanup = TRUE]
           x == ReturnOf(y)
           base == [win EXCEPT ![w] = x]
<1>1. /\ y \in Window /\ y.start = win[w].start /\ y.cleanup = TRUE /\ y.pc = win[w].pc
      /\ y.buf = win[w].buf /\ y.readyTo = win[w].readyTo
      /\ y.cachedLen = win[w].cachedLen /\ y.read = win[w].read
  BY <1>0 DEF Window
<1>2. Return([win EXCEPT ![w].cleanup = TRUE], w) = base
  BY <1>0 DEF Return, ReturnOf
<1> HIDE DEF y
<1>3. SoundWindow(y, slipped)
  BY <1>0, <1>1 DEF SoundWindow
<1>4. x \in Window /\ x.start = win[w].start /\ SoundWindow(x, slipped) /\ Leaves(x, inflight, w)
  BY <1>1, <1>3, ReturnSound
<1> HIDE DEF x
<1>5. Sound(inflight, base, reader, slipped)
  BY <1>0, <1>4, OneWindow
<1> HIDE DEF base
<1>6. MaybeReadAhead(win[w].start, win[w].start + WindowSize, base) /\ win[w].start \in Starts
  BY <1>0, <1>2 DEF FetchAhead, Window
<1>7. Sound(inflight', win', reader, slipped)
  BY <1>5, <1>6, ReadAheadSound
<1>8. CacheSound' /\ UNCHANGED <<reader, faults, slipped>>
  BY CacheUntouched DEF FetchAhead
<1> QED BY <1>7, <1>8 DEF Inv

\* The deferred function, and the cleanup after its delay.
LEMMA EndInv ==
  ASSUME Inv, NEW w \in Windows, ReleaseSlot(w) \/ Finish(w) \/ Cleanup(w)
  PROVE  Inv'
<1>0. /\ win[w] \in Window /\ SoundWindow(win[w], slipped) /\ Leaves(win[w], inflight, w)
      /\ Sound(inflight, win, reader, slipped)
  BY DEF Inv, Sound
<1>a. CacheSound' /\ slipped' \in BOOLEAN /\ UNCHANGED <<reader, faults, slipped>>
  BY CacheUntouched DEF Inv, ReleaseSlot, Finish, Cleanup
<1>1. CASE ReleaseSlot(w)
  <2> DEFINE x == [win[w] EXCEPT !.pc = "finish"]
  <2>1. win' = [win EXCEPT ![w] = x] /\ inflight' = inflight
    BY <1>1 DEF ReleaseSlot, Goto
  <2>2. /\ x \in Window /\ x.start = win[w].start /\ x.pc = "finish" /\ x.err = win[w].err
        /\ x.cleanup = win[w].cleanup /\ x.buf = win[w].buf /\ x.readyTo = win[w].readyTo
    BY <1>0 DEF Window, FetchLabels
  <2> HIDE DEF x
  <2>3. SoundWindow(x, slipped) /\ Leaves(x, inflight, w)
    BY <1>0, <1>1, <2>2 DEF SoundWindow, Leaves, ReleaseSlot
  <2> QED BY <1>a, <2>1, <2>2, <2>3, WindowStep
<1>2. CASE Finish(w)
  <2> DEFINE x == [win[w] EXCEPT !.pc = "ended", !.done = TRUE]
  <2>1. win' = [win EXCEPT ![w] = x] /\ inflight' = inflight
    BY <1>2 DEF Finish
  <2>2. /\ x \in Window /\ x.start = win[w].start /\ x.pc = "ended" /\ x.err = win[w].err
        /\ x.cleanup = win[w].cleanup /\ x.buf = win[w].buf /\ x.readyTo = win[w].readyTo
    BY <1>0 DEF Window, FetchLabels
  <2> HIDE DEF x
  <2>3. SoundWindow(x, slipped) /\ Leaves(x, inflight, w)
    BY <1>0, <1>2, <2>2 DEF SoundWindow, Leaves, Finish
  <2> QED BY <1>a, <2>1, <2>2, <2>3, WindowStep
<1>3. CASE Cleanup(w)
  <2> DEFINE x == [win[w] EXCEPT !.cleanup = FALSE]
             to == [ws \in Starts |-> IF inflight[ws] = w THEN NoWin ELSE inflight[ws]]
  <2>1. win' = [win EXCEPT ![w] = x] /\ inflight' = to
    BY <1>3 DEF Cleanup
  <2>2. /\ x \in Window /\ x.start = win[w].start /\ x.pc = win[w].pc
        /\ x.buf = win[w].buf /\ x.readyTo = win[w].readyTo
        /\ x.cachedLen = win[w].cachedLen /\ x.read = win[w].read
    BY <1>0 DEF Window
  <2>3. /\ to \in [Starts -> Windows \cup {NoWin}]
        /\ \A ws \in Starts : (to[ws] = inflight[ws] \/ to[ws] = NoWin) /\ to[ws] # w
    BY <1>0, FetchAssumption DEF Sound, NoWin
  <2> HIDE DEF x, to
  <2>4. Sound(to, win, reader, slipped)
    BY <1>0, <2>3, Unmapped
  <2>5. SoundWindow(x, slipped) /\ Leaves(x, to, w)
    BY <1>0, <2>2, <2>3 DEF SoundWindow, Leaves
  <2>6. Sound(to, [win EXCEPT ![w] = x], reader, slipped)
    BY <2>2, <2>4, <2>5, OneWindow
  <2> QED BY <1>a, <2>1, <2>6 DEF Inv
<1> QED BY <1>1, <1>2, <1>3

LEMMA CancelInv ==
  ASSUME Inv, NEW ws \in Starts, CancelWindow(ws)
  PROVE  Inv'
<1> DEFINE w == inflight[ws]
           x == [win[w] EXCEPT !.cancelled = TRUE, !.done = TRUE]
           to == [inflight EXCEPT ![ws] = NoWin]
<1>0. /\ w \in Windows /\ win[w] \in Window /\ SoundWindow(win[w], slipped)
      /\ Leaves(win[w], inflight, w) /\ Sound(inflight, win, reader, slipped)
  BY DEF Inv, Sound, CancelWindow
<1>1. win' = [win EXCEPT ![w] = x] /\ inflight' = to
  BY DEF CancelWindow
<1>2. /\ to \in [Starts -> Windows \cup {NoWin}]
      /\ \A v \in Starts : to[v] = inflight[v] \/ to[v] = NoWin
  BY <1>0 DEF Sound
<1> HIDE DEF to, w
<1>3. /\ x \in Window /\ x.start = win[w].start /\ x.pc = win[w].pc
      /\ x.buf = win[w].buf /\ x.readyTo = win[w].readyTo /\ x.err = win[w].err
      /\ x.cleanup = win[w].cleanup
      /\ x.cachedLen = win[w].cachedLen /\ x.read = win[w].read
  BY <1>0 DEF Window
<1> HIDE DEF x
<1>4. SoundWindow(x, slipped) /\ Leaves(x, inflight, w)
  BY <1>0, <1>3 DEF SoundWindow, Leaves
<1>5. Sound(inflight, [win EXCEPT ![w] = x], reader, slipped)
  BY <1>0, <1>3, <1>4, OneWindow
<1>6. Sound(to, [win EXCEPT ![w] = x], reader, slipped)
  BY <1>2, <1>5, Unmapped
<1>7. CacheSound' /\ UNCHANGED <<reader, slipped>> /\ faults' \in 0..MaxFaults
  <2>1. UNCHANGED <<cache, reader, slipped>> /\ Fault
    BY DEF CancelWindow
  <2>2. faults' \in 0..MaxFaults
    BY <2>1, FetchAssumption DEF Inv, Fault
  <2> QED BY <2>1, <2>2, CacheUntouched
<1> QED BY <1>1, <1>6, <1>7 DEF Inv

LEMMA FetchInv ==
  ASSUME Inv, NEW w \in Windows, Fetch(w)
  PROVE  Inv'
BY AcquireInv, CheckPrefixInv, FillInv, StoreInv, AnswerInv, FailureInv, StreamChunkInv,
   StreamEndInv, FetchAheadInv, EndInv DEF Fetch

-----------------------------------------------------------------------------
(* The steps of ReadAt. *)

Busy == {"small", "direct", "window", "load", "create", "wait"}

\* A step of read r alone.
LEMMA ReaderStep ==
  ASSUME Inv, NEW r \in Readers, NEW x \in Reader,
         reader' = [reader EXCEPT ![r] = x],
         SoundReader(x, slipped), WaitsFor(x, win),
         UNCHANGED <<inflight, win, slipped>>, CacheSound',
         Fault \/ faults' = faults
  PROVE  Inv'
<1>1. Sound(inflight, win, [reader EXCEPT ![r] = x], slipped)
  BY OneReader DEF Inv
<1>2. faults' \in 0..MaxFaults
  BY FetchAssumption DEF Inv, Fault
<1> QED BY <1>1, <1>2 DEF Inv

\* Where a read that goes on has its next byte.
LEMMA CurProperties ==
  ASSUME Inv, NEW r \in Readers
  PROVE  /\ reader[r] \in Reader /\ SoundReader(reader[r], slipped)
         /\ WaitsFor(reader[r], win) /\ reader \in [Readers -> Reader]
         /\ reader[r].off \in Offsets /\ reader[r].off \in Nat /\ reader[r].want \in Nat
         /\ reader[r].got \in Seq(Byte) /\ Len(reader[r].got) \in Nat
         /\ Cur(r) = reader[r].off + Len(reader[r].got)
         /\ Missing(r) = reader[r].want - Len(reader[r].got)
         /\ reader[r].pc \in Busy =>
              /\ Cur(r) \in Offsets /\ Cur(r) \in Nat /\ Missing(r) \in Nat \ {0}
              /\ WindowStart(Cur(r)) \in Starts /\ WindowStart(Cur(r)) <= Cur(r)
<1>1. /\ reader[r] \in Reader /\ SoundReader(reader[r], slipped)
      /\ WaitsFor(reader[r], win) /\ reader \in [Readers -> Reader]
  BY DEF Inv, Sound
<1>2. /\ reader[r].off \in Offsets /\ reader[r].off \in Nat /\ reader[r].want \in Nat
      /\ reader[r].got \in Seq(Byte) /\ Len(reader[r].got) \in Nat
  BY <1>1 DEF Reader, Offsets
<1>3. /\ Cur(r) = reader[r].off + Len(reader[r].got)
      /\ Missing(r) = reader[r].want - Len(reader[r].got)
  BY DEF Cur, Missing
<1>4. ASSUME reader[r].pc \in Busy
      PROVE  Cur(r) \in Offsets /\ Cur(r) \in Nat /\ Missing(r) \in Nat \ {0}
  BY <1>1, <1>2, <1>3, <1>4, FetchAssumption DEF SoundReader, Busy, Offsets
<1> QED BY <1>1, <1>2, <1>3, <1>4, StartProperties

\* Bytes that come from the cache or from a window are taken.
LEMMA TakeSound ==
  ASSUME Inv, NEW r \in Readers, reader[r].pc \in {"window", "wait"},
         NEW data \in Seq(Byte), Len(data) <= Missing(r),
         slipped = FALSE => Genuine(Cur(r), data)
  PROVE  \E x \in Reader :
           /\ Take(r, data) = [reader EXCEPT ![r] = x]
           /\ SoundReader(x, slipped) /\ WaitsFor(x, win)
<1> DEFINE y == reader[r]
           ws == WindowStart(Cur(r))
           x == [y EXCEPT !.pc = "ahead", !.ws = ws, !.got = y.got \o data]
<1>1. /\ y \in Reader /\ SoundReader(y, slipped) /\ y.off \in Nat /\ y.want \in Nat
      /\ y.got \in Seq(Byte) /\ Len(y.got) \in Nat /\ Cur(r) = y.off + Len(y.got)
      /\ Missing(r) = y.want - Len(y.got) /\ ws \in Starts
  BY CurProperties DEF Busy
<1>2. /\ y.got \o data \in Seq(Byte) /\ Len(y.got \o data) = Len(y.got) + Len(data)
      /\ Len(data) \in Nat
  BY <1>1, ConcatProperties
<1>3. Take(r, data) = [reader EXCEPT ![r] = x]
  BY DEF Take
<1> HIDE DEF ws
<1>4. /\ x \in Reader /\ x.pc = "ahead" /\ x.got = y.got \o data /\ x.off = y.off
      /\ x.want = y.want
  <2> HIDE DEF y
  <2> QED BY <1>1, <1>2 DEF Reader, ReaderLabels
<1> HIDE DEF x
<1>5. slipped = FALSE => Genuine(x.off, x.got)
  <2> SUFFICES ASSUME slipped = FALSE PROVE Genuine(y.off, y.got \o data)
    BY <1>4
  <2>1. Genuine(y.off, y.got) /\ Genuine(y.off + Len(y.got), data)
    BY <1>1 DEF SoundReader
  <2> QED BY <1>1, <2>1, GenuineConcat
<1>6. x.off + x.want <= FileSize /\ Len(x.got) <= x.want
  <2>1. y.off + y.want <= FileSize
    BY <1>1 DEF SoundReader
  <2> HIDE DEF y
  <2> QED BY <1>1, <1>2, <1>4, <2>1
<1>7. SoundReader(x, slipped) /\ WaitsFor(x, win)
  BY <1>4, <1>5, <1>6 DEF SoundReader, WaitsFor
<1> QED BY <1>3, <1>4, <1>7

\* A read fails and gives up what it has got.
LEMMA FailSound ==
  ASSUME Inv, NEW r \in Readers
  PROVE  \E x \in Reader :
           /\ Fail(r) = [reader EXCEPT ![r] = x]
           /\ SoundReader(x, slipped) /\ WaitsFor(x, win)
<1> DEFINE y == reader[r]
           x == [y EXCEPT !.pc = "failed", !.win = NoWin, !.got = <<>>]
<1>1. y \in Reader /\ SoundReader(y, slipped) /\ y.want \in Nat
  BY CurProperties
<1>2. Fail(r) = [reader EXCEPT ![r] = x]
  BY DEF Fail
<1>3. <<>> \in Seq(Byte) /\ Len(<<>>) = 0
  OBVIOUS
<1>4. /\ x \in Reader /\ x.pc = "failed" /\ x.got = <<>> /\ x.off = y.off /\ x.want = y.want
  <2> HIDE DEF y
  <2> QED BY <1>1, <1>3 DEF Reader, ReaderLabels
<1> HIDE DEF x
<1>5. SoundReader(x, slipped) /\ WaitsFor(x, win)
  BY <1>1, <1>3, <1>4 DEF SoundReader, WaitsFor, Genuine
<1> QED BY <1>2, <1>4, <1>5

LEMMA ReadAtInv ==
  ASSUME Inv, NEW r \in Readers, NEW req \in Requests, ReadAt(r, req)
  PROVE  Inv'
<1>0. reader[r] \in Reader
  BY CurProperties
<1>1. PICK small \in BOOLEAN :
       reader' = [reader EXCEPT ![r] =
         [pc |-> IF small THEN "small" ELSE "window", off |-> req.off,
          want |-> Lesser(req.len, FileSize - req.off), got |-> <<>>, win |-> NoWin,
          small |-> small, ws |-> 0, calls |-> reader[r].calls + 1]]
  BY DEF ReadAt
<1> DEFINE l == IF small THEN "small" ELSE "window"
           want == Lesser(req.len, FileSize - req.off)
           n == reader[r].calls + 1
           x == [pc |-> l, off |-> req.off, want |-> want, got |-> <<>>, win |-> NoWin,
                 small |-> small, ws |-> 0, calls |-> n]
<1>2. req.off \in Offsets /\ req.len \in Nat \ {0} /\ req.off \in 0..(FileSize - 1)
  BY FetchAssumption DEF Offsets
<1>3. want \in Nat \ {0} /\ req.off + want <= FileSize
  BY <1>2, FetchAssumption DEF Lesser
<1>4. l \in {"small", "window"} /\ (l = "small" => small = TRUE)
  OBVIOUS
<1>5. n \in 0..MaxReads
  BY <1>0, FetchAssumption DEF ReadAt, Reader
<1>6. reader' = [reader EXCEPT ![r] = x]
  BY <1>1
<1>7. <<>> \in Seq(Byte) /\ Len(<<>>) = 0 /\ l \in ReaderLabels
  BY <1>4 DEF ReaderLabels
<1> HIDE DEF l, want, n
<1>8. /\ x \in Reader /\ x.pc = l /\ x.got = <<>> /\ x.off = req.off /\ x.want = want
      /\ x.small = small
  BY <1>2, <1>3, <1>5, <1>7, ZeroIsStart DEF Reader
<1> HIDE DEF x
<1>9. SoundReader(x, slipped) /\ WaitsFor(x, win)
  BY <1>3, <1>4, <1>7, <1>8 DEF SoundReader, WaitsFor, Genuine
<1>10. CacheSound' /\ UNCHANGED <<inflight, win, faults, slipped>>
  BY CacheUntouched DEF ReadAt
<1> QED BY <1>6, <1>8, <1>9, <1>10, ReaderStep

LEMMA FileBytesProperties ==
  ASSUME NEW off \in Nat, NEW n \in Nat, off + n <= FileSize
  PROVE  /\ FileBytes(off, n) \in Seq(Byte) /\ Len(FileBytes(off, n)) = n
         /\ Genuine(off, FileBytes(off, n))
<1> DEFINE s == FileBytes(off, n)
<1>1. \A i \in 1..n : off + i - 1 \in Byte
  BY FetchAssumption DEF Byte, Offsets
<1>2. s \in [1..n -> Byte]
  BY <1>1 DEF FileBytes
<1>3. s \in Seq(Byte) /\ Len(s) = n
  BY <1>2, IsASeq, LenProperties
<1> QED BY <1>3 DEF Genuine, FileBytes

\* A read gets only a new label, or gives up the direct path.
LEMMA RelabelInv ==
  ASSUME Inv, NEW r \in Readers, reader[r].pc \in Busy, NEW x,
         reader' = [reader EXCEPT ![r] = x],
         \/ x = [reader[r] EXCEPT !.pc = "window", !.small = FALSE]
         \/ \E l \in {"load", "create"} : x = [reader[r] EXCEPT !.pc = l]
         \/ reader[r].pc = "small" /\ x = [reader[r] EXCEPT !.pc = "direct"],
         UNCHANGED <<cache, inflight, win, slipped>>, Fault \/ faults' = faults
  PROVE  Inv'
<1> DEFINE y == reader[r]
<1>1. y \in Reader /\ SoundReader(y, slipped) /\ y.pc \in Busy
  BY CurProperties
<1> HIDE DEF y
<1>2. /\ x \in Reader /\ x.off = y.off /\ x.want = y.want /\ x.got = y.got
      /\ x.pc \in {"window", "load", "create", "direct"}
      /\ x.pc = "direct" => y.pc = "small" /\ x.small = y.small
  <2>1. CASE x = [y EXCEPT !.pc = "window", !.small = FALSE]
    BY <1>1, <2>1 DEF Reader, ReaderLabels
  <2>2. CASE \E l \in {"load", "create"} : x = [y EXCEPT !.pc = l]
    BY <1>1, <2>2 DEF Reader, ReaderLabels
  <2>3. CASE y.pc = "small" /\ x = [y EXCEPT !.pc = "direct"]
    BY <1>1, <2>3 DEF Reader, ReaderLabels
  <2> QED BY <2>1, <2>2, <2>3 DEF y
<1>3. SoundReader(x, slipped) /\ WaitsFor(x, win)
  BY <1>1, <1>2 DEF SoundReader, WaitsFor, Busy
<1> QED BY <1>2, <1>3, CacheUntouched, ReaderStep

\* A small read returns the bytes it has, few or not.
LEMMA SmallReturns ==
  ASSUME Inv, NEW r \in Readers, reader[r].pc \in {"small", "direct"},
         NEW data \in Seq(Byte), Len(data) <= reader[r].want,
         slipped = FALSE => Genuine(reader[r].off, data),
         reader' = [reader EXCEPT ![r].pc = "idle", ![r].got = data],
         UNCHANGED <<inflight, win, slipped>>, CacheSound', Fault \/ faults' = faults
  PROVE  Inv'
<1> DEFINE y == reader[r]
           x == [y EXCEPT !.pc = "idle", !.got = data]
<1>1. y \in Reader /\ SoundReader(y, slipped)
  BY CurProperties
<1>2. reader' = [reader EXCEPT ![r] = x]
  OBVIOUS
<1>3. /\ x \in Reader /\ x.off = y.off /\ x.want = y.want /\ x.got = data
      /\ x.pc = "idle" /\ x.small = y.small
  <2> HIDE DEF y
  <2> QED BY <1>1 DEF Reader, ReaderLabels
<1> HIDE DEF x
<1>4. SoundReader(x, slipped) /\ WaitsFor(x, win)
  BY <1>1, <1>3 DEF SoundReader, WaitsFor
<1> QED BY <1>2, <1>3, <1>4, ReaderStep

LEMMA SmallReadInv ==
  ASSUME Inv, NEW r \in Readers,
         SmallHit(r) \/ SmallMiss(r) \/ SmallFetched(r) \/ SmallFails(r)
  PROVE  Inv'
<1> DEFINE y == reader[r]
<1>0. /\ y \in Reader /\ SoundReader(y, slipped) /\ y.off \in Offsets /\ y.off \in Nat
      /\ y.want \in Nat /\ CacheSound
  BY CurProperties DEF Inv
<1>1. CASE SmallHit(r)
  <2>1. PICK data \in CopyTo(y.off, y.want) :
          reader' = [reader EXCEPT ![r].pc = "idle", ![r].got = data]
    BY <1>1 DEF SmallHit
  <2>2. /\ data \in Seq(Byte) /\ Len(data) <= y.want
        /\ slipped = FALSE => Genuine(y.off, data)
    BY <1>0, CopyToProperties DEF CacheSound
  <2>3. CacheSound' /\ UNCHANGED <<inflight, win, slipped, faults>> /\ y.pc = "small"
    BY <1>1, CacheUntouched DEF SmallHit
  <2> HIDE DEF y
  <2> QED BY <2>1, <2>2, <2>3, SmallReturns DEF y
<1>2. CASE SmallMiss(r)
  <2>1. CASE reader' = [reader EXCEPT ![r].pc = "window", ![r].small = FALSE]
    <3>1. reader' = [reader EXCEPT ![r] = [reader[r] EXCEPT !.pc = "window", !.small = FALSE]]
      BY <2>1
    <3> QED BY <1>2, <3>1, RelabelInv DEF SmallMiss, Busy
  <2>2. CASE reader' = At(r, "direct")
    <3>1. reader' = [reader EXCEPT ![r] = [reader[r] EXCEPT !.pc = "direct"]]
      BY <2>2 DEF At
    <3> QED BY <1>2, <3>1, RelabelInv DEF SmallMiss, Busy
  <2> QED BY <1>2, <2>1, <2>2 DEF SmallMiss
<1>3. CASE SmallFetched(r)
  <2>1. PICK n \in 0..y.want :
          /\ IF n < y.want THEN Fault ELSE UNCHANGED faults
          /\ cache' = Put(y.off, FileBytes(y.off, n))
          /\ reader' = [reader EXCEPT ![r].pc = "idle", ![r].got = FileBytes(y.off, n)]
    BY <1>3 DEF SmallFetched
  <2> DEFINE data == FileBytes(y.off, n)
  <2>2. n \in Nat /\ n <= y.want /\ y.off + n <= FileSize
    <3>1. y.off + y.want <= FileSize
      BY <1>0 DEF SoundReader
    <3> QED BY <1>0, <3>1, FetchAssumption
  <2>3. data \in Seq(Byte) /\ Len(data) <= y.want /\ Genuine(y.off, data)
    BY <1>0, <2>2, FileBytesProperties
  <2>4. UNCHANGED <<inflight, win, slipped>> /\ y.pc = "direct"
    BY <1>3 DEF SmallFetched
  <2>5. Fault \/ faults' = faults
    BY <2>1
  <2> HIDE DEF y, data
  <2>6. CacheSound'
    BY <1>0, <2>1, <2>3, <2>4, PutProperties DEF data
  <2> QED BY <2>1, <2>3, <2>4, <2>5, <2>6, SmallReturns DEF y, data
<1>4. CASE SmallFails(r)
  <2>1. reader' = [reader EXCEPT ![r] = [reader[r] EXCEPT !.pc = "window", !.small = FALSE]]
    BY <1>4 DEF SmallFails
  <2> QED BY <1>4, <2>1, RelabelInv DEF SmallFails, Busy
<1> QED BY <1>1, <1>2, <1>3, <1>4

\* readWindow finds its bytes in the cache, or does not.
LEMMA WindowLookupInv ==
  ASSUME Inv, NEW r \in Readers, WindowHit(r) \/ WindowMiss(r)
  PROVE  Inv'
<1>1. CASE WindowHit(r)
  <2>0. Cur(r) \in Offsets /\ Missing(r) \in Nat /\ CacheSound /\ reader[r].pc = "window"
    BY <1>1, CurProperties DEF WindowHit, Busy, Inv
  <2>1. PICK data \in CopyTo(Cur(r), Missing(r)) : reader' = Take(r, data)
    BY <1>1 DEF WindowHit
  <2>2. /\ data \in Seq(Byte) /\ Len(data) <= Missing(r)
        /\ slipped = FALSE => Genuine(Cur(r), data)
    BY <2>0, CopyToProperties DEF CacheSound
  <2>3. PICK x \in Reader : /\ Take(r, data) = [reader EXCEPT ![r] = x]
                            /\ SoundReader(x, slipped) /\ WaitsFor(x, win)
    BY <2>0, <2>2, TakeSound
  <2>4. CacheSound' /\ UNCHANGED <<inflight, win, slipped, faults>>
    BY <1>1, CacheUntouched DEF WindowHit
  <2> QED BY <2>1, <2>3, <2>4, ReaderStep
<1>2. CASE WindowMiss(r)
  <2>1. reader' = [reader EXCEPT ![r] = [reader[r] EXCEPT !.pc = "load"]]
    BY <1>2 DEF WindowMiss, At
  <2> QED BY <1>2, <2>1, RelabelInv DEF WindowMiss, Busy
<1> QED BY <1>1, <1>2

\* A read joins a window of its bytes.
LEMMA JoinSound ==
  ASSUME Inv, NEW r \in Readers, reader[r].pc \in Busy, NEW inf, NEW wn,
         Sound(inf, wn, reader, slipped), NEW w \in Windows,
         wn[w].start = WindowStart(Cur(r)), Join(r, w)
  PROVE  Sound(inf, wn, reader', slipped)
<1> DEFINE y == reader[r]
           x == [y EXCEPT !.pc = "wait", !.win = w]
<1>1. /\ y \in Reader /\ SoundReader(y, slipped) /\ wn[w].start <= Cur(r)
      /\ Cur(r) = y.off + Len(y.got)
  BY CurProperties
<1>2. reader' = [reader EXCEPT ![r] = x]
  BY DEF Join
<1>3. y.pc \in Busy
  OBVIOUS
<1> HIDE DEF y
<1>4. /\ x \in Reader /\ x.off = y.off /\ x.want = y.want /\ x.got = y.got
      /\ x.pc = "wait" /\ x.win = w
  BY <1>1 DEF Reader, ReaderLabels
<1> HIDE DEF x
<1>5. SoundReader(x, slipped)
  BY <1>1, <1>3, <1>4 DEF SoundReader, Busy
<1>6. WaitsFor(x, wn)
  BY <1>1, <1>4 DEF WaitsFor
<1> QED BY <1>2, <1>4, <1>5, <1>6, OneReader

\* getOrCreateWindow.
LEMMA GetOrCreateInv ==
  ASSUME Inv, NEW r \in Readers, LoadWindow(r) \/ JoinStored(r) \/ CreateWindow(r)
  PROVE  Inv'
<1> DEFINE ws == WindowStart(Cur(r))
           w == inflight[ws]
           to == [inflight EXCEPT ![ws] = NoWin]
<1>0. /\ reader[r].pc \in Busy /\ Sound(inflight, win, reader, slipped) /\ ws \in Starts
      /\ w \in Windows \cup {NoWin} /\ (w # NoWin => win[w].start = ws)
      /\ inflight \in [Starts -> Windows \cup {NoWin}]
  <2>1. reader[r].pc \in Busy
    BY DEF LoadWindow, JoinStored, CreateWindow, Busy
  <2>2. ws \in Starts /\ Sound(inflight, win, reader, slipped)
    BY <2>1, CurProperties DEF Inv
  <2> HIDE DEF ws
  <2> QED BY <2>1, <2>2 DEF Sound, Mapped
<1>a. CacheSound' /\ UNCHANGED <<faults, slipped>>
  BY CacheUntouched DEF LoadWindow, JoinStored, CreateWindow
<1>b. faults' \in 0..MaxFaults /\ slipped' \in BOOLEAN
  BY <1>a DEF Inv
<1>1. CASE Join(r, w) /\ w # NoWin /\ UNCHANGED <<inflight, win>>
  <2>1. Sound(inflight, win, reader', slipped)
    BY <1>0, <1>1, JoinSound
  <2> QED BY <1>1, <1>a, <1>b, <2>1 DEF Inv
<1>2. CASE /\ reader' = At(r, "create")
           /\ inflight' = inflight \/ inflight' = to
           /\ UNCHANGED win
  <2> DEFINE y == reader[r]
             x == [y EXCEPT !.pc = "create"]
  <2>1. reader' = [reader EXCEPT ![r] = x]
    BY <1>2 DEF At
  <2>2. y \in Reader /\ SoundReader(y, slipped) /\ y.pc \in Busy
    BY <1>0, CurProperties
  <2> HIDE DEF y
  <2>3. /\ x \in Reader /\ x.off = y.off /\ x.want = y.want /\ x.got = y.got
        /\ x.pc = "create"
    BY <2>2 DEF Reader, ReaderLabels
  <2> HIDE DEF x
  <2>4. SoundReader(x, slipped) /\ WaitsFor(x, win)
    BY <2>2, <2>3 DEF SoundReader, WaitsFor, Busy
  <2>5. Sound(inflight, win, reader', slipped)
    BY <1>0, <2>1, <2>3, <2>4, OneReader
  <2>6. /\ inflight' \in [Starts -> Windows \cup {NoWin}]
        /\ \A v \in Starts : inflight'[v] = inflight[v] \/ inflight'[v] = NoWin
    <3> HIDE DEF ws
    <3> QED BY <1>0, <1>2
  <2>7. Sound(inflight', win, reader', slipped)
    BY <2>5, <2>6, Unmapped
  <2> QED BY <1>2, <1>a, <1>b, <2>7 DEF Inv
<1>3. CASE CreateWindow(r)
  <2> DEFINE f == FreshWindow
             inf == [inflight EXCEPT ![ws] = f]
             wn == [win EXCEPT ![f] = NewWindow(ws)]
  <2>1. /\ \E v \in Windows : Unreferenced(v)
        /\ inflight' = inf /\ win' = wn /\ Join(r, f)
    BY <1>3 DEF CreateWindow, Spawn
  <2>2. f \in Windows /\ Unreferenced(f)
    BY <2>1, FreshProperties
  <2>3. (\A v \in Starts : inflight[v] # f) /\ \A p \in Readers : reader[p].win # f
    BY <2>2 DEF Unreferenced
  <2> HIDE DEF ws, f
  <2>4. Sound(inf, wn, reader, slipped)
    BY <1>0, <2>2, <2>3, Spawned
  <2>5. wn[f].start = ws
    BY <1>0, <2>2 DEF Sound, NewWindow
  <2> HIDE DEF inf, wn
  <2>6. Sound(inf, wn, reader', slipped)
    BY <1>0, <2>1, <2>2, <2>4, <2>5, JoinSound DEF ws
  <2> QED BY <1>a, <1>b, <2>1, <2>6 DEF Inv
<1>4. CASE LoadWindow(r)
  BY <1>1, <1>2, <1>4 DEF LoadWindow
<1>5. CASE JoinStored(r)
  BY <1>1, <1>5 DEF JoinStored
<1> QED BY <1>3, <1>4, <1>5

\* waitForBytes returns with bytes of the window, or fails.
LEMMA WaitInv ==
  ASSUME Inv, NEW r \in Readers, WaitReturns(r) \/ WaitFails(r) \/ WaitInterrupted(r)
  PROVE  Inv'
<1>a. CacheSound' /\ UNCHANGED <<inflight, win, slipped>> /\ (Fault \/ faults' = faults)
  BY CacheUntouched DEF WaitReturns, WaitFails, WaitInterrupted
<1>1. CASE WaitReturns(r)
  <2> DEFINE w == win[reader[r].win]
             i == Cur(r) - w.start
             avail == w.readyTo - i
             n == Lesser(avail, Missing(r))
             data == Slice(w.buf, i, n)
  <2>1. reader[r].pc = "wait" /\ avail > 0 /\ reader' = Take(r, data)
    BY <1>1 DEF WaitReturns, Woken
  <2>2. reader[r].win \in Windows /\ w.start <= Cur(r) /\ Cur(r) \in Nat /\ Missing(r) \in Nat
    BY <2>1, CurProperties DEF WaitsFor, Busy
  <2>3. w \in Window /\ SoundWindow(w, slipped)
    BY <2>2 DEF Inv, Sound
  <2> HIDE DEF w
  <2>4. w.buf \in Seq(Byte) /\ Len(w.buf) \in Nat /\ w.readyTo \in Nat /\ w.start \in Nat
    <3>1. w.start \in Offsets /\ w.buf \in Seq(Byte) /\ w.readyTo \in Nat
      BY <2>3, StartsAreOffsets DEF Window
    <3> QED BY <3>1 DEF Offsets
  <2>5. /\ i \in Nat /\ avail \in Int /\ n \in Nat /\ n <= Missing(r) /\ i + n <= w.readyTo
        /\ w.start + i = Cur(r)
    BY <2>1, <2>2, <2>4 DEF Lesser
  <2> HIDE DEF i, n
  <2>6. /\ data \in Seq(Byte) /\ Len(data) = n
        /\ \A off \in Int : Genuine(off, w.buf) /\ i + n <= Len(w.buf) => Genuine(off + i, data)
    <3> DEFINE b == w.buf
    <3> HIDE DEF b
    <3>1. b \in Seq(Byte) /\ i \in Nat /\ n \in Nat
      BY <2>4, <2>5 DEF b
    <3>2. /\ Slice(b, i, n) \in Seq(Byte) /\ Len(Slice(b, i, n)) = n
          /\ \A off \in Int : Genuine(off, b) /\ i + n <= Len(b) => Genuine(off + i, Slice(b, i, n))
      BY <3>1, SliceProperties
    <3> QED BY <3>2 DEF b
  <2> HIDE DEF data
  <2>7. ASSUME slipped = FALSE PROVE Genuine(Cur(r), data)
    <3>0. Genuine(w.start, w.buf) /\ w.readyTo = Len(w.buf)
      BY <2>3, <2>7 DEF SoundWindow
    <3>1. Genuine(w.start, w.buf) /\ i + n <= Len(w.buf)
      BY <2>5, <3>0
    <3>2. Genuine(w.start + i, data)
      BY <2>4, <2>6, <3>1
    <3> QED BY <2>5, <3>2
  <2>8. PICK x \in Reader : /\ Take(r, data) = [reader EXCEPT ![r] = x]
                            /\ SoundReader(x, slipped) /\ WaitsFor(x, win)
    BY <2>1, <2>5, <2>6, <2>7, TakeSound
  <2> QED BY <1>a, <2>1, <2>8, ReaderStep
<1>2. CASE reader' = Fail(r)
  <2>1. PICK x \in Reader : /\ Fail(r) = [reader EXCEPT ![r] = x]
                            /\ SoundReader(x, slipped) /\ WaitsFor(x, win)
    BY FailSound
  <2> QED BY <1>2, <1>a, <2>1, ReaderStep
<1> QED BY <1>1, <1>2 DEF WaitFails, WaitInterrupted

\* The end of readWindow: the read lets go of its window, and goes on or returns.
LEMMA ReaderAheadInv ==
  ASSUME Inv, NEW r \in Readers, ReaderAhead(r)
  PROVE  Inv'
<1> DEFINE y == reader[r]
           l == IF Missing(r) > 0 THEN "window" ELSE "idle"
           x == [y EXCEPT !.win = NoWin, !.ws = 0, !.pc = l]
<1>1. /\ y \in Reader /\ SoundReader(y, slipped) /\ y.want \in Nat /\ Len(y.got) \in Nat
      /\ Missing(r) = y.want - Len(y.got) /\ reader \in [Readers -> Reader]
      /\ Sound(inflight, win, reader, slipped)
  BY CurProperties DEF Inv
<1>2. reader' = [reader EXCEPT ![r] = x] /\ y.ws \in Starts
  BY <1>1 DEF ReaderAhead, Reader
<1>3. /\ l \in {"window", "idle"} /\ (l = "window" => Len(y.got) < y.want)
      /\ (l = "idle" => Len(y.got) >= y.want)
  BY <1>1
<1> HIDE DEF y, l
<1>4. /\ x \in Reader /\ x.off = y.off /\ x.want = y.want /\ x.got = y.got
      /\ x.pc = l /\ x.win = NoWin
  BY <1>1, <1>3, ZeroIsStart DEF Reader, ReaderLabels
<1> HIDE DEF x
<1>5. SoundReader(x, slipped) /\ WaitsFor(x, win)
  <2>1. y.off + y.want <= FileSize /\ Len(y.got) <= y.want
        /\ (slipped = FALSE => Genuine(y.off, y.got))
    BY <1>1 DEF SoundReader
  <2>2. l = "idle" => Len(y.got) = y.want
    BY <1>1, <1>3, <2>1
  <2> QED BY <1>3, <1>4, <2>1, <2>2 DEF SoundReader, WaitsFor
<1>6. Sound(inflight, win, reader', slipped)
  BY <1>1, <1>2, <1>4, <1>5, OneReader
<1>7. \A p \in Readers : reader'[p].win = reader[p].win \/ reader'[p].win = NoWin
  BY <1>1, <1>2, <1>4
<1>8. MaybeReadAhead(y.ws, Cur(r), win)
  BY DEF ReaderAhead, y
<1>9. Sound(inflight', win', reader', slipped)
  BY <1>2, <1>6, <1>7, <1>8, ReadAheadSound
<1>10. CacheSound' /\ UNCHANGED <<faults, slipped>>
  BY CacheUntouched DEF ReaderAhead
<1> QED BY <1>9, <1>10 DEF Inv

-----------------------------------------------------------------------------
(* The data path as a whole. *)

LEMMA EvictInv ==
  ASSUME Inv, NEW s \in Offsets, Evict(s)
  PROVE  Inv'
<1>1. /\ cache' = [cache EXCEPT ![s] = <<>>] /\ UNCHANGED <<inflight, win, reader, slipped>>
      /\ Fault
  BY DEF Evict
<1>2. <<>> \in Seq(Byte) /\ Genuine(s, <<>>)
  BY DEF Genuine
<1>3. CacheSound'
  BY <1>1, <1>2 DEF Inv, CacheSound, CacheHoldsFileBytes
<1>4. faults' \in 0..MaxFaults
  BY <1>1, FetchAssumption DEF Inv, Fault
<1> QED BY <1>1, <1>3, <1>4 DEF Inv

LEMMA InitInv == Init => Inv
<1> SUFFICES ASSUME Init PROVE Inv
  OBVIOUS
<1>1. <<>> \in Seq(Byte) /\ Len(<<>>) = 0 /\ \A o : Genuine(o, <<>>)
  BY DEF Genuine
<1>2. CacheSound
  BY <1>1 DEF Init, CacheSound, CacheHoldsFileBytes
<1>3. /\ Unused \in Window /\ Unused.buf = <<>> /\ Unused.readyTo = 0 /\ Unused.pc = "ended"
  BY ZeroIsStart, NewWindowSound DEF Unused, NewWindow, Window, FetchLabels
<1>4. ASSUME NEW w \in Windows
      PROVE  SoundWindow(win[w], slipped) /\ Leaves(win[w], inflight, w)
  <2>1. win[w] = Unused
    BY DEF Init
  <2>2. SoundWindow(Unused, slipped)
    BY <1>1, <1>3 DEF SoundWindow
  <2>3. \A ws \in Starts : inflight[ws] # w
    BY FetchAssumption DEF Init, NoWin
  <2> QED BY <2>1, <2>2, <2>3 DEF Leaves
<1>5. /\ IdleReader \in Reader /\ IdleReader.got = <<>> /\ IdleReader.pc = "idle"
      /\ IdleReader.off = 0 /\ IdleReader.want = 0
  <2>1. 0 \in Offsets /\ 0 \in 0..MaxReads
    BY FetchAssumption DEF Offsets
  <2> QED BY <1>1, <2>1, ZeroIsStart DEF IdleReader, Reader, ReaderLabels
<1>6. \A r \in Readers : SoundReader(reader[r], slipped) /\ WaitsFor(reader[r], win)
  BY <1>1, <1>5, FetchAssumption DEF Init, SoundReader, WaitsFor
<1>7. Mapped(inflight, win)
  BY DEF Init, Mapped
<1>8. /\ inflight \in [Starts -> Windows \cup {NoWin}] /\ win \in [Windows -> Window]
      /\ reader \in [Readers -> Reader]
  BY <1>3, <1>5 DEF Init
<1>9. faults \in 0..MaxFaults /\ slipped \in BOOLEAN
  <2>1. faults \in 0..MaxFaults
    BY FetchAssumption DEF Init
  <2>2. slipped \in BOOLEAN
    BY DEF Init
  <2> QED BY <2>1, <2>2
<1> QED BY <1>2, <1>4, <1>6, <1>7, <1>8, <1>9 DEF Inv, Sound

LEMMA NextInv == Inv /\ [Next]_vars => Inv'
<1> SUFFICES ASSUME Inv, [Next]_vars PROVE Inv'
  OBVIOUS
<1>1. CASE \E w \in Windows : Fetch(w) \/ Cleanup(w)
  BY <1>1, FetchInv, EndInv
<1>2. CASE \E r \in Readers : Serve(r) \/ WaitInterrupted(r)
  BY <1>2, SmallReadInv, WindowLookupInv, GetOrCreateInv, WaitInv, ReaderAheadInv DEF Serve
<1>3. CASE \E r \in Readers, req \in Requests : ReadAt(r, req)
  BY <1>3, ReadAtInv
<1>4. CASE \E ws \in Starts : CancelWindow(ws)
  BY <1>4, CancelInv
<1>5. CASE \E s \in Offsets : Evict(s)
  BY <1>5, EvictInv
<1>6. CASE UNCHANGED vars
  BY <1>6 DEF vars, Inv, CacheSound, CacheHoldsFileBytes
<1> QED BY <1>1, <1>2, <1>3, <1>4, <1>5, <1>6 DEF Next

LEMMA Invariant == Spec => []Inv
BY InitInv, NextInv, PTL DEF Spec

\* The state of the data path keeps its types: no label, slot, offset or retry count
\* leaves its range, for a file and windows of any size.
THEOREM TypeCorrect == Spec => []TypeOK
<1>1. Inv => TypeOK
  BY DEF Inv, Sound, CacheSound, TypeOK
<1> QED BY <1>1, Invariant, PTL

\* Unless a prefix copy came out shorter than CachedPrefixLen had said, every byte that
\* the cache, a window or a read holds is the file's byte at that offset: retries,
\* resumed and cancelled windows, evictions and overlapping blocks mix nothing up.
THEOREM BytesGenuine == Spec => []GenuineUnlessSlipped
<1>1. Inv => GenuineUnlessSlipped
  BY DEF Inv, Sound, CacheSound, SoundWindow, SoundReader, GenuineUnlessSlipped,
         BuffersHoldFileBytes, ReadsGetFileBytes
<1> QED BY <1>1, Invariant, PTL

\* readyTo never runs ahead of the buffer that waitForBytes slices, nor behind it.
THEOREM ReadyExact == Spec => []ReadyIsBuffered
<1>1. Inv => ReadyIsBuffered
  BY DEF Inv, Sound, SoundWindow, ReadyIsBuffered
<1> QED BY <1>1, Invariant, PTL

\* A window that ended without an error never stays in the inflight map for good.
THEOREM WindowsLeave == Spec => []NoDeadWindow
<1>1. Inv => NoDeadWindow
  <2> SUFFICES ASSUME Inv, NEW ws \in Starts, inflight[ws] # NoWin,
                      win[inflight[ws]].pc = "ended"
               PROVE  win[inflight[ws]].err \/ win[inflight[ws]].cleanup
    BY DEF NoDeadWindow
  <2>1. inflight[ws] \in Windows
    BY DEF Inv, Sound
  <2>2. Leaves(win[inflight[ws]], inflight, inflight[ws])
    BY <2>1 DEF Inv, Sound
  <2> QED BY <2>2 DEF Leaves
<1> QED BY <1>1, Invariant, PTL

\* ReadAt through the windows never returns short: it goes round until all that was
\* asked for, up to the end of the file, has come.
THEOREM ReadsComplete == Spec => []WindowReadsComplete
<1>1. Inv => WindowReadsComplete
  <2> SUFFICES ASSUME Inv, NEW r \in Readers, reader[r].pc = "idle", ~reader[r].small
               PROVE  Len(reader[r].got) = reader[r].want
    BY DEF WindowReadsComplete
  <2>1. SoundReader(reader[r], slipped) /\ reader[r].small \in BOOLEAN
    BY CurProperties DEF Reader
  <2> QED BY <2>1 DEF SoundReader
<1> QED BY <1>1, Invariant, PTL
=============================================================================
