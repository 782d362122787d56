----------------------------- MODULE FileWatchProofs ---------------------------
(****************************************************************************)
(* Theorems of FileWatch, on both platforms and for any number of changes:  *)
(* descriptors are used while they are open, no change is lost, and the     *)
(* last report says whether what is watched is there.  What becomes of a    *)
(* batch of inotify events is defined by recursion: that the recursion is   *)
(* one, and what it yields, is proved by the least length that would not    *)
(* do.                                                                      *)
(****************************************************************************)
EXTENDS FileWatch, SequenceTheorems, WellFoundedInduction, TLAPS

\* Which threads there are, and which descriptors, as the owner goes on.
Alive ==
    /\ owner \in {"folder", "watch", "start", "threw"} => watcher = "none"
    /\ owner \in {"joincall", "close", "gone"} => watcher = "end"

FolderOpen == owner \notin {"folder", "threw", "gone"} => folder = "open"

WatchOpen ==
    /\ owner \in {"folder", "watch"} => watch = "none"
    /\ owner \in {"start", "wait", "use", "wake"} =>
           watch = "open" \/ (~directory /\ watch = "closed")
    /\ Linux /\ owner \in {"notify", "join", "joincall", "close", "gone"} =>
           watch = "closed"
    /\ owner \in {"threw", "gone"} => watch # "open"

DInv == platform \in Platforms /\ Alive /\ FolderOpen /\ WatchOpen

LEMMA InitDInv == Init => DInv
BY DEF Init, DInv, Alive, FolderOpen, WatchOpen

LEMMA NextDInv ==
    ASSUME DInv, [Next]_vars
    PROVE  DInv'
<1> USE FileWatchAssumption
    DEF DInv, Alive, FolderOpen, WatchOpen, Linux, NetBSD, descriptors,
        callback, file
<1>1. CASE Owner
  BY <1>1
  DEF Owner, OpenFolder, AddWatch, AddWatchFails, StartThreads, Constructed,
      RemoveWatch, Notify, JoinWatch, JoinCallback, CloseDescriptors
<1>2. CASE Destroy
  BY <1>2 DEF Destroy
<1>3. CASE Watcher
  BY <1>3 DEF Watcher, SetRunning, TestDestory, ReadFails, Read, Dispatch
<1>4. CASE Callback
  BY <1>4 DEF Callback, Call, CallReturns, CallbackEnds
<1>5. CASE Change \/ RemoveDirectory
  BY <1>5 DEF Change, RemoveDirectory, Watched
<1>6. CASE UNCHANGED vars
  BY <1>6 DEF vars
<1> QED BY <1>1, <1>2, <1>3, <1>4, <1>5, <1>6 DEF Next

\* Threads read, and the owner removes, what is still open.
THEOREM DescriptorCorrect == Spec => []DescriptorInUse
<1>1. DInv => DescriptorInUse
  BY DEF DInv, Alive, FolderOpen, WatchOpen, DescriptorInUse
<1> QED BY InitDInv, NextDInv, <1>1, PTL DEF Spec

\* However a watch ends, it leaves no file open.
THEOREM FileCorrect == Spec => []NoFileLeft
<1>1. DInv => NoFileLeft
  BY DEF DInv, WatchOpen, NoFileLeft
<1> QED BY InitDInv, NextDInv, <1>1, PTL DEF Spec

-----------------------------------------------------------------------------
(* The recursion of ReportsOfBatch.                                         *)

\* A non-empty set of natural numbers has a least one: induction over data
\* without a predicate for an argument.
LEMMA LeastNat ==
    ASSUME NEW T, T \subseteq Nat, T # {}
    PROVE  \E n \in T : \A m \in T : n <= m
<1> DEFINE R == OpToRel(<, Nat)
<1>1. IsWellFoundedOn(R, Nat)
  BY NatLessThanWellFounded, Zenon
<1> HIDE DEF R
<1>2. PICK n \in T : \A m \in T : ~ (<<m, n>> \in R)
  BY <1>1, WFMin, Zenon
<1>3. ASSUME NEW m \in T, m < n PROVE FALSE
  <2>1. <<m, n>> \in R
    BY <1>3 DEF R, OpToRel
  <2> QED BY <1>2, <2>1
<1> QED BY <1>2, <1>3

Batches(n) == {b \in Seq(Events) : Len(b) <= n}

Before(b) == SubSeq(b, 1, Len(b) - 1)

\* The right-hand side of the definition of ReportsOfBatch.
Step(g, b) ==
    IF b = <<>> THEN <<>>
    ELSE LET before == SubSeq(b, 1, Len(b) - 1)
             seen == \E i \in DOMAIN before : before[i] = {"modify"}
         IN  g[before] \o ReportsOfEvent(b[Len(b)], seen)

Follows(g, n) == g = [b \in Batches(n) |-> Step(g, b)]

LEMMA StepLocal ==
    ASSUME NEW g, NEW h, NEW b, b = <<>> \/ g[Before(b)] = h[Before(b)]
    PROVE  Step(g, b) = Step(h, b)
BY DEF Step, Before

LEMMA BeforeBatch ==
    ASSUME NEW b \in Seq(Events), b # <<>>
    PROVE  /\ Before(b) \in Seq(Events)
           /\ Len(b) \in Nat \ {0}
           /\ b[Len(b)] \in Events
           /\ Len(Before(b)) = Len(b) - 1
           /\ \A i \in 1..(Len(b) - 1) : Before(b)[i] = b[i]
<1>1. Len(b) \in Nat \ {0} /\ \A i \in 1..Len(b) : b[i] \in Events
  BY EmptySeq, ElementOfSeq
<1> DEFINE n == Len(b) - 1
<1>2. n \in Nat /\ 1 \in Int /\ \A i \in 1..n : b[i] \in Events
  BY <1>1
<1>3. /\ SubSeq(b, 1, n) \in Seq(Events)
      /\ Len(SubSeq(b, 1, n)) = IF 1 <= n THEN n - 1 + 1 ELSE 0
      /\ \A i \in 1..(n - 1 + 1) : SubSeq(b, 1, n)[i] = b[1 + i - 1]
  <2> HIDE DEF n
  <2> QED BY <1>2, SubSeqProperties
<1>4. /\ Len(SubSeq(b, 1, n)) = n
      /\ \A i \in 1..n : SubSeq(b, 1, n)[i] = b[i]
  <2> DEFINE t == SubSeq(b, 1, n)
  <2> HIDE DEF n, t
  <2>1. n - 1 + 1 = n /\ \A i \in 1..n : 1 + i - 1 = i
    BY <1>2
  <2>2. Len(t) = IF 1 <= n THEN n - 1 + 1 ELSE 0
    BY <1>3 DEF t
  <2>3. \A i \in 1..(n - 1 + 1) : t[i] = b[1 + i - 1]
    BY <1>3 DEF t
  <2>4. Len(t) = n /\ \A i \in 1..n : t[i] = b[i]
    BY <1>2, <2>1, <2>2, <2>3
  <2> QED BY <2>4 DEF t
<1> QED BY <1>1, <1>3, <1>4 DEF Before

LEMMA Alike ==
    ASSUME NEW n \in Nat, NEW m \in Nat, NEW g, NEW h,
           Follows(g, n), Follows(h, m)
    PROVE  \A b \in Batches(n) \cap Batches(m) : g[b] = h[b]
<1> DEFINE T == {k \in Nat : \E b \in Batches(n) \cap Batches(m) :
                                 Len(b) = k /\ g[b] # h[b]}
<1>1. SUFFICES ASSUME T # {} PROVE FALSE
  <2> SUFFICES ASSUME NEW b \in Batches(n) \cap Batches(m), g[b] # h[b]
               PROVE  FALSE
    OBVIOUS
  <2>1. Len(b) \in T
    BY DEF Batches
  <2> QED BY <1>1, <2>1
<1>2. PICK k \in T : \A j \in T : k <= j
  BY <1>1, LeastNat
<1>3. PICK b \in Batches(n) \cap Batches(m) : Len(b) = k /\ g[b] # h[b]
  BY <1>2
<1>4. g[b] = Step(g, b) /\ h[b] = Step(h, b)
  BY <1>3 DEF Follows
<1>5. b = <<>> \/ g[Before(b)] = h[Before(b)]
  <2> SUFFICES ASSUME b # <<>>, g[Before(b)] # h[Before(b)] PROVE FALSE
    OBVIOUS
  <2>1. /\ Before(b) \in Batches(n) \cap Batches(m)
        /\ Len(Before(b)) \in Nat /\ Len(Before(b)) < Len(b)
    BY BeforeBatch DEF Batches
  <2>2. Len(Before(b)) \in T
    BY <2>1
  <2> QED BY <1>2, <1>3, <2>1, <2>2
<1> QED BY <1>3, <1>4, <1>5, StepLocal

LEMMA Approximated ==
    ASSUME NEW n \in Nat
    PROVE  \E g : Follows(g, n)
<1> DEFINE T == {k \in Nat : ~ \E g : Follows(g, k)}
<1>1. SUFFICES ASSUME T # {} PROVE FALSE
  BY <1>1
<1>2. PICK k \in T : \A j \in T : k <= j
  BY <1>1, LeastNat
<1>3. k # 0
  <2> SUFFICES ASSUME k = 0 PROVE FALSE
    OBVIOUS
  <2> DEFINE g == [b \in Batches(0) |-> <<>>]
  <2>1. \A b \in Batches(0) : b = <<>>
    BY DEF Batches
  <2>2. \A b \in Batches(0) : Step(g, b) = <<>>
    BY <2>1 DEF Step
  <2>3. Follows(g, 0)
    BY <2>2 DEF Follows
  <2> QED BY <1>2, <2>3
<1>4. PICK g : Follows(g, k - 1)
  BY <1>2, <1>3
<1> DEFINE h == [b \in Batches(k) |-> Step(g, b)]
<1>5. ASSUME NEW b \in Batches(k)
      PROVE  Step(h, b) = Step(g, b)
  <2>1. SUFFICES ASSUME b # <<>> PROVE h[Before(b)] = g[Before(b)]
    BY StepLocal
  <2>2. Before(b) \in Batches(k - 1) /\ Before(b) \in Batches(k)
    BY <1>3, <2>1, BeforeBatch DEF Batches
  <2>3. g[Before(b)] = Step(g, Before(b))
    BY <1>4, <2>2 DEF Follows
  <2> QED BY <2>2, <2>3
<1>6. Follows(h, k)
  <2>1. h = [b \in Batches(k) |-> Step(h, b)]
    BY <1>5
  <2> QED BY <2>1 DEF Follows
<1> QED BY <1>2, <1>6

LEMMA ReportsOfBatchDef ==
    ReportsOfBatch = [b \in Seq(Events) |-> Step(ReportsOfBatch, b)]
<1> DEFINE G == [n \in Nat |-> CHOOSE g : Follows(g, n)]
           f == [b \in Seq(Events) |-> G[Len(b)][b]]
<1>1. \A n \in Nat : Follows(G[n], n)
  BY Approximated
<1>2. ASSUME NEW b \in Seq(Events)
      PROVE  f[b] = Step(f, b)
  <2>1. Len(b) \in Nat /\ b \in Batches(Len(b))
    BY DEF Batches
  <2>2. f[b] = Step(G[Len(b)], b)
    <3> HIDE DEF G
    <3>1. G[Len(b)] = [c \in Batches(Len(b)) |-> Step(G[Len(b)], c)]
      BY <1>1, <2>1 DEF Follows
    <3> HIDE DEF Step
    <3>2. G[Len(b)][b] = Step(G[Len(b)], b)
      BY <2>1, <3>1
    <3> QED BY <3>2
  <2>3. ASSUME b # <<>>
        PROVE  G[Len(b)][Before(b)] = f[Before(b)]
    <3>1. /\ Before(b) \in Seq(Events) /\ Len(Before(b)) \in Nat
          /\ Before(b) \in Batches(Len(b)) \cap Batches(Len(Before(b)))
      BY <2>3, BeforeBatch DEF Batches
    <3> HIDE DEF G
    <3>2. G[Len(b)][Before(b)] = G[Len(Before(b))][Before(b)]
      BY <1>1, <2>1, <3>1, Alike
    <3> QED BY <3>1, <3>2
  <2> HIDE DEF f
  <2> QED BY <2>2, <2>3, StepLocal
<1> HIDE DEF f
<1>3. f = [b \in Seq(Events) |-> Step(f, b)]
  <2>1. f = [b \in Seq(Events) |-> f[b]]
    BY DEF f
  <2> QED BY <1>2, <2>1
<1>4. \E g : g = [b \in Seq(Events) |-> Step(g, b)]
  BY <1>3
<1>5. ReportsOfBatch = CHOOSE g : g = [b \in Seq(Events) |-> Step(g, b)]
  BY DEF ReportsOfBatch, Step
<1> QED BY <1>4, <1>5

-----------------------------------------------------------------------------
(* What a sequence of events says of the file.                              *)

\* It is about another file or the watch itself.
Silent(e) == e \cap {"other", "ignored"} # {}

News(s) == \E i \in DOMAIN s : ~Silent(s[i])

\* The last that is said of the file is that it is deleted.
EndsGone(s) ==
    \E i \in DOMAIN s :
        "delete" \in s[i] /\ \A j \in DOMAIN s : j > i => Silent(s[j])

\* It is created and not deleted afterwards.
EndsThere(s) ==
    \E i \in DOMAIN s :
        s[i] = {"create"} /\ \A j \in DOMAIN s : j > i => "delete" \notin s[j]

NoRemoval(s) == \A i \in DOMAIN s : "delete" \notin s[i]

SaysGone(r) == r # <<>> /\ r[Len(r)] = "removed"

\* The reports r tell what the events s say.
Tells(s, r) ==
    /\ r \in Seq(Reports)
    /\ News(s) <=> r # <<>>
    /\ EndsGone(s) => SaysGone(r)
    /\ EndsThere(s) => r # <<>> /\ ~SaysGone(r)
    /\ NoRemoval(s) => ~SaysGone(r)

LEMMA NoEvents ==
    ~News(<<>>) /\ ~EndsGone(<<>>) /\ ~EndsThere(<<>>) /\ NoRemoval(<<>>)
BY DEF News, EndsGone, EndsThere, NoRemoval

\* What one more event changes.
LEMMA OneMore ==
    ASSUME NEW s \in Seq(Events), NEW t \in Seq(Events), NEW e,
           Len(t) = Len(s) + 1, t[Len(t)] = e,
           \A i \in 1..Len(s) : t[i] = s[i]
    PROVE  /\ News(t) <=> News(s) \/ ~Silent(e)
           /\ EndsGone(t) <=> "delete" \in e \/ (EndsGone(s) /\ Silent(e))
           /\ EndsThere(t) <=>
                  e = {"create"} \/ (EndsThere(s) /\ "delete" \notin e)
           /\ NoRemoval(t) <=> NoRemoval(s) /\ "delete" \notin e
<1> DEFINE n == Len(s)
<1>1. /\ n \in Nat /\ DOMAIN s = 1..n /\ DOMAIN t = 1..(n + 1)
      /\ t[n + 1] = e /\ \A i \in 1..n : t[i] = s[i]
  OBVIOUS
<1> HIDE DEF n
<1>2. /\ \A i \in 1..(n + 1) : i \in 1..n \/ i = n + 1
      /\ \A i \in 1..n : i \in 1..(n + 1) /\ n + 1 > i /\ ~(i > n + 1)
      /\ n + 1 \in 1..(n + 1) /\ ~(n + 1 > n + 1)
  BY <1>1
<1>3. News(t) <=> News(s) \/ ~Silent(e)
  BY <1>1, <1>2 DEF News
<1>4. EndsGone(t) <=> "delete" \in e \/ (EndsGone(s) /\ Silent(e))
  BY <1>1, <1>2 DEF EndsGone
<1>5. EndsThere(t) <=> e = {"create"} \/ (EndsThere(s) /\ "delete" \notin e)
  BY <1>1, <1>2 DEF EndsThere
<1>6. NoRemoval(t) <=> NoRemoval(s) /\ "delete" \notin e
  BY <1>1, <1>2 DEF NoRemoval
<1> QED BY <1>3, <1>4, <1>5, <1>6

LEMMA ReportsOfEventIs ==
    ASSUME NEW e \in Events, NEW seen \in BOOLEAN
    PROVE  \/ Silent(e) /\ "delete" \notin e /\ ReportsOfEvent(e, seen) = <<>>
           \/ e = {"create"} /\ ~Silent(e) /\ ReportsOfEvent(e, seen) = <<"added">>
           \/ e = {"delete"} /\ ~Silent(e)
              /\ ReportsOfEvent(e, seen) = <<"removed">>
           \/ /\ e = {"modify"} /\ ~Silent(e)
              /\ ReportsOfEvent(e, seen) = IF seen THEN <<>> ELSE <<"modified">>
BY DEF Events, ReportsOfEvent, Silent

LEMMA OneReport ==
    ASSUME NEW r \in Seq(Reports), NEW m \in Reports
    PROVE  /\ r \o <<m>> \in Seq(Reports) /\ r \o <<m>> # <<>>
           /\ SaysGone(r \o <<m>>) <=> m = "removed"
BY DEF SaysGone

\* The reports of a batch of inotify events tell what its events say: that a
\* repeated modification is dropped makes no difference.
LEMMA BatchTells ==
    ASSUME NEW batch \in Seq(Events)
    PROVE  Tells(batch, ReportsOfBatch[batch])
<1> DEFINE F == ReportsOfBatch
           T == {n \in Nat : \E b \in Seq(Events) :
                                 Len(b) = n /\ ~Tells(b, F[b])}
<1>1. SUFFICES ASSUME T # {} PROVE FALSE
  <2>1. Len(batch) \in Nat
    OBVIOUS
  <2>2. Tells(batch, F[batch]) \/ Len(batch) \in T
    BY <2>1
  <2> QED BY <1>1, <2>2
<1>2. PICK n \in T : \A m \in T : n <= m
  BY <1>1, LeastNat
<1>3. PICK b \in Seq(Events) : Len(b) = n /\ ~Tells(b, F[b])
  BY <1>2
<1>4. F[b] = Step(F, b)
  BY ReportsOfBatchDef
<1>5. b # <<>>
  <2> SUFFICES ASSUME b = <<>> PROVE FALSE
    OBVIOUS
  <2>1. F[b] = <<>>
    BY <1>4 DEF Step
  <2> QED BY <1>3, <2>1, NoEvents DEF Tells, SaysGone
<1> DEFINE a == Before(b)
           e == b[Len(b)]
           seen == \E i \in DOMAIN a : a[i] = {"modify"}
<1>6. /\ a \in Seq(Events) /\ Len(b) \in Nat \ {0} /\ e \in Events
      /\ Len(a) = Len(b) - 1 /\ \A i \in 1..(Len(b) - 1) : a[i] = b[i]
  BY <1>5, BeforeBatch
<1>7. F[b] = F[a] \o ReportsOfEvent(e, seen)
  BY <1>4, <1>5 DEF Step, Before
<1> HIDE DEF F, a, e
<1>8. Tells(a, F[a])
  <2> SUFFICES ASSUME ~Tells(a, F[a]) PROVE FALSE
    OBVIOUS
  <2>1. Len(a) \in T
    BY <1>6
  <2> QED BY <1>2, <1>3, <1>6, <2>1
<1>9. /\ News(b) <=> News(a) \/ ~Silent(e)
      /\ EndsGone(b) <=> "delete" \in e \/ (EndsGone(a) /\ Silent(e))
      /\ EndsThere(b) <=>
             e = {"create"} \/ (EndsThere(a) /\ "delete" \notin e)
      /\ NoRemoval(b) <=> NoRemoval(a) /\ "delete" \notin e
  <2>1. /\ Len(b) = Len(a) + 1 /\ b[Len(b)] = e
        /\ \A i \in 1..Len(a) : b[i] = a[i]
    BY <1>6 DEF e
  <2> QED BY <1>6, <2>1, OneMore
<1>10. seen => News(a)
  BY DEF News, Silent
<1> HIDE DEF seen
<1>11. seen \in BOOLEAN
  BY DEF seen
<1>12. F[a] \in Seq(Reports)
  BY <1>8 DEF Tells
<1>13. F[a] \o <<>> = F[a]
  BY <1>12
<1>14. CASE ReportsOfEvent(e, seen) = <<>> /\ "delete" \notin e
            /\ (Silent(e) \/ (seen /\ e = {"modify"}))
  <2>1. F[b] = F[a]
    BY <1>7, <1>13, <1>14
  <2>2. e # {"create"}
    BY <1>14 DEF Silent
  <2> QED BY <1>3, <1>8, <1>9, <1>10, <1>14, <2>1, <2>2 DEF Tells
<1>15. ASSUME NEW m \in Reports, ReportsOfEvent(e, seen) = <<m>>, ~Silent(e),
              m = "removed" <=> "delete" \in e
       PROVE  FALSE
  <2>1. F[b] \in Seq(Reports) /\ F[b] # <<>> /\ (SaysGone(F[b]) <=> m = "removed")
    BY <1>7, <1>12, <1>15, OneReport
  <2>2. "delete" \in e => e # {"create"}
    OBVIOUS
  <2> QED BY <1>3, <1>8, <1>9, <1>15, <2>1, <2>2 DEF Tells
<1>16. \/ ReportsOfEvent(e, seen) = <<>> /\ "delete" \notin e
          /\ (Silent(e) \/ (seen /\ e = {"modify"}))
       \/ \E m \in Reports : /\ ReportsOfEvent(e, seen) = <<m>> /\ ~Silent(e)
                             /\ m = "removed" <=> "delete" \in e
  <2>1. {"added", "removed", "modified"} \subseteq Reports
    BY DEF Reports
  <2> QED BY <1>6, <1>11, <2>1, ReportsOfEventIs
<1> QED BY <1>14, <1>15, <1>16

\* And so does the report of the one event of a kqueue.
LEMMA NotesTell ==
    ASSUME NEW notes \in Notes \ {{}}
    PROVE  Tells(<<notes>>, ReportsOfNotes(notes))
<1> DEFINE s == <<notes>>
<1>1. DOMAIN s = {1} /\ s[1] = notes
  OBVIOUS
<1>2. notes \in SUBSET {"delete", "write", "extend"} /\ notes # {}
  BY DEF Notes
<1> HIDE DEF s
<1>3. News(s) /\ ~EndsThere(s)
  BY <1>1, <1>2 DEF News, EndsThere, Silent
<1>4. NoRemoval(s) <=> "delete" \notin notes
  BY <1>1 DEF NoRemoval
<1>5. EndsGone(s) => "delete" \in notes
  BY <1>1 DEF EndsGone
<1>6. \/ "delete" \in notes /\ ReportsOfNotes(notes) = <<"removed">>
      \/ "delete" \notin notes /\ ReportsOfNotes(notes) = <<"modified">>
  BY <1>2 DEF ReportsOfNotes
<1>7. ASSUME NEW m \in Reports
      PROVE  /\ <<m>> \in Seq(Reports) /\ <<m>> # <<>>
             /\ SaysGone(<<m>>) <=> m = "removed"
  BY DEF SaysGone
<1>8. Tells(s, ReportsOfNotes(notes))
  BY <1>3, <1>4, <1>5, <1>6, <1>7 DEF Tells, Reports
<1> QED BY <1>8 DEF s

-----------------------------------------------------------------------------
(* Types, and what the kernel has.                                          *)

PendingOK ==
    /\ Linux => pending \in Seq(Events)
    /\ NetBSD => pending = <<>> \/ \E notes \in Notes \ {{}} : pending = <<notes>>

LEMMA TypeInit == Init => TypeOK /\ PendingOK
<1> SUFFICES ASSUME Init PROVE TypeOK /\ PendingOK
  OBVIOUS
<1>1. /\ <<>> \in Seq(IF Linux THEN Events ELSE Notes)
      /\ <<>> \in Seq(Reports) /\ <<>> \in Seq(Events)
  OBVIOUS
<1>2. TypeOK
  BY <1>1 DEF Init, TypeOK
<1>3. PendingOK
  BY <1>1 DEF Init, PendingOK
<1> QED BY <1>2, <1>3

LEMMA ReadTells ==
    ASSUME TypeOK, PendingOK, Read
    PROVE  Tells(pending, parsed')
<1>1. CASE Linux
  BY <1>1, BatchTells DEF Read, PendingOK
<1>2. CASE ~Linux
  <2>1. NetBSD
    BY <1>2, FileWatchAssumption DEF TypeOK, Linux, NetBSD
  <2>2. PICK notes \in Notes \ {{}} : pending = <<notes>>
    BY <2>1 DEF Read, PendingOK
  <2>3. parsed' = ReportsOfNotes(notes)
    BY <1>2, <2>2 DEF Read
  <2> QED BY <2>2, <2>3, NotesTell
<1> QED BY <1>1, <1>2

\* A change of the file is one more event, or one more set of notes.
LEMMA ChangeNotes ==
    ASSUME PendingOK, NetBSD, NEW notes \in Notes \ {{}}, KernelNotes(notes)
    PROVE  \E merged \in Notes \ {{}} :
               /\ pending' = <<merged>> /\ notes \subseteq merged
               /\ NoRemoval(pending) /\ "delete" \notin notes =>
                      "delete" \notin merged
<1>1. CASE pending = <<>>
  BY <1>1 DEF KernelNotes
<1>2. CASE pending # <<>>
  <2>1. PICK before \in Notes \ {{}} : pending = <<before>>
    BY <1>2 DEF PendingOK
  <2>2. /\ before \cup notes \in Notes \ {{}}
        /\ pending' = <<before \cup notes>>
    BY <1>2, <2>1 DEF KernelNotes, Notes
  <2>3. NoRemoval(pending) => "delete" \notin before
    BY <2>1 DEF NoRemoval
  <2> QED BY <2>2, <2>3
<1> QED BY <1>1, <1>2

LEMMA NotedTypes ==
    ASSUME PendingOK, NetBSD, NetBSD', ~Linux', NEW notes \in Notes \ {{}},
           KernelNotes(notes)
    PROVE  PendingOK' /\ pending' \in Seq(Notes)
<1>1. PICK merged \in Notes \ {{}} : pending' = <<merged>>
  BY ChangeNotes
<1>2. pending' \in Seq(Notes)
  BY <1>1
<1> QED BY <1>1, <1>2 DEF PendingOK

LEMMA ChangeTypes ==
    ASSUME TypeOK, Change
    PROVE  /\ changes' \in Nat /\ exists' \in BOOLEAN /\ unseen' \in BOOLEAN
           /\ UNCHANGED <<platform, folder, watch, owner, running, destory,
                          watcher, parsed, queue, caller, told, directory>>
<1>1. /\ changes' \in Nat
      /\ UNCHANGED <<platform, folder, watch, owner, running, destory,
                     watcher, parsed, queue, caller, told, directory>>
  BY DEF Change, TypeOK, descriptors, callback
<1>2. PICK e \in {"create", "delete", "modify", "other"} :
          /\ exists' = (e = "create" \/ (exists /\ e # "delete"))
          /\ unseen' = (unseen \/ e = "create" \/ e = "delete"
                               \/ (Linux /\ e = "modify"))
  BY DEF Change
<1>3. exists' \in BOOLEAN /\ unseen' \in BOOLEAN
  BY <1>2, Zenon
<1> QED BY <1>1, <1>3

LEMMA TypeStep ==
    ASSUME DInv, TypeOK, PendingOK, [Next]_vars
    PROVE  TypeOK' /\ PendingOK'
<1>1. /\ platform \in {"linux", "netbsd"} /\ platform' = platform
      /\ Linux' = Linux /\ NetBSD' = NetBSD
  <2>1. platform' = platform
    BY DEF Next, vars, Owner, OpenFolder, AddWatch, AddWatchFails,
           StartThreads, Constructed, RemoveWatch, Notify, JoinWatch,
           JoinCallback, CloseDescriptors, Destroy, Watcher, SetRunning,
           TestDestory, ReadFails, Read, Dispatch, Callback, Call, CallReturns,
           CallbackEnds, Change, RemoveDirectory
  <2> QED BY <2>1, FileWatchAssumption DEF TypeOK, Linux, NetBSD
<1>2. ASSUME UNCHANGED pending PROVE PendingOK'
  BY <1>1, <1>2 DEF PendingOK, Linux, NetBSD
<1>3. CASE Owner \/ Destroy
  <2>1. CASE \/ OpenFolder \/ AddWatch \/ AddWatchFails \/ StartThreads
             \/ Constructed \/ Notify \/ JoinWatch \/ JoinCallback
             \/ CloseDescriptors \/ Destroy
    <3>1. UNCHANGED pending
      BY <2>1
      DEF OpenFolder, AddWatch, AddWatchFails, StartThreads, Constructed,
          Notify, JoinWatch, JoinCallback, CloseDescriptors, Destroy
    <3>2. CASE StartThreads
      BY <1>1, <1>2, <3>1, <3>2
      DEF TypeOK, StartThreads, DInv, Alive, descriptors, file
    <3>3. CASE \/ OpenFolder \/ AddWatch \/ AddWatchFails \/ Constructed
               \/ Notify
      BY <1>1, <1>2, <3>1, <3>3
      DEF TypeOK, OpenFolder, AddWatch, AddWatchFails, Constructed, Notify,
          descriptors, callback, file
    <3>4. CASE JoinWatch \/ JoinCallback \/ CloseDescriptors \/ Destroy
      BY <1>1, <1>2, <3>1, <3>4
      DEF TypeOK, JoinWatch, JoinCallback, CloseDescriptors, Destroy,
          descriptors, callback, file
    <3> QED BY <2>1, <3>2, <3>3, <3>4
  <2>2. CASE RemoveWatch
    <3>1. CASE Linux /\ watch = "open"
      <4>1. {"ignored"} \in Events
        BY DEF Events
      <4>2. pending' = Append(pending, {"ignored"}) /\ pending \in Seq(Events)
        BY <2>2, <3>1 DEF RemoveWatch, PendingOK
      <4>3. pending' \in Seq(Events)
        BY <4>1, <4>2
      <4> QED BY <1>1, <2>2, <3>1, <4>3
              DEF RemoveWatch, TypeOK, PendingOK, Linux, NetBSD, callback, file
    <3>2. CASE ~(Linux /\ watch = "open")
      BY <1>1, <1>2, <2>2, <3>2 DEF RemoveWatch, TypeOK, callback, file
    <3> QED BY <3>1, <3>2
  <2> QED BY <1>3, <2>1, <2>2 DEF Owner
<1>4. CASE Watcher
  <2>1. CASE SetRunning \/ TestDestory \/ ReadFails
    BY <1>1, <1>2, <2>1
    DEF SetRunning, TestDestory, ReadFails, TypeOK, descriptors, callback, file
  <2>2. CASE Read
    <3>1. parsed' \in Seq(Reports)
      BY <2>2, ReadTells DEF Tells
    <3>2. pending' = <<>> /\ PendingOK'
      BY <2>2 DEF Read, PendingOK
    <3>3. pending' \in Seq(IF Linux THEN Events ELSE Notes)
      BY <3>2
    <3> QED BY <1>1, <2>2, <3>1, <3>2, <3>3
            DEF Read, TypeOK, descriptors, callback, file
  <2>3. CASE Dispatch
    <3>1. queue' \in Seq(Reports)
      BY <2>3 DEF Dispatch, TypeOK
    <3> QED BY <1>1, <1>2, <2>3, <3>1 DEF Dispatch, TypeOK, descriptors, file
  <2> QED BY <1>4, <2>1, <2>2, <2>3 DEF Watcher
<1>5. CASE Callback
  <2>1. CASE Call
    <3>1. queue' \in Seq(Reports) /\ told' \in Reports \cup {"nothing"}
      <4>1. queue \in Seq(Reports) /\ queue # <<>>
        BY <2>1 DEF Call, TypeOK
      <4> QED BY <2>1, <4>1 DEF Call
    <3>2. /\ caller' = "call" /\ unseen' = FALSE
          /\ UNCHANGED <<platform, folder, watch, owner, running, destory,
                         watcher, pending, parsed, exists, directory, changes>>
      BY <2>1 DEF Call, descriptors, file
    <3>3. PendingOK'
      BY <1>2, <3>2
    <3>4. unseen' \in BOOLEAN /\ caller' \in {"none", "wait", "call", "end"}
      BY <3>2
    <3>5. pending' \in Seq(IF Linux' THEN Events ELSE Notes)
      BY <1>1, <3>2 DEF TypeOK
    <3>6. TypeOK'
      BY <1>1, <3>1, <3>2, <3>4, <3>5 DEF TypeOK
    <3> QED BY <3>3, <3>6
  <2>2. CASE CallReturns \/ CallbackEnds
    BY <1>1, <1>2, <2>2
    DEF CallReturns, CallbackEnds, TypeOK, descriptors, file
  <2> QED BY <1>5, <2>1, <2>2 DEF Callback
<1>6. CASE Change
  <2>1. /\ changes' \in Nat /\ exists' \in BOOLEAN /\ unseen' \in BOOLEAN
        /\ UNCHANGED <<platform, folder, watch, owner, running, destory,
                       watcher, parsed, queue, caller, told, directory>>
    BY <1>6, ChangeTypes
  <2>2. /\ PendingOK'
        /\ pending' \in Seq(IF Linux THEN Events ELSE Notes)
    <3>1. CASE Linux
      <4>1. PICK e \in {"create", "delete", "modify", "other"} :
                pending' = Append(pending, {e})
        BY <1>6, <3>1 DEF Change, Linux, NetBSD
      <4>2. {e} \in Events
        BY DEF Events
      <4>3. pending' \in Seq(Events)
        BY <3>1, <4>1, <4>2 DEF PendingOK
      <4> QED BY <1>1, <3>1, <4>3 DEF PendingOK, Linux, NetBSD
    <3>2. CASE ~Linux
      <4>1. NetBSD
        BY <1>1, <3>2 DEF Linux, NetBSD
      <4>2. CASE UNCHANGED pending
        BY <1>1, <1>2, <3>2, <4>2 DEF TypeOK
      <4>3. ASSUME NEW notes \in Notes \ {{}}, KernelNotes(notes)
            PROVE  PendingOK' /\ pending' \in Seq(Notes)
        BY <1>1, <3>2, <4>1, <4>3, NotedTypes
      <4>4. UNCHANGED pending \/ \E notes \in Notes \ {{}} : KernelNotes(notes)
        BY <1>6, <3>2 DEF Change, Notes
      <4> QED BY <3>2, <4>2, <4>3, <4>4
    <3> QED BY <3>1, <3>2
  <2> QED BY <1>1, <2>1, <2>2 DEF TypeOK
<1>8. CASE RemoveDirectory
  <2>0. /\ directory' = FALSE /\ watch' \in {"none", "open", "closed"}
        /\ UNCHANGED <<platform, folder, owner, running, destory, watcher,
                       parsed, queue, caller, told, exists, changes, unseen>>
    BY <1>8 DEF RemoveDirectory, TypeOK, callback
  <2>1. ASSUME pending' \in Seq(IF Linux' THEN Events ELSE Notes)
        PROVE  TypeOK'
    <3>1. directory' \in BOOLEAN
      BY <2>0
    <3>2. /\ exists' \in BOOLEAN /\ unseen' \in BOOLEAN /\ running' \in BOOLEAN
          /\ destory' \in BOOLEAN
      BY <2>0 DEF TypeOK
    <3> QED BY <2>0, <2>1, <3>1, <3>2 DEF TypeOK
  <2>2. CASE Linux
    <3>1. {"ignored"} \in Events
      BY DEF Events
    <3>2. pending' = Append(pending, {"ignored"}) /\ pending \in Seq(Events)
      BY <1>8, <2>2 DEF RemoveDirectory, PendingOK
    <3>3. pending' \in Seq(Events)
      BY <3>1, <3>2
    <3>4. pending' \in Seq(IF Linux' THEN Events ELSE Notes) /\ PendingOK'
      BY <1>1, <2>2, <3>3 DEF PendingOK, Linux, NetBSD
    <3> QED BY <2>1, <3>4
  <2>3. CASE ~Linux
    <3>1. NetBSD /\ KernelNotes({"delete"}) /\ {"delete"} \in Notes \ {{}}
      BY <1>1, <1>8, <2>3 DEF RemoveDirectory, Linux, NetBSD, Notes
    <3>2. PendingOK' /\ pending' \in Seq(Notes)
      BY <1>1, <2>3, <3>1, NotedTypes
    <3>3. pending' \in Seq(IF Linux' THEN Events ELSE Notes)
      BY <1>1, <2>3, <3>2
    <3> QED BY <2>1, <3>2, <3>3
  <2> QED BY <2>2, <2>3
<1>7. CASE UNCHANGED vars
  BY <1>1, <1>2, <1>7 DEF vars, TypeOK
<1> QED BY <1>3, <1>4, <1>5, <1>6, <1>7, <1>8 DEF Next

\* Whatever a batch holds, what is made of it is a sequence of reports, and
\* the threads hand on nothing else.
THEOREM TypeCorrect == Spec => []TypeOK
<1> DEFINE IInv == DInv /\ TypeOK /\ PendingOK
<1>1. Init => IInv
  BY InitDInv, TypeInit
<1>2. IInv /\ [Next]_vars => IInv'
  BY NextDInv, TypeStep
<1>3. IInv => TypeOK
  OBVIOUS
<1> QED BY <1>1, <1>2, <1>3, PTL DEF Spec

-----------------------------------------------------------------------------
(* A change that is not reported yet is among the events of the kernel, in  *)
(* what the watch thread makes of them or in the queue; and the last thing  *)
(* that any of these say, or have said, is whether what they are about, the *)
(* file or on NetBSD its directory, is there.                               *)

LastTold == IF parsed # <<>> THEN parsed[Len(parsed)]
            ELSE IF queue # <<>> THEN queue[Len(queue)] ELSE told

ReportInv ==
    /\ unseen => News(pending) \/ parsed # <<>> \/ queue # <<>>
    /\ There => \/ EndsThere(pending)
                \/ NoRemoval(pending) /\ LastTold # "removed"
    /\ ~There => \/ EndsGone(pending)
                 \/ ~News(pending) /\ LastTold = "removed"

LEMMA ReportInit == Init => ReportInv
BY NoEvents DEF Init, ReportInv, LastTold, There

\* More of the same after reports.
LEMMA JoinReports ==
    ASSUME NEW q \in Seq(Reports), NEW r \in Seq(Reports)
    PROVE  /\ q \o r = <<>> <=> q = <<>> /\ r = <<>>
           /\ r # <<>> => (q \o r)[Len(q \o r)] = r[Len(r)]
           /\ r = <<>> => q \o r = q
OBVIOUS

LEMMA TailReports ==
    ASSUME NEW q \in Seq(Reports), q # <<>>
    PROVE  /\ Tail(q) # <<>> => Tail(q)[Len(Tail(q))] = q[Len(q)]
           /\ Tail(q) = <<>> => Head(q) = q[Len(q)]
<1>1. /\ Len(q) \in Nat \ {0} /\ Len(Tail(q)) = Len(q) - 1
      /\ \A i \in 1..(Len(q) - 1) : Tail(q)[i] = q[i + 1]
      /\ Head(q) = q[1]
  BY EmptySeq, HeadTailProperties
<1>2. Tail(q) \in Seq(Reports)
  BY HeadTailProperties
<1>3. ASSUME Tail(q) # <<>>
      PROVE  Tail(q)[Len(Tail(q))] = q[Len(q)]
  <2>1. Len(Tail(q)) \in Nat \ {0}
    BY <1>2, <1>3, EmptySeq
  <2> QED BY <1>1, <2>1
<1>4. ASSUME Tail(q) = <<>>
      PROVE  Head(q) = q[Len(q)]
  <2>1. Len(q) = 1
    BY <1>1, <1>4
  <2> QED BY <1>1, <2>1
<1> QED BY <1>3, <1>4

LEMMA ReadReports ==
    ASSUME TypeOK, PendingOK, ReportInv, Read
    PROVE  ReportInv'
<1>1. /\ pending' = <<>> /\ parsed = <<>>
      /\ UNCHANGED <<queue, told, unseen>> /\ There' = There
  BY DEF Read, TypeOK, callback, file, There, Linux
<1>2. Tells(pending, parsed')
  BY ReadTells
<1>3. ~News(pending') /\ NoRemoval(pending')
  BY <1>1, NoEvents
<1>4. parsed' # <<>> => LastTold' = parsed'[Len(parsed')]
  BY DEF LastTold
<1>5. parsed' = <<>> => LastTold' = LastTold
  BY <1>1 DEF LastTold
<1>6. (unseen => News(pending) \/ parsed # <<>> \/ queue # <<>>)'
  BY <1>1, <1>2 DEF ReportInv, Tells
<1>7. There' => LastTold' # "removed"
  BY <1>1, <1>2, <1>4, <1>5 DEF ReportInv, Tells, SaysGone
<1>8. ~There' => LastTold' = "removed"
  BY <1>1, <1>2, <1>4, <1>5 DEF ReportInv, Tells, SaysGone
<1> QED BY <1>3, <1>6, <1>7, <1>8 DEF ReportInv

LEMMA DispatchReports ==
    ASSUME TypeOK, ReportInv, Dispatch
    PROVE  ReportInv'
<1>1. /\ queue' = queue \o parsed /\ parsed' = <<>>
      /\ UNCHANGED <<pending, told, unseen>> /\ There' = There
  BY DEF Dispatch, file, There, Linux
<1>2. queue \in Seq(Reports) /\ parsed \in Seq(Reports)
  BY DEF TypeOK
<1>3. queue' = <<>> <=> queue = <<>> /\ parsed = <<>>
  BY <1>1, <1>2, JoinReports
<1>4. LastTold' = LastTold
  BY <1>1, <1>2, <1>3, JoinReports DEF LastTold
<1> QED BY <1>1, <1>3, <1>4 DEF ReportInv

LEMMA CallReports ==
    ASSUME TypeOK, ReportInv, Call
    PROVE  ReportInv'
<1>1. /\ queue # <<>> /\ told' = Head(queue) /\ queue' = Tail(queue)
      /\ unseen' = FALSE
      /\ UNCHANGED <<pending, parsed>> /\ There' = There
  BY DEF Call, file, There, Linux
<1>2. queue \in Seq(Reports)
  BY DEF TypeOK
<1>3. LastTold' = LastTold
  BY <1>1, <1>2, TailReports DEF LastTold
<1> QED BY <1>1, <1>3 DEF ReportInv

\* No kqueue notes a creation as such.
LEMMA NeverCreated ==
    ASSUME PendingOK, NetBSD
    PROVE  ~EndsThere(pending)
<1>1. CASE pending = <<>>
  BY <1>1, NoEvents
<1>2. CASE pending # <<>>
  <2>1. PICK before \in Notes \ {{}} : pending = <<before>>
    BY <1>2 DEF PendingOK
  <2> QED BY <2>1 DEF EndsThere, Notes
<1> QED BY <1>1, <1>2

\* The last event of an inotify watch says nothing of the file.
LEMMA IgnoredReports ==
    ASSUME ReportInv, pending \in Seq(Events),
           pending' = Append(pending, {"ignored"}),
           UNCHANGED <<parsed, queue, told, unseen>>, There' = There
    PROVE  ReportInv'
<1>1. {"ignored"} \in Events
  BY DEF Events
<1>2. /\ pending' \in Seq(Events) /\ Len(pending') = Len(pending) + 1
      /\ pending'[Len(pending')] = {"ignored"}
      /\ \A i \in 1..Len(pending) : pending'[i] = pending[i]
  BY <1>1
<1>3. Silent({"ignored"}) /\ "delete" \notin {"ignored"}
      /\ {"ignored"} # {"create"}
  BY DEF Silent
<1>4. /\ News(pending') <=> News(pending)
      /\ EndsGone(pending') <=> EndsGone(pending)
      /\ EndsThere(pending') <=> EndsThere(pending)
      /\ NoRemoval(pending') <=> NoRemoval(pending)
  BY <1>2, <1>3, OneMore
<1> QED BY <1>4 DEF ReportInv, LastTold

LEMMA ChangeReports ==
    ASSUME TypeOK, PendingOK, ReportInv, Change
    PROVE  ReportInv'
<1>1. /\ UNCHANGED <<parsed, queue, told, directory>> /\ LastTold' = LastTold
      /\ Linux' = Linux
  BY ChangeTypes DEF LastTold, Linux
<1>2. CASE Linux
  <2>1. PICK e \in {"create", "delete", "modify", "other"} :
            /\ pending' = Append(pending, {e})
            /\ e = "create" => ~exists
            /\ e \in {"delete", "modify"} => exists
            /\ exists' = (e = "create" \/ (exists /\ e # "delete"))
            /\ unseen' = (unseen \/ e = "create" \/ e = "delete"
                                 \/ (Linux /\ e = "modify"))
    BY <1>2 DEF Change, Linux, NetBSD
  <2>2. pending \in Seq(Events) /\ {e} \in Events
    BY <1>2 DEF PendingOK, Events
  <2>3. /\ pending' \in Seq(Events) /\ Len(pending') = Len(pending) + 1
        /\ pending'[Len(pending')] = {e}
        /\ \A i \in 1..Len(pending) : pending'[i] = pending[i]
    BY <2>1, <2>2
  <2>4. /\ News(pending') <=> News(pending) \/ ~Silent({e})
        /\ EndsGone(pending') <=>
               "delete" \in {e} \/ (EndsGone(pending) /\ Silent({e}))
        /\ EndsThere(pending') <=>
               {e} = {"create"} \/ (EndsThere(pending) /\ "delete" \notin {e})
        /\ NoRemoval(pending') <=> NoRemoval(pending) /\ "delete" \notin {e}
    BY <2>2, <2>3, OneMore
  <2>5. /\ "delete" \in {e} <=> e = "delete"
        /\ {e} = {"create"} <=> e = "create"
        /\ Silent({e}) <=> e = "other"
    BY <2>1 DEF Silent
  <2>6. unseen' => unseen \/ e # "other"
    BY <2>1, Zenon
  <2>7. (unseen => News(pending) \/ parsed # <<>> \/ queue # <<>>)'
    BY <1>1, <2>4, <2>5, <2>6 DEF ReportInv
  <2>8. There = exists /\ There' = exists'
    BY <1>1, <1>2 DEF There
  <2>9. CASE e = "create"
    <3>1. exists'
      BY <2>1, <2>9, Zenon
    <3> QED BY <2>4, <2>5, <2>7, <2>8, <2>9, <3>1 DEF ReportInv
  <2>10. CASE e = "delete"
    <3>1. ~exists'
      BY <2>1, <2>10, Zenon
    <3> QED BY <2>4, <2>5, <2>7, <2>8, <2>10, <3>1 DEF ReportInv
  <2>11. CASE e = "modify" \/ e = "other"
    <3>1. e # "create" /\ e # "delete"
      BY <2>11
    <3>2. exists' <=> exists
      BY <2>1, <3>1, Zenon
    <3> QED BY <1>1, <2>1, <2>4, <2>5, <2>7, <2>8, <2>11, <3>2 DEF ReportInv
  <2> QED BY <2>9, <2>10, <2>11
<1>3. CASE ~Linux
  <2>1. /\ directory /\ There /\ There' /\ NetBSD
    BY <1>1, <1>3 DEF Change, Watched, There
  \* What raises no note is no change the system tells of.
  <2>2. CASE UNCHANGED pending /\ (unseen' => unseen)
    BY <1>1, <2>1, <2>2 DEF ReportInv, News, EndsThere, NoRemoval
  <2>3. ASSUME NEW notes \in {{"write"}, {"write", "extend"}}, KernelNotes(notes)
        PROVE  ReportInv'
    <3>1. notes \in Notes \ {{}} /\ "delete" \notin notes
      BY DEF Notes
    <3>2. PICK merged \in Notes \ {{}} :
              /\ pending' = <<merged>>
              /\ NoRemoval(pending) => "delete" \notin merged
      BY <2>1, <2>3, <3>1, ChangeNotes
    <3>3. /\ DOMAIN pending' = {1} /\ pending'[1] = merged
          /\ merged \in SUBSET {"delete", "write", "extend"} /\ merged # {}
      BY <3>2 DEF Notes
    <3>4. News(pending') /\ ("delete" \notin merged => NoRemoval(pending'))
      BY <3>3 DEF News, Silent, NoRemoval
    <3>5. ~EndsThere(pending)
      BY <2>1, NeverCreated
    <3> QED BY <1>1, <2>1, <3>2, <3>4, <3>5 DEF ReportInv
  <2>4. \/ UNCHANGED pending /\ (unseen' => unseen)
        \/ \E notes \in {{"write"}, {"write", "extend"}} : KernelNotes(notes)
    <3>1. PICK e \in {"create", "delete", "modify", "other"} :
              /\ \/ e # "modify" /\ \E notes \in {{"write"}, {"write", "extend"}} :
                                          KernelNotes(notes)
                 \/ e = "modify" /\ UNCHANGED pending
              /\ unseen' = (unseen \/ e = "create" \/ e = "delete"
                                   \/ (Linux /\ e = "modify"))
      BY <1>3 DEF Change
    <3>2. CASE e = "modify"
      <4>1. e # "create" /\ e # "delete"
        BY <3>2
      <4>2. unseen' => unseen
        BY <1>3, <3>1, <4>1, Zenon
      <4> QED BY <3>1, <3>2, <4>2
    <3> QED BY <3>1, <3>2
  <2> QED BY <2>2, <2>3, <2>4
<1> QED BY <1>2, <1>3

\* The removal of the directory is the last that a kqueue notes, and nothing
\* that inotify says of the file.
LEMMA DirectoryReports ==
    ASSUME TypeOK, PendingOK, ReportInv, RemoveDirectory
    PROVE  ReportInv'
<1>1. /\ UNCHANGED <<parsed, queue, told, exists, unseen>>
      /\ LastTold' = LastTold /\ Linux' = Linux /\ directory' = FALSE
  BY DEF RemoveDirectory, callback, LastTold, Linux
<1>2. CASE Linux
  <2>1. pending' = Append(pending, {"ignored"}) /\ pending \in Seq(Events)
    BY <1>2 DEF RemoveDirectory, PendingOK
  <2>2. There' = There
    BY <1>1, <1>2 DEF There
  <2> QED BY <1>1, <2>1, <2>2, IgnoredReports
<1>3. CASE ~Linux
  <2>1. NetBSD /\ KernelNotes({"delete"}) /\ {"delete"} \in Notes \ {{}}
    BY <1>3, FileWatchAssumption
    DEF RemoveDirectory, TypeOK, Linux, NetBSD, Notes
  <2>2. PICK merged \in Notes \ {{}} :
            pending' = <<merged>> /\ {"delete"} \subseteq merged
    BY <2>1, ChangeNotes
  <2>3. /\ DOMAIN pending' = {1} /\ pending'[1] = merged /\ "delete" \in merged
        /\ merged \in SUBSET {"delete", "write", "extend"}
    BY <2>2 DEF Notes
  <2>4. News(pending') /\ EndsGone(pending')
    BY <2>3 DEF News, EndsGone, Silent
  <2>5. ~There'
    BY <1>1, <1>3 DEF There
  <2> QED BY <2>4, <2>5 DEF ReportInv
<1> QED BY <1>2, <1>3

LEMMA ReportStep ==
    ASSUME TypeOK, PendingOK, ReportInv, [Next]_vars
    PROVE  ReportInv'
<1>1. ASSUME UNCHANGED <<platform, pending, parsed, queue, told, file, unseen>>
      PROVE  ReportInv'
  BY <1>1 DEF ReportInv, LastTold, News, EndsThere, EndsGone, NoRemoval, There,
              Linux, file
<1>2. CASE RemoveWatch /\ Linux /\ watch = "open"
  <2>1. /\ pending' = Append(pending, {"ignored"})
        /\ UNCHANGED <<parsed, queue, told, unseen>> /\ There' = There
    BY <1>2 DEF RemoveWatch, callback, file, There, Linux
  <2>2. pending \in Seq(Events)
    BY <1>2 DEF PendingOK
  <2> QED BY <2>1, <2>2, IgnoredReports
<1>3. CASE RemoveWatch /\ ~(Linux /\ watch = "open")
  BY <1>1, <1>3 DEF RemoveWatch, callback, file
<1>4. CASE \/ OpenFolder \/ AddWatch \/ AddWatchFails \/ StartThreads
           \/ Constructed \/ Notify \/ JoinWatch \/ JoinCallback
           \/ CloseDescriptors \/ Destroy
  BY <1>1, <1>4
  DEF OpenFolder, AddWatch, AddWatchFails, StartThreads, Constructed, Notify,
      JoinWatch, JoinCallback, CloseDescriptors, Destroy, callback, file
<1>5. CASE SetRunning \/ TestDestory \/ ReadFails \/ CallReturns \/ CallbackEnds
  BY <1>1, <1>5
  DEF SetRunning, TestDestory, ReadFails, CallReturns, CallbackEnds, callback,
      file
<1>6. CASE UNCHANGED vars
  BY <1>1, <1>6 DEF vars, file
<1> QED BY <1>2, <1>3, <1>4, <1>5, <1>6, ReadReports, DispatchReports,
           CallReports, ChangeReports, DirectoryReports
        DEF Next, Owner, Watcher, Callback

\* A change of which no callback knows is on its way to one, if it is one that
\* the system tells of, and however its events are merged or dropped.
THEOREM ChangeKept == Spec => []NoChangeLost
<1> DEFINE IInv == DInv /\ TypeOK /\ PendingOK /\ ReportInv
<1>1. Init => IInv
  BY InitDInv, TypeInit, ReportInit
<1>2. IInv /\ [Next]_vars => IInv'
  BY NextDInv, TypeStep, ReportStep
<1>3. IInv => NoChangeLost
  BY DEF ReportInv, NoChangeLost, OnItsWay, News, Silent
<1> QED BY <1>1, <1>2, <1>3, PTL DEF Spec

\* The last callback told whether the file is there on Linux, and on NetBSD
\* whether its directory is.
THEOREM LastReportCorrect == Spec => []LastReportTrue
<1> DEFINE IInv == DInv /\ TypeOK /\ PendingOK /\ ReportInv
<1>1. Init => IInv
  BY InitDInv, TypeInit, ReportInit
<1>2. IInv /\ [Next]_vars => IInv'
  BY NextDInv, TypeStep, ReportStep
<1>3. ASSUME IInv, ~OnItsWay
      PROVE  told = "removed" <=> ~There
  <2>1. ~News(pending) /\ parsed = <<>> /\ queue = <<>>
    BY <1>3 DEF OnItsWay, News, Silent
  <2>2. ~EndsThere(pending) /\ ~EndsGone(pending)
    <3>1. /\ ~Silent({"create"})
          /\ \A i \in DOMAIN pending : "delete" \in pending[i] =>
                                           ~Silent(pending[i])
      <4>1. CASE Linux
        BY <1>3, <4>1 DEF PendingOK, Events, Silent
      <4>2. CASE ~Linux
        BY <1>3, <4>2, FileWatchAssumption
        DEF PendingOK, Notes, Silent, TypeOK, Linux, NetBSD
      <4> QED BY <4>1, <4>2
    <3> QED BY <2>1, <3>1 DEF News, EndsThere, EndsGone
  <2>3. LastTold = told
    BY <2>1 DEF LastTold
  <2> QED BY <1>3, <2>1, <2>2, <2>3 DEF ReportInv
<1>4. IInv => LastReportTrue
  BY <1>3 DEF LastReportTrue
<1> QED BY <1>1, <1>2, <1>4, PTL DEF Spec
=============================================================================
